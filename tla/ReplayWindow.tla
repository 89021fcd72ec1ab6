---------------------------- MODULE ReplayWindow ----------------------------
(***************************************************************************)
(* core/session/replay_window.{hpp,cpp}: the sliding-window replay filter  *)
(* for inbound packet counters.  A window is a record: "last" is last_,    *)
(* the highest counter accepted so far, and "bitmap" is the set of the     *)
(* positions of bitmap_ that are 1 (position p stands for counter          *)
(* last - p).  All operators are pure; Session.tla and Vpn.tla keep the    *)
(* windows in their variables.                                             *)
(***************************************************************************)
EXTENDS Naturals

CONSTANTS
    kWindowSize,            \* bits in bitmap_ (2048 in the code)
    U64,                    \* 2^64, the modulus of std::uint64_t
    kRejectAfterMessages    \* counters from here on are refused by Open/Seal

\* kRejectAfterMessages is 2^64 - 1 - 2^13 and kWindowSize is 2048: the
\* margin below the modulus is wider than the window.
ASSUME WindowAssumption ==
    /\ kWindowSize \in Nat \ {0}
    /\ U64 \in Nat
    /\ kRejectAfterMessages \in Nat \ {0}
    /\ kRejectAfterMessages + kWindowSize <= U64

\* The counters that Session::Open lets through to the window.
Counter == 0 .. (kRejectAfterMessages - 1)

Window == [last : Counter, bitmap : SUBSET (0 .. (kWindowSize - 1))]

\* A default-constructed ReplayWindow.
EmptyWindow == [last |-> 0, bitmap |-> {}]

\* counter + kWindowSize in unsigned 64-bit arithmetic.
WindowEnd(counter) == (counter + kWindowSize) % U64

\* ReplayWindow::Check
Check(w, counter) ==
    \/ counter > w.last
    \/ /\ WindowEnd(counter) > w.last
       /\ (w.last - counter) \notin w.bitmap

\* bitmap_ <<= n drops the bits shifted past the end.
ShiftLeft(bitmap, n) ==
    {p \in 0 .. (kWindowSize - 1) : p >= n /\ (p - n) \in bitmap}

\* ReplayWindow::Accept, called only on counters that passed Check.
Accept(w, counter) ==
    IF counter > w.last
    THEN [last   |-> counter,
          bitmap |-> ShiftLeft(w.bitmap, counter - w.last) \cup {0}]
    ELSE [w EXCEPT !.bitmap = @ \cup {w.last - counter}]
=============================================================================
