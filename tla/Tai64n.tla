------------------------------- MODULE Tai64n -------------------------------
(***************************************************************************)
(* core/utils/tai64n.{hpp,cpp}: the timestamps of initiations.  A process  *)
(* has one generator, which remembers the last stamp it gave.  The clock   *)
(* it reads can be set back and can read the same twice.                   *)
(***************************************************************************)
EXTENDS Naturals

CONSTANT kNanos     \* nanoseconds in a second

ASSUME NanosAssumption == kNanos \in Nat \ {0}

\* Tai64nStamp; the label added to the seconds is left out.
Stamp == [secs : Nat, nanos : 0 .. (kNanos - 1)]
ZeroStamp == [secs |-> 0, nanos |-> 0]

\* The stamp of clock reading t.
StampOf(t) == [secs |-> t \div kNanos, nanos |-> t % kNanos]

\* The bytes are big-endian, so their order is that of the pairs.
Precedes(a, b) ==
    \/ a.secs < b.secs
    \/ a.secs = b.secs /\ a.nanos < b.nanos

\* Tai64nStamp::operator++ with its carry into the seconds.
Increment(s) ==
    IF s.nanos < kNanos - 1
    THEN [s EXCEPT !.nanos = @ + 1]
    ELSE [secs |-> s.secs + 1, nanos |-> 0]

\* A slip in Now: the clock is trusted.
NowUnguarded(last, t) == StampOf(t)

\* Tai64n::Now at clock reading t, after the stamp last.
Now(last, t) == IF Precedes(last, StampOf(t)) THEN StampOf(t) ELSE Increment(last)
=============================================================================
