------------------------------ MODULE Session -------------------------------
(***************************************************************************)
(* core/session/session.{hpp,cpp}: one direction of a session.  One end    *)
(* seals packets under its send key with the counter send_nonce, the       *)
(* network loses, duplicates, reorders and corrupts them, and the other    *)
(* end opens them through its replay window.  The two ends hold the same   *)
(* key (Handshake.tla), so a packet authenticates exactly when it is one   *)
(* the sender sealed.                                                      *)
(***************************************************************************)
EXTENDS ReplayWindow, Sequences

CONSTANT MaxSeals    \* bound on the calls of Seal

\* The number of Seal calls a session sees stays below 2^64: Seal
\* increments send_nonce even when it refuses the packet.
ASSUME SealsAssumption == MaxSeals \in Nat /\ MaxSeals <= U64

VARIABLES
    send_nonce,     \* sender: Session::send_nonce
    seals,          \* number of Seal calls; names the plaintext of each call
    wire,           \* every transport packet sent; never removed from
    window,         \* receiver: Session::replay_window
    log,            \* packets whose plaintext Open returned, in order
    verdict         \* what the last Open returned

vars == <<send_nonce, seals, wire, window, log, verdict>>

Verdicts == {"none", "limit", "replay", "auth", "opened"}

Packet == [counter : Counter, plaintext : 0 .. (MaxSeals - 1)]

Init ==
    /\ send_nonce = 0
    /\ seals = 0
    /\ wire = {}
    /\ window = EmptyWindow
    /\ log = <<>>
    /\ verdict = "none"

\* The counter the callers of Seal put in the header: they re-read
\* send_nonce after Seal and subtract one.
HeaderCounter(nonce) == (nonce + U64 - 1) % U64

\* A slip in Seal: the refused packet is sent all the same.
SealIgnoringLimit ==
    /\ seals < MaxSeals
    /\ seals' = seals + 1
    /\ send_nonce' = (send_nonce + 1) % U64
    /\ wire' = wire \cup {[counter   |-> HeaderCounter(send_nonce'),
                           plaintext |-> seals]}
    /\ UNCHANGED <<window, log, verdict>>

\* A slip in Seal: the counter starts again at the limit.
SealRestarting ==
    /\ seals < MaxSeals
    /\ seals' = seals + 1
    /\ send_nonce' = (send_nonce + 1) % kRejectAfterMessages
    /\ wire' = wire \cup {[counter |-> send_nonce, plaintext |-> seals]}
    /\ UNCHANGED <<window, log, verdict>>

\* Session::Seal and the header its callers build around it: fetch_add comes
\* first, the limit is tested on the value before it.
Seal ==
    /\ seals < MaxSeals
    /\ seals' = seals + 1
    /\ send_nonce' = (send_nonce + 1) % U64
    /\ wire' = IF send_nonce >= kRejectAfterMessages
               THEN wire
               ELSE wire \cup {[counter   |-> HeaderCounter(send_nonce'),
                                plaintext |-> seals]}
    /\ UNCHANGED <<window, log, verdict>>

\* A slip in Open: a replay is noticed, and the packet returned all the same.
OpenReplayAnyway(m) ==
    /\ UNCHANGED <<send_nonce, seals, wire>>
    /\ verdict' = IF Check(window, m.counter) THEN "opened" ELSE "replay"
    /\ window' = IF Check(window, m.counter) THEN Accept(window, m.counter) ELSE window
    /\ log' = Append(log, m)

\* Session::Open of an authentic packet m, whose counter is one that Seal
\* used and so passes the test of the limit.  The order of the tests is the
\* code's; only the last branch changes the session.
Open(m) ==
    /\ UNCHANGED <<send_nonce, seals, wire>>
    /\ \/ /\ ~Check(window, m.counter)
          /\ verdict' = "replay"
          /\ UNCHANGED <<window, log>>
       \/ /\ Check(window, m.counter)
          /\ verdict' = "opened"
          /\ window' = Accept(window, m.counter)
          /\ log' = Append(log, m)

\* A slip in Open: the counter is marked as seen before the tag is verified.
OpenDamagedMarking(counter) ==
    /\ counter < kRejectAfterMessages
    /\ Check(window, counter)
    /\ window' = Accept(window, counter)
    /\ verdict' = "auth"
    /\ UNCHANGED <<send_nonce, seals, wire, log>>

\* Session::Open of a packet that was damaged on the way: any header counter,
\* and a tag that does not verify.  The window is consulted, never changed.
OpenDamaged(counter) ==
    /\ verdict' = CASE counter >= kRejectAfterMessages -> "limit"
                    [] counter < kRejectAfterMessages /\ ~Check(window, counter) -> "replay"
                    [] OTHER -> "auth"
    /\ UNCHANGED <<send_nonce, seals, wire, window, log>>

Next ==
    \/ Seal
    \/ \E m \in wire : Open(m)
    \/ \E counter \in 0 .. (U64 - 1) : OpenDamaged(counter)

Spec == Init /\ [][Next]_vars
-----------------------------------------------------------------------------
\* Counters of the packets opened so far.
Opened == {log[i].counter : i \in 1 .. Len(log)}

\* Type correctness of both ends and of the packets in flight.
TypeOK ==
    /\ send_nonce \in 0 .. (U64 - 1)
    /\ seals \in 0 .. MaxSeals
    /\ wire \subseteq Packet
    /\ window \in Window
    /\ log \in Seq(wire)
    /\ verdict \in Verdicts

\* No nonce is used for two plaintexts: two packets sealed under the key
\* with the same counter are the same packet (session.hpp: send_nonce "must
\* never wrap"), whatever the calls Seal refuses at the limit.
NonceUnique == \A m, n \in wire : m.counter = n.counter => m = n

\* The bitmap is an exact memory of the last kWindowSize counters: Check
\* refuses a counter if and only if it was opened before or has fallen out
\* of the window.  A damaged packet leaves no trace in it, and the unsigned
\* sum counter + kWindowSize never wraps for a counter Open lets through.
CheckIsExact ==
    \A counter \in Counter :
        Check(window, counter) <=> /\ counter \notin Opened
                                   /\ counter + kWindowSize > window.last

\* The session as the at-most-once channel it promises to be.
Channel == INSTANCE AtMostOnceChannel WITH sent <- wire

\* Seal/Open implement the channel: nothing comes out that was not sealed,
\* and nothing comes out twice, however packets are repeated or reordered.
ImplementsChannel == Channel!Spec
=============================================================================
