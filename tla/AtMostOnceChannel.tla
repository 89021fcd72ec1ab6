------------------------- MODULE AtMostOnceChannel --------------------------
(***************************************************************************)
(* What one direction of a session promises to the layer above it: packets *)
(* may be lost and reordered, and every packet that comes out was put in   *)
(* and comes out at most once.                                             *)
(***************************************************************************)
EXTENDS Naturals, Sequences

CONSTANT Packet     \* what can be sent

VARIABLES
    sent,   \* the packets handed to the channel
    log     \* the packets it handed out, in order

vars == <<sent, log>>

HandedOut(p) == \E i \in 1 .. Len(log) : log[i] = p

Init == sent = {} /\ log = <<>>

Send ==
    \E p \in Packet \ sent :
        /\ sent' = sent \cup {p}
        /\ log' = log

Deliver ==
    \E p \in sent :
        /\ ~HandedOut(p)
        /\ log' = Append(log, p)
        /\ sent' = sent

Next == Send \/ Deliver

Spec == Init /\ [][Next]_vars
=============================================================================
