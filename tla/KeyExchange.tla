---------------------------- MODULE KeyExchange -----------------------------
(***************************************************************************)
(* What the handshake promises: an initiator makes offers, the responder   *)
(* answers offers that were made, and an initiator agrees on an offer only *)
(* if it is its pending one and was answered, and only once.               *)
(***************************************************************************)
EXTENDS Naturals

CONSTANT Initiator

VARIABLES
    offers,     \* the offers made, numbered
    answered,   \* the offers the responder answered
    agreed,     \* the offers an initiator completed
    pending     \* per initiator: the offer it waits for, or 0

vars == <<offers, answered, agreed, pending>>

Init ==
    /\ offers = {} /\ answered = {} /\ agreed = {}
    /\ pending = [p \in Initiator |-> 0]

\* A new offer replaces the pending one.
Offer(p) ==
    /\ pending'[p] \notin offers
    /\ offers' = offers \cup {pending'[p]}
    /\ pending' = [pending EXCEPT ![p] = pending'[p]]
    /\ UNCHANGED <<answered, agreed>>

Answer(o) ==
    /\ o \in offers \ answered
    /\ answered' = answered \cup {o}
    /\ UNCHANGED <<offers, agreed, pending>>

Agree(p) ==
    /\ pending[p] \in answered \ agreed
    /\ agreed' = agreed \cup {pending[p]}
    /\ pending' = [pending EXCEPT ![p] = 0]
    /\ UNCHANGED <<offers, answered>>

Next ==
    \/ \E p \in Initiator : Offer(p) \/ Agree(p)
    \/ \E o \in offers : Answer(o)

Spec == Init /\ [][Next]_vars
=============================================================================
