------------------------------ MODULE EventSet ------------------------------
(***************************************************************************)
(* What EventPoller promises on every platform (event_poller.hpp): a set   *)
(* of handles with the conditions the caller is interested in, and a Poll  *)
(* that reports each handle at most once, with conditions that hold.       *)
(***************************************************************************)
EXTENDS Naturals, Sequences, FiniteSets

CONSTANTS Handles, Masks, Rooms

VARIABLES
    open,       \* is the poller open?
    live,       \* the handles that are open themselves
    interest,   \* what is asked for, of the handles that are registered
    last        \* the last call and what it returned

absVars == <<open, live, interest, last>>

Conditions == {"Readable", "Writable", "Error", "Hangup"}

\* Errors and hangups are reported without being asked for.
Asked(h) == interest[h] \cup {"Error", "Hangup"}

\* Reading or writing a handle that has hung up does not block.
Ready == {ready \in [Handles -> SUBSET Conditions] :
            \A h \in Handles : "Hangup" \in ready[h] => {"Readable", "Writable"} \subseteq ready[h]}

Registered == DOMAIN interest
With(h, mask) == [g \in Registered \cup {h} |-> IF g = h THEN mask ELSE interest[g]]
Without(h) == [g \in Registered \ {h} |-> interest[g]]

Returned(op, ok) == [op |-> op, ok |-> ok]
Answered(op, h, mask, ok) == [op |-> op, handle |-> h, mask |-> mask, ok |-> ok]

Init ==
    /\ open = FALSE
    /\ live = {}
    /\ interest = <<>>
    /\ last = Returned("none", TRUE)

OpenHandle(h) ==
    /\ h \notin live
    /\ live' = live \cup {h}
    /\ last' = Returned("none", TRUE)
    /\ UNCHANGED <<open, interest>>

\* A handle that is closed may or may not be forgotten.
CloseHandle(h) ==
    /\ live' = live \ {h}
    /\ interest' \in {interest, Without(h)}
    /\ last' = Returned("none", TRUE)
    /\ UNCHANGED open

Open ==
    /\ open' = TRUE
    /\ last' = Returned("Open", ~open)
    /\ UNCHANGED <<live, interest>>

Close ==
    /\ open' = FALSE
    /\ interest' = <<>>
    /\ last' = Returned("Close", TRUE)
    /\ UNCHANGED live

Refuse(answer) ==
    /\ last' = answer
    /\ UNCHANGED <<open, live, interest>>

\* Adding a handle again is refused or adds to what is asked for.
Add(h, mask) ==
    \/ /\ open
       /\ interest' = With(h, mask \cup (IF h \in Registered THEN interest[h] ELSE {}))
       /\ last' = Answered("Add", h, mask, TRUE)
       /\ UNCHANGED <<open, live>>
    \/ (~open \/ h \in Registered) /\ Refuse(Answered("Add", h, mask, FALSE))

\* Modifying a handle that is not registered is refused or registers it.
Modify(h, mask) ==
    \/ /\ open
       /\ interest' = With(h, mask)
       /\ last' = Answered("Modify", h, mask, TRUE)
       /\ UNCHANGED <<open, live>>
    \/ (~open \/ h \notin Registered) /\ Refuse(Answered("Modify", h, mask, FALSE))

Remove(h) ==
    \/ /\ open
       /\ interest' = Without(h)
       /\ last' = Answered("Remove", h, {}, TRUE)
       /\ UNCHANGED <<open, live>>
    \/ (~open \/ h \notin Registered) /\ Refuse(Answered("Remove", h, {}, FALSE))

\* Everything that is due is reported if there is room for it.  An entry whose
\* handle was closed may be reported too, with no condition.
Poll(ready, room, out) ==
    LET due == {h \in Registered : h \notin live \/ ready[h] \cap Asked(h) # {}}
    IN  /\ open
        /\ Len(out) <= room
        /\ \A i, j \in DOMAIN out : out[i].handle = out[j].handle => i = j
        /\ \A i \in DOMAIN out :
              LET h == out[i].handle
              IN  /\ h \in due
                  /\ IF h \in live
                     THEN out[i].mask # {} /\ out[i].mask \subseteq ready[h] \cap Asked(h)
                     ELSE out[i].mask = {}
        /\ Cardinality(due) <= room =>
              \A h \in due \cap live :
                 \E i \in DOMAIN out : out[i] = [handle |-> h, mask |-> ready[h] \cap Asked(h)]

Polls ==
    [op : {"Poll"}, ok : {TRUE}, ready : Ready, room : Rooms, interrupted : BOOLEAN,
     out : Seq([handle : Handles, mask : SUBSET Conditions])]

\* A poll that a signal interrupts reports nothing.
PollStep ==
    \/ /\ last' \in Polls
       /\ IF last'.interrupted THEN last'.out = <<>> ELSE Poll(last'.ready, last'.room, last'.out)
       /\ UNCHANGED <<open, live, interest>>
    \/ ~open /\ Refuse(Returned("Poll", FALSE))

Next ==
    \/ Open \/ Close \/ PollStep
    \/ \E h \in Handles :
          OpenHandle(h) \/ CloseHandle(h) \/ Remove(h) \/ \E mask \in Masks : Add(h, mask) \/ Modify(h, mask)

Spec == Init /\ [][Next]_absVars
=============================================================================
