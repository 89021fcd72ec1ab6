----------------------------- MODULE EventPoller -----------------------------
(***************************************************************************)
(* core::network::EventPoller in its three forms: epoll on Linux, kqueue   *)
(* on macOS and WSAPoll on Windows.  The first two leave the registrations *)
(* to the kernel, which this module models as far as the code relies on    *)
(* it; on Windows they are an array in native_events_.  The caller may     *)
(* call anything at any time, on handles that are open, and handles are    *)
(* opened and closed independently, so that a number may be used again.    *)
(***************************************************************************)
EXTENDS Naturals, Sequences, FiniteSetsExt

CONSTANTS
    Handles,
    Masks,      \* the interest masks that callers pass
    Rooms       \* the lengths of the span that Poll fills

\* Handles are descriptors.  Whoever registers one asks for readability, and may
\* ask for writability too.
ASSUME PollerAssumption ==
    /\ IsFiniteSet(Handles)
    /\ \A mask \in Masks : "Readable" \in mask /\ mask \subseteq {"Readable", "Writable"}
    /\ Rooms \subseteq Nat

VARIABLES
    platform,
    poller_handle,  \* is it valid?
    live,           \* the handles that are open
    registry,       \* what epoll, kqueue or native_events_ hold
    last            \* the last call and what it returned

vars == <<platform, poller_handle, live, registry, last>>

\* epoll: a mask for each handle.  kqueue: pairs of a handle and a filter.
\* WSAPoll: a sequence of records.
EmptyRegistry == IF platform = "macos" THEN {} ELSE <<>>

PollSlots == DOMAIN registry            \* on Windows
SlotsOf(h) == {i \in PollSlots : registry[i].fd = h}

Filters(h) == {filter \in {"Readable", "Writable"} : <<h, filter>> \in registry}

\* What the kernel may find when it polls: something to read, room to write, a
\* hangup, after which nothing blocks, or an error.  kevent reports an error
\* (EV_ERROR) of a change to the registrations only, and Poll makes none.
Findings ==
    { {"Readable"}, {"Writable"}, {"Readable", "Writable"},
      {"Readable", "Writable", "Hangup"} }
      \cup (IF platform = "macos" THEN {} ELSE {{"Writable", "Error"}})

\* It looks at the handles that are registered and open.
Watched ==
    CASE platform = "linux" -> DOMAIN registry
      [] platform = "macos" -> {k[1] : k \in registry}
      [] platform = "windows" -> {registry[i].fd : i \in PollSlots} \cap live

ReadySets ==
    {ready \in [Handles -> Findings \cup {{}}] :
        \A h \in Handles : ready[h] = {} <=> h \notin Watched}

\* What a poll reports of a handle: errors and hangups without being asked for.
Reported(ready, h, events) == ready[h] \cap (events \cup {"Error", "Hangup"})

--------------------------------------------------------------------------
(* The platforms' forms of Add, Modify and Remove: Done with the registry *)
(* that they leave, or Refused.                                           *)

Done(after) == [ok |-> TRUE, registry |-> after]
Refused == [ok |-> FALSE, registry |-> registry]

Put(h, mask) == [g \in DOMAIN registry \cup {h} |-> IF g = h THEN mask ELSE registry[g]]

AddLinux(h, mask) == IF h \in DOMAIN registry THEN Refused ELSE Done(Put(h, mask))
ModifyLinux(h, mask) == IF h \in DOMAIN registry THEN Done(Put(h, mask)) ELSE Refused
RemoveLinux(h) ==
    IF h \in DOMAIN registry
    THEN Done([g \in DOMAIN registry \ {h} |-> registry[g]])
    ELSE Refused

\* kevent applies a list of changes up to the first that fails; deleting a
\* filter that is not there fails with ENOENT, which the code ignores.
AddMacos(h, mask) == Done(registry \cup ({h} \X mask))
ModifyMacos(h, mask) ==
    IF "Readable" \notin mask /\ <<h, "Readable">> \notin registry
    THEN Done(registry)
    ELSE Done({k \in registry : k[1] # h} \cup ({h} \X mask))
RemoveMacos(h) ==
    Done(IF <<h, "Readable">> \notin registry THEN registry ELSE {k \in registry : k[1] # h})

AddWindows(h, mask) ==
    IF SlotsOf(h) # {} THEN Refused ELSE Done(Append(registry, [fd |-> h, events |-> mask]))
ModifyWindows(h, mask) ==
    IF SlotsOf(h) = {}
    THEN Refused
    ELSE Done([registry EXCEPT ![Min(SlotsOf(h))].events = mask])

\* A slip: the last entry goes, whichever was found.
TruncateWindows(h) ==
    IF SlotsOf(h) = {} THEN Refused ELSE Done(SubSeq(registry, 1, Len(registry) - 1))

\* The last entry moves into the place that becomes free.
RemoveWindows(h) ==
    LET n == Len(registry)
    IN  IF SlotsOf(h) = {}
        THEN Refused
        ELSE Done(SubSeq([registry EXCEPT ![Min(SlotsOf(h))] = registry[n]], 1, n - 1))

--------------------------------------------------------------------------
(* Poll: what is written to a span of length room.                        *)

Event(h, mask) == [handle |-> h, mask |-> mask]

\* All orders of a set of events; the kernel picks one.
Orders(S) == {s \in [1 .. Cardinality(S) -> S] : \A i, j \in DOMAIN s : s[i] = s[j] => i = j}

\* At most room of them, and fewer only if there are no more.
Filled(S, room) ==
    UNION {Orders(T) : T \in {U \in SUBSET S : \/ Cardinality(U) = room
                                               \/ Cardinality(U) < room /\ U = S}}

PollLinux(ready, room) ==
    Filled({Event(h, Reported(ready, h, registry[h])) :
               h \in {g \in DOMAIN registry : Reported(ready, g, registry[g]) # {}}}, room)

\* kqueue reports each filter by itself; the events of a handle are merged and
\* those of a handle too many are dropped.
Merge(out, event, room) ==
    LET same == {j \in DOMAIN out : out[j].handle = event.handle}
    IN  IF same # {}
        THEN [out EXCEPT ![Min(same)] = Event(event.handle, @.mask \cup event.mask)]
        ELSE IF Len(out) < room THEN Append(out, event) ELSE out

Coalesced(native, room) ==
    LET merged[i \in 0 .. Len(native)] ==
            IF i = 0 THEN <<>> ELSE Merge(merged[i - 1], native[i], room)
    IN  merged[Len(native)]

PollMacos(ready, room) ==
    LET fired == {Event(f[1], {f[2]} \cup (ready[f[1]] \cap {"Hangup"})) :
                     f \in {k \in registry : k[2] \in ready[k[1]]}}
    IN  {Coalesced(native, room) : native \in Filled(fired, 2 * room)}

\* A closed handle has POLLNVAL, which FromWSA maps to nothing.
WSAMask(ready, i) ==
    IF registry[i].fd \in live
    THEN Reported(ready, registry[i].fd, registry[i].events)
    ELSE {}

Write(out, i, ready, room) ==
    IF Len(out) < room /\ (registry[i].fd \notin live \/ WSAMask(ready, i) # {})
    THEN Append(out, Event(registry[i].fd, WSAMask(ready, i)))
    ELSE out

\* The array is scanned from the front.
PollWindows(ready, room) ==
    LET written[i \in 0 .. Len(registry)] ==
            IF i = 0 THEN <<>> ELSE Write(written[i - 1], i, ready, room)
    IN  {written[Len(registry)]}

PollOutcomes(ready, room) ==
    CASE platform = "linux" -> PollLinux(ready, room)
      [] platform = "macos" -> PollMacos(ready, room)
      [] platform = "windows" -> PollWindows(ready, room)

--------------------------------------------------------------------------

Returned(op, ok) == [op |-> op, ok |-> ok]
Answered(op, h, mask, ok) == [op |-> op, handle |-> h, mask |-> mask, ok |-> ok]

Init ==
    /\ platform \in {"linux", "macos", "windows"}
    /\ poller_handle = FALSE
    /\ live = {}
    /\ registry = EmptyRegistry
    /\ last = Returned("none", TRUE)

\* The kernel forgets a handle that is closed; the array does not.
OpenHandle(h) ==
    /\ h \notin live
    /\ live' = live \cup {h}
    /\ last' = Returned("none", TRUE)
    /\ UNCHANGED <<platform, poller_handle, registry>>

CloseHandle(h) ==
    /\ h \in live
    /\ live' = live \ {h}
    /\ registry' = CASE platform = "linux" -> [g \in DOMAIN registry \ {h} |-> registry[g]]
                     [] platform = "macos" -> {k \in registry : k[1] # h}
                     [] platform = "windows" -> registry
    /\ last' = Returned("none", TRUE)
    /\ UNCHANGED <<platform, poller_handle>>

Open ==
    /\ poller_handle' = TRUE
    /\ registry' = IF poller_handle THEN registry ELSE EmptyRegistry
    /\ last' = Returned("Open", ~poller_handle)
    /\ UNCHANGED <<platform, live>>

Close ==
    /\ poller_handle' = FALSE
    /\ registry' = EmptyRegistry
    /\ last' = Returned("Close", TRUE)
    /\ UNCHANGED <<platform, live>>

\* A call with the result it has if the poller is open.
Call(op, h, mask, result) ==
    /\ registry' = IF poller_handle THEN result.registry ELSE registry
    /\ last' = Answered(op, h, mask, poller_handle /\ result.ok)
    /\ UNCHANGED <<platform, poller_handle, live>>

Add(h, mask) ==
    Call("Add", h, mask,
         CASE platform = "linux" -> AddLinux(h, mask)
           [] platform = "macos" -> AddMacos(h, mask)
           [] platform = "windows" -> AddWindows(h, mask))

Modify(h, mask) ==
    Call("Modify", h, mask,
         CASE platform = "linux" -> ModifyLinux(h, mask)
           [] platform = "macos" -> ModifyMacos(h, mask)
           [] platform = "windows" -> ModifyWindows(h, mask))

Remove(h) ==
    Call("Remove", h, {},
         CASE platform = "linux" -> RemoveLinux(h)
           [] platform = "macos" -> RemoveMacos(h)
           [] platform = "windows" -> RemoveWindows(h))

Polled(ready, room, interrupted, out) ==
    /\ last' = [op |-> "Poll", ok |-> TRUE, ready |-> ready, room |-> room,
                interrupted |-> interrupted, out |-> out]
    /\ UNCHANGED <<platform, poller_handle, live, registry>>

Poll ==
    /\ poller_handle
    /\ \E ready \in ReadySets, room \in Rooms :
          \/ \E out \in PollOutcomes(ready, room) : Polled(ready, room, FALSE, out)
          \/ platform # "windows" /\ Polled(ready, room, TRUE, <<>>)

PollClosed ==
    /\ ~poller_handle
    /\ last' = Returned("Poll", FALSE)
    /\ UNCHANGED <<platform, poller_handle, live, registry>>

Next ==
    \/ Open \/ Close \/ Poll \/ PollClosed
    \/ \E h \in Handles : OpenHandle(h) \/ CloseHandle(h)
    \/ \E h \in live :
          Remove(h) \/ \E mask \in Masks : Add(h, mask) \/ Modify(h, mask)

Spec == Init /\ [][Next]_vars

--------------------------------------------------------------------------

\* What is asked for, as the registry of the platform has it.
Interest ==
    CASE platform = "linux" -> registry
      [] platform = "macos" -> [h \in {k[1] : k \in registry} |-> Filters(h)]
      [] platform = "windows" -> [h \in {registry[i].fd : i \in PollSlots} |->
                                     registry[Min(SlotsOf(h))].events]

EventSets == INSTANCE EventSet WITH open <- poller_handle, interest <- Interest

\* The three implementations keep the same promise: what a call says it did is
\* what later polls go by, whatever the order of the registrations, a poll
\* reports a handle once and all conditions that hold of it, and everything
\* that is due if there is room.
ImplementsEventSet == EventSets!Spec
==============================================================================
