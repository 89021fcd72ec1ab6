-------------------------- MODULE ClientLifecycle ---------------------------
(***************************************************************************)
(* Start and end of the client process (client/main.cpp and Client::Init,  *)
(* Run, Stop, Shutdown of client/client.cpp): the main thread initialises  *)
(* the client, starts a worker that calls Run, waits for "q" and calls     *)
(* Shutdown while the worker may be anywhere, then joins it.  Each access  *)
(* to a flag and each call on a descriptor that the other thread uses is a *)
(* step.  A call (UDPSocket::SendTo and ReceiveFrom, TunDevice::Read and   *)
(* Write) tests IsOpen first and fails on a closed descriptor; so does the *)
(* system call if the descriptor is closed in between.  What the event     *)
(* handlers do to sessions is in Vpn.tla.                                  *)
(***************************************************************************)
EXTENDS Naturals, Sequences

VARIABLES
    open,           \* the open ones of "socket", "poller" and "tun"
    use_tun,        \* use_tun_
    initialized,    \* initialized_
    stopped,        \* stopped_
    running,        \* running_
    main,           \* where the main thread is
    stage,          \* the stage of Init it is at
    worker,         \* where the worker thread is
    events,         \* the handles Poll reported that Run has not come to
    missed          \* history: what a call of the worker found closed

handling == <<events, missed>>
shared == <<open, use_tun, initialized, stopped, running, main, stage>>
vars == <<shared, worker, handling>>

\* The stages of Client::Init: what a stage opens, and what its failure
\* closes before Init returns false.
InitStages ==
    << [opens |-> {"socket"}, closes |-> {}],
       [opens |-> {}, closes |-> {"socket"}],                  \* SetNonBlocking
       [opens |-> {"poller"}, closes |-> {"socket"}],
       [opens |-> {}, closes |-> {"poller", "socket"}],        \* Add socket
       [opens |-> {"tun"}, closes |-> {}],
       [opens |-> {}, closes |-> {"tun", "poller", "socket"}]  \* Add TUN
    >>
TunStage == 5

Init ==
    /\ open = {}
    /\ use_tun = FALSE
    /\ initialized = FALSE
    /\ stopped = FALSE
    /\ running = FALSE
    /\ main = "init"
    /\ stage = 1
    /\ worker = "none"
    /\ events = {}
    /\ missed = {}

-----------------------------------------------------------------------------
\* Main thread

\* A stage of Init succeeds; after the last one the client uses the TUN
\* device, and the worker is started.
InitStage ==
    /\ main = "init"
    /\ open' = open \cup InitStages[stage].opens
    /\ stage' = stage + 1
    /\ LET last == stage = Len(InitStages) IN
         /\ use_tun' = last
         /\ initialized' = last
         /\ main' = IF last THEN "running" ELSE "init"
         /\ worker' = IF last THEN "check" ELSE "none"
    /\ UNCHANGED <<stopped, running, handling>>

\* A slip in Init: the poller stays open when a later stage fails.
InitStageFailsKeepingPoller ==
    /\ main = "init"
    /\ stage # TunStage
    /\ open' = open \ (InitStages[stage].closes \ {"poller"})
    /\ main' = "failed"
    /\ UNCHANGED <<use_tun, initialized, stopped, running, stage, worker, handling>>

\* Another stage than the opening of the TUN device fails: main returns 1.
InitStageFails ==
    /\ main = "init"
    /\ stage # TunStage
    /\ open' = open \ InitStages[stage].closes
    /\ main' = "failed"
    /\ UNCHANGED <<use_tun, initialized, stopped, running, stage, worker, handling>>

\* No privileges or no TUN device: the client runs without it.
InitWithoutTun ==
    /\ main = "init"
    /\ stage = TunStage
    /\ initialized' = TRUE
    /\ main' = "running"
    /\ worker' = "check"
    /\ UNCHANGED <<open, use_tun, stopped, running, stage, handling>>

\* "q" was typed, or the input ended: Shutdown begins, with Stop.
Quit ==
    /\ main = "running"
    /\ stopped' = TRUE
    /\ main' = "store"
    /\ UNCHANGED <<open, use_tun, initialized, running, stage, worker, handling>>

\* The second store of Stop.
StopStore ==
    /\ main = "store"
    /\ running' = FALSE
    /\ main' = "tun"
    /\ UNCHANGED <<open, use_tun, initialized, stopped, stage, worker, handling>>

CloseTun ==
    /\ main = "tun"
    /\ open' = IF use_tun THEN open \ {"tun"} ELSE open
    /\ main' = "poller"
    /\ UNCHANGED <<use_tun, initialized, stopped, running, stage, worker, handling>>

ClosePoller ==
    /\ main = "poller"
    /\ open' = open \ {"poller"}
    /\ main' = "socket"
    /\ UNCHANGED <<use_tun, initialized, stopped, running, stage, worker, handling>>

CloseSocket ==
    /\ main = "socket"
    /\ open' = open \ {"socket"}
    /\ main' = "initialized"
    /\ UNCHANGED <<use_tun, initialized, stopped, running, stage, worker, handling>>

ResetInitialized ==
    /\ main = "initialized"
    /\ initialized' = FALSE
    /\ main' = "stopped"
    /\ UNCHANGED <<open, use_tun, stopped, running, stage, worker, handling>>

ResetStopped ==
    /\ main = "stopped"
    /\ stopped' = FALSE
    /\ use_tun' = FALSE
    /\ main' = IF worker = "joined" THEN "ended" ELSE "join"
    /\ UNCHANGED <<open, initialized, running, stage, worker, handling>>

\* worker.join(), and then the Shutdown of ~Client.
Join ==
    /\ main = "join"
    /\ worker = "done"
    /\ worker' = "joined"
    /\ stopped' = TRUE
    /\ main' = "store"
    /\ UNCHANGED <<open, use_tun, initialized, running, stage, handling>>

-----------------------------------------------------------------------------
\* Worker thread: Run

RunCheck ==
    /\ worker = "check"
    /\ worker' = IF ~initialized \/ stopped THEN "done" ELSE "store"
    /\ UNCHANGED <<shared, handling>>

RunStore ==
    /\ worker = "store"
    /\ running' = TRUE
    /\ worker' = "initiate"
    /\ UNCHANGED <<open, use_tun, initialized, stopped, main, stage, handling>>

\* A call on a device: it notes that the device is closed, if it is.
Call(device) == missed' = missed \cup ({device} \ open)

\* SendInitiation, whose steps before SendTo may fail.
RunInitiates ==
    /\ worker = "initiate"
    /\ Call("socket") \/ UNCHANGED missed
    /\ worker' = "loop"
    /\ UNCHANGED <<shared, events>>

LoopTest ==
    /\ worker = "loop"
    /\ worker' = IF running THEN "poll" ELSE "done"
    /\ UNCHANGED <<shared, handling>>

\* A slip in Poll: a closed poller yields no events instead of an error.
PollClosedSilently ==
    /\ worker = "poll"
    /\ worker' = IF "poller" \in open THEN "wait" ELSE "loop"
    /\ UNCHANGED <<shared, handling>>

\* Poll: a closed poller is an error, which ends the loop; else epoll_wait.
Poll ==
    /\ worker = "poll"
    /\ worker' = IF "poller" \in open THEN "wait" ELSE "done"
    /\ UNCHANGED <<shared, handling>>

\* epoll_wait returns within 250 ms, whatever happened to its descriptor
\* since, with the handles that have an event; a closed one has none.
PollReturns ==
    /\ worker = "wait"
    /\ events' \in SUBSET (open \ {"poller"})
    /\ worker' = "handle"
    /\ UNCHANGED <<shared, missed>>

\* epoll_wait fails, as it does if the poller was closed under it.
PollFails ==
    /\ worker = "wait"
    /\ worker' = "done"
    /\ UNCHANGED <<shared, handling>>

\* An event is an error or a hangup: Run stops, and skips the other events.
PollHangup ==
    /\ worker = "handle"
    /\ events # {}
    /\ running' = FALSE
    /\ events' = {}
    /\ UNCHANGED <<open, use_tun, initialized, stopped, main, stage, worker, missed>>

\* The handle of an event is compared with those of the devices: the handle of
\* a device that was closed meanwhile is kInvalidHandle and matches none.
TakeEvent(device) ==
    /\ worker = "handle"
    /\ device \in events
    /\ events' = events \ {device}
    /\ UNCHANGED <<shared, missed>>

SocketReadable ==
    /\ TakeEvent("socket")
    /\ worker' = IF "socket" \in open THEN "receive" ELSE "handle"

TunReadable ==
    /\ TakeEvent("tun")
    /\ worker' = IF use_tun /\ "tun" \in open THEN "read" ELSE "handle"

\* A slip in HandleTransport: the packet is written whether there is a TUN
\* device or not.
ReceiveUnchecked ==
    /\ worker = "receive"
    /\ Call("socket")
    /\ \/ worker' = "handle"
       \/ "socket" \in open /\ worker' = "write"
    /\ UNCHANGED <<shared, events>>

\* ReceiveFrom, and the handlers: one of them, HandleTransport with a packet
\* that can be opened, goes on to write it to the TUN device, if it is there.
Receive ==
    /\ worker = "receive"
    /\ Call("socket")
    /\ \/ worker' = "handle"
       \/ "socket" \in open /\ use_tun /\ "tun" \in open /\ worker' = "write"
    /\ UNCHANGED <<shared, events>>

WriteTun ==
    /\ worker = "write"
    /\ Call("tun")
    /\ worker' = "handle"
    /\ UNCHANGED <<shared, events>>

\* HandleTunRead: a packet is sent if there is one, and a session for it.
ReadTun ==
    /\ worker = "read"
    /\ Call("tun")
    /\ \/ worker' = "handle"
       \/ "tun" \in open /\ worker' = "send"
    /\ UNCHANGED <<shared, events>>

SendPacket ==
    /\ worker = "send"
    /\ Call("socket")
    /\ worker' = "handle"
    /\ UNCHANGED <<shared, events>>

\* TimerTick, after the last event: keepalives and an initiation, if due.
TimerTick ==
    /\ worker = "handle"
    /\ events = {}
    /\ Call("socket") \/ UNCHANGED missed
    /\ worker' = "loop"
    /\ UNCHANGED <<shared, events>>

MainStep ==
    \/ InitStage \/ InitStageFails \/ InitWithoutTun
    \/ StopStore \/ CloseTun \/ ClosePoller \/ CloseSocket
    \/ ResetInitialized \/ ResetStopped \/ Join

WorkerStep ==
    \/ RunCheck \/ RunStore \/ RunInitiates \/ LoopTest \/ Poll \/ PollReturns
    \/ SocketReadable \/ TunReadable \/ Receive \/ WriteTun \/ ReadTun \/ SendPacket
    \/ TimerTick

Next == MainStep \/ Quit \/ WorkerStep \/ PollFails \/ PollHangup

Spec == Init /\ [][Next]_vars

\* Both threads are scheduled, and epoll_wait has a timeout.  Nobody has to
\* quit, and no descriptor has to fail.
Fairness == WF_vars(MainStep) /\ WF_vars(WorkerStep)

FairSpec == Spec /\ Fairness

-----------------------------------------------------------------------------
\* Init is all or nothing: if it returns false, at whichever stage, everything
\* it opened is closed and it can be called again; if it returns true, socket
\* and poller are open and use_tun_ tells whether the TUN device is.
InitAllOrNothing ==
    /\ main = "failed" => open = {}
    /\ main = "running" => /\ {"socket", "poller"} \subseteq open
                           /\ use_tun <=> "tun" \in open

\* A descriptor is open as long as it is used and no longer: until "q" is typed
\* no call of the worker finds one closed, whether there is a TUN device or not
\* and whatever Poll reported, and the process ends with none open and with the
\* worker gone.  Between the two, calls on what Shutdown has closed fail.
OpenWhileUsed ==
    /\ main \in {"init", "failed", "running"} => missed = {}
    /\ main = "ended" => open = {} /\ worker = "joined"

\* Typing "q" ends the process, wherever the worker is: the join of main does
\* not wait for ever, even if Run sets running_ again after Stop cleared it or
\* a handler goes on with descriptors that Shutdown has closed.
QuitTerminates == main = "store" ~> main = "ended"
=============================================================================
