-------------------------- MODULE ServerLifecycle ---------------------------
(***************************************************************************)
(* Start and end of the server process (server/main.cpp and Server::Init,  *)
(* Run, Stop, Shutdown, EventLoop of server/server.cpp), which begins with *)
(* its key file.  The main thread may start the server again after a       *)
(* Shutdown, and the process may die at any step and be started again.     *)
(* Each access to a flag or a descriptor that both threads use is a step;  *)
(* what the event handlers do to sessions is in Vpn.tla.                   *)
(***************************************************************************)
EXTENDS KeyFile, Sequences

CONSTANTS
    MaxStarts,      \* bound on the calls of Init in a process
    MaxProcesses    \* bound on the processes

ASSUME ServerAssumption == MaxStarts \in Nat /\ MaxProcesses \in Nat

VARIABLES
    open,           \* the open ones of "socket", "poller" and "tun"
    use_tun,        \* use_tun_
    initialized,    \* initialized_
    stopped,        \* stopped_
    running,        \* running_
    main,           \* where the main thread is
    stage,          \* the stage of Init it is at
    worker,         \* where worker_thread_ is
    starts,         \* calls of Init so far in this process
    processes       \* processes so far

vars == <<open, use_tun, initialized, stopped, running, main, stage, worker, starts,
          processes, keyvars>>
pvars == <<processes, keyvars>>

\* The stages of Server::Init, by what they open: the socket, Bind,
\* SetNonBlocking, the poller, Add socket, the TUN device, BringUp, Add TUN.
InitStages == <<{"socket"}, {}, {}, {"poller"}, {}, {"tun"}, {}, {}>>
TunOpen == 6
BringUp == 7

InLoop == {"loop", "poll", "handle"}

Init ==
    /\ open = {}
    /\ use_tun \in BOOLEAN      \* SetTunInterface will be called
    /\ initialized = FALSE
    /\ stopped = FALSE
    /\ running = FALSE
    /\ main = "keys"
    /\ stage = 1
    /\ worker = "none"
    /\ starts = 0
    /\ processes = 1
    /\ KeyInit

-----------------------------------------------------------------------------
\* Processes

\* main calls LoadOrGenerateKeys first, and if it has keys SavePublicKeys.
MainKeys ==
    /\ main = "keys"
    /\ KeyStep
    /\ main' = IF loading' = "published" THEN "new" ELSE "keys"
    /\ UNCHANGED <<open, use_tun, initialized, stopped, running, stage, worker, starts,
                   processes>>

\* The process has died, or main has returned, and it is started again.
Restart ==
    /\ processes < MaxProcesses
    /\ processes' = processes + 1
    /\ KeyRestart
    /\ open' = {}
    /\ initialized' = FALSE /\ stopped' = FALSE /\ running' = FALSE
    /\ main' = "keys"
    /\ stage' = 1
    /\ worker' = "none"
    /\ starts' = 0
    /\ use_tun' \in BOOLEAN

-----------------------------------------------------------------------------
\* CleanupResources

\* A slip in CleanupResources: the poller is forgotten.
CleanedExceptPoller(fds, tun) == fds \cap {"poller"}

\* What CleanupResources leaves open of fds.
Cleaned(fds, tun) == IF tun THEN {} ELSE fds \cap {"tun"}

-----------------------------------------------------------------------------
\* Main thread

InitBegin ==
    /\ main = "new"
    /\ ~initialized
    /\ starts < MaxStarts
    /\ starts' = starts + 1
    /\ stage' = 1
    /\ main' = "init"
    /\ UNCHANGED <<open, use_tun, initialized, stopped, running, worker>>
    /\ UNCHANGED pvars

\* Opening something that is open fails.
InitStage ==
    /\ main = "init"
    /\ InitStages[stage] \cap open = {}
    /\ open' = open \cup InitStages[stage]
    /\ stage' = stage + 1
    /\ LET last == \/ stage = Len(InitStages)
                   \/ stage = TunOpen - 1 /\ ~use_tun
       IN  /\ initialized' = last
           /\ main' = IF last THEN "run" ELSE "init"
    /\ UNCHANGED <<use_tun, stopped, running, worker, starts>>
    /\ UNCHANGED pvars

\* Init returns false; the process may try again.  The very first stage has
\* nothing to clean up.
InitStageFails ==
    /\ main = "init"
    /\ stage \notin {TunOpen, BringUp}
    /\ open' = IF stage = 1 THEN open ELSE Cleaned(open, use_tun)
    /\ main' = "new"
    /\ UNCHANGED <<use_tun, initialized, stopped, running, stage, worker, starts>>
    /\ UNCHANGED pvars

\* A slip in Init: a TUN device that cannot be brought up stays open.
InitWithoutTunKeepingIt ==
    /\ main = "init"
    /\ stage \in {TunOpen, BringUp}
    /\ use_tun' = FALSE
    /\ initialized' = TRUE
    /\ main' = "run"
    /\ UNCHANGED <<open, stopped, running, stage, worker, starts>>
    /\ UNCHANGED pvars

\* No privileges, no TUN device, or BringUp failed: the server runs without.
InitWithoutTun ==
    /\ main = "init"
    /\ stage \in {TunOpen, BringUp}
    /\ open' = open \ {"tun"}
    /\ use_tun' = FALSE
    /\ initialized' = TRUE
    /\ main' = "run"
    /\ UNCHANGED <<stopped, running, stage, worker, starts>>
    /\ UNCHANGED pvars

\* Server::Run: running_ is set before the thread exists.
Run ==
    /\ main = "run"
    /\ initialized /\ ~stopped /\ ~running
    /\ running' = TRUE
    /\ worker' = "loop"
    /\ main' = "running"
    /\ UNCHANGED <<open, use_tun, initialized, stopped, stage, starts>>
    /\ UNCHANGED pvars

\* "q": Shutdown begins, with Stop.
Quit ==
    /\ main = "running"
    /\ stopped' = TRUE
    /\ main' = "store"
    /\ UNCHANGED <<open, use_tun, initialized, running, stage, worker, starts>>
    /\ UNCHANGED pvars

StopStore ==
    /\ main = "store"
    /\ running' = FALSE
    /\ main' = "join"
    /\ UNCHANGED <<open, use_tun, initialized, stopped, stage, worker, starts>>
    /\ UNCHANGED pvars

Join ==
    /\ main = "join"
    /\ worker = "done"
    /\ worker' = "none"
    /\ main' = "cleanup"
    /\ UNCHANGED <<open, use_tun, initialized, stopped, running, stage, starts>>
    /\ UNCHANGED pvars

Cleanup ==
    /\ main = "cleanup"
    /\ open' = Cleaned(open, use_tun)
    /\ initialized' = FALSE
    /\ stopped' = FALSE
    /\ main' = "new"
    /\ UNCHANGED <<use_tun, running, stage, worker, starts>>
    /\ UNCHANGED pvars

-----------------------------------------------------------------------------
\* Worker thread: EventLoop

\* A slip in EventLoop: the loop tests the flag that only the cleanup resets.
LoopTestInitialized ==
    /\ worker = "loop"
    /\ worker' = IF initialized THEN "poll" ELSE "done"
    /\ UNCHANGED <<open, use_tun, initialized, stopped, running, main, stage, starts>>
    /\ UNCHANGED pvars

LoopTest ==
    /\ worker = "loop"
    /\ worker' = IF running THEN "poll" ELSE "done"
    /\ UNCHANGED <<open, use_tun, initialized, stopped, running, main, stage, starts>>
    /\ UNCHANGED pvars

\* Poll times out or finds readable descriptors.
PollReturns ==
    /\ worker = "poll"
    /\ "poller" \in open
    /\ worker' = "handle"
    /\ UNCHANGED <<open, use_tun, initialized, stopped, running, main, stage, starts>>
    /\ UNCHANGED pvars

\* Poll fails: the loop ends with running_ still set.
PollFails ==
    /\ worker = "poll"
    /\ worker' = "done"
    /\ UNCHANGED <<open, use_tun, initialized, stopped, running, main, stage, starts>>
    /\ UNCHANGED pvars

\* A descriptor reports an error or a hangup.
PollHangup ==
    /\ worker = "poll"
    /\ "poller" \in open
    /\ running' = FALSE
    /\ worker' = "handle"
    /\ UNCHANGED <<open, use_tun, initialized, stopped, main, stage, starts>>
    /\ UNCHANGED pvars

\* The handlers of the readable descriptors, and TimerTick.
Handle ==
    /\ worker = "handle"
    /\ worker' = "loop"
    /\ UNCHANGED <<open, use_tun, initialized, stopped, running, main, stage, starts>>
    /\ UNCHANGED pvars

MainStep ==
    \/ MainKeys \/ InitStage \/ InitStageFails \/ InitWithoutTun \/ Run
    \/ StopStore \/ Join \/ Cleanup

WorkerStep == LoopTest \/ PollReturns \/ Handle

Next ==
    \/ InitBegin \/ MainStep \/ Quit \/ WorkerStep \/ PollFails \/ PollHangup
    \/ Restart
    \/ LoadServerPublicKeys /\ UNCHANGED <<open, use_tun, initialized, stopped, running, main,
                                           stage, worker, starts, processes>>

Spec == Init /\ [][Next]_vars

\* Both threads are scheduled, and epoll_wait has a timeout.
Fairness == WF_vars(MainStep) /\ WF_vars(WorkerStep)

FairSpec == Spec /\ Fairness

-----------------------------------------------------------------------------
\* Before an Init nothing is open and no flag is left over, whether the Init
\* before it failed at some stage or the server was shut down: the new Init finds
\* nothing open and the new Run is not refused.
RestartClean ==
    main = "new" => open = {} /\ ~initialized /\ ~stopped /\ ~running

\* The event loop never uses a closed descriptor: Shutdown joins the worker
\* before CleanupResources.
LoopOwnsDescriptors ==
    worker \in InLoop =>
        /\ {"socket", "poller"} \subseteq open
        /\ use_tun <=> "tun" \in open

\* Typing "q" ends the server, also when the event loop has already ended by
\* an error, with running_ set or cleared; a process that dies is over anyway.
QuitTerminates == main = "store" ~> main \in {"new", "keys"}
=============================================================================
