----------------------- MODULE ClientLifecycleProofs ------------------------
(***************************************************************************)
(* Proofs about ClientLifecycle: Init is all or nothing at every stage,    *)
(* no call of the worker finds a descriptor closed before "q" is typed,    *)
(* and the process ends with nothing open, wherever the worker was.        *)
(***************************************************************************)
EXTENDS ClientLifecycle, TLAPS

\* What the stages of Init before stage s have opened.
OpenBefore(s) ==
    (IF s > 1 THEN {"socket"} ELSE {}) \cup (IF s > 3 THEN {"poller"} ELSE {})
        \cup (IF s > TunStage THEN {"tun"} ELSE {})

\* During Init what is open are the results of the stages that succeeded.
DuringInit ==
    main = "init" => stage \in 1 .. 6 /\ open = OpenBefore(stage) /\ use_tun = FALSE

\* use_tun_ tells whether the TUN device is open until Shutdown has closed it,
\* also when Shutdown is called for the second time.
TunKnown ==
    main \in {"running", "store", "tun"} =>
        open \subseteq {"socket", "poller", "tun"} /\ (use_tun <=> "tun" \in open)

\* Shutdown closes one after the other, and no step of the worker opens any.
DuringShutdown ==
    /\ main = "poller" => open \subseteq {"socket", "poller"}
    /\ main = "socket" => open \subseteq {"socket"}
    /\ main \in {"failed", "initialized", "stopped", "join", "ended"} => open = {}
    /\ main = "join" => use_tun = FALSE

\* Until Shutdown the calls of the worker are on open descriptors: it comes to a
\* call on the TUN device only if the device is open.
DuringRun ==
    /\ main \in {"init", "failed"} => worker = "none"
    /\ main = "running" /\ worker \in {"read", "write"} => "tun" \in open
    /\ main \in {"init", "failed", "running"} => missed = {}

\* main is at the end of the Shutdown of ~Client only when the worker is joined.
AfterJoin == main = "ended" => worker = "joined"

LifeInv ==
    /\ main \in {"init", "failed", "running", "store", "tun", "poller", "socket",
                 "initialized", "stopped", "join", "ended"}
    /\ use_tun \in BOOLEAN
    /\ main = "running" => {"socket", "poller"} \subseteq open
    /\ DuringInit
    /\ TunKnown
    /\ DuringShutdown
    /\ DuringRun
    /\ AfterJoin

LEMMA LifeInvInit == Init => LifeInv
<1>1. OpenBefore(1) = {}
  BY DEF OpenBefore, TunStage
<1>2. 1 \in 1 .. 6
  OBVIOUS
<1> QED BY <1>1, <1>2 DEF Init, LifeInv, DuringInit, TunKnown, DuringShutdown, DuringRun, AfterJoin

\* A stage of Init opens what it names, and its failure closes what is open.
LEMMA LifeInvInitStage == LifeInv /\ (InitStage \/ InitStageFails \/ InitWithoutTun) => LifeInv'
<1> SUFFICES ASSUME LifeInv, InitStage \/ InitStageFails \/ InitWithoutTun PROVE LifeInv'
  OBVIOUS
<1> USE DEF LifeInv, DuringInit, TunKnown, DuringShutdown, DuringRun, AfterJoin,
            handling
<1>1. stage \in 1 .. 6 /\ open = OpenBefore(stage) /\ use_tun = FALSE
  BY DEF InitStage, InitStageFails, InitWithoutTun
<1>2. Len(InitStages) = 6
  BY DEF InitStages
<1>3. CASE InitStage
  <2>1. open' = OpenBefore(stage + 1)
    BY <1>1, <1>3 DEF InitStage, InitStages, OpenBefore, TunStage
  <2>2. CASE stage = 6
    <3>1. main' = "running" /\ use_tun' = TRUE /\ worker' = "check" /\ missed' = {}
      BY <1>2, <1>3, <2>2 DEF InitStage
    <3>2. open' = {"socket", "poller", "tun"}
      BY <2>1, <2>2 DEF OpenBefore, TunStage
    <3> QED BY <3>1, <3>2
  <2>3. CASE stage # 6
    <3>1. main' = "init" /\ use_tun' = FALSE /\ worker' = "none" /\ missed' = {}
      BY <1>2, <1>3, <2>3 DEF InitStage
    <3>2. stage' \in 1 .. 6 /\ stage' = stage + 1
      BY <1>1, <1>3, <2>3 DEF InitStage
    <3> QED BY <2>1, <3>1, <3>2
  <2> QED BY <2>2, <2>3
<1>4. CASE InitStageFails
  <2>1. open' = {}
    BY <1>1, <1>4 DEF InitStageFails, InitStages, OpenBefore, TunStage
  <2> QED BY <1>1, <1>4, <2>1 DEF InitStageFails
<1>5. CASE InitWithoutTun
  <2>1. open' = {"socket", "poller"}
    BY <1>1, <1>5 DEF InitWithoutTun, OpenBefore, TunStage
  <2> QED BY <1>1, <1>5, <2>1 DEF InitWithoutTun
<1> QED BY <1>3, <1>4, <1>5

\* The steps of Shutdown and of main after Init.
LEMMA LifeInvShutdown ==
    /\ LifeInv
    /\ \/ Quit \/ StopStore \/ CloseTun \/ ClosePoller \/ CloseSocket
       \/ ResetInitialized \/ ResetStopped \/ Join
    => LifeInv'
<1> SUFFICES ASSUME LifeInv,
                    \/ Quit \/ StopStore \/ CloseTun \/ ClosePoller \/ CloseSocket
                    \/ ResetInitialized \/ ResetStopped \/ Join
             PROVE  LifeInv'
  OBVIOUS
<1> USE DEF LifeInv, DuringInit, TunKnown, DuringShutdown, DuringRun, AfterJoin,
            handling
<1>1. CASE Quit
  BY <1>1 DEF Quit
<1>2. CASE StopStore
  BY <1>2 DEF StopStore
<1>3. CASE CloseTun
  <2>1. open' \subseteq {"socket", "poller"}
    BY <1>3 DEF CloseTun
  <2> QED BY <1>3, <2>1 DEF CloseTun
<1>4. CASE ClosePoller
  BY <1>4 DEF ClosePoller
<1>5. CASE CloseSocket
  BY <1>5 DEF CloseSocket
<1>6. CASE ResetInitialized
  BY <1>6 DEF ResetInitialized
<1>7. CASE ResetStopped
  BY <1>7 DEF ResetStopped
<1>8. CASE Join
  BY <1>8 DEF Join
<1> QED BY <1>1, <1>2, <1>3, <1>4, <1>5, <1>6, <1>7, <1>8

\* A call on a device that is open misses nothing.
LEMMA CallOnOpen == ASSUME NEW d, Call(d), d \in open, missed = {} PROVE missed' = {}
BY DEF Call

\* Run before its loop, and Poll: they miss nothing while the socket is open.
LEMMA LifeInvPoll ==
    /\ LifeInv
    /\ \/ RunCheck \/ RunStore \/ RunInitiates \/ LoopTest \/ Poll \/ PollReturns
       \/ PollFails \/ PollHangup \/ TimerTick
    => LifeInv'
<1> SUFFICES ASSUME LifeInv,
                    \/ RunCheck \/ RunStore \/ RunInitiates \/ LoopTest \/ Poll \/ PollReturns
                    \/ PollFails \/ PollHangup \/ TimerTick
             PROVE  LifeInv'
  OBVIOUS
<1> USE DEF RunCheck, RunStore, RunInitiates, LoopTest, Poll, PollReturns, PollFails,
            PollHangup, TimerTick, shared, handling
<1>1. UNCHANGED <<open, use_tun, main, stage>>
  OBVIOUS
<1>2. worker \notin {"none", "joined"} /\ worker' \notin {"read", "write"}
  BY ZenonT(20)
<1>3. main \notin {"init", "failed", "ended"}
  BY <1>2 DEF LifeInv, DuringRun, AfterJoin
<1>4. main = "running" => missed' = {}
  <2>1. main = "running" => "socket" \in open /\ missed = {}
    BY DEF LifeInv, DuringRun
  <2> QED BY <2>1, CallOnOpen
<1> QED BY <1>1, <1>2, <1>3, <1>4
        DEF LifeInv, DuringInit, TunKnown, DuringShutdown, DuringRun, AfterJoin, OpenBefore

\* The handlers: each comes to a call on the TUN device only if it is open.
LEMMA LifeInvHandle ==
    /\ LifeInv
    /\ SocketReadable \/ TunReadable \/ Receive \/ WriteTun \/ ReadTun \/ SendPacket
    => LifeInv'
<1> SUFFICES ASSUME LifeInv,
                    SocketReadable \/ TunReadable \/ Receive \/ WriteTun \/ ReadTun \/ SendPacket
             PROVE  LifeInv'
  OBVIOUS
<1> USE DEF SocketReadable, TunReadable, Receive, WriteTun, ReadTun, SendPacket, TakeEvent, shared
<1>1. UNCHANGED <<open, use_tun, main, stage>>
  OBVIOUS
<1>2. worker \notin {"none", "joined"}
  OBVIOUS
<1>3. main \notin {"init", "failed", "ended"}
  BY <1>2 DEF LifeInv, DuringRun, AfterJoin
<1>4. worker' \in {"read", "write"} => "tun" \in open
  OBVIOUS
<1>5. main = "running" => missed' = {}
  <2>1. main = "running" => "socket" \in open /\ missed = {}
    BY DEF LifeInv, DuringRun
  <2>2. main = "running" /\ worker \in {"read", "write"} => "tun" \in open
    BY DEF LifeInv, DuringRun
  <2>3. \/ UNCHANGED missed
        \/ Call("socket")
        \/ worker \in {"read", "write"} /\ Call("tun")
    OBVIOUS
  <2> QED BY <2>1, <2>2, <2>3, CallOnOpen
<1> QED BY <1>1, <1>3, <1>4, <1>5
        DEF LifeInv, DuringInit, TunKnown, DuringShutdown, DuringRun, AfterJoin, OpenBefore

LEMMA LifeInvNext == LifeInv /\ [Next]_vars => LifeInv'
<1>1. LifeInv /\ UNCHANGED vars => LifeInv'
  BY DEF vars, shared, handling, LifeInv, DuringInit, TunKnown, DuringShutdown, DuringRun,
         AfterJoin, OpenBefore
<1> QED BY <1>1, LifeInvInitStage, LifeInvShutdown, LifeInvPoll, LifeInvHandle
        DEF Next, MainStep, WorkerStep

LEMMA LifeInvAlways == Spec => []LifeInv
BY LifeInvInit, LifeInvNext, PTL DEF Spec

\* Client::Init closes all it has opened if it returns false, at whichever stage,
\* and use_tun_ is right if it returns true.
THEOREM AllOrNothing == Spec => []InitAllOrNothing
<1>1. LifeInv => InitAllOrNothing
  BY DEF LifeInv, TunKnown, DuringShutdown, InitAllOrNothing
<1> QED BY <1>1, LifeInvAlways, PTL

\* Client::Run and its handlers find every descriptor they use open until "q" is
\* typed, with and without a TUN device; Shutdown, of main and then of ~Client,
\* leaves nothing open and nobody who could use it.
THEOREM OpenForUse == Spec => []OpenWhileUsed
<1>1. LifeInv => OpenWhileUsed
  BY DEF LifeInv, DuringShutdown, DuringRun, AfterJoin, OpenWhileUsed
<1> QED BY <1>1, LifeInvAlways, PTL
=============================================================================
