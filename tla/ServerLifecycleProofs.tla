----------------------- MODULE ServerLifecycleProofs ------------------------
(***************************************************************************)
(* Proofs about ServerLifecycle and its KeyFile: for every number of       *)
(* starts and processes, the keys stay the same over restarts and failed   *)
(* writes, a restarted server finds a clean slate, and the event loop owns *)
(* its descriptors.                                                        *)
(***************************************************************************)
EXTENDS ServerLifecycle, FiniteSetTheorems, TLAPS

--------------------------------------------------------------------------
(* The key files.                                                         *)

\* Whoever went on with keys left a file, and every file and every client
\* that has keys has those that processes went on with.
FilesAgree ==
    /\ used # {} => keyfile.exists
    /\ keyfile.keys # 0 => used = {keyfile.keys}
    /\ pubfile.keys # 0 => used = {pubfile.keys}
    /\ trusted # 0 => used = {trusted}

\* New keys exist only where no process has gone on with others, and a process
\* that is past LoadOrGenerateKeys holds the only keys that were ever used.
ProcessKeys ==
    /\ loading = "open" => keys # 0 /\ ~keyfile.exists
    /\ loading = "write" => keys # 0 /\ used = {}
    /\ loading \in {"done", "publish", "published"} => keys # 0 /\ used = {keys}

KeyInv ==
    /\ generated \in Nat
    /\ \A j, k \in used : j = k
    /\ FilesAgree
    /\ ProcessKeys

LEMMA KeyInvInit == KeyInit => KeyInv
BY DEF KeyInit, KeyInv, FilesAgree, ProcessKeys, Absent

\* Every step of LoadOrGenerateKeys and SavePublicKeys keeps the invariant,
\* wherever a write fails.
LEMMA KeyInvStep == KeyInv /\ KeyStep => KeyInv'
<1> SUFFICES ASSUME KeyInv, KeyStep PROVE KeyInv'
  OBVIOUS
<1> USE DEF KeyInv, FilesAgree, ProcessKeys, pubvars, Partial, Saved
<1>1. CASE LoadExisting
  BY <1>1 DEF LoadExisting, LoadKeys
<1>2. CASE Generate
  BY <1>2 DEF Generate
<1>3. CASE GenerateFails
  BY <1>3 DEF GenerateFails
<1>4. CASE SaveOpen
  BY <1>4 DEF SaveOpen
<1>5. CASE SaveFails
  BY <1>5 DEF SaveFails
<1>6. CASE SaveClose
  BY <1>6 DEF SaveClose
<1>7. CASE PublishOpen
  BY <1>7 DEF PublishOpen
<1>8. CASE PublishFails
  BY <1>8 DEF PublishFails
<1>9. CASE PublishClose
  BY <1>9 DEF PublishClose
<1> QED BY <1>1, <1>2, <1>3, <1>4, <1>5, <1>6, <1>7, <1>8, <1>9 DEF KeyStep

LEMMA KeyInvRestart == KeyInv /\ KeyRestart => KeyInv'
BY DEF KeyInv, FilesAgree, ProcessKeys, KeyRestart, pubvars

LEMMA KeyInvLoad == KeyInv /\ LoadServerPublicKeys => KeyInv'
BY DEF KeyInv, FilesAgree, ProcessKeys, LoadServerPublicKeys, LoadKeys

LEMMA KeyInvStutter == KeyInv /\ UNCHANGED keyvars => KeyInv'
BY DEF KeyInv, FilesAgree, ProcessKeys, keyvars, pubvars

\* Every step of the server is a step of the key file, or leaves it alone.
LEMMA KeyInvNext == KeyInv /\ [Next]_vars => KeyInv'
<1> SUFFICES ASSUME KeyInv, [Next]_vars PROVE KeyInv'
  OBVIOUS
<1>1. CASE MainKeys
  BY <1>1, KeyInvStep DEF MainKeys
<1>2. CASE Restart
  BY <1>2, KeyInvRestart DEF Restart
<1>3. CASE LoadServerPublicKeys
  BY <1>3, KeyInvLoad
<1>4. CASE UNCHANGED keyvars
  BY <1>4, KeyInvStutter
<1>5. \/ MainKeys \/ Restart \/ LoadServerPublicKeys \/ UNCHANGED keyvars
  BY DEF Next, MainStep, WorkerStep, vars, pvars, InitBegin, InitStage, InitStageFails,
         InitWithoutTun, Run, Quit, StopStore, Join, Cleanup, LoopTest, PollReturns, Handle,
         PollFails, PollHangup
<1> QED BY <1>1, <1>2, <1>3, <1>4, <1>5

LEMMA KeyInvAlways == Spec => []KeyInv
<1>1. Init => KeyInv
  BY KeyInvInit DEF Init
<1> QED BY <1>1, KeyInvNext, PTL DEF Spec

\* LoadOrGenerateKeys never lets a process go on with other keys than those
\* that a process before it went on with.
THEOREM StableKeys == Spec => []KeysStable
<1>1. KeyInv => KeysStable
  <2> SUFFICES ASSUME KeyInv PROVE Cardinality(used) <= 1
    BY DEF KeysStable
  <2>1. CASE used = {}
    BY <2>1, FS_EmptySet
  <2>2. CASE used # {}
    <3>1. PICK k \in used : TRUE
      BY <2>2
    <3>2. used = {k}
      BY <3>1 DEF KeyInv
    <3> QED BY <3>2, FS_Singleton
  <2> QED BY <2>1, <2>2
<1> QED BY <1>1, KeyInvAlways, PTL

\* A client that has loaded server_pub.conf trusts the keys of every server
\* process that gets as far as answering.
THEOREM TrustedKeys == Spec => []TrustedKeysServe
<1>1. KeyInv => TrustedKeysServe
  BY DEF KeyInv, FilesAgree, ProcessKeys, TrustedKeysServe
<1> QED BY <1>1, KeyInvAlways, PTL

--------------------------------------------------------------------------
(* The flags and descriptors.                                             *)

\* What the stages of Init before the one main is at have opened.
OpenBefore(s) ==
    (IF s > 1 THEN {"socket"} ELSE {}) \cup (IF s > 4 THEN {"poller"} ELSE {})
        \cup (IF s > TunOpen THEN {"tun"} ELSE {})

\* Before and during Init no flag is set and there is no event loop; what is
\* open are the results of the stages that succeeded.
BeforeRun ==
    /\ main \in {"keys", "new", "init"} =>
          ~initialized /\ ~stopped /\ ~running /\ worker = "none"
    /\ main \in {"keys", "new"} => open = {}
    /\ main = "init" =>
          stage \in 1 .. 8 /\ open = OpenBefore(stage) /\ (stage >= TunOpen => use_tun)

\* From the end of Init to CleanupResources the descriptors stay as they are,
\* and the flags follow main.
WhileInitialized ==
    /\ main \in {"run", "running", "store", "join", "cleanup"} =>
          /\ open \subseteq {"socket", "poller", "tun"}
          /\ {"socket", "poller"} \subseteq open
          /\ use_tun <=> "tun" \in open
    /\ main = "run" => ~stopped /\ ~running
    /\ main \in {"run", "cleanup"} => worker = "none"
    /\ main \in {"join", "cleanup"} => ~running

LifeInv ==
    /\ main \in {"keys", "new", "init", "run", "running", "store", "join", "cleanup"}
    /\ use_tun \in BOOLEAN
    /\ BeforeRun
    /\ WhileInitialized

LEMMA LifeInvInit == Init => LifeInv
BY DEF Init, LifeInv, BeforeRun, WhileInitialized

\* CleanupResources closes what Init has opened, at whichever stage it failed.
LEMMA LifeInvMain == LifeInv /\ MainStep => LifeInv'
<1> SUFFICES ASSUME LifeInv, MainStep PROVE LifeInv'
  OBVIOUS
<1> USE DEF LifeInv, BeforeRun, WhileInitialized, TunOpen, BringUp
<1>1. CASE MainKeys
  BY <1>1 DEF MainKeys
<1>2. CASE InitStage
  <2>1. stage \in 1 .. 8 /\ open = OpenBefore(stage) /\ (stage >= 6 => use_tun)
    BY <1>2 DEF InitStage
  <2>2. Len(InitStages) = 8 /\ TunOpen - 1 = 5
    BY DEF InitStages
  <2>3. open' = OpenBefore(stage + 1)
    BY <1>2, <2>1 DEF InitStage, InitStages, OpenBefore
  <2> DEFINE last == stage = 8 \/ (stage = 5 /\ ~use_tun)
  <2>4. main' = (IF last THEN "run" ELSE "init") /\ (~last => ~initialized')
    BY <1>2, <2>2, Zenon DEF InitStage
  <2>5. UNCHANGED <<use_tun, stopped, running, worker>> /\ stage' = stage + 1
    BY <1>2 DEF InitStage
  <2>6. ~stopped /\ ~running /\ worker = "none"
    BY <1>2 DEF InitStage
  <2>7. CASE last
    <3>1. open' = IF use_tun THEN {"socket", "poller", "tun"} ELSE {"socket", "poller"}
      BY <2>1, <2>3, <2>7 DEF OpenBefore
    <3> QED BY <2>4, <2>5, <2>6, <2>7, <3>1
  <2>8. CASE ~last
    <3>1. stage # 8 /\ (stage = 5 => use_tun)
      BY <2>8
    <3>2. stage' \in 1 .. 8 /\ (stage' >= 6 => stage = 5 \/ stage >= 6)
      BY <2>1, <2>5, <3>1
    <3>3. stage' >= 6 => use_tun'
      BY <2>1, <2>5, <3>1, <3>2
    <3> QED BY <2>3, <2>4, <2>5, <2>6, <2>8, <3>2, <3>3
  <2> QED BY <2>7, <2>8
<1>3. CASE InitStageFails
  <2>1. open' = {}
    BY <1>3 DEF InitStageFails, OpenBefore, Cleaned
  <2> QED BY <1>3, <2>1 DEF InitStageFails
<1>4. CASE InitWithoutTun
  <2>1. open' = {"socket", "poller"}
    BY <1>4 DEF InitWithoutTun, OpenBefore
  <2> QED BY <1>4, <2>1 DEF InitWithoutTun
<1>5. CASE Run
  BY <1>5 DEF Run
<1>6. CASE StopStore
  BY <1>6 DEF StopStore
<1>7. CASE Join
  BY <1>7 DEF Join
<1>8. CASE Cleanup
  <2>1. open' = {}
    BY <1>8 DEF Cleanup, Cleaned
  <2> QED BY <1>8, <2>1 DEF Cleanup
<1> QED BY <1>1, <1>2, <1>3, <1>4, <1>5, <1>6, <1>7, <1>8 DEF MainStep

\* The event loop exists only while the descriptors are open, and never sets
\* running_.
LEMMA LifeInvWorker == LifeInv /\ (WorkerStep \/ PollFails \/ PollHangup) => LifeInv'
<1> SUFFICES ASSUME LifeInv, WorkerStep \/ PollFails \/ PollHangup PROVE LifeInv'
  OBVIOUS
<1>1. worker \in InLoop /\ UNCHANGED <<open, use_tun, initialized, stopped, main, stage>>
  BY DEF WorkerStep, LoopTest, PollReturns, Handle, PollFails, PollHangup, InLoop
<1>2. running' = running \/ ~running'
  BY DEF WorkerStep, LoopTest, PollReturns, Handle, PollFails, PollHangup
<1>3. main \in {"running", "store", "join"}
  BY <1>1 DEF LifeInv, BeforeRun, WhileInitialized, InLoop
<1> QED BY <1>1, <1>2, <1>3 DEF LifeInv, BeforeRun, WhileInitialized

LEMMA LifeInvNext == LifeInv /\ [Next]_vars => LifeInv'
<1> SUFFICES ASSUME LifeInv, [Next]_vars PROVE LifeInv'
  OBVIOUS
<1> USE DEF LifeInv, BeforeRun, WhileInitialized
<1>1. CASE InitBegin
  BY <1>1 DEF InitBegin, OpenBefore, TunOpen
<1>2. CASE Quit
  BY <1>2 DEF Quit
<1>3. CASE Restart
  BY <1>3 DEF Restart
<1>4. CASE UNCHANGED <<open, use_tun, initialized, stopped, running, main, stage, worker>>
  BY <1>4 DEF OpenBefore
<1> QED BY <1>1, <1>2, <1>3, <1>4, LifeInvMain, LifeInvWorker DEF Next, vars

LEMMA LifeInvAlways == Spec => []LifeInv
BY LifeInvInit, LifeInvNext, PTL DEF Spec

\* However often the server was started before, and at whichever stage an Init
\* failed: the next one finds nothing open and no flag set.
THEOREM CleanRestart == Spec => []RestartClean
<1>1. LifeInv => RestartClean
  BY DEF LifeInv, BeforeRun, RestartClean
<1> QED BY <1>1, LifeInvAlways, PTL

\* The event loop never uses a descriptor that CleanupResources has closed.
THEOREM LoopOwns == Spec => []LoopOwnsDescriptors
<1>1. LifeInv => LoopOwnsDescriptors
  BY DEF LifeInv, BeforeRun, WhileInitialized, LoopOwnsDescriptors, InLoop
<1> QED BY <1>1, LifeInvAlways, PTL
=============================================================================
