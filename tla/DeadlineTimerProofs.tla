------------------------ MODULE DeadlineTimerProofs -------------------------
(***************************************************************************)
(* Proofs about DeadlineTimer: for any callers, any number of Arm calls    *)
(* and any deadlines, callbacks are single-shot and in order, none starts  *)
(* before its own deadline, and none after a Disarm in time.               *)
(***************************************************************************)
EXTENDS DeadlineTimer, TLAPS

Ran == 1 .. Len(ran)

\* The Arm call that an expiry serves is later than all whose callback was
\* started, and one that is armed now is later still: the loop thread clears
\* armed_ in the critical section in which it takes the expiry.
Ordered ==
    /\ \A i \in Ran : ran[i] <= arms
    /\ armed => \A i \in Ran : ran[i] < arms
    /\ loop = "unlocked" =>
          /\ expiring <= arms
          /\ armed => expiring < arms
          /\ \A i \in Ran : ran[i] < expiring

TimerInv ==
    /\ due \in Seq(Nat)
    /\ expiring \in Nat
    /\ ran \in Seq(Nat)
    /\ SingleShot
    /\ Ordered

\* deadline_ is that of the latest call while armed_ is set, and the expiry that
\* the loop thread has taken is due.
Punctual ==
    /\ now \in Nat
    /\ armed => arms > 0 /\ deadline = due[arms]
    /\ loop = "unlocked" => expiring \in 1 .. arms /\ now >= due[expiring]

\* No call that a Disarm found armed is armed, taken or served.
Final ==
    /\ disarmed \subseteq 1 .. arms
    /\ armed => arms \notin disarmed
    /\ loop = "unlocked" => expiring \notin disarmed
    /\ DisarmedNeverRuns

LEMMA TimerInvInit == Init => TimerInv
BY DEF Init, TimerInv, SingleShot, Ordered, Ran, arms

\* Arm makes a later call than all before it.
LEMMA TimerInvArm ==
    ASSUME TimerInv, now \in Nat, NEW timeout \in 0 .. MaxTime, SetArmed(timeout),
           UNCHANGED <<loop, expiring, ran>>
    PROVE  TimerInv' /\ arms' = arms + 1 /\ arms \in Nat
           /\ due'[arms'] = deadline' /\ (\A a \in 1 .. arms : due'[a] = due[a])
<1>1. /\ arms' = arms + 1 /\ arms \in Nat /\ due' \in Seq(Nat)
      /\ due'[arms'] = deadline' /\ \A a \in 1 .. arms : due'[a] = due[a]
  BY TimerAssumption DEF SetArmed, TimerInv, arms
<1>2. \A i \in Ran : ran[i] \in Nat
  BY DEF TimerInv, Ran
<1>3. SingleShot'
  BY DEF TimerInv, SingleShot
<1>4. \A i \in Ran : ran[i] <= arms /\ ran[i] < arms'
  BY <1>1, <1>2 DEF TimerInv, Ordered
<1>5. loop = "unlocked" =>
        expiring <= arms' /\ expiring < arms' /\ \A i \in Ran : ran[i] < expiring
  BY <1>1 DEF TimerInv, Ordered
<1>6. Ordered'
  BY <1>1, <1>2, <1>4, <1>5 DEF Ordered, Ran
<1> QED BY <1>1, <1>3, <1>6 DEF TimerInv

\* The loop thread takes the expiry of the latest call.
LEMMA TimerInvExpire == TimerInv /\ Expire => TimerInv'
<1> SUFFICES ASSUME TimerInv, Expire PROVE TimerInv'
  OBVIOUS
<1>1. SingleShot'
  BY DEF TimerInv, SingleShot, Expire
<1>2. Ordered'
  BY DEF TimerInv, Ordered, Ran, Expire, WokenEarly, arms
<1> QED BY <1>1, <1>2 DEF TimerInv, Expire, arms

\* The callback that starts is that of a later call than all before it.
LEMMA TimerInvCallback == TimerInv /\ CallbackStart => TimerInv'
<1> SUFFICES ASSUME TimerInv, CallbackStart PROVE TimerInv'
  OBVIOUS
<1>1. /\ ran' = Append(ran, expiring)
      /\ UNCHANGED <<due, arms, armed, expiring>>
      /\ loop = "unlocked" /\ loop' = "callback"
  BY DEF CallbackStart, arms
<1>2. ran \in Seq(Nat) /\ expiring \in Nat /\ arms \in Nat
  BY DEF TimerInv, arms
<1>3. /\ ran' \in Seq(Nat) /\ Len(ran') = Len(ran) + 1
      /\ \A i \in Ran : ran'[i] = ran[i] /\ ran[i] \in Nat
      /\ ran'[Len(ran) + 1] = expiring
  BY <1>1, <1>2 DEF Ran
<1>4. \A i \in Ran : ran[i] < expiring
  BY <1>1 DEF TimerInv, Ordered
<1>5. Len(ran) \in Nat
  BY <1>2
<1>6. ASSUME NEW i \in 1 .. Len(ran'), NEW j \in 1 .. Len(ran'), i < j
      PROVE  ran'[i] < ran'[j]
  <2>1. i \in Ran
    BY <1>3, <1>5, <1>6 DEF Ran
  <2>2. CASE j \in Ran
    BY <1>3, <1>6, <2>1, <2>2 DEF TimerInv, SingleShot, Ran
  <2>3. CASE j \notin Ran
    <3>1. j = Len(ran) + 1
      BY <1>3, <1>5, <2>3 DEF Ran
    <3> QED BY <1>3, <1>4, <2>1, <3>1
  <2> QED BY <2>2, <2>3
<1>7. SingleShot'
  BY <1>6 DEF SingleShot
<1>8. \A i \in Ran' : i \in Ran \/ i = Len(ran) + 1
  BY <1>3, <1>5 DEF Ran
<1>9. expiring <= arms /\ (armed => expiring < arms)
  BY <1>1 DEF TimerInv, Ordered
<1>10. \A i \in Ran' : ran'[i] <= arms /\ (armed => ran'[i] < arms)
  BY <1>2, <1>3, <1>8, <1>9 DEF TimerInv, Ordered
<1>11. Ordered'
  BY <1>1, <1>10 DEF Ordered
<1> QED BY <1>1, <1>2, <1>3, <1>7, <1>11 DEF TimerInv

\* A step that neither arms, disarms, expires nor starts a callback.
Aside ==
    /\ UNCHANGED <<armed, deadline, due, expiring, disarmed, ran>>
    /\ loop' = "unlocked" => loop = "unlocked"
    /\ now' = now \/ now' = now + 1

Armed(timeout) == SetArmed(timeout) /\ UNCHANGED <<now, loop, expiring, disarmed, ran>>

\* What a step may do to the timer.
LEMMA Steps ==
    ASSUME [Next]_vars
    PROVE  \/ \E timeout \in 0 .. MaxTime : Armed(timeout)
           \/ \E t \in Caller : Disarm(t)
           \/ Expire
           \/ CallbackStart
           \/ Aside
<1>1. CASE CallerStep
  BY <1>1 DEF CallerStep, Arm, ArmNotify, Armed, Aside
<1>2. CASE LoopStep
  BY <1>2 DEF LoopStep, LoopTop, TimeOutMoot, CallbackReturn, Aside
<1>3. CASE Tick \/ Wake \/ DestroyStop \/ DestroyNotify \/ DestroyJoin \/ UNCHANGED vars
  BY <1>3 DEF Tick, Wake, DestroyStop, DestroyNotify, DestroyJoin, vars, Aside
<1>4. ASSUME NEW timeout \in 0 .. MaxTime, CallbackArm(timeout) PROVE Armed(timeout)
  BY <1>4 DEF CallbackArm, Armed
<1> QED BY <1>1, <1>2, <1>3, <1>4 DEF Next

LEMMA TimerInvNext == TimerInv /\ Punctual /\ [Next]_vars => TimerInv'
<1> SUFFICES ASSUME TimerInv, Punctual, [Next]_vars PROVE TimerInv'
  OBVIOUS
<1>1. ASSUME NEW timeout \in 0 .. MaxTime, Armed(timeout) PROVE TimerInv'
  BY <1>1, TimerInvArm DEF Armed, Punctual
<1>2. ASSUME NEW t \in Caller, Disarm(t) PROVE TimerInv'
  BY <1>2 DEF Disarm, TimerInv, SingleShot, Ordered, Ran, arms
<1>3. CASE Aside
  BY <1>3 DEF Aside, TimerInv, SingleShot, Ordered, Ran, arms
<1> QED BY <1>1, <1>2, <1>3, Steps, TimerInvExpire, TimerInvCallback

LEMMA PunctualNext == TimerInv /\ Punctual /\ [Next]_vars => Punctual'
<1> SUFFICES ASSUME TimerInv, Punctual, [Next]_vars PROVE Punctual'
  OBVIOUS
<1>1. ASSUME NEW timeout \in 0 .. MaxTime, Armed(timeout) PROVE Punctual'
  BY <1>1, TimerInvArm DEF Armed, Punctual
<1>2. ASSUME NEW t \in Caller, Disarm(t) PROVE Punctual'
  BY <1>2 DEF Disarm, Punctual, arms
<1>3. CASE Expire
  <2>1. now >= deadline /\ armed /\ expiring' = arms
    BY <1>3 DEF Expire, WokenEarly
  <2> QED BY <1>3, <2>1 DEF Expire, Punctual, TimerInv, arms
<1>4. CASE CallbackStart
  BY <1>4 DEF CallbackStart, Punctual, arms
<1>5. CASE Aside
  <2>1. loop' = "unlocked" => now >= due[expiring] /\ due[expiring] \in Nat
    BY <1>5 DEF Aside, Punctual, TimerInv, arms
  <2> QED BY <1>5, <2>1 DEF Aside, Punctual, arms
<1> QED BY <1>1, <1>2, <1>3, <1>4, <1>5, Steps

LEMMA FinalNext == TimerInv /\ Punctual /\ Final /\ [Next]_vars => Final'
<1> SUFFICES ASSUME TimerInv, Punctual, Final, [Next]_vars PROVE Final'
  OBVIOUS
<1>1. ASSUME NEW timeout \in 0 .. MaxTime, Armed(timeout) PROVE Final'
  BY <1>1, TimerInvArm DEF Armed, Punctual, Final, DisarmedNeverRuns
<1>2. ASSUME NEW t \in Caller, Disarm(t) PROVE Final'
  <2>1. arms \in Nat
    BY DEF TimerInv, arms
  <2>2. armed => /\ arms \in 1 .. arms
                 /\ \A i \in Ran : ran[i] < arms
                 /\ loop = "unlocked" => expiring < arms
    BY <2>1 DEF Punctual, TimerInv, Ordered
  <2>3. disarmed' \subseteq disarmed \cup {arms} /\ (~armed => disarmed' = disarmed)
    BY <1>2 DEF Disarm
  <2>4. \A i \in Ran : ran[i] \in Nat
    BY DEF TimerInv, Ran
  <2>5. \A i \in Ran : ran[i] \notin disarmed'
    BY <2>1, <2>2, <2>3, <2>4 DEF Final, DisarmedNeverRuns, Ran
  <2>6. loop = "unlocked" => expiring \notin disarmed'
    BY <2>1, <2>2, <2>3 DEF Final, TimerInv
  <2> QED BY <1>2, <2>2, <2>3, <2>5, <2>6 DEF Disarm, Final, DisarmedNeverRuns, Ran, arms
<1>3. CASE Expire
  BY <1>3 DEF Expire, WokenEarly, Final, DisarmedNeverRuns, arms
<1>4. CASE CallbackStart
  <2>1. /\ ran' = Append(ran, expiring) /\ expiring \notin disarmed
        /\ UNCHANGED <<disarmed, due, armed>> /\ loop' = "callback"
    BY <1>4 DEF CallbackStart, Final
  <2>2. \A i \in 1 .. Len(ran') : ran'[i] = expiring \/ \E j \in Ran : ran'[i] = ran[j]
    BY <2>1 DEF TimerInv, Ran
  <2>3. DisarmedNeverRuns'
    BY <2>1, <2>2 DEF Final, DisarmedNeverRuns, Ran
  <2> QED BY <2>1, <2>3 DEF Final, arms
<1>5. CASE Aside
  BY <1>5 DEF Aside, Final, DisarmedNeverRuns, arms
<1> QED BY <1>1, <1>2, <1>3, <1>4, <1>5, Steps

IInv == TimerInv /\ Punctual /\ Final

LEMMA IInvAlways == Spec => []IInv
<1>1. Init => IInv
  BY TimerInvInit DEF Init, IInv, Punctual, Final, DisarmedNeverRuns, arms
<1>2. IInv /\ [Next]_vars => IInv'
  BY TimerInvNext, PunctualNext, FinalNext DEF IInv
<1> QED BY <1>1, <1>2, PTL DEF Spec

\* An Arm call never starts its callback twice, nor after the callback of a
\* later call, whoever arms, re-arms and disarms meanwhile.
THEOREM SingleShotAlways == Spec => []SingleShot
<1>1. IInv => SingleShot
  BY DEF IInv, TimerInv
<1> QED BY <1>1, IInvAlways, PTL

\* The callback of an Arm call starts when its own deadline has passed: the
\* predicate compares deadline_ with the copy that was waited for, and the expiry
\* is taken in the critical section in which they were found equal.
THEOREM NotEarly == Spec => NeverEarly
<1>1. IInv /\ [Next]_vars =>
        [\A a \in 1 .. arms : ran' = Append(ran, a) => now >= due[a]]_vars
  <2> SUFFICES ASSUME IInv, [Next]_vars, NEW a \in 1 .. arms, ran' = Append(ran, a)
               PROVE  now >= due[a]
    OBVIOUS
  <2>1. ran \in Seq(Nat) /\ expiring \in Nat /\ a \in Nat
    BY DEF IInv, TimerInv, arms
  <2>2. Len(ran') = Len(ran) + 1 /\ Len(ran) \in Nat /\ ran'[Len(ran) + 1] = a
    BY <2>1
  <2>3. ran' # ran
    BY <2>2
  <2>4. CallbackStart
    BY <2>3, Steps DEF Armed, Disarm, Expire, Aside
  <2>5. expiring = a
    BY <2>1, <2>2, <2>4 DEF CallbackStart
  <2> QED BY <2>4, <2>5 DEF IInv, Punctual, CallbackStart
<1> QED BY <1>1, IInvAlways, PTL DEF Spec, NeverEarly

\* The call that a Disarm found armed never starts its callback: armed_ is false
\* from then on until another call sets it, and the loop thread takes an expiry
\* only while it is set.
THEOREM DisarmFinal == Spec => []DisarmedNeverRuns
<1>1. IInv => DisarmedNeverRuns
  BY DEF IInv, Final
<1> QED BY <1>1, IInvAlways, PTL
=============================================================================
