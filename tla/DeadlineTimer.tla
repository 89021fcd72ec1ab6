--------------------------- MODULE DeadlineTimer ----------------------------
(***************************************************************************)
(* core/handshake/handshake_timer.hpp, class DeadlineTimer: a single-shot  *)
(* timer with a thread of its own.  The callers (the event loop, other     *)
(* threads, the callback itself) Arm and Disarm it; the loop thread waits  *)
(* on the condition variable and runs the callback; the owner destroys it. *)
(* Every action is one critical section of mutex_, or one step outside it. *)
(***************************************************************************)
EXTENDS Naturals, Sequences

CONSTANTS
    Caller,     \* threads that call Arm and Disarm
    MaxTime,    \* bound on the steady clock
    MaxArms     \* bound on the number of Arm calls

ASSUME TimerAssumption == MaxTime \in Nat /\ MaxArms \in Nat

VARIABLES
    now,            \* Clock::now()
    armed,          \* armed_
    deadline,       \* deadline_
    stop,           \* stop_
    pc,             \* per caller: "idle", or "notify" between the critical
                    \* section of Arm and its notify_all
    life,           \* "alive"; in the destructor "stopping" (stop_ set) and
                    \* "joining"; "gone" when the destructor has returned
    loop,           \* where the loop thread is
    waiting_for,    \* the loop thread's local copy of deadline_
    notified,       \* a notify_all reached the waiting loop thread
    due,            \* the deadlines of the Arm calls so far, in their order
    expiring,       \* the Arm call whose expiry the loop thread serves
    disarmed,       \* Arm calls that a Disarm found armed
    cancelled,      \* Arm calls that were followed by a Disarm that returned
                    \* before their callback had started
    ran             \* Arm calls whose callback was started, in order

vars == <<now, armed, deadline, stop, pc, life, loop, waiting_for, notified,
          due, expiring, disarmed, cancelled, ran>>

\* The number of Arm calls so far; names the latest one.
arms == Len(due)

Waiting == {"wait", "wait_until"}

Init ==
    /\ now = 0
    /\ armed = FALSE
    /\ deadline = 0
    /\ stop = FALSE
    /\ pc = [t \in Caller |-> "idle"]
    /\ life = "alive"
    /\ loop = "top"
    /\ waiting_for = 0
    /\ notified = FALSE
    /\ due = <<>>
    /\ expiring = 0
    /\ disarmed = {}
    /\ cancelled = {}
    /\ ran = <<>>

Started(a) == \E i \in 1 .. Len(ran) : ran[i] = a

\* Time passes.
Tick ==
    /\ now < MaxTime
    /\ now' = now + 1
    /\ UNCHANGED <<armed, deadline, stop, pc, life, loop, waiting_for,
                   notified, due, expiring, disarmed, cancelled, ran>>

\* The critical section of Arm(timeout).
SetArmed(timeout) ==
    /\ arms < MaxArms
    /\ now + timeout <= MaxTime
    /\ armed' = TRUE
    /\ deadline' = now + timeout
    /\ due' = Append(due, now + timeout)

\* cv_.notify_all: wakes the loop thread if it waits, and is lost otherwise.
NotifyAll == notified' = (notified \/ loop \in Waiting)

Arm(t, timeout) ==
    /\ life = "alive"
    /\ pc[t] = "idle"
    /\ SetArmed(timeout)
    /\ pc' = [pc EXCEPT ![t] = "notify"]
    /\ UNCHANGED <<now, stop, life, loop, waiting_for, notified, expiring,
                   disarmed, cancelled, ran>>

\* A slip in Arm: no notify_all after the critical section.
ArmForgetsNotify(t) ==
    /\ pc[t] = "notify"
    /\ pc' = [pc EXCEPT ![t] = "idle"]
    /\ UNCHANGED <<now, armed, deadline, stop, life, loop, waiting_for,
                   notified, due, expiring, disarmed, cancelled, ran>>

\* The notify_all at the end of Arm, outside the lock.
ArmNotify(t) ==
    /\ pc[t] = "notify"
    /\ pc' = [pc EXCEPT ![t] = "idle"]
    /\ NotifyAll
    /\ UNCHANGED <<now, armed, deadline, stop, life, loop, waiting_for, due,
                   expiring, disarmed, cancelled, ran>>

\* Disarm: one critical section, no notification.
Disarm(t) ==
    /\ life = "alive"
    /\ pc[t] = "idle"
    /\ armed' = FALSE
    /\ disarmed' = IF armed THEN disarmed \cup {arms} ELSE disarmed
    /\ cancelled' = cancelled \cup {a \in 1 .. arms : ~Started(a)}
    /\ UNCHANGED <<now, deadline, stop, pc, life, loop, waiting_for,
                   notified, due, expiring, ran>>

-----------------------------------------------------------------------------
\* A slip in Loop: armed_ is not looked at again after the wait.
WokenEarlyThoughDisarmed == stop \/ deadline # waiting_for

\* The predicate of cv_.wait_until; Loop tests its last two parts once more
\* after the wait, under the same lock.
WokenEarly == stop \/ ~armed \/ deadline # waiting_for

\* Loop: from the test of the while condition to the next wait, under the
\* lock all the way.
LoopTop ==
    /\ loop = "top"
    /\ loop' = IF stop THEN "done" ELSE IF armed THEN "wait_until" ELSE "wait"
    /\ waiting_for' = IF ~stop /\ armed THEN deadline ELSE waiting_for
    /\ UNCHANGED <<now, armed, deadline, stop, pc, life, notified, due,
                   expiring, disarmed, cancelled, ran>>

\* The predicate of the wait the loop thread is in.
WaitOver ==
    \/ loop = "wait" /\ (armed \/ stop)
    \/ loop = "wait_until" /\ WokenEarly

\* The loop thread wakes up in cv_.wait or cv_.wait_until, because of a
\* notification or spuriously, and goes on if the predicate holds.
Wake ==
    /\ loop \in Waiting
    /\ loop' = IF WaitOver THEN "top" ELSE loop
    /\ notified' = FALSE
    /\ UNCHANGED <<now, armed, deadline, stop, pc, life, waiting_for, due,
                   expiring, disarmed, cancelled, ran>>

\* cv_.wait_until times out, and the predicate, tested once more under the
\* lock, holds: woken_early.
TimeOutMoot ==
    /\ loop = "wait_until"
    /\ now >= waiting_for
    /\ WokenEarly
    /\ loop' = "top"
    /\ notified' = FALSE
    /\ UNCHANGED <<now, armed, deadline, stop, pc, life, waiting_for, due,
                   expiring, disarmed, cancelled, ran>>

\* A slip in Loop: deadline_ is not compared with the deadline waited for.
ExpireStale ==
    /\ loop = "wait_until"
    /\ now >= waiting_for
    /\ ~stop /\ armed
    /\ armed' = FALSE
    /\ expiring' = arms
    /\ loop' = "unlocked"
    /\ notified' = FALSE
    /\ UNCHANGED <<now, deadline, stop, pc, life, waiting_for, due,
                   disarmed, cancelled, ran>>

\* A slip in Loop: armed_ stays set when the callback is due.
ExpireStillArmed ==
    /\ loop = "wait_until"
    /\ now >= waiting_for
    /\ ~WokenEarly
    /\ expiring' = arms
    /\ loop' = "unlocked"
    /\ notified' = FALSE
    /\ UNCHANGED <<now, armed, deadline, stop, pc, life, waiting_for, due,
                   disarmed, cancelled, ran>>

\* cv_.wait_until times out with the predicate false: armed_ is cleared and
\* the lock is released for the callback.
Expire ==
    /\ loop = "wait_until"
    /\ now >= waiting_for
    /\ ~WokenEarly
    /\ armed' = FALSE
    /\ expiring' = arms
    /\ loop' = "unlocked"
    /\ notified' = FALSE
    /\ UNCHANGED <<now, deadline, stop, pc, life, waiting_for, due,
                   disarmed, cancelled, ran>>

\* callback_() begins, with no lock held.
CallbackStart ==
    /\ loop = "unlocked"
    /\ loop' = "callback"
    /\ ran' = Append(ran, expiring)
    /\ UNCHANGED <<now, armed, deadline, stop, pc, life, waiting_for,
                   notified, due, expiring, disarmed, cancelled>>

\* The callback arms the timer again, as a retransmission does.
CallbackArm(timeout) ==
    /\ loop = "callback"
    /\ SetArmed(timeout)
    /\ UNCHANGED <<now, stop, pc, life, loop, waiting_for, notified,
                   expiring, disarmed, cancelled, ran>>

\* callback_() returns and the loop thread takes the lock again.
CallbackReturn ==
    /\ loop = "callback"
    /\ loop' = "top"
    /\ UNCHANGED <<now, armed, deadline, stop, pc, life, waiting_for,
                   notified, due, expiring, disarmed, cancelled, ran>>

-----------------------------------------------------------------------------
\* ~DeadlineTimer: no caller is inside the object any more.
DestroyStop ==
    /\ life = "alive"
    /\ \A t \in Caller : pc[t] = "idle"
    /\ life' = "stopping"
    /\ stop' = TRUE
    /\ UNCHANGED <<now, armed, deadline, pc, loop, waiting_for, notified,
                   due, expiring, disarmed, cancelled, ran>>

\* A slip in the destructor: no notify_all before the join.
DestroyForgetsNotify ==
    /\ life = "stopping"
    /\ life' = "joining"
    /\ UNCHANGED <<now, armed, deadline, stop, pc, loop, waiting_for,
                   notified, due, expiring, disarmed, cancelled, ran>>

DestroyNotify ==
    /\ life = "stopping"
    /\ life' = "joining"
    /\ NotifyAll
    /\ UNCHANGED <<now, armed, deadline, stop, pc, loop, waiting_for, due,
                   expiring, disarmed, cancelled, ran>>

DestroyJoin ==
    /\ life = "joining"
    /\ loop = "done"
    /\ life' = "gone"
    /\ UNCHANGED <<now, armed, deadline, stop, pc, loop, waiting_for,
                   notified, due, expiring, disarmed, cancelled, ran>>

LoopStep == LoopTop \/ TimeOutMoot \/ Expire \/ CallbackStart \/ CallbackReturn

CallerStep ==
    \E t \in Caller :
        \/ \E timeout \in 0 .. MaxTime : Arm(t, timeout)
        \/ ArmNotify(t)
        \/ Disarm(t)

Next ==
    \/ Tick
    \/ CallerStep
    \/ LoopStep
    \/ Wake
    \/ \E timeout \in 0 .. MaxTime : CallbackArm(timeout)
    \/ DestroyStop \/ DestroyNotify \/ DestroyJoin

Spec == Init /\ [][Next]_vars

\* The operating system schedules every thread that can run, delivers
\* notifications, and the clock advances; callbacks return.  Nobody is
\* obliged to Arm, Disarm or destroy, and spurious wake-ups are not owed.
Fairness ==
    /\ WF_vars(Tick)
    /\ WF_vars(LoopTop) /\ WF_vars(TimeOutMoot) /\ WF_vars(Expire)
    /\ WF_vars(CallbackStart) /\ WF_vars(CallbackReturn)
    /\ WF_vars(notified /\ Wake)
    /\ \A t \in Caller : WF_vars(ArmNotify(t))
    /\ WF_vars(DestroyNotify) /\ WF_vars(DestroyJoin)

FairSpec == Spec /\ Fairness

-----------------------------------------------------------------------------
\* Single shot, in order: every Arm call starts the callback at most once,
\* and never after the callback of a later Arm call ("Callback fires exactly
\* once" in tests/handshake_timer_tests.hpp).
SingleShot ==
    \A i, j \in 1 .. Len(ran) : i < j => ran[i] < ran[j]

\* The callback that is started for an Arm call is started when the deadline
\* of that very call has passed, although Arm moves deadline_ while the loop
\* thread waits for a copy of it ("Re-arming must restart the countdown").
NeverEarly ==
    [][\A a \in 1 .. arms : ran' = Append(ran, a) => now >= due[a]]_vars

\* A Disarm that finds the timer armed is final: the Arm call it withdraws never
\* starts its callback, wherever the loop thread is in its wait.  What a Disarm
\* cannot withdraw is a call whose expiry the loop thread has taken.
DisarmedNeverRuns == \A i \in 1 .. Len(ran) : ran[i] \notin disarmed

\* An armed timer runs its callback, unless it is armed again, disarmed or
\* destroyed: no notification is lost between Arm's critical section and the
\* loop thread's wait.
ArmedFires ==
    \A a \in 1 .. MaxArms :
        (armed /\ arms = a) ~> (Started(a) \/ arms > a \/ a \in cancelled \/ stop)

\* The destructor returns: the join never waits for a thread asleep in
\* cv_.wait, whatever the timer was doing.
DestroyTerminates == life = "stopping" ~> life = "gone"

\* What handshake_timer.hpp and its test say of Disarm: it "must prevent the
\* callback".  A callback never starts for an Arm call that was cancelled by
\* a Disarm that had returned before.
DisarmPreventsCallback ==
    [][~\E a \in cancelled : ran' = Append(ran, a)]_vars
=============================================================================
