-------------------------- MODULE MCDeadlineTimer ---------------------------
(***************************************************************************)
(* TLC instance of DeadlineTimer: two callers, so that one can arm or      *)
(* disarm between the critical section and the notification of the other.  *)
(***************************************************************************)
EXTENDS DeadlineTimer
=============================================================================
