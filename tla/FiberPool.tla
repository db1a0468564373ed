----------------------------- MODULE FiberPool -----------------------------
(***************************************************************************)
(* What bifang's schedulers promise to the code that uses them, without    *)
(* queue, threads, counters or locks (src/src/scheduler.h: schedule, stop):*)
(*                                                                         *)
(*  - a task runs only after a wake-up asked for it, and each wake-up lets *)
(*    it run once, from where it suspended itself to its next suspension;  *)
(*  - it is never run by two threads at once, and not after its end;       *)
(*  - the pool closes only when no wake-up is undelivered and no task      *)
(*    runs, and a closed pool stays so.                                    *)
(***************************************************************************)
CONSTANT Tasks

VARIABLES
    phase,   \* "new", "running", "suspended" or "ended", for every task
    woken,   \* the tasks with an undelivered wake-up
    closed

poolVars == <<phase, woken, closed>>

PoolTypeOK ==
    /\ phase \in [Tasks -> {"new", "running", "suspended", "ended"}]
    /\ woken \subseteq Tasks
    /\ closed \in BOOLEAN

PoolInit ==
    /\ phase = [t \in Tasks |-> "new"]
    /\ woken = {}
    /\ closed = FALSE

(* schedule(t); t may be running: it then runs again after it suspends.    *)
Wake(t) ==
    /\ ~ closed
    /\ t \notin woken
    /\ woken' = woken \cup {t}
    /\ UNCHANGED <<phase, closed>>

(* A thread switches to t.                                                 *)
Resume(t) ==
    /\ ~ closed
    /\ t \in woken
    /\ phase[t] \in {"new", "suspended"}
    /\ phase' = [phase EXCEPT ![t] = "running"]
    /\ woken' = woken \ {t}
    /\ UNCHANGED closed

(* The wake-up of a task that has ended goes nowhere.                      *)
Discard(t) ==
    /\ ~ closed
    /\ t \in woken
    /\ phase[t] = "ended"
    /\ woken' = woken \ {t}
    /\ UNCHANGED <<phase, closed>>

Suspend(t) ==
    /\ phase[t] = "running"
    /\ phase' = [phase EXCEPT ![t] = "suspended"]
    /\ UNCHANGED <<woken, closed>>

(* A task with a wake-up outstanding suspends itself before it ends.       *)
End(t) ==
    /\ phase[t] = "running"
    /\ t \notin woken
    /\ phase' = [phase EXCEPT ![t] = "ended"]
    /\ UNCHANGED <<woken, closed>>

Close ==
    /\ ~ closed
    /\ woken = {}
    /\ \A t \in Tasks : phase[t] # "running"
    /\ closed' = TRUE
    /\ UNCHANGED <<phase, woken>>

PoolNext ==
    \/ \E t \in Tasks : Wake(t) \/ Resume(t) \/ Discard(t) \/ Suspend(t) \/ End(t)
    \/ Close

PoolSpec == PoolInit /\ [][PoolNext]_poolVars
=============================================================================
