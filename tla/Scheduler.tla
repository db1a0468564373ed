----------------------------- MODULE Scheduler -----------------------------
(***************************************************************************)
(* The coroutine scheduler of bifang: src/src/scheduler.{h,cpp} with the   *)
(* part of src/src/fiber.cpp it drives (swapIn, yield, run).               *)
(*                                                                         *)
(* N threads execute Scheduler::run on one queue m_fibers.  A task is      *)
(* what a caller hands to schedule(): a Fiber::ptr or a plain callback,    *)
(* which run() wraps in a fiber of its own.  A thread takes the first      *)
(* queued task that is not executing, swaps it in until the task yields    *)
(* or ends, and then puts its state back to INIT.  With nothing to take it *)
(* runs its idle fiber, and it leaves run() when that fiber has ended,     *)
(* which happens once stopping() has answered true.                        *)
(*                                                                         *)
(* One action is one atomic step of the code: a critical section of        *)
(* m_mutex, one access of an atomic counter, or one write of a fiber's     *)
(* m_state.  The log-only tickle() of this class is left out (the          *)
(* overriding IOManager::tickle belongs to another module).                *)
(*                                                                         *)
(* Definitions whose comment starts with "Mutant" are faulty variants of   *)
(* the definition that follows them; no specification uses them.           *)
(***************************************************************************)
EXTENDS Integers, FiniteSets, SequencesExt

CONSTANTS
    Workers,    \* the threads start() creates
    Caller,     \* the thread that constructs, starts and stops the scheduler
    UseCaller,  \* the constructor's use_caller
    Tasks,      \* what is handed to schedule()
    Fibers,     \* the tasks handed over as Fiber::ptr, not as a callback
    MaxYields,  \* how often a task may suspend itself (a bound of the model)
    NoTask      \* an empty FiberOrCb

(* Scheduler::Scheduler asserts threadCount > 0, caller included.          *)
ASSUME SchedulerAssumption ==
    /\ IsFiniteSet(Workers)
    /\ Caller \notin Workers
    /\ UseCaller \in BOOLEAN
    /\ Workers # {} \/ UseCaller
    /\ Fibers \subseteq Tasks
    /\ NoTask \notin Tasks
    /\ MaxYields \in Nat

Threads == Workers \cup (IF UseCaller THEN {Caller} ELSE {})

VARIABLES
    fibers,             \* m_fibers
    state,              \* Fiber::m_state of every task
    armed,              \* tasks that gave someone the right to reschedule them
    yields,             \* how often each task has suspended itself
    pc,                 \* where each thread is in run()
    ft,                 \* run()'s local ft: the task the thread holds
    idleTerm,           \* the thread's idle fiber is TERM
    activeThreadCount,
    idleThreadCount,
    autoStop,           \* m_autoStop
    stopping,           \* m_stopping
    cpc                 \* where the constructing thread is in start()/stop()

taskVars   == <<fibers, state, armed, yields>>
threadVars == <<pc, ft, idleTerm, activeThreadCount, idleThreadCount>>
stopVars   == <<autoStop, stopping, cpc>>
vars       == <<taskVars, threadVars, stopVars>>

ThreadPc == {"off", "scan", "none", "idle", "idleout", "got",
             "run", "swapped", "settle", "exit"}
CallerPc == {"new", "up", "raise", "check", "called", "join", "done"}

(***************************************************************************)
(* Helpers                                                                 *)
(***************************************************************************)
Queued == ToSet(fibers)

Active   == {"got", "run", "swapped"}     \* between ++ and -- of the counter
OnFiber  == {"run", "swapped", "settle"}  \* from m_state = EXEC to its reset
Holding  == Active \cup OnFiber

(* Mutant: stopping() looks at the queue only.                             *)
StoppingByQueue == autoStop /\ stopping /\ fibers = <<>>

(* stopping(), evaluated under m_mutex.                                    *)
Stopping == autoStop /\ stopping /\ fibers = <<>> /\ activeThreadCount = 0

(* The scan of m_fibers passes over fibers that are executing.             *)
Executing(t) == state[t] = "EXEC"

(* Mutant: the scan takes the head of the queue whatever its state.        *)
IsHead(i) == i = 1

IsFirstIdle(i) == ~ Executing(fibers[i]) /\ \A j \in 1 .. i - 1 : Executing(fibers[j])

(* How the framework's own callers use schedule(): a task is handed over   *)
(* once; afterwards only the single party it armed before yielding (a      *)
(* timer, an IOContext, a peer) reschedules it, once per yield.  A         *)
(* finished Fiber::ptr may be handed over again.                           *)
Held(t)  == \E th \in Threads : pc[th] = "got" /\ ft[th] = t
Fresh(t) == state[t] = "INIT" /\ yields[t] = 0
CanSchedule(t) ==
    /\ t \notin Queued
    /\ ~ Held(t)
    /\ \/ Fresh(t)
       \/ t \in armed
       \/ t \in Fibers /\ state[t] = "TERM"

-----------------------------------------------------------------------------
Init ==
    /\ fibers = <<>>
    /\ state = [t \in Tasks |-> "INIT"]
    /\ armed = {}
    /\ yields = [t \in Tasks |-> 0]
    /\ pc = [th \in Threads |-> "off"]
    /\ ft = [th \in Threads |-> NoTask]
    /\ idleTerm = [th \in Threads |-> FALSE]
    /\ activeThreadCount = 0
    /\ idleThreadCount = 0
    /\ autoStop = FALSE
    /\ stopping = TRUE
    /\ cpc = "new"

(* Mutant: schedule() takes an executing fiber for one that needs no push. *)
scheduleUnlessExecuting(t) ==
    /\ CanSchedule(t)
    /\ fibers' = IF Executing(t) THEN fibers ELSE Append(fibers, t)
    /\ armed' = armed \ {t}
    /\ UNCHANGED <<state, yields>>

(***************************************************************************)
(* schedule(): the push is one critical section.                           *)
(***************************************************************************)
schedule(t) ==
    /\ CanSchedule(t)
    /\ fibers' = Append(fibers, t)
    /\ armed' = armed \ {t}
    /\ UNCHANGED <<state, yields>>

(* The constructing thread may schedule before start() and up to stop().   *)
CallerSchedule(t) ==
    /\ cpc \in {"new", "up"}
    /\ schedule(t)
    /\ UNCHANGED <<threadVars, stopVars>>

-----------------------------------------------------------------------------
(***************************************************************************)
(* Scheduler::run                                                          *)
(***************************************************************************)

(* Take the first task that is not executing, and count the thread active. *)
Pick(th) ==
    /\ pc[th] = "scan"
    /\ \E i \in DOMAIN fibers :
        /\ IsFirstIdle(i)
        /\ ft' = [ft EXCEPT ![th] = fibers[i]]
        /\ fibers' = RemoveAt(fibers, i)
    /\ activeThreadCount' = activeThreadCount + 1
    /\ pc' = [pc EXCEPT ![th] = "got"]
    /\ UNCHANGED <<state, armed, yields, idleTerm, idleThreadCount, stopVars>>

PickNone(th) ==
    /\ pc[th] = "scan"
    /\ \A t \in Queued : Executing(t)
    /\ pc' = [pc EXCEPT ![th] = "none"]
    /\ UNCHANGED <<taskVars, ft, idleTerm, activeThreadCount, idleThreadCount, stopVars>>

(* Mutant: run() does not ask whether the fiber has ended.                 *)
SwapInEnded(th) ==
    /\ pc[th] = "got"
    /\ state' = [state EXCEPT ![ft[th]] = "EXEC"]
    /\ pc' = [pc EXCEPT ![th] = "run"]
    /\ UNCHANGED <<fibers, armed, yields, ft, idleTerm, activeThreadCount,
                   idleThreadCount, stopVars>>

(* Fiber::swapIn up to the switch of the stack.                            *)
SwapIn(th) ==
    /\ pc[th] = "got"
    /\ state[ft[th]] # "TERM"
    /\ state' = [state EXCEPT ![ft[th]] = "EXEC"]
    /\ pc' = [pc EXCEPT ![th] = "run"]
    /\ UNCHANGED <<fibers, armed, yields, ft, idleTerm, activeThreadCount,
                   idleThreadCount, stopVars>>

(* Mutant: continue without the --.                                        *)
SkipTermCounted(th) ==
    /\ pc[th] = "got"
    /\ state[ft[th]] = "TERM"
    /\ pc' = [pc EXCEPT ![th] = "scan"]
    /\ ft' = [ft EXCEPT ![th] = NoTask]
    /\ UNCHANGED <<taskVars, idleTerm, activeThreadCount, idleThreadCount, stopVars>>

(* A finished fiber was in the queue: is_active, so -- and continue.       *)
SkipTerm(th) ==
    /\ pc[th] = "got"
    /\ state[ft[th]] = "TERM"
    /\ activeThreadCount' = activeThreadCount - 1
    /\ pc' = [pc EXCEPT ![th] = "scan"]
    /\ ft' = [ft EXCEPT ![th] = NoTask]
    /\ UNCHANGED <<taskVars, idleTerm, idleThreadCount, stopVars>>

(* Back in run(): m_activeThreadCount--.                                   *)
SwappedOut(th) ==
    /\ pc[th] = "swapped"
    /\ activeThreadCount' = activeThreadCount - 1
    /\ pc' = [pc EXCEPT ![th] = "settle"]
    /\ UNCHANGED <<taskVars, ft, idleTerm, idleThreadCount, stopVars>>

(* Mutant: the state of a suspended fiber is not reset.                    *)
SettleNoReset(th) ==
    /\ pc[th] = "settle"
    /\ pc' = [pc EXCEPT ![th] = "scan"]
    /\ ft' = [ft EXCEPT ![th] = NoTask]
    /\ UNCHANGED <<taskVars, idleTerm, activeThreadCount, idleThreadCount, stopVars>>

(* A fiber that has not ended becomes schedulable again.                   *)
Settle(th) ==
    /\ pc[th] = "settle"
    /\ state' = IF state[ft[th]] = "TERM" THEN state
                ELSE [state EXCEPT ![ft[th]] = "INIT"]
    /\ pc' = [pc EXCEPT ![th] = "scan"]
    /\ ft' = [ft EXCEPT ![th] = NoTask]
    /\ UNCHANGED <<fibers, armed, yields, idleTerm, activeThreadCount,
                   idleThreadCount, stopVars>>

(* Nothing to take: leave run() if the idle fiber has ended ...            *)
Exit(th) ==
    /\ pc[th] = "none"
    /\ idleTerm[th]
    /\ pc' = [pc EXCEPT ![th] = "exit"]
    /\ UNCHANGED <<taskVars, ft, idleTerm, activeThreadCount, idleThreadCount, stopVars>>

(* ... and otherwise swap it in.                                           *)
IdleIn(th) ==
    /\ pc[th] = "none"
    /\ ~ idleTerm[th]
    /\ idleThreadCount' = idleThreadCount + 1
    /\ pc' = [pc EXCEPT ![th] = "idle"]
    /\ UNCHANGED <<taskVars, ft, idleTerm, activeThreadCount, stopVars>>

(* Scheduler::idle: return when stopping(), otherwise yield.               *)
Idle(th) ==
    /\ pc[th] = "idle"
    /\ idleTerm' = [idleTerm EXCEPT ![th] = Stopping]
    /\ pc' = [pc EXCEPT ![th] = "idleout"]
    /\ UNCHANGED <<taskVars, ft, activeThreadCount, idleThreadCount, stopVars>>

(* Mutant: the idle counter is only ever raised.                           *)
IdleOutUncounted(th) ==
    /\ pc[th] = "idleout"
    /\ pc' = [pc EXCEPT ![th] = "scan"]
    /\ UNCHANGED <<taskVars, ft, idleTerm, activeThreadCount, idleThreadCount, stopVars>>

IdleOut(th) ==
    /\ pc[th] = "idleout"
    /\ idleThreadCount' = idleThreadCount - 1
    /\ pc' = [pc EXCEPT ![th] = "scan"]
    /\ UNCHANGED <<taskVars, ft, idleTerm, activeThreadCount, stopVars>>

-----------------------------------------------------------------------------
(***************************************************************************)
(* What a running task may do                                              *)
(***************************************************************************)

(* Call schedule(), for another task or for itself.                        *)
TaskSchedule(th, t) ==
    /\ pc[th] = "run"
    /\ schedule(t)
    /\ UNCHANGED <<threadVars, stopVars>>

(* Leave a wake-up behind before suspending: from here on the task can be  *)
(* rescheduled, by another thread too, while it is still executing.        *)
Arm(th) ==
    /\ pc[th] = "run"
    /\ yields[ft[th]] < MaxYields
    /\ ft[th] \notin armed \cup Queued
    /\ armed' = armed \cup {ft[th]}
    /\ yields' = [yields EXCEPT ![ft[th]] = @ + 1]
    /\ UNCHANGED <<fibers, state, threadVars, stopVars>>

(* Mutant: the fiber becomes schedulable before its stack is left.         *)
YieldInit(th) ==
    /\ pc[th] = "run"
    /\ ft[th] \in armed \cup Queued
    /\ state' = [state EXCEPT ![ft[th]] = "INIT"]
    /\ pc' = [pc EXCEPT ![th] = "swapped"]
    /\ UNCHANGED <<fibers, armed, yields, ft, idleTerm, activeThreadCount,
                   idleThreadCount, stopVars>>

(* Fiber::yield.                                                           *)
Yield(th) ==
    /\ pc[th] = "run"
    /\ ft[th] \in armed \cup Queued
    /\ pc' = [pc EXCEPT ![th] = "swapped"]
    /\ UNCHANGED <<taskVars, ft, idleTerm, activeThreadCount, idleThreadCount, stopVars>>

(* Fiber::run returns from m_cb, normally or by an exception.              *)
Finish(th) ==
    /\ pc[th] = "run"
    /\ ft[th] \notin armed \cup Queued
    /\ state' = [state EXCEPT ![ft[th]] = "TERM"]
    /\ pc' = [pc EXCEPT ![th] = "swapped"]
    /\ UNCHANGED <<fibers, armed, yields, ft, idleTerm, activeThreadCount,
                   idleThreadCount, stopVars>>

-----------------------------------------------------------------------------
(***************************************************************************)
(* start() and stop(), on the constructing thread                          *)
(***************************************************************************)
start ==
    /\ cpc = "new"
    /\ stopping' = FALSE
    /\ pc' = [th \in Threads |-> IF th \in Workers THEN "scan" ELSE pc[th]]
    /\ cpc' = "up"
    /\ UNCHANGED <<taskVars, ft, idleTerm, activeThreadCount, idleThreadCount, autoStop>>

(* m_autoStop = true                                                       *)
Stop ==
    /\ cpc = "up"
    /\ autoStop' = TRUE
    /\ cpc' = "raise"
    /\ UNCHANGED <<taskVars, threadVars, stopping>>

(* Mutant: stop() does not raise m_stopping.                               *)
RaiseNot ==
    /\ cpc = "raise"
    /\ cpc' = IF UseCaller THEN "check" ELSE "join"
    /\ UNCHANGED <<taskVars, threadVars, autoStop, stopping>>

(* m_stopping = true.  A scheduler whose only thread is its caller returns *)
(* at once if it may; the root fiber is then in INIT or TERM.              *)
Raise ==
    /\ cpc = "raise"
    /\ stopping' = TRUE
    /\ UNCHANGED <<taskVars, threadVars, autoStop>>
    /\ cpc' = IF ~ UseCaller THEN "join"
              ELSE IF Workers = {} /\ Stopping' THEN "done" ELSE "check"

(* if (m_rootFiber && !stopping()) m_rootFiber->call();                    *)
StopCheck ==
    /\ cpc = "check"
    /\ IF Stopping
       THEN /\ cpc' = "join"
            /\ UNCHANGED pc
       ELSE /\ cpc' = "called"
            /\ pc' = [pc EXCEPT ![Caller] = "scan"]
    /\ UNCHANGED <<taskVars, ft, idleTerm, activeThreadCount, idleThreadCount,
                   autoStop, stopping>>

(* main_run: back to stop() once run() has returned.                       *)
RootBack ==
    /\ cpc = "called"
    /\ pc[Caller] = "exit"
    /\ cpc' = "join"
    /\ UNCHANGED <<taskVars, threadVars, autoStop, stopping>>

Join ==
    /\ cpc = "join"
    /\ \A w \in Workers : pc[w] = "exit"
    /\ cpc' = "done"
    /\ UNCHANGED <<taskVars, threadVars, autoStop, stopping>>

Terminated == cpc = "done" /\ UNCHANGED vars

-----------------------------------------------------------------------------
RunLoop(th) ==
    \/ Pick(th) \/ PickNone(th)
    \/ SwapIn(th) \/ SkipTerm(th) \/ SwappedOut(th) \/ Settle(th)
    \/ Exit(th) \/ IdleIn(th) \/ Idle(th) \/ IdleOut(th)

TaskStep(th) ==
    \/ \E t \in Tasks : TaskSchedule(th, t)
    \/ Arm(th) \/ Yield(th) \/ Finish(th)

StopStep == Raise \/ StopCheck \/ RootBack \/ Join

CallerStep ==
    \/ \E t \in Tasks : CallerSchedule(t)
    \/ start \/ Stop \/ StopStep

Next ==
    \/ \E th \in Threads : RunLoop(th) \/ TaskStep(th)
    \/ CallerStep
    \/ Terminated

Spec == Init /\ [][Next]_vars

(* The operating system runs every thread; a task ends or suspends itself  *)
(* after finitely many steps; stop(), once called, proceeds.  Nobody is    *)
(* obliged to call schedule(), to arm, or to call start() or stop().       *)
Fairness ==
    /\ \A th \in Threads :
        WF_vars(RunLoop(th)) /\ WF_vars(Yield(th)) /\ WF_vars(Finish(th))
    /\ WF_vars(StopStep)

FairSpec == Spec /\ Fairness

-----------------------------------------------------------------------------
(***************************************************************************)
(* Properties                                                              *)
(***************************************************************************)
TypeOK ==
    /\ fibers \in Seq(Tasks)
    /\ state \in [Tasks -> {"INIT", "EXEC", "TERM"}]
    /\ armed \subseteq Tasks
    /\ yields \in [Tasks -> 0 .. MaxYields]
    /\ pc \in [Threads -> ThreadPc]
    /\ ft \in [Threads -> Tasks \cup {NoTask}]
    /\ idleTerm \in [Threads -> BOOLEAN]
    /\ activeThreadCount \in 0 .. Cardinality(Threads)
    /\ idleThreadCount \in 0 .. Cardinality(Threads)
    /\ autoStop \in BOOLEAN
    /\ stopping \in BOOLEAN
    /\ cpc \in CallerPc

(* A task that has not ended is in the hands of at most one thread, from   *)
(* its removal from m_fibers until run() has put its state back to INIT:   *)
(* otherwise two threads would run on one stack, or one would overwrite    *)
(* the EXEC of the other.                                                  *)
Exclusive ==
    \A th, other \in Threads :
        /\ th # other
        /\ pc[th] \in Holding /\ pc[other] \in Holding
        /\ ft[th] = ft[other]
        => state[ft[th]] = "TERM"

(* The assertions of fiber.cpp on m_state: Fiber::swapIn never finds EXEC, *)
(* although the state was tested under m_mutex and is used after the lock  *)
(* has been given up, and Fiber::yield always does.                        *)
FiberAsserts ==
    \A th \in Threads :
        /\ pc[th] = "got" => ~ Executing(ft[th])
        /\ pc[th] = "run" => Executing(ft[th])

(* Both together: from the scan to the reset, a fiber is one thread's.     *)
OneThreadPerFiber == Exclusive /\ FiberAsserts

(* m_activeThreadCount, which is raised under the mutex and lowered        *)
(* without it on three paths, counts exactly the threads that hold a task. *)
ActiveExact ==
    activeThreadCount = Cardinality({th \in Threads : pc[th] \in Active})

CountersExact == TypeOK /\ ActiveExact

(* Once a thread has seen stopping(), or stop() has returned, no work is   *)
(* left behind: the queue is empty and no thread holds a task.             *)
Drained ==
    (cpc = "done" \/ \E th \in Threads : idleTerm[th]) =>
        fibers = <<>> /\ \A th \in Threads : pc[th] \notin Active

(* No task is lost: one that suspended itself is waiting in m_fibers, or   *)
(* still has its wake-up outstanding, or is in the hands of a thread.      *)
NothingLost ==
    \A t \in Tasks : state[t] # "TERM" /\ yields[t] > 0 =>
        t \in armed \cup Queued \/ \E th \in Threads : pc[th] \in Holding /\ ft[th] = t

(* A queued task is taken in the end, even if it was executing when it was *)
(* queued and every scan has passed over it so far.  A scheduler that has  *)
(* no thread but its caller runs nothing before stop().                    *)
QueuedIsTaken ==
    \A t \in Tasks : (t \in Queued /\ cpc \notin {"new", "done"} /\ (Workers = {} => autoStop))
        ~> (t \notin Queued)

(* stop() returns: every thread notices and leaves, however the tasks that *)
(* are still queued or running reschedule each other.                      *)
StopReturns == autoStop ~> (cpc = "done")

(***************************************************************************)
(* The scheduler implements FiberPool: a wake-up is undelivered while its  *)
(* task is queued or taken but not yet swapped in, and the pool is closed  *)
(* from the first stopping() that answers true on an idle fiber, or the    *)
(* return of stop().                                                       *)
(***************************************************************************)
RunningOn(th, t) == pc[th] = "run" /\ ft[th] = t

Phase == [t \in Tasks |->
    CASE state[t] = "TERM" -> "ended"
      [] \E th \in Threads : RunningOn(th, t) -> "running"
      [] Fresh(t) -> "new"
      [] OTHER -> "suspended"]

Closed == cpc = "done" \/ \E th \in Threads : idleTerm[th]

Pool == INSTANCE FiberPool WITH
    phase  <- Phase,
    woken  <- Queued \cup {t \in Tasks : Held(t)},
    closed <- Closed

(* Every wake-up is delivered exactly once, to a task that is not running, *)
(* and the scheduler stops only when no wake-up is left.                   *)
ImplementsPool == Pool!PoolSpec
=============================================================================
