----------------------------- MODULE IOManager -----------------------------
(***************************************************************************)
(* The epoll scheduler of bifang: src/src/iomanager_epoll.cpp with the     *)
(* TimerManager it inherits from (src/src/timer.cpp).                      *)
(*                                                                         *)
(* It keeps the run loop of Scheduler and replaces                         *)
(*   - idle(): ask stopping(timeout), sleep in epoll_wait, schedule the    *)
(*     callbacks of expired timers and the fibers of ready descriptors;    *)
(*   - stopping(): three separate reads, of the timers, of m_pendingCount  *)
(*     and of Scheduler::stopping(), with other threads running between;   *)
(*   - tickle(): write to a pipe if some thread is idle.                   *)
(*                                                                         *)
(* Time is abstract: a timer becomes due, and a descriptor ready, at any   *)
(* moment.  What a timer holds is a callback, i.e. a task that has not     *)
(* been scheduled yet; what an IOContext holds is the fiber that waits.    *)
(* The calls epoll_ctl, epoll_wait and write are taken to succeed.         *)
(***************************************************************************)
EXTENDS Scheduler

VARIABLES
    timers,         \* m_timers, as the callbacks of the timers in it
    due,            \* the timers whose m_next has been reached
    tickled,        \* m_tickled
    pending,        \* the tasks that wait in an IOContext
    pendingCount,   \* m_pendingCount
    ready,          \* edges epoll has not reported yet
    answered,       \* the tasks whose peer has answered since they wait
    edge,           \* a write to the pipe that epoll has not reported yet
    tick,           \* who is about to call tickle()
    ipc,            \* where each idle fiber is in idle()
    cbs,            \* idle()'s local cbs
    events,         \* idle()'s local events
    timely,         \* history: th's timeout accounts for the earliest timer
    cstep           \* where stop() is in stopping()

timerVars == <<timers, due, tickled, timely>>
eventVars == <<pending, pendingCount, ready, answered>>
idleVars  == <<ipc, cbs, events>>
ioVars    == <<timerVars, eventVars, idleVars, edge, tick, cstep>>
allVars   == <<vars, ioVars>>

Agents == Threads \cup {Caller}

IdlePc == {"next", "count", "flags", "wait", "expire", "sched", "events", "trigger"}

(* A task that a timer, an idle thread or an IOContext will schedule.      *)
InTimer(t) == t \in timers \/ \E th \in Threads : t \in cbs[th]
Reserved(t) == InTimer(t) \/ t \in pending

(* Every order in which a set can be handed to schedule(begin, end).       *)
Orders(S) == {s \in [1 .. Cardinality(S) -> S] : ToSet(s) = S}

IOInit ==
    /\ Init
    /\ timers = {} /\ due = {} /\ tickled = FALSE
    /\ pending = {} /\ pendingCount = 0 /\ ready = {} /\ answered = {}
    /\ edge = FALSE
    /\ tick = [x \in Agents |-> FALSE]
    /\ ipc = [th \in Threads |-> "next"]
    /\ cbs = [th \in Threads |-> {}]
    /\ events = [th \in Threads |-> {}]
    /\ timely = [th \in Threads |-> FALSE]
    /\ cstep = "next"

-----------------------------------------------------------------------------
(***************************************************************************)
(* tickle()                                                                *)
(***************************************************************************)

(* if (m_idleThreadCount == 0) return; write(m_tickleFd[1], "T", 1).       *)
tickle(x) ==
    /\ tick[x]
    /\ tick' = [tick EXCEPT ![x] = FALSE]
    /\ edge' = (edge \/ idleThreadCount > 0)
    /\ UNCHANGED <<vars, timerVars, eventVars, idleVars, cstep>>

(* The run loop of Scheduler; after taking a task it calls tickle() if the *)
(* task was not the last of the queue.                                     *)
IORun(th) ==
    /\ ~ tick[th]
    /\ \/ /\ Pick(th)
          /\ tick' = [tick EXCEPT ![th] = ft'[th] # Last(fibers)]
       \/ /\ \/ PickNone(th) \/ SwapIn(th) \/ SkipTerm(th) \/ SwappedOut(th)
             \/ Settle(th) \/ Exit(th) \/ IdleIn(th) \/ IdleOut(th)
          /\ UNCHANGED tick
    /\ UNCHANGED <<timerVars, eventVars, idleVars, edge, cstep>>

-----------------------------------------------------------------------------
(***************************************************************************)
(* IOManager::idle                                                         *)
(***************************************************************************)
InIdle(th, step) == pc[th] = "idle" /\ ipc[th] = step /\ ~ tick[th]

GoTo(th, step) == ipc' = [ipc EXCEPT ![th] = step]

(* stopping(timeout), first part: getNextTimer().                          *)
NextTimer(th) ==
    /\ InIdle(th, "next")
    /\ tickled' = FALSE
    /\ timely' = [timely EXCEPT ![th] = TRUE]
    /\ GoTo(th, IF timers = {} THEN "count" ELSE "wait")
    /\ UNCHANGED <<vars, timers, due, eventVars, cbs, events, edge, tick, cstep>>

(* m_pendingCount == 0                                                     *)
ReadCount(th) ==
    /\ InIdle(th, "count")
    /\ GoTo(th, IF pendingCount = 0 THEN "flags" ELSE "wait")
    /\ UNCHANGED <<vars, timerVars, eventVars, cbs, events, edge, tick, cstep>>

(* Scheduler::stopping(); idle() returns when all three hold.              *)
ReadFlags(th) ==
    /\ InIdle(th, "flags")
    /\ IF Stopping
       THEN Idle(th) /\ GoTo(th, "next")
       ELSE UNCHANGED vars /\ GoTo(th, "wait")
    /\ UNCHANGED <<timerVars, eventVars, cbs, events, edge, tick, cstep>>

(* Mutant: epoll_wait without a timeout.                                   *)
EpollWaitForever(th) ==
    /\ InIdle(th, "wait")
    /\ edge \/ ready # {}
    /\ events' = [events EXCEPT ![th] = ready]
    /\ ready' = {}
    /\ edge' = FALSE
    /\ GoTo(th, "expire")
    /\ UNCHANGED <<vars, timerVars, pending, pendingCount, answered, cbs, tick, cstep>>

(* Mutant: what is reported together with the pipe is not looked at.       *)
EpollWaitPipeOnly(th) ==
    /\ InIdle(th, "wait")
    /\ events' = [events EXCEPT ![th] = IF edge THEN {} ELSE ready]
    /\ ready' = {}
    /\ edge' = FALSE
    /\ GoTo(th, "expire")
    /\ UNCHANGED <<vars, timerVars, pending, pendingCount, answered, cbs, tick, cstep>>

(* epoll_wait returns: with events, or because its timeout, at most        *)
(* MAX_TIMEOUT, has passed.                                                *)
EpollWait(th) ==
    /\ InIdle(th, "wait")
    /\ events' = [events EXCEPT ![th] = ready]
    /\ ready' = {}
    /\ edge' = FALSE
    /\ GoTo(th, "expire")
    /\ UNCHANGED <<vars, timerVars, pending, pendingCount, answered, cbs, tick, cstep>>

(* Mutant: what has expired is kept for the next round of idle().          *)
ListExpiredLater(th) ==
    /\ InIdle(th, "expire")
    /\ cbs' = [cbs EXCEPT ![th] = @ \cup due]
    /\ timers' = timers \ due
    /\ due' = {}
    /\ GoTo(th, IF cbs[th] = {} THEN "events" ELSE "sched")
    /\ UNCHANGED <<vars, tickled, timely, eventVars, events, edge, tick, cstep>>

(* listExpiredCb(cbs)                                                      *)
ListExpired(th) ==
    /\ InIdle(th, "expire")
    /\ cbs' = [cbs EXCEPT ![th] = due]
    /\ timers' = timers \ due
    /\ due' = {}
    /\ GoTo(th, IF due = {} THEN "events" ELSE "sched")
    /\ UNCHANGED <<vars, tickled, timely, eventVars, events, edge, tick, cstep>>

(* schedule(cbs.begin(), cbs.end())                                        *)
ScheduleCbs(th) ==
    /\ InIdle(th, "sched")
    /\ \E s \in Orders(cbs[th]) : fibers' = fibers \o s
    /\ tick' = [tick EXCEPT ![th] = fibers = <<>>]
    /\ cbs' = [cbs EXCEPT ![th] = {}]
    /\ GoTo(th, "events")
    /\ UNCHANGED <<state, armed, yields, threadVars, stopVars, timerVars, eventVars,
                   events, edge, cstep>>

(* Mutant: an event another thread has handled already is handled again.   *)
TriggerAgain(th, t) ==
    /\ InIdle(th, "events")
    /\ t \in events[th]
    /\ events' = [events EXCEPT ![th] = @ \ {t}]
    /\ pending' = pending \ {t} /\ answered' = answered \ {t}
    /\ armed' = armed \ {t}
    /\ fibers' = Append(fibers, t)
    /\ tick' = [tick EXCEPT ![th] = fibers = <<>>]
    /\ GoTo(th, "trigger")
    /\ UNCHANGED <<state, yields, threadVars, stopVars, timerVars, pendingCount,
                   ready, cbs, edge, cstep>>

(* Mutant: trigger() leaves the event registered.                          *)
TriggerKept(th, t) ==
    /\ InIdle(th, "events")
    /\ t \in events[th]
    /\ t \in pending
    /\ events' = [events EXCEPT ![th] = @ \ {t}]
    /\ armed' = armed \ {t}
    /\ fibers' = Append(fibers, t)
    /\ tick' = [tick EXCEPT ![th] = fibers = <<>>]
    /\ GoTo(th, "trigger")
    /\ UNCHANGED <<state, yields, threadVars, stopVars, timerVars, eventVars, cbs,
                   edge, cstep>>

(* One reported event: the fiber that waits for it is scheduled ...        *)
Trigger(th, t) ==
    /\ InIdle(th, "events")
    /\ t \in events[th]
    /\ t \in pending
    /\ events' = [events EXCEPT ![th] = @ \ {t}]
    /\ pending' = pending \ {t} /\ answered' = answered \ {t}
    /\ armed' = armed \ {t}
    /\ fibers' = Append(fibers, t)
    /\ tick' = [tick EXCEPT ![th] = fibers = <<>>]
    /\ GoTo(th, "trigger")
    /\ UNCHANGED <<state, yields, threadVars, stopVars, timerVars, pendingCount,
                   ready, cbs, edge, cstep>>

(* ... unless another thread has handled it already.                       *)
SkipEvent(th, t) ==
    /\ InIdle(th, "events")
    /\ t \in events[th] \ pending
    /\ events' = [events EXCEPT ![th] = @ \ {t}]
    /\ UNCHANGED <<vars, timerVars, eventVars, ipc, cbs, edge, tick, cstep>>

(* Mutant: m_pendingCount is not lowered.                                  *)
UncountNot(th) ==
    /\ InIdle(th, "trigger")
    /\ GoTo(th, "events")
    /\ UNCHANGED <<vars, timerVars, eventVars, cbs, events, edge, tick, cstep>>

(* m_pendingCount--, after trigger().                                      *)
Uncount(th) ==
    /\ InIdle(th, "trigger")
    /\ pendingCount' = pendingCount - 1
    /\ GoTo(th, "events")
    /\ UNCHANGED <<vars, timerVars, pending, ready, answered, cbs, events, edge, tick, cstep>>

(* Every event is handled: swapOut to run().                               *)
IdleYield(th) ==
    /\ InIdle(th, "events")
    /\ events[th] = {}
    /\ pc' = [pc EXCEPT ![th] = "idleout"]
    /\ GoTo(th, "next")
    /\ UNCHANGED <<taskVars, ft, idleTerm, activeThreadCount, idleThreadCount, stopVars,
                   timerVars, eventVars, cbs, events, edge, tick, cstep>>

-----------------------------------------------------------------------------
(***************************************************************************)
(* What a running task, and the constructing thread, may do                *)
(***************************************************************************)

(* schedule(t) by x, and the tickle() that follows a push to an empty      *)
(* queue.                                                                  *)
IOSchedule(x, t) ==
    /\ ~ tick[x]
    /\ ~ Reserved(t)
    /\ \/ x \in Threads /\ TaskSchedule(x, t)
       \/ x = Caller /\ cpc = "up" /\ CallerSchedule(t)
    /\ tick' = [tick EXCEPT ![x] = fibers = <<>>]
    /\ UNCHANGED <<timerVars, eventVars, idleVars, edge, cstep>>

(* Mutant: a timer at the front wakes nobody.                              *)
addTimerQuiet(x, t, front) ==
    /\ ~ tick[x]
    /\ (x \in Threads /\ pc[x] = "run") \/ (x = Caller /\ cpc = "up")
    /\ CanSchedule(t) /\ Fresh(t) /\ ~ Reserved(t)
    /\ timers = {} => front
    /\ timers' = timers \cup {t}
    /\ timely' = IF front THEN [th \in Threads |-> FALSE] ELSE timely
    /\ UNCHANGED <<vars, due, tickled, tick, eventVars, idleVars, edge, cstep>>

(* addTimer with callback t: a timer that becomes the earliest one wakes a *)
(* thread, unless that has been done since the last getNextTimer().        *)
addTimer(x, t, front) ==
    /\ ~ tick[x]
    /\ (x \in Threads /\ pc[x] = "run") \/ (x = Caller /\ cpc = "up")
    /\ CanSchedule(t) /\ Fresh(t) /\ ~ Reserved(t)
    /\ timers = {} => front
    /\ timers' = timers \cup {t}
    /\ tickled' = (tickled \/ front)
    /\ tick' = [tick EXCEPT ![x] = front /\ ~ tickled]
    /\ timely' = IF front THEN [th \in Threads |-> FALSE] ELSE timely
    /\ UNCHANGED <<vars, due, eventVars, idleVars, edge, cstep>>

(* add(fd, event): the running fiber waits in an IOContext.                *)
add(th) ==
    /\ ~ tick[th]
    /\ Arm(th)
    /\ pending' = pending \cup {ft[th]}
    /\ pendingCount' = pendingCount + 1
    /\ UNCHANGED <<timerVars, ready, answered, idleVars, edge, tick, cstep>>

IOTask(th) ==
    /\ ~ tick[th]
    /\ Arm(th) \/ Yield(th) \/ Finish(th)
    /\ UNCHANGED ioVars

-----------------------------------------------------------------------------
(***************************************************************************)
(* Time and peers                                                          *)
(***************************************************************************)
BecomeDue(t) ==
    /\ t \in timers \ due
    /\ due' = due \cup {t}
    /\ UNCHANGED <<vars, timers, tickled, timely, eventVars, idleVars, edge, tick, cstep>>

(* An edge on the descriptor t waits for; there may be more than one.      *)
BecomeReady(t) ==
    /\ t \in pending \ ready
    /\ ready' = ready \cup {t}
    /\ answered' = answered \cup {t}
    /\ UNCHANGED <<vars, timerVars, pending, pendingCount, idleVars, edge, tick, cstep>>

Answer(t) == t \notin answered /\ BecomeReady(t)

-----------------------------------------------------------------------------
(***************************************************************************)
(* stop(): the calls of stopping() are those of this class                 *)
(***************************************************************************)
IOStart == start /\ UNCHANGED ioVars

IOStop == ~ tick[Caller] /\ Stop /\ UNCHANGED ioVars

(* Mutant: stop() asks Scheduler::stopping() instead of the override.      *)
RaiseAloneBase ==
    /\ Workers = {}
    /\ Raise
    /\ UNCHANGED ioVars

(* Without workers nothing runs between the three reads of stopping().     *)
RaiseAlone ==
    /\ Workers = {}
    /\ cpc = "raise"
    /\ stopping' = TRUE
    /\ tickled' = FALSE
    /\ UNCHANGED <<taskVars, threadVars, autoStop, timers, due, timely, eventVars,
                   idleVars, edge, tick, cstep>>
    /\ cpc' = IF timers = {} /\ pendingCount = 0 /\ Stopping' THEN "done" ELSE "check"

(* m_stopping = true, then one tickle() per worker.                        *)
RaiseWorkers ==
    /\ Workers # {}
    /\ Raise
    /\ tick' = [tick EXCEPT ![Caller] = TRUE]
    /\ UNCHANGED <<timerVars, eventVars, idleVars, edge, cstep>>

CallRoot ==
    /\ cpc' = "called"
    /\ pc' = [pc EXCEPT ![Caller] = "scan"]
    /\ cstep' = "next"
    /\ UNCHANGED <<taskVars, ft, idleTerm, activeThreadCount, idleThreadCount,
                   autoStop, stopping>>

CheckOn(step) == cstep' = step /\ UNCHANGED vars

(* if (m_rootFiber && !stopping()) m_rootFiber->call();                    *)
IOStopCheck ==
    /\ cpc = "check" /\ ~ tick[Caller]
    /\ \/ /\ cstep = "next"
          /\ tickled' = FALSE
          /\ IF timers = {} THEN CheckOn("count") ELSE CallRoot
       \/ /\ cstep = "count"
          /\ UNCHANGED tickled
          /\ IF pendingCount = 0 THEN CheckOn("flags") ELSE CallRoot
       \/ /\ cstep = "flags"
          /\ UNCHANGED tickled
          /\ IF Stopping THEN StopCheck /\ cstep' = "next" ELSE CallRoot
    /\ UNCHANGED <<timers, due, timely, eventVars, idleVars, edge, tick>>

IOLeave == ~ tick[Caller] /\ (RootBack \/ Join) /\ UNCHANGED ioVars

IOTerminated == Terminated /\ UNCHANGED ioVars

-----------------------------------------------------------------------------
IOIdle(th) ==
    \/ NextTimer(th) \/ ReadCount(th) \/ ReadFlags(th) \/ EpollWait(th)
    \/ ListExpired(th) \/ ScheduleCbs(th) \/ Uncount(th) \/ IdleYield(th)
    \/ \E t \in Tasks : Trigger(th, t) \/ SkipEvent(th, t)

IOStopStep == RaiseAlone \/ RaiseWorkers \/ IOStopCheck \/ IOLeave

IONext ==
    \/ \E x \in Agents :
        \/ tickle(x)
        \/ \E t \in Tasks : IOSchedule(x, t) \/ \E front \in BOOLEAN : addTimer(x, t, front)
    \/ \E th \in Threads : IORun(th) \/ IOIdle(th) \/ add(th) \/ IOTask(th)
    \/ \E t \in Tasks : BecomeDue(t) \/ BecomeReady(t)
    \/ IOStart \/ IOStop \/ IOStopStep
    \/ IOTerminated

IOSpec == IOInit /\ [][IONext]_allVars

(* Threads run, tasks end or yield, epoll_wait returns after MAX_TIMEOUT   *)
(* at the latest, time passes, and every peer answers once.                *)
IOFairness ==
    /\ \A x \in Agents : WF_allVars(tickle(x))
    /\ \A th \in Threads :
        /\ WF_allVars(IORun(th)) /\ WF_allVars(IOIdle(th))
        /\ WF_allVars(Yield(th) /\ IOTask(th)) /\ WF_allVars(Finish(th) /\ IOTask(th))
    /\ \A t \in Tasks : WF_allVars(BecomeDue(t)) /\ WF_allVars(Answer(t))
    /\ WF_allVars(IOStopStep)

IOFairSpec == IOSpec /\ IOFairness

-----------------------------------------------------------------------------
(***************************************************************************)
(* Properties                                                              *)
(***************************************************************************)
IOTypeOK ==
    /\ TypeOK
    /\ due \subseteq timers /\ timers \subseteq Tasks
    /\ pending \subseteq armed
    /\ ready \subseteq Tasks /\ answered \subseteq pending
    /\ tickled \in BOOLEAN /\ edge \in BOOLEAN
    /\ tick \in [Agents -> BOOLEAN]
    /\ ipc \in [Threads -> IdlePc]
    /\ cbs \in [Threads -> SUBSET Tasks]
    /\ events \in [Threads -> SUBSET Tasks]
    /\ timely \in [Threads -> BOOLEAN]
    /\ cstep \in {"next", "count", "flags"}

(* A task has one wake-up in flight at most, wherever it is: in a timer,   *)
(* in the hands of an idle thread, in an IOContext, queued, or taken.      *)
(* Otherwise a fiber would be resumed for an event it does not wait for.   *)
OneWake ==
    /\ IsInjective(fibers)
    /\ \A t \in Tasks :
        /\ InTimer(t) => t \notin Queued \cup pending /\ ~ Held(t)
        /\ t \in pending => t \notin Queued /\ ~ Held(t)
        /\ t \in Queued => ~ Held(t)
    /\ \A x, y \in Threads : x # y => cbs[x] \cap cbs[y] = {}

(* m_pendingCount, which stopping() reads without a lock, never falls      *)
(* below the events registered: it is ahead by the threads between the     *)
(* schedule() of trigger() and the decrement.                              *)
PendingExact ==
    pendingCount = Cardinality(pending)
                 + Cardinality({th \in Threads : ipc[th] = "trigger"})

Accounted == IOTypeOK /\ PendingExact /\ OneWake

Live   == {th \in Threads : pc[th] \notin {"off", "exit"}}
Asleep == {th \in Threads : pc[th] = "idle" /\ ipc[th] = "wait"}
WakeUpOnItsWay == edge \/ \E x \in Agents : tick[x]

(* The m_tickled protocol: the earliest timer is never left to threads     *)
(* that all sleep with a timeout computed before it was added.             *)
TimerCovered ==
    timers # {} /\ Live # {} /\ Live \subseteq Asleep =>
        WakeUpOnItsWay \/ \E th \in Live : timely[th]

(* Every task has exactly one wake-up coming: it is counted, it is in one  *)
(* place only, and if it is a timer somebody wakes in time for it.         *)
WakeUpsKept == Accounted /\ TimerCovered

(* "Tell the scheduler that there is a task" (scheduler.h:72): not all     *)
(* threads sleep over a queued task without a wake-up on its way.  This is *)
(* not an invariant: schedule() may come between a thread's scan of the    *)
(* queue and its idleThreadCount++, and the task waits for a timeout.      *)
TaskCovered ==
    fibers # <<>> /\ Live # {} /\ Live \subseteq Asleep => WakeUpOnItsWay

(* When every thread has left run(), no queued task, no callback of an     *)
(* expired timer and no running task is left behind, although each thread  *)
(* decides on its own and at its own time.                                 *)
AllLeft == cpc \in {"join", "done"} /\ Live = {}
LeavesNoTask ==
    AllLeft =>
        /\ fibers = <<>>
        /\ \A th \in Threads : cbs[th] = {} /\ pc[th] \notin Active

(* stopping(): "whether it may stop" (scheduler.h:77).  When every thread  *)
(* has left, no timer is waiting and no fiber waits for an event.  True if *)
(* the caller is the only thread; with a worker, a task may add a timer    *)
(* and end between the reads of stopping().                                *)
LeavesNoWaiter == AllLeft => timers = {} /\ pending = {}

(* A timer fires, and a fiber whose descriptor is ready is resumed.  With   *)
(* workers, unless the manager is being stopped; the caller on its own runs *)
(* only inside stop(), which then waits for all of them.                   *)
Serving == Workers = {} => autoStop
Excused == Workers # {} /\ autoStop
WaitersServed ==
    \A t \in Tasks : (Serving /\ t \in timers \cup pending) ~> (t \notin timers \cup pending \/ Excused)

(* stop() waits for timers and events, and returns.                        *)
IOStopReturns == autoStop ~> (cpc = "done")

(* stop() returns, and has served whoever waits.                           *)
StopServes == WaitersServed /\ IOStopReturns
=============================================================================
