-------------------------- MODULE IOManagerProofs --------------------------
(***************************************************************************)
(* Proofs that the epoll scheduler keeps the wake-up of every task and     *)
(* leaves none behind, for any number of threads, tasks, timers and        *)
(* descriptors.                                                            *)
(***************************************************************************)
EXTENDS IOManager, SchedulerProofs

(***************************************************************************)
(* The inductive invariant                                                 *)
(***************************************************************************)

(* What the run loop keeps whoever fills its queue; its stop is another.   *)
RunInv == TypeInv /\ OwnInv /\ PhaseInv /\ CountInv

IOTypes ==
    /\ timers \subseteq Tasks /\ IsFiniteSet(timers) /\ due \subseteq timers
    /\ pending \subseteq armed /\ IsFiniteSet(pending)
    /\ ready \subseteq Tasks /\ answered \subseteq pending
    /\ tickled \in BOOLEAN /\ edge \in BOOLEAN
    /\ tick \in [Agents -> BOOLEAN]
    /\ ipc \in [Threads -> IdlePc]
    /\ cbs \in [Threads -> SUBSET Tasks] /\ \A th \in Threads : IsFiniteSet(cbs[th])
    /\ events \in [Threads -> SUBSET Tasks]
    /\ timely \in [Threads -> BOOLEAN]
    /\ cstep \in {"next", "count", "flags"}

(* An idle fiber that is in the middle of idle() is on its thread, and has *)
(* not ended; expired callbacks are there between two of its steps.  After *)
(* start() every worker is in run(), or has returned from it.              *)
PlaceInv ==
    /\ \A th \in Threads :
        /\ ipc[th] # "next" => pc[th] = "idle"
        /\ cbs[th] # {} => ipc[th] = "sched"
        /\ idleTerm[th] => pc[th] \notin {"off", "idle"}
        /\ pc[th] = "exit" => idleTerm[th]
    /\ cstep # "next" => cpc = "check"
    /\ cpc # "new" => \A w \in Workers : pc[w] # "off"

(* A callback that a timer holds has not run, and is nowhere else; who is  *)
(* armed has run.                                                          *)
HoldInv ==
    /\ \A t \in Tasks : InTimer(t) => Fresh(t) /\ t \notin Queued /\ ~ Held(t)
    /\ \A t \in armed : yields[t] > 0
    /\ \A th \in Threads : cbs[th] \cap timers = {}
    /\ \A x, y \in Threads : x # y => cbs[x] \cap cbs[y] = {}

(* Who has left for good, and once all have, nothing starts again.         *)
Gone(th) == idleTerm[th] \/ (pc[th] = "off" /\ cpc \in {"join", "done"})
LeftInv ==
    (\A th \in Threads : Gone(th)) =>
        /\ autoStop /\ fibers = <<>>
        /\ \A th \in Threads : pc[th] \notin Active

(* The threads that will come to idle() again, and those of them that have *)
(* asked for the earliest timer and are to sleep, or sleep.                *)
Stays == {th \in Threads : pc[th] \notin {"off", "exit"} /\ ~ idleTerm[th]}
Passed(th) == pc[th] = "idle" /\ ipc[th] \in {"count", "flags", "wait"}

(* m_tickled says that someone will ask again before all sleep.            *)
CoverInv ==
    /\ Stays # {} /\ tickled => WakeUpOnItsWay \/ \E th \in Stays : ~ Passed(th)
    /\ Stays # {} /\ timers # {} => WakeUpOnItsWay \/ \E th \in Stays : ~ Passed(th) \/ timely[th]
    /\ \A th \in Threads : pc[th] = "idle" /\ ipc[th] \in {"count", "flags"} /\ timely[th] => timers = {}

(* The caller alone: what it has read in stopping() still holds.           *)
AloneInv ==
    /\ pc[Caller] = "idle" /\ ipc[Caller] \in {"count", "flags"} => timers = {}
    /\ pc[Caller] = "idle" /\ ipc[Caller] = "flags" => pendingCount = 0
    /\ cstep \in {"count", "flags"} => timers = {}
    /\ cstep = "flags" => pendingCount = 0
    /\ Gone(Caller) => timers = {} /\ pending = {}

IOInv ==
    /\ RunInv /\ IOTypes /\ PlaceInv /\ HoldInv /\ PendingExact /\ LeftInv /\ CoverInv
    /\ Workers = {} => AloneInv

-----------------------------------------------------------------------------
(***************************************************************************)
(* The steps                                                               *)
(***************************************************************************)

(* The actions of one thread in idle(), of running tasks and the caller,   *)
(* and of stop().                                                          *)
IdleAction(th) ==
    \/ NextTimer(th) \/ ReadCount(th) \/ ReadFlags(th) \/ EpollWait(th)
    \/ ListExpired(th) \/ ScheduleCbs(th) \/ Uncount(th) \/ IdleYield(th)
    \/ \E t \in Tasks : Trigger(th, t) \/ SkipEvent(th, t)
UserAction ==
    \/ \E x \in Agents, t \in Tasks : IOSchedule(x, t) \/ \E front \in BOOLEAN : addTimer(x, t, front)
    \/ \E th \in Threads : add(th) \/ IOTask(th)
    \/ \E t \in Tasks : BecomeDue(t) \/ BecomeReady(t)
CallerAction == IOStart \/ IOStop \/ RaiseAlone \/ RaiseWorkers \/ IOStopCheck \/ IOLeave

LEMMA IOCases ==
    ASSUME [IONext]_allVars
    PROVE  \/ \E x \in Agents : tickle(x)
           \/ \E th \in Threads : IORun(th) \/ IdleAction(th)
           \/ UserAction
           \/ CallerAction
           \/ UNCHANGED allVars
BY DEF IONext, IOIdle, IOStopStep, IOTerminated, Terminated, IdleAction, UserAction, CallerAction, allVars

(* What the steps of IOManager are for the scheduler it inherits from:     *)
(* steps of Scheduler but for these.                                       *)
RaisesAlone == cpc = "raise" /\ cpc' \in {"check", "done"} /\ stopping' = TRUE /\ UNCHANGED <<taskVars, threadVars, autoStop>>
Calls == cpc = "check" /\ CallRoot

LEMMA SchedulerSteps ==
    ASSUME [IONext]_allVars
    PROVE  \/ [Next]_vars
           \/ \E th \in Threads : IdleYield(th) \/ ScheduleCbs(th) \/ \E t \in Tasks : Trigger(th, t)
           \/ RaisesAlone
           \/ Calls
<1>1. ASSUME NEW x \in Agents, tickle(x) PROVE UNCHANGED vars
  BY <1>1 DEF tickle
<1>2. ASSUME NEW th \in Threads, IORun(th) PROVE Next
  BY <1>2 DEF IORun, Next, RunLoop
<1>3. ASSUME NEW th \in Threads, IdleAction(th), ~ IdleYield(th), ~ ScheduleCbs(th), ~ \E t \in Tasks : Trigger(th, t)
      PROVE  [Next]_vars
  <2>1. CASE ReadFlags(th)
    BY <2>1 DEF ReadFlags, Next, RunLoop
  <2>2. CASE ~ ReadFlags(th)
    BY <1>3, <2>2 DEF IdleAction, NextTimer, ReadCount, EpollWait, ListExpired, Uncount, SkipEvent
  <2> QED
    BY <2>1, <2>2
<1>4. ASSUME UserAction PROVE [Next]_vars
  <2>1. ASSUME NEW x \in Agents, NEW t \in Tasks, IOSchedule(x, t) PROVE Next
    BY <2>1 DEF IOSchedule, Next, TaskStep, CallerStep
  <2>2. ASSUME NEW x \in Agents, NEW t \in Tasks, NEW front \in BOOLEAN, addTimer(x, t, front) PROVE UNCHANGED vars
    BY <2>2 DEF addTimer
  <2>3. ASSUME NEW th \in Threads, add(th) \/ IOTask(th) PROVE Next
    BY <2>3 DEF add, IOTask, Next, TaskStep
  <2>4. ASSUME NEW t \in Tasks, BecomeDue(t) \/ BecomeReady(t) PROVE UNCHANGED vars
    BY <2>4 DEF BecomeDue, BecomeReady
  <2> QED
    BY <1>4, <2>1, <2>2, <2>3, <2>4 DEF UserAction
<1>5. ASSUME CallerAction PROVE [Next]_vars \/ RaisesAlone \/ Calls
  <2>1. CASE IOStart \/ IOStop \/ RaiseWorkers \/ IOLeave
    BY <2>1 DEF IOStart, IOStop, RaiseWorkers, IOLeave, Next, CallerStep, StopStep
  <2>2. CASE RaiseAlone
    BY <2>2 DEF RaiseAlone, RaisesAlone
  <2>3. CASE IOStopCheck
    BY <2>3 DEF IOStopCheck, CheckOn, Calls, Next, CallerStep, StopStep
  <2> QED
    BY <1>5, <2>1, <2>2, <2>3 DEF CallerAction
<1> QED
  BY <1>1, <1>2, <1>3, <1>4, <1>5, IOCases DEF allVars

(* The callbacks that idle() hands over come to the end of the queue.      *)
LEMMA ConcatSet ==
    ASSUME NEW S, NEW s \in Seq(S), NEW u \in Seq(S), ToSet(s) \cap ToSet(u) = {},
           \A j, k \in 1 .. Len(s) : s[j] = s[k] => j = k,
           \A j, k \in 1 .. Len(u) : u[j] = u[k] => j = k
    PROVE  /\ s \o u \in Seq(S)
           /\ ToSet(s \o u) = ToSet(s) \cup ToSet(u)
           /\ \A j, k \in 1 .. Len(s \o u) : (s \o u)[j] = (s \o u)[k] => j = k
<1> DEFINE r == s \o u
           m == Len(s)
           n == Len(u)
<1>1. m \in Nat /\ n \in Nat /\ DOMAIN s = 1 .. m /\ DOMAIN u = 1 .. n
  BY LenProperties
<1>2. /\ r \in Seq(S) /\ Len(r) = m + n
      /\ \A j \in 1 .. m + n : r[j] = IF j <= m THEN s[j] ELSE u[j - m]
  BY ConcatProperties
<1>3. DOMAIN r = 1 .. m + n
  BY <1>2, LenProperties
<1> HIDE DEF r, m, n
<1>4. ASSUME NEW j \in 1 .. m, NEW k \in 1 .. n PROVE s[j] # u[k]
  <2>1. s[j] \in ToSet(s) /\ u[k] \in ToSet(u)
    BY <1>1 DEF ToSet
  <2> QED
    BY <2>1
<1>5. \A j \in 1 .. m + n : \/ j \in 1 .. m /\ r[j] = s[j]
                            \/ j \notin 1 .. m /\ j - m \in 1 .. n /\ r[j] = u[j - m]
  BY <1>1, <1>2
<1>6. ASSUME NEW j \in 1 .. m + n, NEW k \in 1 .. m + n, r[j] = r[k] PROVE j = k
  <2>1. CASE j \in 1 .. m /\ k \in 1 .. m
    BY <1>5, <1>6, <2>1 DEF m
  <2>2. CASE j \notin 1 .. m /\ k \notin 1 .. m
    <3>1. j - m = k - m
      BY <1>5, <1>6, <2>2 DEF n
    <3> QED
      BY <1>1, <3>1
  <2>3. CASE ~ (j \in 1 .. m <=> k \in 1 .. m)
    BY <1>4, <1>5, <1>6, <2>3
  <2> QED
    BY <2>1, <2>2, <2>3
<1>7. \A x \in ToSet(r) : x \in ToSet(s) \cup ToSet(u)
  BY <1>1, <1>3, <1>5 DEF ToSet
<1>8. \A x \in ToSet(s) : x \in ToSet(r)
  BY <1>1, <1>2, <1>3 DEF ToSet
<1>9. \A x \in ToSet(u) : x \in ToSet(r)
  <2> SUFFICES ASSUME NEW k \in 1 .. n PROVE u[k] \in ToSet(r)
    BY <1>1 DEF ToSet
  <2>1. m + k \in 1 .. m + n /\ ~ (m + k <= m) /\ (m + k) - m = k
    <3>1. m \in Nat /\ n \in Nat /\ k \in Nat /\ 1 <= k /\ k <= n
      BY <1>1
    <3> QED
      BY <3>1
  <2>2. r[m + k] = u[k]
    BY <1>2, <2>1
  <2> QED
    BY <1>3, <2>1, <2>2 DEF ToSet
<1> QED
  BY <1>2, <1>6, <1>7, <1>8, <1>9 DEF r

LEMMA OrderFacts ==
    ASSUME NEW S, IsFiniteSet(S), NEW s \in Orders(S)
    PROVE  s \in Seq(S) /\ ToSet(s) = S /\ \A j, k \in 1 .. Len(s) : s[j] = s[k] => j = k
<1> DEFINE n == Cardinality(S)
<1>1. n \in Nat /\ s \in [1 .. n -> S] /\ ToSet(s) = S
  BY FS_CardinalityType DEF Orders
<1>2. s \in Seq(S) /\ Len(s) = n
  <2>1. s \in Seq(S)
    BY <1>1, SeqDef
  <2> QED
    BY <1>1, <2>1, LenProperties
<1>3. IsFiniteSet(1 .. n) /\ Cardinality(1 .. n) = n
  BY <1>1, FS_Interval
<1>4. s \in Surjection(1 .. n, S)
  BY <1>1 DEF Surjection, ToSet
<1>5. s \in Injection(1 .. n, S)
  BY <1>3, <1>4, FS_SurjSameCardinalityImpliesInj
<1> HIDE DEF n
<1>6. \A j, k \in 1 .. n : s[j] = s[k] => j = k
  BY <1>5 DEF Injection, IsInjective
<1> QED
  BY <1>1, <1>2, <1>6

(* The places of the threads as they are, or a thread that begins.         *)
LEMMA SameCount ==
    ASSUME CountInv, activeThreadCount' = activeThreadCount, idleThreadCount' = idleThreadCount,
           \A x \in Threads : pc'[x] = pc[x] \/ (pc[x] = "off" /\ pc'[x] = "scan")
    PROVE  CountInv'
<1>1. /\ {x \in Threads : pc'[x] \in Active} = {x \in Threads : pc[x] \in Active}
      /\ {x \in Threads : pc'[x] \in {"idle", "idleout"}}
           = {x \in Threads : pc[x] \in {"idle", "idleout"}}
  BY DEF Active
<1> QED
  BY <1>1 DEF CountInv

LEMMA TriggerSchedules ==
    ASSUME RunInv, IOTypes, NEW th \in Threads, NEW t \in Tasks, Trigger(th, t)
    PROVE  schedule(t) /\ UNCHANGED <<threadVars, stopVars>>
<1>1. t \in armed /\ fibers' = Append(fibers, t) /\ armed' = armed \ {t} /\ UNCHANGED <<state, yields, threadVars, stopVars>>
  BY DEF Trigger, IOTypes
<1>2. t \notin Queued /\ ~ Held(t)
  BY <1>1 DEF RunInv, OwnInv, OneToken, Held
<1> QED
  BY <1>1, <1>2 DEF schedule, CanSchedule

LEMMA ScheduleCbsFacts ==
    ASSUME RunInv, IOTypes, HoldInv, NEW th \in Threads, ScheduleCbs(th)
    PROVE  /\ fibers' \in Seq(Tasks)
           /\ \A j, k \in 1 .. Len(fibers') : fibers'[j] = fibers'[k] => j = k
           /\ Queued' = Queued \cup cbs[th]
           /\ \A t \in cbs[th] : t \notin Queued \cup armed /\ ~ Held(t) /\ state[t] = "INIT"
           /\ UNCHANGED <<state, armed, yields, threadVars, stopVars>>
<1>1. PICK s \in Orders(cbs[th]) : fibers' = fibers \o s
  BY DEF ScheduleCbs
<1>2. cbs[th] \subseteq Tasks /\ IsFiniteSet(cbs[th])
  BY DEF IOTypes
<1>3. \A t \in cbs[th] : t \notin Queued \cup armed /\ ~ Held(t) /\ state[t] = "INIT"
  BY <1>2 DEF HoldInv, InTimer, Fresh
<1>4. s \in Seq(cbs[th]) /\ ToSet(s) = cbs[th] /\ \A j, k \in 1 .. Len(s) : s[j] = s[k] => j = k
  BY <1>2, OrderFacts
<1>5. s \in Seq(Tasks)
  <2>1. Len(s) \in Nat /\ s \in [1 .. Len(s) -> cbs[th]]
    BY <1>4, LenProperties
  <2>2. s \in [1 .. Len(s) -> Tasks]
    BY <1>2, <2>1
  <2> QED
    BY <2>1, <2>2, SeqDef
<1>6. fibers \in Seq(Tasks) /\ \A j, k \in 1 .. Len(fibers) : fibers[j] = fibers[k] => j = k
  BY DEF RunInv, TypeInv, OwnInv, OneToken
<1>7. ToSet(fibers) \cap ToSet(s) = {}
  BY <1>3, <1>4 DEF Queued
<1>8. /\ fibers \o s \in Seq(Tasks)
      /\ ToSet(fibers \o s) = ToSet(fibers) \cup ToSet(s)
      /\ \A j, k \in 1 .. Len(fibers \o s) : (fibers \o s)[j] = (fibers \o s)[k] => j = k
  BY <1>4, <1>5, <1>6, <1>7, ConcatSet
<1>9. UNCHANGED <<state, armed, yields, threadVars, stopVars>>
  BY DEF ScheduleCbs
<1> QED
  BY <1>1, <1>3, <1>4, <1>8, <1>9 DEF Queued

LEMMA RunStep ==
    ASSUME RunInv, IOTypes, HoldInv, [IONext]_allVars
    PROVE  RunInv'
<1> USE DEF RunInv
<1>1. CASE [Next]_vars
  BY <1>1, TypeStep, OwnStep, PhaseStep, CountStep DEF OwnInv
<1>2. ASSUME NEW th \in Threads, IdleYield(th) PROVE RunInv'
  <2>1. /\ pc[th] = "idle" /\ pc' = [pc EXCEPT ![th] = "idleout"]
        /\ UNCHANGED <<fibers, state, armed, yields, ft, idleTerm, activeThreadCount, idleThreadCount, autoStop, stopping, cpc>>
    BY <1>2 DEF IdleYield, InIdle, taskVars, stopVars
  <2>2. TypeInv'
    BY <2>1 DEF TypeInv, ThreadPc
  <2>3. OwnInv'
    BY <2>1, MoveOwn DEF Holding, Active, OnFiber, taskVars
  <2>4. PhaseInv'
    BY <2>1 DEF PhaseInv, TypeInv
  <2>5. CountInv'
    <3>1. /\ (activeThreadCount' = activeThreadCount) /\ (idleThreadCount' = idleThreadCount)
          /\ {x \in Threads : pc'[x] \in Active} = {x \in Threads : pc[x] \in Active}
          /\ {x \in Threads : pc'[x] \in {"idle", "idleout"}}
               = {x \in Threads : pc[x] \in {"idle", "idleout"}}
      BY <2>1 DEF Active, TypeInv
    <3> QED
      BY <3>1 DEF CountInv
  <2> QED
    BY <2>2, <2>3, <2>4, <2>5
<1>3. ASSUME NEW th \in Threads, ScheduleCbs(th) PROVE RunInv'
  <2>1. /\ fibers' \in Seq(Tasks)
        /\ \A j, k \in 1 .. Len(fibers') : fibers'[j] = fibers'[k] => j = k
        /\ Queued' = Queued \cup cbs[th]
        /\ \A t \in cbs[th] : t \notin Queued \cup armed /\ ~ Held(t) /\ state[t] = "INIT"
        /\ UNCHANGED <<state, armed, yields, threadVars, stopVars>>
    BY <1>3, ScheduleCbsFacts
  <2>2. TypeInv' /\ PhaseInv'
    BY <2>1 DEF TypeInv, PhaseInv, threadVars, stopVars
  <2>3. CountInv'
    BY <2>1, SameCount DEF threadVars
  <2>4. OneToken'
    BY <2>1 DEF OwnInv, OneToken, Held, threadVars
  <2>5. HeldState' /\ Exclusive'
    BY <2>1 DEF OwnInv, HeldState, Exclusive, threadVars
  <2> QED
    BY <2>2, <2>3, <2>4, <2>5 DEF OwnInv
<1>4. ASSUME NEW th \in Threads, NEW t \in Tasks, Trigger(th, t) PROVE RunInv'
  <2>1. schedule(t) /\ UNCHANGED <<threadVars, stopVars>>
    BY <1>4, TriggerSchedules
  <2>2. OwnInv'
    BY <2>1, ScheduleOwn DEF threadVars
  <2>3. TypeInv' /\ PhaseInv'
    BY <2>1, AppendProperties DEF TypeInv, PhaseInv, schedule, threadVars, stopVars
  <2>4. CountInv'
    BY <2>1, SameCount DEF threadVars
  <2> QED
    BY <2>2, <2>3, <2>4
<1>5. CASE RaisesAlone
  <2>1. TypeInv' /\ PhaseInv'
    BY <1>5 DEF RaisesAlone, TypeInv, PhaseInv, CallerPc, taskVars, threadVars
  <2>2. OwnInv'
    BY <1>5 DEF RaisesAlone, OwnInv, OneToken, HeldState, Exclusive, Queued, taskVars, threadVars
  <2>3. CountInv'
    BY <1>5, SameCount DEF RaisesAlone, threadVars
  <2> QED
    BY <2>1, <2>2, <2>3
<1>6. CASE Calls
  <2>1. /\ cpc = "check" /\ cpc' = "called" /\ pc' = [pc EXCEPT ![Caller] = "scan"]
        /\ UNCHANGED <<fibers, state, armed, yields, ft, idleTerm, activeThreadCount, idleThreadCount, autoStop, stopping>>
    BY <1>6 DEF Calls, CallRoot, taskVars
  <2>2. \A x \in Threads : pc'[x] = pc[x] \/ (x = Caller /\ pc[x] = "off" /\ pc'[x] = "scan")
    BY <2>1 DEF TypeInv, PhaseInv
  <2>3. TypeInv' /\ PhaseInv'
    BY <2>1 DEF TypeInv, PhaseInv, CallerPc, ThreadPc
  <2>4. CountInv'
    BY <2>1, <2>2, SameCount
  <2>5. OwnInv'
    BY <2>1, <2>2 DEF OwnInv, OneToken, HeldState, Exclusive, Queued, Holding, Active, OnFiber
  <2> QED
    BY <2>3, <2>4, <2>5
<1> QED
  BY <1>1, <1>2, <1>3, <1>4, <1>5, <1>6, SchedulerSteps

LEMMA TypesStep ==
    ASSUME RunInv, IOTypes, [IONext]_allVars PROVE IOTypes'
<1> USE DEF IOTypes, IdlePc, ioVars, timerVars, eventVars, idleVars
<1>0. \A th \in Threads : th \in Agents
  BY DEF Agents
<1>1. ASSUME NEW x \in Agents, tickle(x) PROVE IOTypes'
  BY <1>1 DEF tickle, RunInv, TypeInv, vars, taskVars
<1>2. ASSUME NEW th \in Threads, IORun(th) PROVE IOTypes'
  <2>1. armed' = armed
    BY <1>2 DEF IORun, Pick, PickNone, SwapIn, SkipTerm, SwappedOut, Settle, Exit, IdleIn, IdleOut, taskVars
  <2>2. tick' \in [Agents -> BOOLEAN]
    BY <1>0, <1>2 DEF IORun
  <2> QED
    BY <1>2, <2>1, <2>2 DEF IORun
<1>3. ASSUME NEW th \in Threads, IdleAction(th) PROVE IOTypes'
  <2> USE DEF GoTo, InIdle, vars, taskVars
  <2>1. CASE NextTimer(th) \/ ReadCount(th)
    BY <2>1 DEF NextTimer, ReadCount
  <2>2. CASE ReadFlags(th)
    BY <2>2 DEF ReadFlags, Idle
  <2>3. CASE EpollWait(th)
    BY <2>3 DEF EpollWait
  <2>4. CASE ListExpired(th)
    <3>1. IsFiniteSet(timers') /\ IsFiniteSet(due)
      BY <2>4, FS_Subset DEF ListExpired
    <3> QED
      BY <2>4, <3>1 DEF ListExpired
  <2>5. CASE ScheduleCbs(th)
    BY <1>0, <2>5, FS_EmptySet DEF ScheduleCbs
  <2>6. CASE Uncount(th) \/ IdleYield(th)
    BY <2>6 DEF Uncount, IdleYield
  <2>7. ASSUME NEW t \in Tasks, Trigger(th, t) PROVE IOTypes'
    <3>1. IsFiniteSet(pending')
      BY <2>7, FS_Subset DEF Trigger
    <3> QED
      BY <1>0, <2>7, <3>1 DEF Trigger
  <2>8. ASSUME NEW t \in Tasks, SkipEvent(th, t) PROVE IOTypes'
    BY <2>8 DEF SkipEvent
  <2> QED
    BY <1>3, <2>1, <2>2, <2>3, <2>4, <2>5, <2>6, <2>7, <2>8 DEF IdleAction
<1>4. ASSUME UserAction PROVE IOTypes'
  <2>1. ASSUME NEW x \in Agents, NEW t \in Tasks, IOSchedule(x, t) PROVE IOTypes'
    <3>1. armed' = armed \ {t} /\ t \notin pending
      BY <2>1 DEF IOSchedule, TaskSchedule, CallerSchedule, schedule, Reserved
    <3> QED
      BY <2>1, <3>1 DEF IOSchedule
  <2>2. ASSUME NEW x \in Agents, NEW t \in Tasks, NEW front \in BOOLEAN, addTimer(x, t, front) PROVE IOTypes'
    <3>1. IsFiniteSet(timers')
      BY <2>2, FS_AddElement DEF addTimer
    <3>2. timely' \in [Threads -> BOOLEAN]
      BY <2>2 DEF addTimer
    <3>3. tickled' \in BOOLEAN /\ tick' \in [Agents -> BOOLEAN]
      BY <2>2 DEF addTimer
    <3> QED
      BY <2>2, <3>1, <3>2, <3>3 DEF addTimer, vars, taskVars
  <2>3. ASSUME NEW th \in Threads, add(th) PROVE IOTypes'
    <3>1. ft[th] \in Tasks /\ armed' = armed \cup {ft[th]}
      BY <2>3 DEF add, Arm, RunInv, OwnInv, HeldState, Holding, Active
    <3>2. IsFiniteSet(pending')
      BY <2>3, FS_AddElement DEF add
    <3> QED
      BY <2>3, <3>1, <3>2 DEF add
  <2>4. ASSUME NEW th \in Threads, IOTask(th) PROVE IOTypes'
    BY <2>4 DEF IOTask, Arm, Yield, Finish, taskVars
  <2>5. ASSUME NEW t \in Tasks, BecomeDue(t) PROVE IOTypes'
    BY <2>5 DEF BecomeDue, vars, taskVars
  <2>6. ASSUME NEW t \in Tasks, BecomeReady(t) PROVE IOTypes'
    BY <2>6 DEF BecomeReady, vars, taskVars
  <2> QED
    BY <1>4, <2>1, <2>2, <2>3, <2>4, <2>5, <2>6 DEF UserAction
<1>5. ASSUME CallerAction PROVE IOTypes'
  <2>1. armed' = armed
    BY <1>5 DEF CallerAction, IOStart, IOStop, RaiseAlone, RaiseWorkers, IOStopCheck, IOLeave, start, Stop,
                Raise, CheckOn, CallRoot, StopCheck, RootBack, Join, vars, taskVars
  <2>2. CASE IOStart \/ IOStop \/ RaiseAlone \/ IOLeave
    BY <2>1, <2>2 DEF IOStart, IOStop, RaiseAlone, IOLeave
  <2>3. CASE RaiseWorkers
    BY <2>1, <2>3 DEF RaiseWorkers
  <2>4. CASE IOStopCheck
    <3>1. cstep' \in {"next", "count", "flags"} /\ tickled' \in BOOLEAN
      BY <2>4 DEF IOStopCheck, CheckOn, CallRoot
    <3> QED
      BY <2>1, <2>4, <3>1 DEF IOStopCheck
  <2> QED
    BY <1>5, <2>2, <2>3, <2>4 DEF CallerAction
<1>6. ASSUME UNCHANGED allVars PROVE IOTypes'
  BY <1>6 DEF allVars, vars, taskVars
<1> QED
  BY <1>1, <1>2, <1>3, <1>4, <1>5, <1>6, IOCases

LEMMA PlaceStep ==
    ASSUME RunInv, IOTypes, PlaceInv, [IONext]_allVars PROVE PlaceInv'
<1> USE DEF PlaceInv, RunInv, TypeInv, IOTypes, ioVars, idleVars
<1>0. \A w \in Workers : w \in Threads
  BY DEF Threads
<1>1. ASSUME NEW x \in Agents, tickle(x) PROVE PlaceInv'
  BY <1>1 DEF tickle, vars, threadVars, stopVars
<1>2. ASSUME NEW th \in Threads, IORun(th) PROVE PlaceInv'
  <2>1. /\ pc[th] # "idle" /\ UNCHANGED <<ipc, cbs, idleTerm, cstep, cpc>>
        /\ \E new : /\ pc' = [pc EXCEPT ![th] = new]
                    /\ new # "off" /\ (new = "idle" => ~ idleTerm[th]) /\ (new = "exit" => idleTerm[th])
    BY <1>2 DEF IORun, Pick, PickNone, SwapIn, SkipTerm, SwappedOut, Settle, Exit, IdleIn, IdleOut, stopVars
  <2> QED
    BY <2>1
<1>3. ASSUME NEW th \in Threads, IdleAction(th) PROVE PlaceInv'
  <2> USE DEF GoTo, InIdle, vars, threadVars, stopVars
  <2>1. CASE NextTimer(th) \/ ReadCount(th)
    BY <2>1 DEF NextTimer, ReadCount
  <2>2. CASE ReadFlags(th)
    <3>1. CASE Stopping
      <4>1. /\ pc' = [pc EXCEPT ![th] = "idleout"] /\ ipc' = [ipc EXCEPT ![th] = "next"]
            /\ pc[th] = "idle" /\ ipc[th] = "flags"
            /\ UNCHANGED <<cbs, cstep, cpc>>
            /\ \A x \in Threads : x # th => idleTerm'[x] = idleTerm[x]
        BY <2>2, <3>1 DEF ReadFlags, Idle
      <4> QED
        BY <1>0, <4>1
    <3>2. CASE ~ Stopping
      BY <2>2, <3>2 DEF ReadFlags
    <3> QED
      BY <3>1, <3>2
  <2>3. CASE EpollWait(th)
    BY <2>3 DEF EpollWait
  <2>4. CASE ListExpired(th)
    BY <2>4 DEF ListExpired
  <2>5. CASE ScheduleCbs(th)
    BY <2>5 DEF ScheduleCbs
  <2>6. CASE Uncount(th) \/ IdleYield(th)
    BY <1>0, <2>6 DEF Uncount, IdleYield
  <2>7. ASSUME NEW t \in Tasks, Trigger(th, t) \/ SkipEvent(th, t) PROVE PlaceInv'
    BY <2>7 DEF Trigger, SkipEvent
  <2> QED
    BY <1>3, <2>1, <2>2, <2>3, <2>4, <2>5, <2>6, <2>7 DEF IdleAction
<1>4. ASSUME UserAction PROVE PlaceInv'
  <2>1. /\ UNCHANGED <<ipc, cbs, idleTerm, cstep, cpc>>
        /\ pc' = pc \/ \E th \in Threads : pc[th] = "run" /\ pc' = [pc EXCEPT ![th] = "swapped"]
    BY <1>4 DEF UserAction, IOSchedule, addTimer, add, IOTask, BecomeDue, BecomeReady, TaskSchedule,
                CallerSchedule, Arm, Yield, Finish, vars, threadVars, stopVars
  <2> QED
    BY <1>0, <2>1
<1>5. ASSUME CallerAction PROVE PlaceInv'
  <2>1. UNCHANGED <<ipc, cbs, idleTerm>>
    BY <1>5 DEF CallerAction, IOStart, IOStop, RaiseAlone, RaiseWorkers, IOStopCheck, IOLeave, start, Stop,
                Raise, CheckOn, CallRoot, StopCheck, RootBack, Join, vars, threadVars
  <2>2. \A x \in Threads : pc'[x] = pc[x] \/ (pc[x] = "off" /\ pc'[x] = "scan")
    BY <1>5 DEF CallerAction, IOStart, IOStop, RaiseAlone, RaiseWorkers, IOStopCheck, IOLeave, start, Stop,
                Raise, CheckOn, CallRoot, StopCheck, RootBack, Join, vars, threadVars, PhaseInv
  <2>3. cstep' # "next" => cpc' = "check"
    BY <1>5 DEF CallerAction, IOStart, IOStop, RaiseAlone, RaiseWorkers, IOStopCheck, IOLeave, start, Stop,
                Raise, CheckOn, CallRoot, StopCheck, RootBack, Join, vars, stopVars
  <2>4. cpc = "new" => \A w \in Workers : pc'[w] # "off"
    BY <1>5 DEF CallerAction, IOStart, IOStop, RaiseAlone, RaiseWorkers, IOStopCheck, IOLeave, start, Stop,
                Raise, RootBack, Join, Threads
  <2> QED
    BY <2>1, <2>2, <2>3, <2>4 DEF Threads
<1>6. ASSUME UNCHANGED allVars PROVE PlaceInv'
  BY <1>6 DEF allVars, vars, threadVars, stopVars
<1> QED
  BY <1>1, <1>2, <1>3, <1>4, <1>5, <1>6, IOCases

(* A callback in the hands of a timer.                                     *)
Unused(t) == Fresh(t) /\ t \notin Queued /\ ~ Held(t)

(* The run loop, and a task that runs, pass over what has not been queued. *)
LEMMA RunKeepsUnused ==
    ASSUME RunInv, NEW th \in Threads, IORun(th) \/ add(th) \/ IOTask(th), NEW t \in Tasks, Unused(t)
    PROVE  Unused(t)'
<1> USE DEF RunInv, TypeInv, Unused
<1>1. CASE IORun(th) /\ Pick(th)
  <2>1. Queued' = Queued \ {ft'[th]} /\ ft'[th] \in Queued
    BY <1>1, PickOwn
  <2>2. /\ pc' = [pc EXCEPT ![th] = "got"] /\ UNCHANGED <<state, yields>>
        /\ \A x \in Threads : x # th => ft'[x] = ft[x]
    BY <1>1 DEF Pick
  <2>3. ~ Held(t)'
    BY <2>1, <2>2 DEF Held
  <2> QED
    BY <2>1, <2>2, <2>3 DEF Fresh
<1>2. CASE ~ Pick(th)
  <2>1. /\ UNCHANGED fibers
        /\ \A x \in Threads : pc'[x] = "got" => pc[x] = "got" /\ ft'[x] = ft[x]
    <3>1. CASE IORun(th)
      BY <1>2, <3>1 DEF IORun, PickNone, SwapIn, SkipTerm, SwappedOut, Settle, Exit, IdleIn, IdleOut, taskVars
    <3>2. CASE add(th) \/ IOTask(th)
      BY <3>2 DEF add, IOTask, Arm, Yield, Finish, taskVars, threadVars
    <3> QED
      BY <3>1, <3>2
  <2>2. Fresh(t)'
    <3>1. CASE SwapIn(th)
      BY <3>1 DEF SwapIn, Fresh, Held
    <3>2. CASE Settle(th)
      BY <3>2 DEF Settle, Fresh
    <3>3. CASE Arm(th) \/ Finish(th)
      <4>1. state[ft[th]] = "EXEC" /\ pc[th] = "run"
        BY <3>3 DEF Arm, Finish, OwnInv, HeldState
      <4> QED
        BY <3>3, <4>1 DEF Arm, Finish, Fresh
    <3>4. CASE PickNone(th) \/ SkipTerm(th) \/ SwappedOut(th) \/ Exit(th) \/ IdleIn(th) \/ IdleOut(th) \/ Yield(th)
      BY <3>4 DEF PickNone, SkipTerm, SwappedOut, Exit, IdleIn, IdleOut, Yield, taskVars, Fresh
    <3> QED
      BY <1>2, <3>1, <3>2, <3>3, <3>4 DEF IORun, add, IOTask
  <2> QED
    BY <2>1, <2>2 DEF Queued, Held
<1> QED
  BY <1>1, <1>2 DEF IORun, add, IOTask, Arm, Yield, Finish, Pick

(* Where nothing is queued and no thread takes a task.                     *)
LEMMA SameUnused ==
    ASSUME UNCHANGED <<fibers, state, yields, ft>>,
           \A x \in Threads : pc'[x] = "got" => pc[x] = "got",
           NEW t \in Tasks, Unused(t)
    PROVE  Unused(t)'
BY DEF Unused, Fresh, Queued, Held

LEMMA HoldStep ==
    ASSUME RunInv, IOTypes, PlaceInv, HoldInv, [IONext]_allVars PROVE HoldInv'
<1> USE DEF RunInv, TypeInv, IOTypes, HoldInv, PlaceInv, ioVars, timerVars, eventVars, idleVars
<1>0. \A t \in Tasks : InTimer(t) => Unused(t)
  BY DEF Unused
<1>a. ASSUME UNCHANGED <<timers, cbs, armed, yields>>, \A t \in Tasks : Unused(t) => Unused(t)'
      PROVE  HoldInv'
  <2>1. \A t \in Tasks : InTimer(t)' <=> InTimer(t)
    BY <1>a DEF InTimer
  <2> QED
    BY <1>0, <1>a, <2>1 DEF Unused
<1>b. ASSUME UNCHANGED <<timers, cbs, armed, fibers, state, yields, ft>>,
             \A x \in Threads : pc'[x] = "got" => pc[x] = "got"
      PROVE  HoldInv'
  BY <1>a, <1>b, SameUnused
<1>1. ASSUME NEW x \in Agents, tickle(x) PROVE HoldInv'
  BY <1>1, <1>b DEF tickle, vars, taskVars, threadVars
<1>2. ASSUME NEW th \in Threads, IORun(th) PROVE HoldInv'
  <2>1. UNCHANGED <<timers, cbs, armed, yields>>
    BY <1>2 DEF IORun, Pick, PickNone, SwapIn, SkipTerm, SwappedOut, Settle, Exit, IdleIn, IdleOut, taskVars
  <2> QED
    BY <1>2, <1>a, <2>1, RunKeepsUnused
<1>3. ASSUME NEW th \in Threads, IdleAction(th) PROVE HoldInv'
  <2>1. CASE NextTimer(th) \/ ReadCount(th) \/ ReadFlags(th) \/ EpollWait(th) \/ Uncount(th) \/ IdleYield(th)
             \/ \E t \in Tasks : SkipEvent(th, t)
    <3>1. /\ UNCHANGED <<timers, cbs, armed, fibers, state, yields, ft>>
          /\ \A x \in Threads : pc'[x] = "got" => pc[x] = "got"
      BY <2>1 DEF NextTimer, ReadCount, ReadFlags, Idle, EpollWait, Uncount, IdleYield, SkipEvent, vars,
                  taskVars, threadVars
    <3> QED
      BY <1>b, <3>1
  <2>2. CASE ListExpired(th)
    <3>1. /\ cbs[th] = {} /\ cbs' = [cbs EXCEPT ![th] = due] /\ timers' = timers \ due
          /\ UNCHANGED <<armed, fibers, state, yields, ft, pc>>
      BY <2>2 DEF ListExpired, InIdle, vars, taskVars, threadVars
    <3>2. \A t \in Tasks : InTimer(t)' => InTimer(t)
      BY <3>1 DEF InTimer
    <3>3. \A t \in Tasks : Unused(t) => Unused(t)'
      BY <3>1, SameUnused
    <3> QED
      BY <1>0, <3>1, <3>2, <3>3 DEF Unused
  <2>3. CASE ScheduleCbs(th)
    <3>1. /\ Queued' = Queued \cup cbs[th] /\ cbs' = [cbs EXCEPT ![th] = {}]
          /\ UNCHANGED <<state, armed, yields, ft, pc, timers>>
      BY <2>3, ScheduleCbsFacts DEF ScheduleCbs, threadVars
    <3>2. \A t \in Tasks : InTimer(t)' => InTimer(t) /\ t \notin cbs[th]
      BY <3>1 DEF InTimer
    <3>3. \A t \in Tasks : InTimer(t)' => Fresh(t)' /\ ~ Held(t)'
      BY <3>1, <3>2 DEF Fresh, Held
    <3> QED
      BY <3>1, <3>2, <3>3
  <2>4. ASSUME NEW t \in Tasks, Trigger(th, t) PROVE HoldInv'
    <3>1. /\ schedule(t) /\ UNCHANGED <<threadVars, stopVars>> /\ t \in armed /\ UNCHANGED <<timers, cbs>>
      BY <2>4, TriggerSchedules DEF Trigger
    <3>2. /\ Queued' = Queued \cup {t} /\ armed' = armed \ {t}
          /\ UNCHANGED <<state, yields, pc, ft>>
      BY <3>1, ScheduleOwn DEF schedule, threadVars
    <3>3. \A u \in Tasks : InTimer(u)' <=> InTimer(u)
      BY <3>1 DEF InTimer
    <3>4. ~ InTimer(t)
      BY <3>1 DEF Fresh
    <3>5. \A u \in Tasks : InTimer(u) => Fresh(u)' /\ ~ Held(u)' /\ u \notin Queued'
      BY <3>2, <3>4 DEF Fresh, Held
    <3> QED
      BY <3>1, <3>2, <3>3, <3>5
  <2> QED
    BY <1>3, <2>1, <2>2, <2>3, <2>4 DEF IdleAction
<1>4. ASSUME UserAction PROVE HoldInv'
  <2>1. ASSUME NEW x \in Agents, NEW t \in Tasks, IOSchedule(x, t) PROVE HoldInv'
    <3>1. /\ schedule(t) /\ UNCHANGED <<threadVars, stopVars>> /\ ~ InTimer(t) /\ UNCHANGED <<timers, cbs>>
      BY <2>1 DEF IOSchedule, TaskSchedule, CallerSchedule, Reserved
    <3>2. /\ Queued' = Queued \cup {t} /\ armed' = armed \ {t}
          /\ UNCHANGED <<state, yields, pc, ft>>
      BY <3>1, ScheduleOwn DEF schedule, threadVars
    <3>3. \A u \in Tasks : InTimer(u)' <=> InTimer(u)
      BY <3>1 DEF InTimer
    <3>4. \A u \in Tasks : InTimer(u) => Fresh(u)' /\ ~ Held(u)' /\ u \notin Queued'
      BY <3>1, <3>2 DEF Fresh, Held
    <3> QED
      BY <3>1, <3>2, <3>3, <3>4
  <2>2. ASSUME NEW x \in Agents, NEW t \in Tasks, NEW front \in BOOLEAN, addTimer(x, t, front) PROVE HoldInv'
    <3>1. /\ Unused(t) /\ ~ InTimer(t) /\ timers' = timers \cup {t} /\ cbs' = cbs
          /\ UNCHANGED <<armed, fibers, state, yields, ft, pc>>
      BY <2>2 DEF addTimer, CanSchedule, Reserved, Unused, vars, taskVars, threadVars
    <3>2. \A u \in Tasks : InTimer(u)' => InTimer(u) \/ u = t
      BY <3>1 DEF InTimer
    <3>3. \A u \in Tasks : Unused(u) => Unused(u)'
      BY <3>1, SameUnused
    <3>4. \A y \in Threads : cbs'[y] \cap timers' = {}
      BY <3>1 DEF InTimer
    <3>5. \A u \in Tasks : InTimer(u)' => Unused(u)'
      BY <1>0, <3>1, <3>2, <3>3
    <3> QED
      BY <3>1, <3>4, <3>5 DEF Unused
  <2>3. ASSUME NEW th \in Threads, add(th) \/ IOTask(th) PROVE HoldInv'
    <3>1. UNCHANGED <<timers, cbs>>
      BY <2>3 DEF add, IOTask
    <3>2. \A t \in Tasks : Unused(t) => Unused(t)'
      BY <2>3, RunKeepsUnused
    <3>3. \A t \in armed' : yields'[t] > 0
      <4>1. CASE Arm(th)
        <5>1. ft[th] \in Tasks
          BY <4>1 DEF Arm, OwnInv, HeldState, Holding, Active
        <5>2. yields[ft[th]] + 1 > 0 /\ armed' = armed \cup {ft[th]} /\ yields' = [yields EXCEPT ![ft[th]] = @ + 1]
          BY <4>1, <5>1, SchedulerAssumption DEF Arm
        <5> QED
          BY <5>1, <5>2
      <4>2. CASE Yield(th) \/ Finish(th)
        BY <4>2 DEF Yield, Finish, taskVars
      <4> QED
        BY <2>3, <4>1, <4>2 DEF add, IOTask
    <3>4. \A t \in Tasks : InTimer(t)' <=> InTimer(t)
      BY <3>1 DEF InTimer
    <3> QED
      BY <1>0, <3>1, <3>2, <3>3, <3>4 DEF Unused
  <2>4. ASSUME NEW t \in Tasks, BecomeDue(t) \/ BecomeReady(t) PROVE HoldInv'
    BY <1>b, <2>4 DEF BecomeDue, BecomeReady, vars, taskVars, threadVars
  <2> QED
    BY <1>4, <2>1, <2>2, <2>3, <2>4 DEF UserAction
<1>5. ASSUME CallerAction PROVE HoldInv'
  <2>1. /\ UNCHANGED <<timers, cbs, armed, fibers, state, yields, ft>>
        /\ \A x \in Threads : pc'[x] = "got" => pc[x] = "got"
    BY <1>5 DEF CallerAction, IOStart, IOStop, RaiseAlone, RaiseWorkers, IOStopCheck, IOLeave, start, Stop,
                Raise, CheckOn, CallRoot, StopCheck, RootBack, Join, vars, taskVars, threadVars
  <2> QED
    BY <1>b, <2>1
<1>6. ASSUME UNCHANGED allVars PROVE HoldInv'
  BY <1>6, <1>b DEF allVars, vars, taskVars, threadVars
<1> QED
  BY <1>1, <1>2, <1>3, <1>4, <1>5, <1>6, IOCases

LEMMA TriggerCount ==
    ASSUME ipc \in [Threads -> IdlePc], NEW th \in Threads, NEW new \in IdlePc, GoTo(th, new)
    PROVE  LET before == Cardinality({x \in Threads : ipc[x] = "trigger"})
               after == Cardinality({x \in Threads : ipc'[x] = "trigger"})
           IN  /\ before \in Nat
               /\ ipc[th] = "trigger" /\ new # "trigger" => after = before - 1
               /\ ipc[th] # "trigger" /\ new = "trigger" => after = before + 1
               /\ ipc[th] # "trigger" /\ new # "trigger" => after = before
<1> DEFINE B == {x \in Threads : ipc[x] = "trigger"}
           A == {x \in Threads : ipc'[x] = "trigger"}
<1>0. ipc' = [ipc EXCEPT ![th] = new]
  BY DEF GoTo
<1>1. IsFiniteSet(B) /\ IsFiniteSet(A)
  BY ThreadsFinite, FS_Subset
<1>2. Cardinality(B) \in Nat
  BY <1>1, FS_CardinalityType
<1>3. ASSUME ipc[th] = "trigger", new # "trigger" PROVE Cardinality(A) = Cardinality(B) - 1
  <2>1. A = B \ {th} /\ th \in B
    BY <1>0, <1>3
  <2> QED
    BY <1>1, <2>1, FS_RemoveElement
<1>4. ASSUME ipc[th] # "trigger", new = "trigger" PROVE Cardinality(A) = Cardinality(B) + 1
  <2>1. A = B \cup {th} /\ th \notin B
    BY <1>0, <1>4
  <2> QED
    BY <1>1, <2>1, FS_AddElement
<1>5. ASSUME ipc[th] # "trigger", new # "trigger" PROVE A = B
  BY <1>0, <1>5
<1> QED
  BY <1>2, <1>3, <1>4, <1>5

LEMMA PendingStep ==
    ASSUME RunInv, IOTypes, PendingExact, [IONext]_allVars PROVE PendingExact'
<1> USE DEF IOTypes, ioVars, eventVars, idleVars
<1> DEFINE Triggers == Cardinality({x \in Threads : ipc[x] = "trigger"})
<1>0. Triggers \in Nat /\ Cardinality(pending) \in Nat
  <2>1. IsFiniteSet({x \in Threads : ipc[x] = "trigger"})
    BY ThreadsFinite, FS_Subset
  <2> QED
    BY <2>1, FS_CardinalityType
<1>a. ASSUME UNCHANGED <<pending, pendingCount, ipc>> PROVE PendingExact'
  BY <1>a DEF PendingExact
<1>1. ASSUME NEW x \in Agents, tickle(x) PROVE PendingExact'
  BY <1>1, <1>a DEF tickle
<1>2. ASSUME NEW th \in Threads, IORun(th) PROVE PendingExact'
  BY <1>2, <1>a DEF IORun
<1>3. ASSUME NEW th \in Threads, IdleAction(th) PROVE PendingExact'
  <2>1. ASSUME NEW new \in IdlePc \ {"trigger"}, GoTo(th, new), ipc[th] # "trigger",
               UNCHANGED <<pending, pendingCount>>
        PROVE  PendingExact'
    BY <2>1, TriggerCount DEF PendingExact
  <2>2. CASE NextTimer(th) \/ ReadCount(th) \/ ReadFlags(th) \/ EpollWait(th) \/ ListExpired(th)
             \/ ScheduleCbs(th) \/ IdleYield(th)
    <3>1. /\ ipc[th] # "trigger" /\ UNCHANGED <<pending, pendingCount>>
          /\ \E new \in IdlePc \ {"trigger"} : GoTo(th, new)
      BY <2>2 DEF NextTimer, ReadCount, ReadFlags, EpollWait, ListExpired, ScheduleCbs, IdleYield, InIdle, IdlePc
    <3> QED
      BY <2>1, <3>1
  <2>3. CASE Uncount(th)
    <3>1. /\ ipc[th] = "trigger" /\ GoTo(th, "events") /\ pending' = pending /\ pendingCount' = pendingCount - 1
      BY <2>3 DEF Uncount, InIdle
    <3>2. Triggers' = Triggers - 1
      BY <3>1, TriggerCount DEF IdlePc
    <3> QED
      BY <1>0, <3>1, <3>2 DEF PendingExact
  <2>4. ASSUME NEW t \in Tasks, Trigger(th, t) PROVE PendingExact'
    <3>1. /\ ipc[th] = "events" /\ GoTo(th, "trigger")
          /\ t \in pending /\ pending' = pending \ {t} /\ pendingCount' = pendingCount
      BY <2>4 DEF Trigger, InIdle
    <3>2. Triggers' = Triggers + 1
      BY <3>1, TriggerCount DEF IdlePc
    <3>3. Cardinality(pending') = Cardinality(pending) - 1
      BY <3>1, FS_RemoveElement
    <3> QED
      BY <1>0, <3>1, <3>2, <3>3 DEF PendingExact
  <2>5. ASSUME NEW t \in Tasks, SkipEvent(th, t) PROVE PendingExact'
    BY <1>a, <2>5 DEF SkipEvent
  <2> QED
    BY <1>3, <2>2, <2>3, <2>4, <2>5 DEF IdleAction
<1>4. ASSUME UserAction PROVE PendingExact'
  <2>1. ASSUME NEW th \in Threads, add(th) PROVE PendingExact'
    <3>1. /\ ft[th] \notin pending /\ pending' = pending \cup {ft[th]} /\ pendingCount' = pendingCount + 1
          /\ ipc' = ipc
      BY <2>1 DEF add, Arm
    <3>2. Cardinality(pending') = Cardinality(pending) + 1
      BY <3>1, FS_AddElement
    <3> QED
      BY <1>0, <3>1, <3>2 DEF PendingExact
  <2>2. CASE ~ \E th \in Threads : add(th)
    BY <1>4, <1>a, <2>2 DEF UserAction, IOSchedule, addTimer, IOTask, BecomeDue, BecomeReady
  <2> QED
    BY <2>1, <2>2
<1>5. ASSUME CallerAction PROVE PendingExact'
  BY <1>5, <1>a DEF CallerAction, IOStart, IOStop, RaiseAlone, RaiseWorkers, IOStopCheck, IOLeave
<1>6. ASSUME UNCHANGED allVars PROVE PendingExact'
  BY <1>6, <1>a DEF allVars
<1> QED
  BY <1>1, <1>2, <1>3, <1>4, <1>5, <1>6, IOCases

(* A thread that leaves for good was not gone before it read the flags, or *)
(* before stop() did; nobody else becomes one that has left.               *)
LEMMA LeftStep ==
    ASSUME RunInv, IOTypes, PlaceInv, LeftInv, [IONext]_allVars PROVE LeftInv'
<1> USE DEF RunInv, TypeInv
<1> DEFINE AllGone == \A th \in Threads : Gone(th)
           Left == autoStop /\ fibers = <<>> /\ \A th \in Threads : pc[th] \notin Active
<1>a. ASSUME Stopping PROVE Left
  BY <1>a, NobodyActive DEF Stopping
<1>b. ASSUME AllGone PROVE Left
  BY <1>b DEF LeftInv
<1>c. ASSUME UNCHANGED <<autoStop, fibers, idleTerm, pc, cpc>> PROVE LeftInv'
  BY <1>c DEF LeftInv, Gone
<1>d. ASSUME AllGone' => Left, Left => autoStop' /\ fibers' = fibers,
             \A th \in Threads : pc'[th] \in Active => pc[th] \in Active
      PROVE  LeftInv'
  BY <1>d DEF LeftInv
<1> HIDE DEF AllGone, Left
<1>1. ASSUME NEW x \in Agents, tickle(x) PROVE LeftInv'
  BY <1>1, <1>c DEF tickle, vars, taskVars, threadVars, stopVars
<1>2. ASSUME NEW th \in Threads, IORun(th) PROVE LeftInv'
  <2>1. /\ pc[th] # "off" /\ UNCHANGED <<autoStop, idleTerm, cpc>>
        /\ \E new \in ThreadPc \ {"off"} : pc' = [pc EXCEPT ![th] = new]
    BY <1>2 DEF IORun, Pick, PickNone, SwapIn, SkipTerm, SwappedOut, Settle, Exit, IdleIn, IdleOut, stopVars, ThreadPc
  <2>2. AllGone' => AllGone
    BY <2>1 DEF AllGone, Gone
  <2>3. CASE Pick(th)
    <3>1. fibers # <<>>
      BY <2>3 DEF Pick
    <3> QED
      BY <1>b, <2>2, <3>1 DEF LeftInv, AllGone, Left
  <2>4. CASE ~ Pick(th)
    <3>1. /\ fibers' = fibers
          /\ \A x \in Threads : pc'[x] \in Active => pc[x] \in Active
      BY <1>2, <2>4 DEF IORun, PickNone, SwapIn, SkipTerm, SwappedOut, Settle, Exit, IdleIn, IdleOut, taskVars, Active
    <3> QED
      BY <1>b, <1>d, <2>1, <2>2, <3>1 DEF Left
  <2> QED
    BY <2>3, <2>4
<1>3. ASSUME NEW th \in Threads, IdleAction(th) PROVE LeftInv'
  <2>1. pc[th] = "idle" /\ ~ Gone(th)
    BY <1>3 DEF IdleAction, NextTimer, ReadCount, ReadFlags, EpollWait, ListExpired, ScheduleCbs, Uncount,
                IdleYield, Trigger, SkipEvent, InIdle, PlaceInv, Gone
  <2>2. CASE ReadFlags(th) /\ Stopping
    <3>1. /\ pc' = [pc EXCEPT ![th] = "idleout"] /\ UNCHANGED <<autoStop, fibers>>
      BY <2>2 DEF ReadFlags, Idle, taskVars, stopVars
    <3> QED
      BY <1>a, <1>d, <2>2, <3>1 DEF Left, Active
  <2>3. CASE ~ (ReadFlags(th) /\ Stopping)
    <3>1. UNCHANGED idleTerm /\ pc'[th] \in {"idle", "idleout"}
      BY <1>3, <2>1, <2>3 DEF IdleAction, NextTimer, ReadCount, ReadFlags, EpollWait, ListExpired, ScheduleCbs,
                  Uncount, IdleYield, Trigger, SkipEvent, vars, threadVars
    <3>2. ~ Gone(th)'
      BY <2>1, <3>1 DEF Gone
    <3> QED
      BY <3>2 DEF LeftInv
  <2> QED
    BY <2>2, <2>3
<1>4. ASSUME UserAction PROVE LeftInv'
  <2>1. CASE \E t \in Tasks : BecomeDue(t) \/ BecomeReady(t)
    BY <1>c, <2>1 DEF BecomeDue, BecomeReady, vars, taskVars, threadVars, stopVars
  <2>2. ASSUME NEW th \in Threads, add(th) \/ IOTask(th) PROVE LeftInv'
    <3>1. pc[th] = "run" /\ UNCHANGED <<idleTerm, cpc>> /\ pc'[th] # "off"
      BY <2>2 DEF add, IOTask, Arm, Yield, Finish, threadVars, stopVars
    <3>2. ~ Left
      BY <3>1 DEF Left, Active
    <3>3. ~ AllGone
      BY <1>b, <3>2
    <3>4. AllGone' => AllGone
      <4>1. \A y \in Threads : y # th => pc'[y] = pc[y]
        BY <2>2 DEF add, IOTask, Arm, Yield, Finish, threadVars
      <4> QED
        BY <3>1, <4>1 DEF AllGone, Gone
    <3> QED
      BY <3>3, <3>4 DEF LeftInv, AllGone
  <2>3. ASSUME NEW x \in Agents, NEW t \in Tasks,
               IOSchedule(x, t) \/ \E front \in BOOLEAN : addTimer(x, t, front)
        PROVE  LeftInv'
    <3>1. /\ UNCHANGED <<idleTerm, pc, cpc>>
          /\ cpc \in {"new", "up"} \/ \E th \in Threads : pc[th] = "run"
      BY <2>3 DEF IOSchedule, addTimer, TaskSchedule, CallerSchedule, vars, threadVars, stopVars
    <3>2. ~ Left
      BY <3>1 DEF Left, PhaseInv, Active
    <3> QED
      BY <1>b, <3>1, <3>2 DEF LeftInv, AllGone, Gone
  <2> QED
    BY <1>4, <2>1, <2>2, <2>3 DEF UserAction
<1>5. ASSUME CallerAction PROVE LeftInv'
  <2>0. /\ UNCHANGED <<fibers, idleTerm>>
        /\ \A x \in Threads : pc'[x] = pc[x] \/ (pc[x] = "off" /\ pc'[x] = "scan")
    BY <1>5 DEF CallerAction, IOStart, IOStop, RaiseAlone, RaiseWorkers, IOStopCheck, IOLeave, start, Stop,
                Raise, CheckOn, CallRoot, StopCheck, RootBack, Join, vars, threadVars, taskVars, PhaseInv
  <2>1. autoStop => autoStop'
    BY <1>5 DEF CallerAction, IOStart, IOStop, RaiseAlone, RaiseWorkers, IOStopCheck, IOLeave, start, Stop,
                Raise, CheckOn, CallRoot, StopCheck, RootBack, Join, vars, stopVars
  <2>2. \A x \in Threads : pc'[x] \in Active => pc[x] \in Active
    BY <2>0 DEF Active
  <2>3. AllGone' => Left
    <3>1. CASE (cpc' \in {"join", "done"}) => (cpc \in {"join", "done"})
      BY <1>b, <2>0, <3>1 DEF AllGone, Gone
    <3>2. CASE (cpc' \in {"join", "done"}) /\ cpc \notin {"join", "done"}
      <4>1. CASE RaiseAlone
        <5>1. autoStop /\ fibers = <<>> /\ activeThreadCount = 0
          BY <3>2, <4>1 DEF RaiseAlone, Stopping, taskVars, threadVars
        <5> QED
          BY <5>1, NobodyActive DEF Left
      <4>2. CASE IOStopCheck
        <5>1. Stopping
          BY <3>2, <4>2 DEF IOStopCheck, CheckOn, CallRoot, vars, stopVars
        <5> QED
          BY <1>a, <5>1
      <4>3. CASE RaiseWorkers
        <5>1. ~ UseCaller /\ UNCHANGED pc /\ cpc # "new"
          BY <3>2, <4>3 DEF RaiseWorkers, Raise, threadVars
        <5>2. \A th \in Threads : pc[th] # "off"
          BY <5>1 DEF PlaceInv, Threads
        <5> QED
          BY <1>b, <2>0, <5>1, <5>2 DEF AllGone, Gone
      <4>4. CASE IOLeave
        <5>1. cpc = "called" /\ pc[Caller] = "exit" /\ UNCHANGED pc
          BY <3>2, <4>4 DEF IOLeave, RootBack, Join, threadVars
        <5>2. \A th \in Threads : pc[th] # "off"
          BY <5>1 DEF PlaceInv, Threads
        <5> QED
          BY <1>b, <2>0, <5>1, <5>2 DEF AllGone, Gone
      <4>5. ~ IOStart /\ ~ IOStop
        BY <3>2 DEF IOStart, IOStop, start, Stop
      <4> QED
        BY <1>5, <4>1, <4>2, <4>3, <4>4, <4>5 DEF CallerAction
    <3> QED
      BY <3>1, <3>2
  <2> QED
    BY <1>d, <2>0, <2>1, <2>2, <2>3 DEF Left
<1>6. ASSUME UNCHANGED allVars PROVE LeftInv'
  BY <1>6, <1>c DEF allVars, vars, taskVars, threadVars, stopVars
<1> QED
  BY <1>1, <1>2, <1>3, <1>4, <1>5, <1>6, IOCases

(* What the m_tickled protocol depends on stays as it is for every thread  *)
(* that has not come to a point from where it asks again.                  *)
Same(th) ==
    \/ UNCHANGED <<pc[th], ipc[th], idleTerm[th]>>
    \/ th \in Stays' /\ ~ Passed(th)'
    \/ th \notin Stays /\ th \notin Stays' /\ ~ Passed(th)'

LEMMA CoverSame ==
    ASSUME CoverInv, timely' = timely, timers' \subseteq timers, tickled' => tickled,
           WakeUpOnItsWay => WakeUpOnItsWay' \/ \E th \in Stays' : ~ Passed(th)',
           \A th \in Threads : Same(th)
    PROVE  CoverInv'
<1> DEFINE Asks == \E th \in Stays : ~ Passed(th)
           Covers == \E th \in Stays : ~ Passed(th) \/ timely[th]
<1>1. \A th \in Stays' : ~ Passed(th)' \/ (th \in Stays /\ (Passed(th) <=> Passed(th)') /\ timely[th] = timely'[th])
  BY DEF Same, Stays, Passed
<1>2. \A th \in Stays : ~ Passed(th) \/ timely[th] =>
        (th \in Stays' /\ (~ Passed(th)' \/ timely'[th]) /\ (~ Passed(th) => ~ Passed(th)'))
  BY DEF Same, Stays, Passed
<1>3. Stays' # {} => Stays # {} \/ Asks'
  BY <1>1
<1>4. Asks => Asks'
  BY <1>2
<1>5. Covers => Covers'
  BY <1>2
<1>6. Asks' => Covers'
  OBVIOUS
<1>7. \A th \in Threads : pc'[th] = "idle" /\ ipc'[th] \in {"count", "flags"} /\ timely'[th] => timers' = {}
  BY DEF CoverInv, Same, Passed
<1>8. /\ Stays # {} /\ tickled => WakeUpOnItsWay \/ Asks
      /\ Stays # {} /\ timers # {} => WakeUpOnItsWay \/ Covers
      /\ WakeUpOnItsWay => WakeUpOnItsWay' \/ Asks'
  BY DEF CoverInv
<1>9. /\ Stays' # {} /\ tickled' => WakeUpOnItsWay' \/ Asks'
      /\ Stays' # {} /\ timers' # {} => WakeUpOnItsWay' \/ Covers'
  <2>1. timers' # {} => timers # {}
    OBVIOUS
  <2> HIDE DEF Asks, Covers
  <2> QED
    BY <2>1, <1>3, <1>4, <1>5, <1>6, <1>8
<1> HIDE DEF Asks, Covers
<1>10. (Asks' <=> \E th \in Stays' : ~ Passed(th)') /\ (Covers' <=> \E th \in Stays' : ~ Passed(th)' \/ timely'[th])
  BY DEF Asks, Covers
<1> QED
  BY <1>7, <1>9, <1>10 DEF CoverInv

LEMMA CoverStep ==
    ASSUME RunInv, IOTypes, PlaceInv, CoverInv, [IONext]_allVars PROVE CoverInv'
<1> USE DEF RunInv, TypeInv, IOTypes, PlaceInv, ioVars, timerVars, eventVars, idleVars
<1>a. ASSUME UNCHANGED <<timely, timers, tickled, edge>>, \A x \in Agents : tick[x] => tick'[x],
             \A th \in Threads : Same(th)
      PROVE  CoverInv'
  BY <1>a, CoverSame DEF WakeUpOnItsWay
<1>b. \A th \in Threads : th \in Agents
  BY DEF Agents
<1>1. ASSUME NEW x \in Agents, tickle(x) PROVE CoverInv'
  <2>1. /\ UNCHANGED <<timely, timers, tickled, pc, ipc, idleTerm>>
        /\ edge' = (edge \/ idleThreadCount > 0)
    BY <1>1 DEF tickle, vars, threadVars
  <2>2. \A th \in Threads : Same(th)
    BY <2>1 DEF Same
  <2>3. CASE idleThreadCount > 0
    BY <2>1, <2>2, <2>3, CoverSame DEF WakeUpOnItsWay
  <2>4. CASE ~ (idleThreadCount > 0)
    <3> DEFINE I == {th \in Threads : pc[th] \in {"idle", "idleout"}}
    <3>1. IsFiniteSet(I)
      BY ThreadsFinite, FS_Subset
    <3>2. idleThreadCount = Cardinality(I) /\ Cardinality(I) \in Nat
      BY <3>1, FS_CardinalityType DEF CountInv
    <3>3. Cardinality(I) = 0
      BY <2>4, <3>2
    <3>4. I = {}
      BY <3>1, <3>3, FS_EmptySet
    <3>5. \A th \in Threads : ~ Passed(th)' /\ pc'[th] # "idle"
      BY <2>1, <3>4 DEF Passed
    <3> QED
      BY <3>5 DEF CoverInv, Stays
  <2> QED
    BY <2>3, <2>4
<1>2. ASSUME NEW th \in Threads, IORun(th) PROVE CoverInv'
  <2>1. /\ UNCHANGED <<timely, timers, tickled, edge, ipc, idleTerm>>
        /\ \A x \in Agents : tick[x] => tick'[x]
        /\ \A x \in Threads : x # th => pc'[x] = pc[x]
    BY <1>2 DEF IORun, Pick, PickNone, SwapIn, SkipTerm, SwappedOut, Settle, Exit, IdleIn, IdleOut
  <2>2. Same(th)
    <3>1. /\ pc[th] # "idle" /\ pc[th] # "off" /\ ipc[th] = "next"
          /\ pc'[th] # "off" /\ (pc'[th] = "exit" => idleTerm[th])
      BY <1>2 DEF IORun, Pick, PickNone, SwapIn, SkipTerm, SwappedOut, Settle, Exit, IdleIn, IdleOut
    <3> QED
      BY <2>1, <3>1 DEF Same, Stays, Passed
  <2>3. \A x \in Threads : Same(x)
    BY <2>1, <2>2 DEF Same
  <2> QED
    BY <1>a, <2>1, <2>3
<1>3. ASSUME NEW th \in Threads, IdleAction(th) PROVE CoverInv'
  <2>0. /\ pc[th] = "idle" /\ th \in Stays
        /\ \A x \in Threads : x # th => UNCHANGED <<pc[x], ipc[x], idleTerm[x]>>
    BY <1>3 DEF IdleAction, NextTimer, ReadCount, ReadFlags, Idle, EpollWait, ListExpired, ScheduleCbs, Uncount,
                IdleYield, Trigger, SkipEvent, InIdle, GoTo, vars, threadVars, Stays
  <2>1. CASE NextTimer(th)
    <3>1. /\ tickled' = FALSE /\ timely' = [timely EXCEPT ![th] = TRUE]
          /\ UNCHANGED <<pc, idleTerm, timers, edge, tick>>
          /\ ipc' = [ipc EXCEPT ![th] = IF timers = {} THEN "count" ELSE "wait"]
      BY <2>1 DEF NextTimer, GoTo, vars, threadVars
    <3>2. th \in Stays' /\ timely'[th]
      BY <2>0, <3>1 DEF Stays
    <3>3. \A x \in Threads : pc'[x] = "idle" /\ ipc'[x] \in {"count", "flags"} /\ timely'[x] => timers' = {}
      BY <3>1 DEF CoverInv
    <3> QED
      BY <3>1, <3>2, <3>3 DEF CoverInv
  <2>2. CASE ReadCount(th)
    <3>1. /\ UNCHANGED <<timely, timers, tickled, edge, tick, pc, idleTerm>> /\ ipc[th] = "count"
          /\ ipc' = [ipc EXCEPT ![th] = IF pendingCount = 0 THEN "flags" ELSE "wait"]
      BY <2>2 DEF ReadCount, InIdle, GoTo, vars, threadVars
    <3>2. Stays' = Stays /\ \A x \in Threads : Passed(x)' <=> Passed(x)
      BY <3>1 DEF Stays, Passed
    <3>3. \A x \in Threads : pc'[x] = "idle" /\ ipc'[x] \in {"count", "flags"} /\ timely'[x] => timers' = {}
      BY <3>1 DEF CoverInv
    <3>4. WakeUpOnItsWay' <=> WakeUpOnItsWay
      BY <3>1 DEF WakeUpOnItsWay
    <3> QED
      BY <3>1, <3>2, <3>3, <3>4 DEF CoverInv, Stays
  <2>3. CASE ReadFlags(th) /\ ~ Stopping
    <3>1. /\ UNCHANGED <<timely, timers, tickled, edge, tick, pc, idleTerm>> /\ ipc[th] = "flags"
          /\ ipc' = [ipc EXCEPT ![th] = "wait"]
      BY <2>3 DEF ReadFlags, InIdle, GoTo, vars, threadVars
    <3>2. Stays' = Stays /\ \A x \in Threads : Passed(x)' <=> Passed(x)
      BY <3>1 DEF Stays, Passed
    <3>3. \A x \in Threads : pc'[x] = "idle" /\ ipc'[x] \in {"count", "flags"} /\ timely'[x] => timers' = {}
      BY <3>1 DEF CoverInv
    <3>4. WakeUpOnItsWay' <=> WakeUpOnItsWay
      BY <3>1 DEF WakeUpOnItsWay
    <3> QED
      BY <3>1, <3>2, <3>3, <3>4 DEF CoverInv, Stays
  <2>4. CASE ReadFlags(th) /\ Stopping
    <3>1. /\ UNCHANGED <<timely, timers, tickled, edge, tick>> /\ ipc[th] = "flags"
          /\ pc' = [pc EXCEPT ![th] = "idleout"] /\ idleTerm'[th]
      BY <2>4 DEF ReadFlags, Idle, InIdle
    <3>2. /\ th \notin Stays' /\ Passed(th) /\ (timely[th] => timers = {})
          /\ \A x \in Threads : x # th => (x \in Stays' <=> x \in Stays) /\ (Passed(x)' <=> Passed(x))
      BY <2>0, <3>1 DEF Stays, Passed, CoverInv
    <3>3. WakeUpOnItsWay' <=> WakeUpOnItsWay
      BY <3>1 DEF WakeUpOnItsWay
    <3>4. \A x \in Threads : pc'[x] = "idle" /\ ipc'[x] \in {"count", "flags"} /\ timely'[x] => timers' = {}
      BY <2>0, <3>1 DEF CoverInv
    <3>5. \A x \in Stays : ~ Passed(x) => x \in Stays' /\ ~ Passed(x)'
      BY <3>2 DEF Stays
    <3>6. timers # {} => \A x \in Stays : ~ Passed(x) \/ timely[x] => x \in Stays' /\ (~ Passed(x)' \/ timely'[x])
      BY <3>1, <3>2 DEF Stays
    <3>7. Stays # {}
      BY <2>0
    <3>8. tickled' => WakeUpOnItsWay' \/ \E x \in Stays' : ~ Passed(x)'
      BY <3>1, <3>3, <3>5, <3>7 DEF CoverInv
    <3>9. timers' # {} => WakeUpOnItsWay' \/ \E x \in Stays' : ~ Passed(x)' \/ timely'[x]
      BY <3>1, <3>3, <3>6, <3>7 DEF CoverInv
    <3> QED
      BY <3>4, <3>8, <3>9 DEF CoverInv
  <2>5. CASE EpollWait(th) \/ ListExpired(th) \/ ScheduleCbs(th) \/ Uncount(th) \/ IdleYield(th)
             \/ \E t \in Tasks : Trigger(th, t) \/ SkipEvent(th, t)
    <3>1. /\ UNCHANGED <<timely, tickled, idleTerm>> /\ timers' \subseteq timers
          /\ pc'[th] \in {"idle", "idleout"} /\ ipc'[th] \in {"next", "expire", "sched", "events", "trigger"}
      BY <2>0, <2>5 DEF EpollWait, ListExpired, ScheduleCbs, Uncount, IdleYield, Trigger, SkipEvent, InIdle,
                        GoTo, vars, threadVars
    <3>2. th \in Stays' /\ ~ Passed(th)'
      BY <2>0, <3>1 DEF Stays, Passed
    <3>3. \A x \in Threads : Same(x)
      BY <2>0, <3>2 DEF Same
    <3> QED
      BY <3>1, <3>2, <3>3, CoverSame
  <2> QED
    BY <1>3, <2>1, <2>2, <2>3, <2>4, <2>5 DEF IdleAction
<1>4. ASSUME UserAction PROVE CoverInv'
  <2>1. ASSUME NEW x \in Agents, NEW t \in Tasks, IOSchedule(x, t) PROVE CoverInv'
    <3>1. /\ UNCHANGED <<timely, timers, tickled, edge, pc, ipc, idleTerm>>
          /\ ~ tick[x] /\ \A y \in Agents : y # x => tick'[y] = tick[y]
      BY <2>1 DEF IOSchedule, TaskSchedule, CallerSchedule, threadVars
    <3> QED
      BY <1>a, <3>1 DEF Same
  <2>2. ASSUME NEW x \in Agents, NEW t \in Tasks, NEW front \in BOOLEAN, addTimer(x, t, front) PROVE CoverInv'
    <3>1. /\ ~ tick[x] /\ (timers = {} => front) /\ tickled' = (tickled \/ front)
          /\ tick' = [tick EXCEPT ![x] = front /\ ~ tickled]
          /\ timely' = IF front THEN [th \in Threads |-> FALSE] ELSE timely
          /\ UNCHANGED <<pc, ipc, idleTerm, edge>>
      BY <2>2 DEF addTimer, vars, threadVars
    <3>2. Stays' = Stays /\ \A y \in Threads : Passed(y)' <=> Passed(y)
      BY <3>1 DEF Stays, Passed
    <3>3. WakeUpOnItsWay => WakeUpOnItsWay'
      BY <3>1 DEF WakeUpOnItsWay
    <3>4. Stays' # {} /\ tickled' => WakeUpOnItsWay' \/ \E y \in Stays' : ~ Passed(y)'
      <4>1. CASE tickled
        BY <3>2, <3>3, <4>1 DEF CoverInv, Stays
      <4>2. CASE ~ tickled /\ front
        BY <3>1, <4>2 DEF WakeUpOnItsWay
      <4> QED
        BY <3>1, <4>1, <4>2
    <3>5. Stays' # {} /\ timers' # {} => WakeUpOnItsWay' \/ \E y \in Stays' : ~ Passed(y)' \/ timely'[y]
      <4>1. CASE front
        BY <3>1, <3>4, <4>1
      <4>2. CASE ~ front
        BY <3>1, <3>2, <3>3, <4>2 DEF CoverInv, Stays
      <4> QED
        BY <4>1, <4>2
    <3>6. \A y \in Threads : pc'[y] = "idle" /\ ipc'[y] \in {"count", "flags"} /\ timely'[y] => timers' = {}
      BY <3>1 DEF CoverInv
    <3> QED
      BY <3>4, <3>5, <3>6 DEF CoverInv
  <2>3. ASSUME NEW th \in Threads, add(th) \/ IOTask(th) PROVE CoverInv'
    <3>1. /\ UNCHANGED <<timely, timers, tickled, edge, tick, ipc, idleTerm>>
          /\ pc[th] = "run" /\ pc'[th] \in {"run", "swapped"}
          /\ \A y \in Threads : y # th => pc'[y] = pc[y]
      BY <2>3 DEF add, IOTask, Arm, Yield, Finish, threadVars
    <3>2. Same(th)
      BY <3>1 DEF Same, Stays, Passed
    <3>3. \A y \in Threads : Same(y)
      BY <3>1, <3>2 DEF Same
    <3> QED
      BY <1>a, <3>1, <3>3
  <2>4. ASSUME NEW t \in Tasks, BecomeDue(t) \/ BecomeReady(t) PROVE CoverInv'
    BY <1>a, <2>4 DEF BecomeDue, BecomeReady, Same, vars, threadVars
  <2> QED
    BY <1>4, <2>1, <2>2, <2>3, <2>4 DEF UserAction
<1>5. ASSUME CallerAction PROVE CoverInv'
  <2>0. \A x \in Agents : tick[x] => tick'[x]
    BY <1>5 DEF CallerAction, IOStart, IOStop, RaiseAlone, RaiseWorkers, IOStopCheck, IOLeave
  <2>1. UNCHANGED <<timely, timers, edge, ipc, idleTerm>> /\ (tickled' => tickled)
    BY <1>5 DEF CallerAction, IOStart, IOStop, RaiseAlone, RaiseWorkers, IOStopCheck, IOLeave, start, Stop,
                Raise, CheckOn, CallRoot, StopCheck, RootBack, Join, vars, threadVars
  <2>2. \A x \in Threads : pc'[x] = pc[x] \/ (pc[x] = "off" /\ pc'[x] = "scan")
    BY <1>5 DEF CallerAction, IOStart, IOStop, RaiseAlone, RaiseWorkers, IOStopCheck, IOLeave, start, Stop,
                Raise, CheckOn, CallRoot, StopCheck, RootBack, Join, vars, threadVars, PhaseInv
  <2>3. \A x \in Threads : Same(x)
    BY <2>1, <2>2 DEF Same, Stays, Passed
  <2> QED
    BY <2>0, <2>1, <2>3, CoverSame DEF WakeUpOnItsWay
<1>6. ASSUME UNCHANGED allVars PROVE CoverInv'
  BY <1>6, <1>a DEF allVars, Same, vars, threadVars
<1> QED
  BY <1>1, <1>2, <1>3, <1>4, <1>5, <1>6, IOCases

(* With no thread but its caller, what one of the reads of stopping() has  *)
(* found holds until the last: only a task could change it.                *)
LEMMA AloneStep ==
    ASSUME RunInv, IOTypes, PlaceInv, PendingExact, LeftInv, Workers = {}, AloneInv, [IONext]_allVars
    PROVE  AloneInv'
<1> USE DEF RunInv, TypeInv, IOTypes, PlaceInv, ioVars, timerVars, eventVars, idleVars
<1>0. Threads = {Caller} /\ UseCaller
  BY SchedulerAssumption DEF Threads
<1>1. pendingCount = 0 => pending = {}
  <2>1. IsFiniteSet({x \in Threads : ipc[x] = "trigger"})
    BY ThreadsFinite, FS_Subset
  <2>2. Cardinality({x \in Threads : ipc[x] = "trigger"}) \in Nat /\ Cardinality(pending) \in Nat
    BY <2>1, FS_CardinalityType
  <2>3. pendingCount = 0 => Cardinality(pending) = 0
    BY <2>2 DEF PendingExact
  <2> QED
    BY <2>3, FS_EmptySet
<1>2. Gone(Caller) => autoStop /\ pc[Caller] \notin Active
  BY <1>0 DEF LeftInv
<1>3. cstep # "next" => pc[Caller] = "off"
  BY <1>0 DEF PhaseInv
<1>a. ASSUME UNCHANGED <<timers, pending, pendingCount, ipc, pc, idleTerm, cstep, cpc>> PROVE AloneInv'
  BY <1>a DEF AloneInv, Gone
<1>4. ASSUME NEW x \in Agents, tickle(x) PROVE AloneInv'
  BY <1>4, <1>a DEF tickle, vars, threadVars, stopVars
<1>5. ASSUME NEW th \in Threads, IORun(th) PROVE AloneInv'
  <2>1. /\ th = Caller /\ pc[th] # "idle" /\ pc[th] # "off" /\ ipc[th] = "next" /\ pc'[th] # "off"
        /\ UNCHANGED <<timers, pending, pendingCount, ipc, idleTerm, cstep, cpc>>
    BY <1>0, <1>5 DEF IORun, Pick, PickNone, SwapIn, SkipTerm, SwappedOut, Settle, Exit, IdleIn, IdleOut, stopVars
  <2> QED
    BY <2>1 DEF AloneInv, Gone
<1>6. ASSUME NEW th \in Threads, IdleAction(th) PROVE AloneInv'
  <2>1. /\ th = Caller /\ pc[th] = "idle" /\ cstep = "next" /\ cstep' = "next" /\ ~ Gone(th)
    BY <1>0, <1>3, <1>6 DEF IdleAction, NextTimer, ReadCount, ReadFlags, EpollWait, ListExpired, ScheduleCbs,
                Uncount, IdleYield, Trigger, SkipEvent, InIdle, Gone
  <2>2. CASE ReadFlags(th) /\ Stopping
    <3>1. ipc[th] = "flags" /\ pc' = [pc EXCEPT ![th] = "idleout"] /\ UNCHANGED <<timers, pending, pendingCount>>
      BY <2>2 DEF ReadFlags, Idle, InIdle
    <3>2. timers = {} /\ pending = {}
      BY <1>1, <2>1, <3>1 DEF AloneInv
    <3> QED
      BY <2>1, <3>1, <3>2 DEF AloneInv
  <2>3. CASE ~ (ReadFlags(th) /\ Stopping)
    <3>1. UNCHANGED idleTerm /\ pc'[th] \in {"idle", "idleout"}
      BY <1>6, <2>1, <2>3 DEF IdleAction, NextTimer, ReadCount, ReadFlags, EpollWait, ListExpired, ScheduleCbs,
                  Uncount, IdleYield, Trigger, SkipEvent, vars, threadVars
    <3>2. ~ Gone(Caller)'
      BY <2>1, <3>1 DEF Gone
    <3>3. /\ ipc'[th] \in {"count", "flags"} => timers' = {}
          /\ ipc'[th] = "flags" => pendingCount' = 0
      <4>1. CASE NextTimer(th) \/ ReadCount(th) \/ ReadFlags(th)
        BY <2>1, <2>3, <4>1 DEF NextTimer, ReadCount, ReadFlags, InIdle, GoTo, AloneInv
      <4>2. CASE EpollWait(th) \/ ListExpired(th) \/ ScheduleCbs(th) \/ Uncount(th) \/ IdleYield(th)
                 \/ \E t \in Tasks : Trigger(th, t) \/ SkipEvent(th, t)
        <5>1. ipc'[th] \notin {"count", "flags"}
          BY <4>2 DEF EpollWait, ListExpired, ScheduleCbs, Uncount, IdleYield, Trigger, SkipEvent, InIdle, GoTo
        <5> QED
          BY <5>1
      <4> QED
        BY <1>6, <4>1, <4>2 DEF IdleAction
    <3> QED
      BY <2>1, <3>2, <3>3 DEF AloneInv
  <2> QED
    BY <2>2, <2>3
<1>7. ASSUME UserAction PROVE AloneInv'
  <2>1. CASE \E t \in Tasks : BecomeDue(t) \/ BecomeReady(t)
    BY <1>a, <2>1 DEF BecomeDue, BecomeReady, vars, threadVars, stopVars
  <2>2. ASSUME NEW th \in Threads, add(th) \/ IOTask(th) PROVE AloneInv'
    <3>1. /\ pc[Caller] = "run" /\ pc'[Caller] \in {"run", "swapped"}
          /\ UNCHANGED <<ipc, idleTerm, cstep, cpc>>
      BY <1>0, <2>2 DEF add, IOTask, Arm, Yield, Finish, threadVars, stopVars
    <3>2. ~ Gone(Caller)' /\ cstep' = "next"
      BY <1>2, <1>3, <3>1 DEF Gone, Active
    <3> QED
      BY <3>1, <3>2 DEF AloneInv
  <2>3. ASSUME NEW x \in Agents, NEW t \in Tasks, IOSchedule(x, t) PROVE AloneInv'
    BY <1>a, <2>3 DEF IOSchedule, TaskSchedule, CallerSchedule, threadVars, stopVars
  <2>4. ASSUME NEW x \in Agents, NEW t \in Tasks, NEW front \in BOOLEAN, addTimer(x, t, front) PROVE AloneInv'
    <3>1. /\ UNCHANGED <<ipc, idleTerm, pc, cstep, cpc>>
          /\ cpc = "up" \/ pc[Caller] = "run"
      BY <1>0, <2>4 DEF addTimer, vars, threadVars, stopVars
    <3>2. ~ Gone(Caller)' /\ cstep' = "next" /\ pc'[Caller] # "idle"
      <4>1. CASE pc[Caller] = "run"
        BY <1>2, <1>3, <3>1, <4>1 DEF Gone, Active
      <4>2. CASE cpc = "up"
        BY <1>0, <1>2, <3>1, <4>2 DEF Gone, PhaseInv
      <4> QED
        BY <3>1, <4>1, <4>2
    <3> QED
      BY <3>2 DEF AloneInv
  <2> QED
    BY <1>7, <2>1, <2>2, <2>3, <2>4 DEF UserAction
<1>8. ASSUME CallerAction PROVE AloneInv'
  <2>0. UNCHANGED <<timers, pending, pendingCount, ipc, idleTerm>>
    BY <1>8 DEF CallerAction, IOStart, IOStop, RaiseAlone, RaiseWorkers, IOStopCheck, IOLeave, start, Stop,
                Raise, CheckOn, CallRoot, StopCheck, RootBack, Join, vars, threadVars
  <2>1. CASE IOStart \/ IOStop
    BY <1>0, <2>0, <2>1 DEF IOStart, IOStop, start, Stop, AloneInv, Gone, PhaseInv, threadVars
  <2>2. CASE RaiseAlone
    <3>1. /\ UNCHANGED <<pc, cstep>> /\ cpc = "raise"
          /\ cpc' = "check" \/ (cpc' = "done" /\ timers = {} /\ pendingCount = 0)
      BY <2>2 DEF RaiseAlone, threadVars
    <3> QED
      BY <1>1, <2>0, <3>1 DEF AloneInv, Gone
  <2>3. CASE RaiseWorkers
    BY <2>3 DEF RaiseWorkers
  <2>4. CASE IOStopCheck
    <3>1. cpc = "check" /\ pc[Caller] = "off"
      BY <1>0, <2>4 DEF IOStopCheck, PhaseInv
    <3>2. CASE CallRoot
      BY <1>0, <2>0, <3>1, <3>2 DEF CallRoot, AloneInv, Gone
    <3>3. CASE \E step \in {"count", "flags"} : CheckOn(step)
      BY <2>0, <2>4, <3>1, <3>3 DEF IOStopCheck, CheckOn, CallRoot, StopCheck, AloneInv, Gone, vars, threadVars, stopVars
    <3>4. CASE cstep = "flags" /\ Stopping
      <4>1. timers = {} /\ pending = {} /\ UNCHANGED pc /\ cstep' = "next"
        BY <1>1, <2>4, <3>1, <3>4 DEF IOStopCheck, StopCheck, AloneInv
      <4> QED
        BY <2>0, <3>1, <4>1 DEF AloneInv
    <3> QED
      BY <2>4, <3>2, <3>3, <3>4 DEF IOStopCheck
  <2>5. CASE IOLeave
    <3>1. /\ UNCHANGED <<pc, cstep>>
          /\ (cpc = "called" /\ pc[Caller] = "exit") \/ cpc = "join"
      BY <2>5 DEF IOLeave, RootBack, Join, threadVars
    <3>2. Gone(Caller)' => Gone(Caller)
      BY <1>0, <2>0, <3>1 DEF Gone
    <3>3. cpc' # "check"
      BY <2>5 DEF IOLeave, RootBack, Join
    <3> QED
      BY <2>0, <3>1, <3>2, <3>3 DEF AloneInv
  <2> QED
    BY <1>8, <2>1, <2>2, <2>3, <2>4, <2>5 DEF CallerAction
<1>9. ASSUME UNCHANGED allVars PROVE AloneInv'
  BY <1>9, <1>a DEF allVars, vars, threadVars, stopVars
<1> QED
  BY <1>4, <1>5, <1>6, <1>7, <1>8, <1>9, IOCases

-----------------------------------------------------------------------------
(***************************************************************************)
(* The invariant, and what follows from it                                 *)
(***************************************************************************)
LEMMA InitIO == IOInit => IOInv
<1> SUFFICES ASSUME IOInit PROVE IOInv
  OBVIOUS
<1>1. RunInv
  BY InitInv DEF IOInit, IInv, RunInv
<1>2. IOTypes
  BY FS_EmptySet DEF IOInit, IOTypes, Init, IdlePc
<1>3. PlaceInv
  BY DEF IOInit, Init, PlaceInv
<1>4. HoldInv
  BY DEF IOInit, Init, HoldInv, InTimer
<1>5. PendingExact
  <2>1. {th \in Threads : ipc[th] = "trigger"} = {} /\ pending = {} /\ pendingCount = 0
    BY DEF IOInit
  <2>2. Cardinality({}) = 0
    BY FS_EmptySet
  <2> QED
    BY <2>1, <2>2 DEF PendingExact
<1>6. \A th \in Threads : ~ Gone(th) /\ pc[th] = "off"
  BY DEF IOInit, Init, Gone
<1>7. Threads # {}
  BY SchedulerAssumption DEF Threads
<1>8. LeftInv /\ CoverInv
  BY <1>6, <1>7 DEF LeftInv, CoverInv, Stays
<1>9. Workers = {} => AloneInv
  <2>1. Workers = {} => Caller \in Threads
    BY SchedulerAssumption DEF Threads
  <2> QED
    BY <1>6, <2>1 DEF IOInit, AloneInv
<1> QED
  BY <1>1, <1>2, <1>3, <1>4, <1>5, <1>8, <1>9 DEF IOInv

LEMMA StepIO == IOInv /\ [IONext]_allVars => IOInv'
<1> SUFFICES ASSUME IOInv, [IONext]_allVars PROVE IOInv'
  OBVIOUS
<1>1. RunInv' /\ IOTypes' /\ PlaceInv' /\ HoldInv' /\ PendingExact' /\ LeftInv' /\ CoverInv'
  BY RunStep, TypesStep, PlaceStep, HoldStep, PendingStep, LeftStep, CoverStep DEF IOInv
<1>2. ASSUME Workers = {} PROVE AloneInv'
  BY <1>2, AloneStep DEF IOInv
<1> QED
  BY <1>1, <1>2 DEF IOInv

(* Every reachable state of the epoll scheduler satisfies the inductive    *)
(* invariant, whatever the number of its threads, of its tasks and timers. *)
THEOREM IOInvariance == IOSpec => []IOInv
BY InitIO, StepIO, PTL DEF IOSpec

(* Under IOManager too a fiber is in the hands of one thread at a time: no *)
(* timer, descriptor or tickle() makes two threads resume the same fiber,  *)
(* and the assertions of Fiber on m_state hold.                            *)
THEOREM OneFiberEach == IOSpec => []OneThreadPerFiber
<1>1. IOInv => OneThreadPerFiber
  BY DEF IOInv, RunInv, OwnInv, HeldState, OneThreadPerFiber, FiberAsserts, Executing
<1> QED
  BY <1>1, IOInvariance, PTL

LEMMA KeptByInv == ASSUME IOInv PROVE WakeUpsKept
<1> USE DEF IOInv, RunInv
<1>1. TypeOK
  <2> DEFINE A == {th \in Threads : pc[th] \in Active}
             I == {th \in Threads : pc[th] \in {"idle", "idleout"}}
  <2>1. IsFiniteSet(Threads) /\ A \subseteq Threads /\ I \subseteq Threads
    BY ThreadsFinite
  <2>2. Cardinality(A) <= Cardinality(Threads) /\ Cardinality(I) <= Cardinality(Threads)
    BY <2>1, FS_Subset
  <2>3. Cardinality(A) \in Nat /\ Cardinality(I) \in Nat /\ Cardinality(Threads) \in Nat
    BY <2>1, FS_Subset, FS_CardinalityType
  <2>4. activeThreadCount = Cardinality(A) /\ idleThreadCount = Cardinality(I)
    BY DEF CountInv
  <2> HIDE DEF A, I
  <2>5. activeThreadCount \in 0 .. Cardinality(Threads) /\ idleThreadCount \in 0 .. Cardinality(Threads)
    BY <2>2, <2>3, <2>4
  <2> QED
    BY <2>5 DEF TypeInv, TypeOK
<1>2. IOTypeOK
  BY <1>1 DEF IOTypes, IOTypeOK
<1>3. OneWake
  <2>1. IsInjective(fibers)
    <3>1. DOMAIN fibers = 1 .. Len(fibers)
      BY LenProperties DEF TypeInv
    <3> QED
      BY <3>1 DEF OwnInv, OneToken, IsInjective
  <2>2. ASSUME NEW t \in Tasks
        PROVE  /\ InTimer(t) => t \notin Queued \cup pending /\ ~ Held(t)
               /\ t \in pending => t \notin Queued /\ ~ Held(t)
               /\ t \in Queued => ~ Held(t)
    <3>1. t \in armed => t \notin Queued /\ ~ Held(t)
      BY DEF OwnInv, OneToken, Held
    <3>2. t \in Queued => ~ Held(t)
      BY DEF OwnInv, OneToken, Held
    <3>3. InTimer(t) => t \notin armed
      BY DEF HoldInv, Fresh
    <3> QED
      BY <3>1, <3>2, <3>3 DEF HoldInv, IOTypes
  <2> QED
    BY <2>1, <2>2 DEF OneWake, HoldInv
<1>4. TimerCovered
  <2> SUFFICES ASSUME timers # {}, Live # {}, Live \subseteq Asleep
               PROVE  WakeUpOnItsWay \/ \E th \in Live : timely[th]
    BY DEF TimerCovered
  <2>1. \A th \in Live : th \in Stays /\ Passed(th)
    BY DEF Live, Asleep, Stays, Passed, PlaceInv
  <2>2. Stays \subseteq Live /\ Stays # {}
    BY <2>1 DEF Stays, Live
  <2> QED
    BY <2>1, <2>2 DEF CoverInv
<1> QED
  BY <1>2, <1>3, <1>4 DEF WakeUpsKept, Accounted

(* Every task has exactly one wake-up coming: m_pendingCount is exact, a   *)
(* task is in one timer, one IOContext, one list of an idle thread or one  *)
(* place of the queue, and threads that all sleep have a wake-up coming or *)
(* a timeout for the earliest timer.                                       *)
THEOREM WakeUpKept == IOSpec => []WakeUpsKept
<1>1. IOInv => WakeUpsKept
  BY KeptByInv
<1> QED
  BY <1>1, IOInvariance, PTL

LEMMA AllLeftGone == ASSUME IOInv, AllLeft PROVE \A th \in Threads : Gone(th) /\ pc[th] \in {"off", "exit"}
BY DEF IOInv, PlaceInv, AllLeft, Live, Gone

(* When every thread has left run() the queue is empty, nobody holds the   *)
(* callback of an expired timer and nobody runs a task, although each      *)
(* thread reads the counters of stopping() at its own time.                *)
THEOREM NoTaskLeft == IOSpec => []LeavesNoTask
<1>1. IOInv => LeavesNoTask
  BY AllLeftGone DEF IOInv, LeftInv, PlaceInv, LeavesNoTask
<1> QED
  BY <1>1, IOInvariance, PTL

(* A caller that is its manager's only thread returns from stop() when no  *)
(* timer is waiting and no fiber waits for an event: what stopping() has   *)
(* read in three steps still holds at the last.                            *)
THEOREM NoWaiterLeft == Workers = {} => (IOSpec => []LeavesNoWaiter)
<1> SUFFICES ASSUME Workers = {} PROVE IOSpec => []LeavesNoWaiter
  OBVIOUS
<1>1. IOInv => LeavesNoWaiter
  <2>1. Caller \in Threads
    BY SchedulerAssumption DEF Threads
  <2> QED
    BY <2>1, AllLeftGone DEF IOInv, AloneInv, LeavesNoWaiter
<1> QED
  BY <1>1, IOInvariance, PTL
=============================================================================
