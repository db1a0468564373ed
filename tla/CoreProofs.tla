----------------------------- MODULE CoreProofs -----------------------------
(***************************************************************************)
(* Proofs about what the library keeps for everybody: that the timer set   *)
(* stays consistent, that a cancelled timer does not fire, and that the    *)
(* idle threads never all sleep past a timer, for any number of timers and *)
(* threads; that what a parameter holds was told to its listeners, and     *)
(* that all who ask for a name are given one parameter, for any number of  *)
(* threads, parameters, values and listeners; that the tables of IOManager *)
(* and of epoll agree and that no event is missed, for any number of       *)
(* descriptors and threads; that a chain of blocks is the sequence of bytes*)
(* with a position that a buffer promises, for blocks of any size.         *)
(***************************************************************************)
EXTENDS Timer, ConfigVar, IOEvents, Buffer,
        FiniteSetTheorems, SequenceTheorems, WellFoundedInduction, TLAPS

-----------------------------------------------------------------------------
(***************************************************************************)
(* The timers: the inductive invariant                                     *)
(***************************************************************************)

(* Every time that was read from the clock lies in the past: a timer is    *)
(* never due later than its delay from now.                                *)
ClockInv ==
    /\ \A t \in Timers : m_next[t] <= now + m_ms[t]
    /\ \A th \in IdleThreads : now_ms[th] <= now

(* Who has a callback: a timer on its way into m_timers has, a cancelled   *)
(* one and a one-shot timer that has expired have not.                     *)
CallbackInv ==
    /\ \A t \in Timers : stage[t] = "made" => t \in m_cb
    /\ \A t \in cancelled : stage[t] = "added" /\ t \notin m_cb
    /\ \A th \in IdleThreads : \A t \in cbs[th] \ Recurring : stage[t] = "added" /\ t \notin m_cb

(* m_tickled, which keeps further insertions from tickling, stays up only  *)
(* while a thread is awake or about to be woken.                           *)
TickleInv == m_tickled => tickling \/ edge \/ \E th \in IdleThreads : pc[th] # "sleep"

IInv == SetInv /\ ClockInv /\ CallbackInv /\ TickleInv /\ WakesInTime /\ CancelIsFinal

-----------------------------------------------------------------------------
(***************************************************************************)
(* Least and greatest elements                                             *)
(***************************************************************************)

(* A finite set of numbers that is not empty has a least and a greatest    *)
(* element; by the well-foundedness of its subsets.                        *)
LEMMA FiniteBounds ==
    ASSUME NEW S \in SUBSET Int, IsFiniteSet(S), S # {}
    PROVE  /\ \E x \in S : \A y \in S : x <= y
           /\ \E x \in S : \A y \in S : x >= y
<1> DEFINE Bounded(U) == /\ \E x \in U : \A y \in U : x <= y
                         /\ \E x \in U : \A y \in U : x >= y
           R == StrictSubsetOrdering(S)
           T == {U \in FiniteSubsetsOf(S) : U # {} /\ ~ Bounded(U)}
<1>1. SUFFICES ASSUME ~ Bounded(S) PROVE FALSE
  OBVIOUS
<1>2. S \in T
  BY <1>1, FS_FiniteSubsetsOfFinite
<1>3. IsWellFoundedOn(R, FiniteSubsetsOf(S))
  BY FS_StrictSubsetOrderingWellFounded
<1>4. PICK U \in T : \A V \in T : <<V, U>> \notin R
  <2> HIDE DEF T, R
  <2>1. T \subseteq FiniteSubsetsOf(S)
    BY DEF T
  <2> QED
    BY <1>2, <1>3, <2>1, WFMin
<1>5. U \in SUBSET S /\ IsFiniteSet(U) /\ U # {} /\ ~ Bounded(U)
  BY DEF FiniteSubsetsOf
<1>6. PICK x \in U : TRUE
  BY <1>5
<1> DEFINE V == U \ {x}
<1>7. V \in FiniteSubsetsOf(S) /\ <<V, U>> \in R
  BY <1>5, <1>6, FS_RemoveElement DEF FiniteSubsetsOf, StrictSubsetOrdering
<1>8. V = {} \/ Bounded(V)
  BY <1>4, <1>7
<1>9. CASE V = {}
  <2>1. U = {x} /\ x \in Int
    BY <1>5, <1>6, <1>9
  <2> QED
    BY <1>5, <2>1
<1>10. CASE Bounded(V)
  <2>1. PICK low \in V : \A y \in V : low <= y
    BY <1>10
  <2>2. PICK high \in V : \A y \in V : high >= y
    BY <1>10
  <2>3. x \in Int /\ low \in Int /\ high \in Int /\ U = V \cup {x}
    BY <1>5, <1>6, <2>1, <2>2
  <2>4. \E z \in U : \A y \in U : z <= y
    <3>1. CASE x <= low
      BY <1>5, <2>1, <2>3, <3>1
    <3>2. CASE low <= x
      BY <1>5, <2>1, <2>3, <3>2
    <3> QED
      BY <2>3, <3>1, <3>2
  <2>5. \E z \in U : \A y \in U : z >= y
    <3>1. CASE x >= high
      BY <1>5, <2>2, <2>3, <3>1
    <3>2. CASE high >= x
      BY <1>5, <2>2, <2>3, <3>2
    <3> QED
      BY <2>3, <3>1, <3>2
  <2> QED
    BY <1>5, <2>4, <2>5
<1> QED
  BY <1>8, <1>9, <1>10

LEMMA MaxFacts ==
    ASSUME NEW S \in SUBSET Int, IsFiniteSet(S), S # {}
    PROVE  Max(S) \in S /\ \A y \in S : Max(S) >= y
BY FiniteBounds DEF Max

(* The first element of a set of times.                                    *)
LEMMA MinFacts ==
    ASSUME NEW S \in SUBSET Nat, S # {}
    PROVE  Min(S) \in S /\ \A y \in S : Min(S) <= y
<1>1. PICK x \in S : TRUE
  OBVIOUS
<1> DEFINE T == {y \in S : y <= x}
<1>2. T \in SUBSET Nat /\ x \in T /\ \A y \in T : y <= x
  <2>1. x \in Nat /\ x <= x
    BY <1>1
  <2> QED
    BY <2>1
<1>3. IsFiniteSet(T)
  BY <1>1, <1>2, FS_BoundedSetOfNaturals
<1>4. PICK z \in T : \A y \in T : z <= y
  <2> HIDE DEF T
  <2> QED
    BY <1>2, <1>3, FiniteBounds
<1>5. z \in S /\ \A y \in S : z <= y
  <2>1. z \in Nat /\ x \in Nat /\ z <= x
    BY <1>1, <1>2, <1>4
  <2>2. ASSUME NEW y \in S PROVE z <= y
    <3>1. CASE y <= x
      BY <1>4, <3>1
    <3>2. CASE x <= y
      BY <2>1, <3>2
    <3> QED
      BY <2>1, <3>1, <3>2
  <2> QED
    BY <1>4, <2>2
<1> QED
  BY <1>5 DEF Min

LEMMA LeastFacts ==
    ASSUME NEW S \in SUBSET (Nat \X Timers), S # {}
    PROVE  /\ Least(S) \in Nat
           /\ \E k \in S : k[1] = Least(S)
           /\ \A k \in S : Least(S) <= k[1]
<1> DEFINE T == {k[1] : k \in S}
<1>1. T \in SUBSET Nat /\ T # {}
  OBVIOUS
<1>2. Min(T) \in T /\ \A y \in T : Min(T) <= y
  <2> HIDE DEF T
  <2> QED
    BY <1>1, MinFacts
<1> QED
  BY <1>1, <1>2 DEF Least

(* The larger and the smaller of two times.                                *)
LEMMA TwoMax == ASSUME NEW a \in Nat, NEW b \in Nat
                PROVE  Max({a, b}) = IF a >= b THEN a ELSE b
BY DEF Max

LEMMA TwoMin == ASSUME NEW a \in Nat, NEW b \in Nat
                PROVE  Min({a, b}) = IF a <= b THEN a ELSE b
BY DEF Min

-----------------------------------------------------------------------------
(***************************************************************************)
(* The steps                                                               *)
(***************************************************************************)

(* What the users of the timers may do, one alternative each.              *)
TimerAction(t) ==
    \/ addTimer(t) \/ cancel(t) \/ refresh(t)
    \/ \E ms \in Delays : Construct(t, ms)
    \/ \E ms \in Delays : reset(t, ms)

ThreadAction(th) ==
    \/ getNextTimer(th) \/ WakeUp(th) \/ ReadClock(th) \/ listExpiredCb(th)
    \/ ScheduleCbs(th)

LEMMA NextCases ==
    ASSUME [TimerNext]_timerVars
    PROVE  \/ Tick \/ timerTickle \/ UNCHANGED timerVars
           \/ \E t \in Timers : TimerAction(t)
           \/ \E th \in IdleThreads : ThreadAction(th)
BY DEF TimerNext, IdleStep, TimerAction, ThreadAction

(* The latest time a timer can be due.                                     *)
LEMMA LatestTime ==
    /\ Max(Delays \cup {0}) \in Nat
    /\ \A ms \in Delays \cup {0} : ms \in Nat /\ ms <= Max(Delays \cup {0})
<1> DEFINE D == Delays \cup {0}
<1>1. D \in SUBSET Nat /\ D # {} /\ IsFiniteSet(D)
  BY TimerAssumption, FS_AddElement
<1> HIDE DEF D
<1>2. D \in SUBSET Int
  BY <1>1
<1>3. Max(D) \in D /\ \A y \in D : Max(D) >= y
  BY <1>1, <1>2, MaxFacts
<1>4. Max(D) \in Nat /\ \A y \in D : y \in Nat /\ y <= Max(D)
  BY <1>1, <1>3
<1> QED
  BY <1>4 DEF D

LEMMA DueInRange ==
    ASSUME NEW n \in 0 .. MaxTime, NEW ms \in Delays \cup {0}
    PROVE  /\ n + ms \in 0 .. MaxTime + Max(Delays \cup {0})
           /\ n + ms \in Nat
<1>1. \A M \in Nat : ms \in Nat /\ ms <= M => n + ms \in 0 .. MaxTime + M /\ n + ms \in Nat
  BY TimerAssumption
<1> QED
  BY <1>1, LatestTime

LEMMA TypeStep ==
    ASSUME TimerTypeOK, ClockInv, [TimerNext]_timerVars
    PROVE  TimerTypeOK'
<1> USE DEF TimerTypeOK, setVars, tickleVars, threadVars
<1>0. /\ MaxTime \in Nat /\ Max(Delays \cup {0}) \in Nat /\ Recurring \subseteq Timers
      /\ \A ms \in Delays \cup {0} : ms \in Nat /\ ms <= Max(Delays \cup {0})
  BY LatestTime, TimerAssumption
<1>1. CASE Tick
  <2>1. now' \in 0 .. MaxTime
    BY <1>0, <1>1 DEF Tick
  <2> QED
    BY <1>1, <2>1 DEF Tick
<1>2. CASE timerTickle
  BY <1>2 DEF timerTickle
<1>3. ASSUME NEW t \in Timers, TimerAction(t) PROVE TimerTypeOK'
  <2>1. <<m_next[t], t>> \in Nat \X Timers
    BY <1>0
  <2>2. CASE addTimer(t)
    BY <2>1, <2>2 DEF addTimer, Insert, Key
  <2>3. CASE cancel(t)
    BY <2>3 DEF cancel
  <2>4. ASSUME NEW ms \in Delays \cup {0}
        PROVE  now + ms \in 0 .. MaxTime + Max(Delays \cup {0}) /\ now + ms \in Nat
    BY DueInRange
  <2>5. CASE refresh(t)
    <3>1. /\ m_next' = [m_next EXCEPT ![t] = now + m_ms[t]]
          /\ now + m_ms[t] \in 0 .. MaxTime + Max(Delays \cup {0})
      BY <2>4, <2>5 DEF refresh
    <3>2. <<m_next'[t], t>> \in Nat \X Timers
      BY <2>4, <3>1
    <3> QED
      BY <2>5, <3>1, <3>2, ZenonT(30) DEF refresh
  <2>6. ASSUME NEW ms \in Delays, Construct(t, ms) PROVE TimerTypeOK'
    BY <2>4, <2>6 DEF Construct
  <2>7. ASSUME NEW ms \in Delays, reset(t, ms) PROVE TimerTypeOK'
    <3>1. /\ now + ms \in 0 .. MaxTime + Max(Delays \cup {0})
          /\ <<now + ms, t>> \in Nat \X Timers
      BY <2>4, <2>7
    <3> QED
      BY <2>7, <3>1 DEF reset, Insert
  <2> QED
    BY <1>3, <2>2, <2>3, <2>5, <2>6, <2>7 DEF TimerAction
<1>4. ASSUME NEW th \in IdleThreads, ThreadAction(th) PROVE TimerTypeOK'
  <2>1. CASE getNextTimer(th)
    <3>1. now + MaxTimeout \in Nat /\ now \in Nat
      BY TimerAssumption
    <3>2. m_timers # {} => Min({now + MaxTimeout, Max({now, Least(m_timers)})}) \in Nat
      <4>1. SUFFICES ASSUME m_timers # {}
                     PROVE  Min({now + MaxTimeout, Max({now, Least(m_timers)})}) \in Nat
        OBVIOUS
      <4>2. Least(m_timers) \in Nat
        BY <4>1, LeastFacts
      <4>3. Max({now, Least(m_timers)}) \in Nat
        BY <3>1, <4>2, TwoMax
      <4> QED
        BY <3>1, <4>3, TwoMin
    <3> QED
      BY <2>1, <3>1, <3>2 DEF getNextTimer
  <2>2. CASE WakeUp(th)
    BY <2>2 DEF WakeUp
  <2>3. CASE ReadClock(th)
    <3>1. now \in 0 .. MaxTime /\ 0 \in 0 .. MaxTime
      BY <1>0
    <3> QED
      BY <2>3, <3>1 DEF ReadClock
  <2>4. CASE listExpiredCb(th)
    <3>1. \A t \in Timers : now_ms[th] + m_ms[t] \in 0 .. MaxTime + Max(Delays \cup {0})
      BY DueInRange
    <3>2. m_next' \in [Timers -> 0 .. MaxTime + Max(Delays \cup {0})]
      BY <2>4, <3>1 DEF listExpiredCb
    <3>3. m_timers' \subseteq Nat \X Timers
      <4>1. \A t \in Timers : <<m_next'[t], t>> \in Nat \X Timers
        BY <1>0, <3>2
      <4> QED
        BY <1>0, <2>4, <4>1, ZenonT(30) DEF listExpiredCb
    <3>4. Expired(now_ms[th]) \subseteq Timers
      BY DEF Expired
    <3>5. 0 \in 0 .. MaxTime
      BY <1>0
    <3> QED
      BY <2>4, <3>2, <3>3, <3>4, <3>5 DEF listExpiredCb
  <2>5. CASE ScheduleCbs(th)
    BY <2>5 DEF ScheduleCbs
  <2> QED
    BY <1>4, <2>1, <2>2, <2>3, <2>4, <2>5 DEF ThreadAction
<1>5. CASE UNCHANGED timerVars
  BY <1>5 DEF timerVars
<1> QED
  BY <1>1, <1>2, <1>3, <1>4, <1>5, NextCases

(* Every due time stays within its delay from now.                         *)
LEMMA ClockStep ==
    ASSUME TimerTypeOK, ClockInv, [TimerNext]_timerVars
    PROVE  ClockInv'
<1> USE DEF TimerTypeOK, ClockInv, setVars, tickleVars, threadVars
<1>0. /\ now \in Nat /\ m_next \in [Timers -> Int] /\ m_ms \in [Timers -> Nat]
      /\ now_ms \in [IdleThreads -> Nat] /\ Delays \subseteq Nat
  <2>1. \A M \in Nat : 0 .. MaxTime + M \subseteq Nat
    BY TimerAssumption
  <2>2. 0 .. MaxTime + Max(Delays \cup {0}) \subseteq Nat
    BY <2>1, LatestTime
  <2>3. 0 .. MaxTime \subseteq Nat /\ Delays \subseteq Nat /\ Delays \cup {0} \subseteq Nat
    BY TimerAssumption
  <2>4. m_next \in [Timers -> Int]
    <3>1. ASSUME NEW S, S \subseteq Nat, m_next \in [Timers -> S] PROVE m_next \in [Timers -> Int]
      BY <3>1
    <3> QED
      BY <2>2, <3>1
  <2>5. m_ms \in [Timers -> Nat]
    BY <2>3
  <2> QED
    BY <2>3, <2>4, <2>5
<1>1. CASE Tick
  BY <1>0, <1>1 DEF Tick
<1>2. ASSUME UNCHANGED <<now, m_next, m_ms, now_ms>> PROVE ClockInv'
  BY <1>2
<1>3. ASSUME NEW t \in Timers, TimerAction(t) PROVE ClockInv'
  <2>1. CASE addTimer(t) \/ cancel(t)
    BY <1>2, <2>1 DEF addTimer, cancel
  <2>2. CASE refresh(t)
    BY <1>0, <2>2 DEF refresh
  <2>3. ASSUME NEW ms \in Delays, Construct(t, ms) PROVE ClockInv'
    BY <1>0, <2>3 DEF Construct
  <2>4. ASSUME NEW ms \in Delays, reset(t, ms) PROVE ClockInv'
    BY <1>0, <2>4 DEF reset
  <2> QED
    BY <1>3, <2>1, <2>2, <2>3, <2>4 DEF TimerAction
<1>4. ASSUME NEW th \in IdleThreads, ThreadAction(th) PROVE ClockInv'
  <2>1. CASE getNextTimer(th) \/ WakeUp(th) \/ ScheduleCbs(th)
    BY <1>2, <2>1 DEF getNextTimer, WakeUp, ScheduleCbs
  <2>2. CASE ReadClock(th)
    BY <1>0, <2>2 DEF ReadClock
  <2>3. CASE listExpiredCb(th)
    BY <1>0, <2>3 DEF listExpiredCb
  <2> QED
    BY <1>4, <2>1, <2>2, <2>3 DEF ThreadAction
<1>5. CASE timerTickle \/ UNCHANGED timerVars
  BY <1>2, <1>5 DEF timerTickle, timerVars
<1> QED
  BY <1>1, <1>3, <1>4, <1>5, NextCases

(* The set holds every added timer with a callback, under its m_next.      *)
LEMMA InSet ==
    ASSUME SetMatches, NEW t \in Timers, NEW n
    PROVE  <<n, t>> \in m_timers <=> t \in m_cb /\ stage[t] = "added" /\ n = m_next[t]
BY DEF SetMatches, Key

LEMMA ExpiredFacts ==
    ASSUME TimerTypeOK, SetMatches, NEW ms
    PROVE  Expired(ms) = {t \in m_cb : stage[t] = "added" /\ m_next[t] <= ms}
<1>1. m_cb \subseteq Timers
  BY DEF TimerTypeOK
<1>2. ASSUME NEW t \in Expired(ms) PROVE t \in m_cb /\ stage[t] = "added" /\ m_next[t] <= ms
  <2>1. PICK k \in m_timers : k[2] = t /\ k[1] <= ms
    BY <1>2 DEF Expired
  <2>2. PICK u \in m_cb : k = <<m_next[u], u>> /\ stage[u] = "added"
    BY <2>1 DEF SetMatches, Key
  <2> QED
    BY <2>1, <2>2
<1>3. ASSUME NEW t \in m_cb, stage[t] = "added", m_next[t] <= ms PROVE t \in Expired(ms)
  <2>1. <<m_next[t], t>> \in m_timers
    BY <1>1, <1>3, InSet
  <2> QED
    BY <1>1, <1>3, <2>1 DEF Expired
<1> QED
  BY <1>2, <1>3

LEMMA SetStep ==
    ASSUME TimerTypeOK, SetMatches, CallbackInv, [TimerNext]_timerVars
    PROVE  SetMatches'
<1> USE DEF TimerTypeOK, SetMatches, Key, setVars, tickleVars, threadVars
<1>1. ASSUME UNCHANGED <<m_next, stage, m_cb, m_timers>> PROVE SetMatches'
  BY <1>1
<1>2. CASE Tick \/ timerTickle \/ UNCHANGED timerVars
  BY <1>1, <1>2 DEF Tick, timerTickle, timerVars
<1>3. ASSUME NEW t \in Timers, TimerAction(t) PROVE SetMatches'
  <2>1. CASE addTimer(t)
    BY <2>1 DEF addTimer, Insert, CallbackInv
  <2>2. CASE cancel(t)
    BY <2>2 DEF cancel
  <2>3. CASE refresh(t)
    BY <2>3 DEF refresh
  <2>4. ASSUME NEW ms \in Delays, Construct(t, ms) PROVE SetMatches'
    BY <2>4 DEF Construct
  <2>5. ASSUME NEW ms \in Delays, reset(t, ms) PROVE SetMatches'
    BY <2>5 DEF reset, Insert
  <2> QED
    BY <1>3, <2>1, <2>2, <2>3, <2>4, <2>5 DEF TimerAction
<1>4. ASSUME NEW th \in IdleThreads, ThreadAction(th) PROVE SetMatches'
  <2>1. CASE listExpiredCb(th)
    <3> DEFINE expired == Expired(now_ms[th])
               again == expired \cap Recurring
    <3>1. /\ m_next' = [t \in Timers |-> IF t \in again THEN now_ms[th] + m_ms[t] ELSE m_next[t]]
          /\ m_timers' = {k \in m_timers : k[2] \notin expired}
                         \cup {<<m_next'[t], t>> : t \in again}
          /\ m_cb' = m_cb \ (expired \ Recurring)
          /\ stage' = stage
      BY <2>1 DEF listExpiredCb
    <3>2. expired \subseteq {t \in m_cb : stage[t] = "added"}
      BY ExpiredFacts
    <3> HIDE DEF expired
    <3>3. ASSUME NEW k \in m_timers'
          PROVE  k \in {<<m_next'[t], t>> : t \in {u \in m_cb' : stage'[u] = "added"}}
      <4>1. CASE k \in m_timers /\ k[2] \notin expired
        <5>1. PICK u \in m_cb : k = <<m_next[u], u>> /\ stage[u] = "added"
          BY <4>1
        <5>2. u \notin expired /\ m_next'[u] = m_next[u]
          BY <3>1, <4>1, <5>1
        <5> QED
          BY <3>1, <5>1, <5>2
      <4>2. CASE \E t \in again : k = <<m_next'[t], t>>
        BY <3>1, <3>2, <4>2
      <4> QED
        BY <3>1, <3>3, <4>1, <4>2
    <3>4. ASSUME NEW t \in m_cb', stage'[t] = "added" PROVE <<m_next'[t], t>> \in m_timers'
      BY <3>1, <3>2, <3>4
    <3> QED
      BY <3>3, <3>4
  <2>2. CASE getNextTimer(th) \/ WakeUp(th) \/ ReadClock(th) \/ ScheduleCbs(th)
    BY <1>1, <2>2 DEF getNextTimer, WakeUp, ReadClock, ScheduleCbs
  <2> QED
    BY <1>4, <2>1, <2>2 DEF ThreadAction
<1> QED
  BY <1>2, <1>3, <1>4, NextCases

LEMMA CallbackStep ==
    ASSUME TimerTypeOK, SetMatches, CallbackInv, CancelIsFinal, [TimerNext]_timerVars
    PROVE  CallbackInv' /\ CancelIsFinal'
<1> USE DEF TimerTypeOK, CallbackInv, CancelIsFinal, setVars, tickleVars, threadVars
<1>1. ASSUME UNCHANGED <<stage, m_cb, cancelled, cbs>> PROVE CallbackInv' /\ CancelIsFinal'
  BY <1>1
<1>2. CASE Tick \/ timerTickle \/ UNCHANGED timerVars
  BY <1>1, <1>2 DEF Tick, timerTickle, timerVars
<1>3. ASSUME NEW t \in Timers, TimerAction(t) PROVE CallbackInv' /\ CancelIsFinal'
  <2>1. CASE addTimer(t)
    BY <2>1 DEF addTimer
  <2>2. CASE cancel(t)
    BY <2>2 DEF cancel
  <2>3. CASE refresh(t)
    BY <1>1, <2>3 DEF refresh
  <2>4. ASSUME NEW ms \in Delays, Construct(t, ms) PROVE CallbackInv' /\ CancelIsFinal'
    BY <2>4 DEF Construct
  <2>5. ASSUME NEW ms \in Delays, reset(t, ms) PROVE CallbackInv' /\ CancelIsFinal'
    BY <1>1, <2>5 DEF reset
  <2> QED
    BY <1>3, <2>1, <2>2, <2>3, <2>4, <2>5 DEF TimerAction
<1>4. ASSUME NEW th \in IdleThreads, ThreadAction(th) PROVE CallbackInv' /\ CancelIsFinal'
  <2>1. CASE listExpiredCb(th)
    <3>1. Expired(now_ms[th]) \subseteq {t \in m_cb : stage[t] = "added"}
      BY ExpiredFacts
    <3> QED
      BY <2>1, <3>1 DEF listExpiredCb
  <2>2. CASE getNextTimer(th) \/ WakeUp(th) \/ ReadClock(th)
    BY <1>1, <2>2 DEF getNextTimer, WakeUp, ReadClock
  <2>3. CASE ScheduleCbs(th)
    BY <2>3 DEF ScheduleCbs
  <2> QED
    BY <1>4, <2>1, <2>2, <2>3 DEF ThreadAction
<1> QED
  BY <1>2, <1>3, <1>4, NextCases

(* m_tickled is lowered by the thread that goes to sleep last, and raised  *)
(* together with a tickle.                                                 *)
LEMMA TickleStep ==
    ASSUME TimerTypeOK, TickleInv, [TimerNext]_timerVars
    PROVE  TickleInv'
<1> USE DEF TimerTypeOK, TickleInv, setVars, tickleVars, threadVars
<1>1. ASSUME UNCHANGED <<m_tickled, tickling, edge, pc>> PROVE TickleInv'
  BY <1>1
<1>2. CASE Tick \/ UNCHANGED timerVars
  BY <1>1, <1>2 DEF Tick, timerVars
<1>3. CASE timerTickle
  <2>1. PICK th \in IdleThreads : TRUE
    BY TimerAssumption
  <2>2. pc' = pc /\ edge' = (edge \/ \E x \in IdleThreads : pc[x] # "run")
    BY <1>3 DEF timerTickle
  <2>3. CASE pc[th] = "run"
    BY <2>2, <2>3
  <2>4. CASE pc[th] # "run"
    BY <2>2, <2>4
  <2> QED
    BY <2>3, <2>4
<1>4. ASSUME NEW t \in Timers, TimerAction(t) PROVE TickleInv'
  <2>1. ASSUME NEW key, NEW others, Insert(key, others), pc' = pc PROVE TickleInv'
    BY <2>1 DEF Insert
  <2>2. CASE addTimer(t)
    BY <2>1, <2>2 DEF addTimer
  <2>3. CASE cancel(t) \/ refresh(t) \/ \E ms \in Delays : Construct(t, ms)
    BY <1>1, <2>3 DEF cancel, refresh, Construct
  <2>4. CASE \E ms \in Delays : reset(t, ms)
    BY <2>1, <2>4 DEF reset
  <2> QED
    BY <1>4, <2>2, <2>3, <2>4 DEF TimerAction
<1>5. ASSUME NEW th \in IdleThreads, ThreadAction(th) PROVE TickleInv'
  <2>1. CASE getNextTimer(th)
    BY <2>1 DEF getNextTimer
  <2>2. CASE WakeUp(th) \/ ReadClock(th) \/ listExpiredCb(th)
    <3>1. pc'[th] # "sleep"
      BY <2>2 DEF WakeUp, ReadClock, listExpiredCb
    <3> QED
      BY <3>1
  <2>3. CASE ScheduleCbs(th)
    BY <1>1, <2>3 DEF ScheduleCbs
  <2> QED
    BY <1>5, <2>1, <2>2, <2>3 DEF ThreadAction
<1> QED
  BY <1>2, <1>3, <1>4, <1>5, NextCases

-----------------------------------------------------------------------------
(***************************************************************************)
(* One wake-up is enough                                                   *)
(***************************************************************************)

(* A thread that sleeps no longer than to the first timer or to now.       *)
InTime(th, S, clock) == deadline[th] <= clock \/ deadline[th] <= Least(S)

LEMMA WakesMeans ==
    ASSUME TimerTypeOK
    PROVE  WakesInTime <=>
             (m_timers # {} /\ (\A th \in IdleThreads : pc[th] = "sleep") =>
                edge \/ tickling \/ \E th \in IdleThreads : InTime(th, m_timers, now))
<1>1. CASE m_timers = {}
  BY <1>1 DEF WakesInTime
<1>2. CASE m_timers # {}
  <2>1. Least(m_timers) \in Nat /\ now \in Nat /\ deadline \in [IdleThreads -> Nat]
    BY <1>2, LeastFacts, TimerAssumption DEF TimerTypeOK
  <2>2. Max({now, Least(m_timers)}) = IF now >= Least(m_timers) THEN now ELSE Least(m_timers)
    BY <2>1, TwoMax
  <2>3. ASSUME NEW th \in IdleThreads
        PROVE  deadline[th] <= Max({now, Least(m_timers)}) <=> InTime(th, m_timers, now)
    BY <2>1, <2>2 DEF InTime
  <2> QED
    BY <2>3 DEF WakesInTime
<1> QED
  BY <1>1, <1>2

LEMMA LeastGrows ==
    ASSUME NEW S \in SUBSET (Nat \X Timers), S # {},
           NEW T \in SUBSET (Nat \X Timers), T # {},
           \A k \in T : Least(S) <= k[1]
    PROVE  Least(S) <= Least(T)
BY LeastFacts

(* Sleeps that were short enough stay so when the timers move back.        *)
LEMMA StillInTime ==
    ASSUME TimerTypeOK, TimerTypeOK', WakesInTime,
           now' >= now, UNCHANGED <<tickling, edge, pc, deadline>>,
           m_timers' # {} => m_timers # {} /\ Least(m_timers) <= Least(m_timers')
    PROVE  WakesInTime'
<1> SUFFICES ASSUME m_timers' # {}, \A th \in IdleThreads : pc'[th] = "sleep", ~ edge', ~ tickling'
             PROVE  \E th \in IdleThreads : deadline'[th] <= Max({now', Least(m_timers')})
  BY DEF WakesInTime
<1>1. PICK th \in IdleThreads : InTime(th, m_timers, now)
  BY WakesMeans
<1>2. /\ Least(m_timers') \in Nat /\ Least(m_timers) \in Nat
      /\ now \in Nat /\ now' \in Nat /\ deadline[th] \in Nat
  BY LeastFacts, TimerAssumption DEF TimerTypeOK
<1>3. Max({now', Least(m_timers')}) = IF now' >= Least(m_timers') THEN now' ELSE Least(m_timers')
  BY <1>2, TwoMax
<1>4. deadline[th] <= Max({now', Least(m_timers')})
  BY <1>1, <1>2, <1>3 DEF InTime
<1> QED
  BY <1>4

(* An insertion that does not tickle leaves the first timer in its place,  *)
(* or somebody is awake already or about to be.                            *)
LEMMA InsertWakes ==
    ASSUME TimerTypeOK, TimerTypeOK', TickleInv, WakesInTime,
           NEW key \in Nat \X Timers, NEW others \in SUBSET m_timers,
           Insert(key, others), UNCHANGED <<now, pc, deadline>>
    PROVE  WakesInTime'
<1>1. PICK first \in BOOLEAN :
        /\ others = {} \/ key[1] < Least(others) => first
        /\ m_timers' = others \cup {key}
        /\ tickling' = (tickling \/ (first /\ ~ m_tickled))
        /\ edge' = edge
  BY DEF Insert
<1>2. m_timers \in SUBSET (Nat \X Timers) /\ tickling \in BOOLEAN
  BY DEF TimerTypeOK
<1>3. CASE first /\ ~ m_tickled
  BY <1>1, <1>3 DEF WakesInTime
<1>4. CASE first /\ m_tickled
  BY <1>1, <1>4 DEF WakesInTime, TickleInv
<1>5. CASE ~ first
  <2>1. others # {} /\ ~ (key[1] < Least(others)) /\ UNCHANGED <<tickling, edge>>
    BY <1>1, <1>2, <1>5
  <2>2. Least(others) \in Nat /\ Least(m_timers) \in Nat /\ Least(m_timers) <= Least(others)
    BY <1>2, <2>1, LeastFacts, LeastGrows
  <2>3. \A k \in m_timers' : Least(m_timers) <= k[1]
    <3>1. Least(m_timers) <= key[1]
      BY <2>1, <2>2
    <3> QED
      BY <1>1, <1>2, <2>1, <3>1, LeastFacts
  <2>4. Least(m_timers) <= Least(m_timers')
    BY <1>1, <1>2, <2>1, <2>3, LeastGrows
  <2>5. now' >= now
    BY DEF TimerTypeOK
  <2> QED
    BY <2>1, <2>4, <2>5, StillInTime
<1> QED
  BY <1>3, <1>4, <1>5

LEMMA WakesStep ==
    ASSUME TimerTypeOK, TimerTypeOK', SetMatches, ClockInv, TickleInv, WakesInTime, [TimerNext]_timerVars
    PROVE  WakesInTime'
<1> USE DEF setVars, tickleVars, threadVars
<1>0. /\ m_timers \in SUBSET (Nat \X Timers) /\ m_timers' \in SUBSET (Nat \X Timers)
      /\ now \in Nat /\ now >= now /\ deadline \in [IdleThreads -> Nat]
  BY DEF TimerTypeOK
<1>1. ASSUME UNCHANGED <<now, tickling, edge, pc, deadline, m_timers>> PROVE WakesInTime'
  BY <1>1 DEF WakesInTime
<1>2. CASE Tick
  <2>1. m_timers # {} => Least(m_timers) <= Least(m_timers)
    BY <1>0, LeastFacts
  <2> QED
    BY <1>0, <1>2, <2>1, StillInTime DEF Tick
<1>3. CASE timerTickle
  <2>1. tickling /\ pc' = pc /\ edge' = (edge \/ \E th \in IdleThreads : pc[th] # "run")
    BY <1>3 DEF timerTickle
  <2>2. PICK th \in IdleThreads : TRUE
    BY TimerAssumption
  <2>3. pc[th] = "sleep" => edge'
    BY <2>1
  <2> QED
    BY <2>1, <2>2, <2>3 DEF WakesInTime
<1>4. ASSUME NEW t \in Timers, TimerAction(t) PROVE WakesInTime'
  <2>1. /\ m_next[t] \in Nat /\ m_ms[t] \in Nat /\ m_next[t] <= now + m_ms[t]
        /\ Delays \subseteq Nat
    <3>1. m_ms \in [Timers -> Delays \cup {0}] /\ Delays \subseteq Nat
      BY TimerAssumption DEF TimerTypeOK
    <3>2. \A M \in Nat : 0 .. MaxTime + M \subseteq Nat
      BY TimerAssumption
    <3>3. 0 .. MaxTime + Max(Delays \cup {0}) \subseteq Nat
      BY <3>2, LatestTime
    <3>4. m_next[t] \in 0 .. MaxTime + Max(Delays \cup {0})
      BY DEF TimerTypeOK
    <3>5. \A S : S \subseteq Nat /\ m_next[t] \in S => m_next[t] \in Nat
      OBVIOUS
    <3>6. m_next[t] \in Nat
      BY <3>3, <3>4, <3>5
    <3>7. m_ms[t] \in Nat
      <4>1. m_ms[t] \in Delays \cup {0}
        BY <3>1
      <4> QED
        BY <4>1, LatestTime
    <3>8. m_next[t] <= now + m_ms[t]
      BY DEF ClockInv
    <3> QED
      BY <3>1, <3>6, <3>7, <3>8
  <2>2. CASE addTimer(t)
    BY <1>0, <2>1, <2>2, InsertWakes DEF addTimer, Key
  <2>3. CASE cancel(t)
    <3>1. m_timers' \subseteq m_timers
      BY <2>3 DEF cancel
    <3>2. m_timers' # {} => m_timers # {} /\ Least(m_timers) <= Least(m_timers')
      BY <1>0, <3>1, LeastFacts, LeastGrows
    <3> QED
      BY <1>0, <2>3, <3>2, StillInTime DEF cancel
  <2>4. CASE refresh(t)
    <3>1. /\ <<m_next[t], t>> \in m_timers
          /\ m_next' = [m_next EXCEPT ![t] = now + m_ms[t]]
          /\ m_timers' = (m_timers \ {<<m_next[t], t>>}) \cup {<<m_next'[t], t>>}
          /\ UNCHANGED <<now, tickling, edge, pc, deadline>>
      BY <2>4 DEF refresh, Key
    <3>2. m_next'[t] = now + m_ms[t]
      BY <3>1 DEF TimerTypeOK
    <3>3. Least(m_timers) \in Nat /\ \A k \in m_timers : Least(m_timers) <= k[1]
      BY <1>0, <3>1, LeastFacts
    <3>4. Least(m_timers) <= m_next'[t]
      <4>1. Least(m_timers) <= m_next[t]
        BY <3>1, <3>3
      <4> QED
        BY <1>0, <2>1, <3>2, <3>3, <4>1
    <3>5. \A k \in m_timers' : Least(m_timers) <= k[1]
      BY <3>1, <3>3, <3>4
    <3>6. Least(m_timers) <= Least(m_timers')
      BY <1>0, <3>1, <3>5, LeastGrows
    <3> QED
      BY <1>0, <3>1, <3>6, StillInTime
  <2>5. ASSUME NEW ms \in Delays, Construct(t, ms) PROVE WakesInTime'
    BY <1>1, <2>5 DEF Construct
  <2>6. ASSUME NEW ms \in Delays, reset(t, ms) PROVE WakesInTime'
    <3>1. <<now + ms, t>> \in Nat \X Timers
      BY <1>0, <2>1
    <3> QED
      BY <2>6, <3>1, InsertWakes DEF reset
  <2> QED
    BY <1>4, <2>2, <2>3, <2>4, <2>5, <2>6 DEF TimerAction
<1>5. ASSUME NEW th \in IdleThreads, ThreadAction(th) PROVE WakesInTime'
  <2>1. CASE getNextTimer(th)
    <3>1. SUFFICES ASSUME m_timers # {}
                   PROVE  deadline'[th] <= Max({now', Least(m_timers')})
      BY <2>1 DEF getNextTimer, WakesInTime
    <3>2. Least(m_timers) \in Nat /\ now + MaxTimeout \in Nat
      BY <1>0, <3>1, LeastFacts, TimerAssumption
    <3>3. Max({now, Least(m_timers)}) \in Nat
      BY <1>0, <3>2, TwoMax
    <3>4. deadline'[th] = Min({now + MaxTimeout, Max({now, Least(m_timers)})})
      BY <1>0, <2>1, <3>1 DEF getNextTimer
    <3>5. deadline'[th] <= Max({now, Least(m_timers)})
      <4>1. \A a, b \in Nat : Min({a, b}) <= b
        BY TwoMin
      <4> QED
        BY <3>2, <3>3, <3>4, <4>1
    <3> QED
      BY <2>1, <3>5 DEF getNextTimer
  <2>2. CASE WakeUp(th) \/ ReadClock(th) \/ listExpiredCb(th)
    <3>1. pc'[th] # "sleep"
      BY <2>2 DEF WakeUp, ReadClock, listExpiredCb, TimerTypeOK
    <3> QED
      BY <3>1 DEF WakesInTime
  <2>3. CASE ScheduleCbs(th)
    BY <1>1, <2>3 DEF ScheduleCbs
  <2> QED
    BY <1>5, <2>1, <2>2, <2>3 DEF ThreadAction
<1>6. CASE UNCHANGED timerVars
  BY <1>1, <1>6 DEF timerVars
<1> QED
  BY <1>2, <1>3, <1>4, <1>5, <1>6, NextCases

-----------------------------------------------------------------------------
(***************************************************************************)
(* The theorems                                                            *)
(***************************************************************************)

LEMMA InitInv == TimerInit => IInv
<1> SUFFICES ASSUME TimerInit PROVE IInv
  OBVIOUS
<1>1. TimerTypeOK
  <2>1. 0 \in 0 .. MaxTime + Max(Delays \cup {0}) /\ 0 \in 0 .. MaxTime
    BY DueInRange, TimerAssumption
  <2> QED
    BY <2>1 DEF TimerInit, TimerTypeOK
<1>2. SetMatches /\ ClockInv /\ CallbackInv /\ TickleInv /\ WakesInTime /\ CancelIsFinal
  BY DEF TimerInit, SetMatches, ClockInv, CallbackInv, TickleInv, WakesInTime, CancelIsFinal
<1> QED
  BY <1>1, <1>2 DEF IInv, SetInv

LEMMA StepInv == IInv /\ [TimerNext]_timerVars => IInv'
<1> SUFFICES ASSUME IInv, [TimerNext]_timerVars PROVE IInv'
  OBVIOUS
<1> USE DEF IInv, SetInv
<1>1. TimerTypeOK' /\ ClockInv'
  BY TypeStep, ClockStep
<1>2. SetMatches' /\ CallbackInv' /\ CancelIsFinal'
  BY SetStep, CallbackStep
<1>3. TickleInv' /\ WakesInTime'
  BY <1>1, TickleStep, WakesStep
<1> QED
  BY <1>1, <1>2, <1>3

(* The timers keep their inductive invariant.                              *)
THEOREM Invariance == TimerSpec => []IInv
BY InitInv, StepInv, PTL DEF TimerSpec

(* m_timers holds exactly the added timers that still have a callback,     *)
(* each under its present m_next: cancel(), which erases what find()       *)
(* returns without a test, never erases end().                             *)
THEOREM SetConsistent == TimerSpec => []SetInv
<1>1. IInv => SetInv
  BY DEF IInv
<1> QED
  BY <1>1, Invariance, PTL

(* However timers are added, moved and cancelled, the threads never all    *)
(* sleep beyond the time of the first timer.                               *)
THEOREM NoTimerOverslept == TimerSpec => []WakesInTime
<1>1. IInv => WakesInTime
  BY DEF IInv
<1> QED
  BY <1>1, Invariance, PTL

(* The callback of a one-shot timer whose cancel() answered true is never  *)
(* handed to the scheduler afterwards.                                     *)
THEOREM CancelledStaysQuiet == TimerSpec => []CancelIsFinal
<1>1. IInv => CancelIsFinal
  BY DEF IInv
<1> QED
  BY <1>1, Invariance, PTL

-----------------------------------------------------------------------------
(***************************************************************************)
(* The parameters: the inductive invariant                                 *)
(***************************************************************************)
Kept == [Listeners -> Settings]
Heard == [Listeners -> SUBSET Settings]
Lists == Seq(Listeners)

(* What is kept for the objects.                                           *)
ObjectTypes ==
    /\ m_val \in Seq(Settings)
    /\ m_cbs \in Seq(Lists) /\ Len(m_cbs) = Len(m_val)
    /\ last \in Seq(Kept) /\ Len(last) = Len(m_val)
    /\ told \in Seq(Heard) /\ Len(told) = Len(m_val)

SetterTypes ==
    /\ op \in [Setters -> {"free", "notify", "store"}]
    /\ target \in [Setters -> Nat]
    /\ v \in [Setters -> Settings]
    /\ i \in [Setters -> Nat]
    /\ \A t \in Setters : /\ op[t] # "free" => target[t] \in Objects
                          /\ op[t] = "notify" => i[t] # 0

NameTypes ==
    /\ m_datas \in [Keys -> Nat]
    /\ given \in [Keys -> SUBSET Nat]
    /\ \A k \in Keys : m_datas[k] = 0 => given[k] = {}

(* A listener of o has been told x, and that last unless two threads were  *)
(* setting o at a time.                                                    *)
Knows(o, l, x) == x \in told[o][l] /\ (o \notin mixed => last[o][l] = x)

(* A thread that is in the callbacks has told those it is past; one that   *)
(* is about to store has told them all.                                    *)
SetterInv ==
    \A t \in Setters :
        /\ op[t] = "notify" => \A j \in DOMAIN m_cbs[target[t]] : j < i[t] => Knows(target[t], m_cbs[target[t]][j], v[t])
        /\ op[t] = "store" => \A l \in Listeners : Told(target[t], l) => Knows(target[t], l, v[t])

(* A parameter is being set by one thread, or is counted among the mixed.  *)
AloneInv ==
    \A t, u \in Setters :
        op[t] # "free" /\ op[u] # "free" /\ target[t] = target[u] /\ target[t] \notin mixed => t = u

(* ListenersAgree, its two parts.                                          *)
ToldInv ==
    \A o \in Objects, l \in Listeners : Told(o, l) =>
        m_val[o] \in told[o][l] /\ (~ Busy(o) /\ o \notin mixed => last[o][l] = m_val[o])
GivenInv == \A k \in Keys \ cased : given[k] \subseteq {m_datas[k]}

ConfigIInv == ObjectTypes /\ SetterTypes /\ NameTypes /\ SetterInv /\ AloneInv /\ ToldInv /\ GivenInv

-----------------------------------------------------------------------------
(***************************************************************************)
(* What is kept for each object                                            *)
(***************************************************************************)

LEMMA Changed ==
    ASSUME NEW S, NEW s \in Seq(S), NEW o \in DOMAIN s, NEW e \in S
    PROVE  /\ [s EXCEPT ![o] = e] \in Seq(S) /\ Len([s EXCEPT ![o] = e]) = Len(s)
           /\ \A p \in DOMAIN s : [s EXCEPT ![o] = e][p] = IF p = o THEN e ELSE s[p]
BY ExceptSeq, LenProperties

LEMMA SameShape ==
    ASSUME NEW S, NEW s \in Seq(S), NEW t \in [DOMAIN s -> S]
    PROVE  t \in Seq(S) /\ Len(t) = Len(s)
<1>1. Len(s) \in Nat /\ t \in [1 .. Len(s) -> S]
  BY LenProperties
<1>2. t \in Seq(S)
  BY <1>1, SeqDef
<1> QED
  BY <1>1, <1>2, LenProperties

LEMMA Longer ==
    ASSUME NEW S, NEW s \in Seq(S), NEW e \in S, NEW t, t = Append(s, e)
    PROVE  /\ t \in Seq(S) /\ Len(t) = Len(s) + 1 /\ DOMAIN s \subseteq DOMAIN t
           /\ Len(s) + 1 \in DOMAIN t /\ \A p \in DOMAIN t : p \in DOMAIN s \/ p = Len(s) + 1
           /\ \A p \in DOMAIN s : t[p] = s[p]
           /\ t[Len(s) + 1] = e
BY AppendProperties, LenProperties

LEMMA ObjectFacts ==
    ASSUME ObjectTypes
    PROVE  /\ Len(m_val) \in Nat /\ Objects = 1 .. Len(m_val)
           /\ DOMAIN m_cbs = Objects /\ DOMAIN last = Objects /\ DOMAIN told = Objects
           /\ \A o \in Objects : /\ m_val[o] \in Settings /\ m_cbs[o] \in Lists
                                /\ last[o] \in Kept
                                /\ told[o] \in Heard
                                /\ DOMAIN m_cbs[o] = 1 .. Len(m_cbs[o]) /\ Len(m_cbs[o]) \in Nat
                                /\ ToSet(m_cbs[o]) \subseteq Listeners
<1>1. /\ Len(m_val) \in Nat /\ Objects = 1 .. Len(m_val)
      /\ DOMAIN m_cbs = Objects /\ DOMAIN last = Objects /\ DOMAIN told = Objects
  BY LenProperties DEF ObjectTypes, Objects
<1>2. ASSUME NEW o \in Objects
      PROVE  /\ m_val[o] \in Settings /\ m_cbs[o] \in Lists
             /\ last[o] \in Kept
             /\ told[o] \in Heard
  <2>1. o \in 1 .. Len(m_val)
    BY <1>1
  <2> QED
    BY <2>1, ElementOfSeq DEF ObjectTypes
<1>3. ASSUME NEW o \in Objects
      PROVE  /\ DOMAIN m_cbs[o] = 1 .. Len(m_cbs[o]) /\ Len(m_cbs[o]) \in Nat
             /\ ToSet(m_cbs[o]) \subseteq Listeners
  <2>1. DOMAIN m_cbs[o] = 1 .. Len(m_cbs[o]) /\ Len(m_cbs[o]) \in Nat
    BY <1>2, LenProperties DEF Lists
  <2>2. \A j \in DOMAIN m_cbs[o] : m_cbs[o][j] \in Listeners
    BY <1>2, <2>1, ElementOfSeq DEF Lists
  <2> QED
    BY <2>1, <2>2 DEF ToSet
<1> QED
  BY <1>1, <1>2, <1>3

(* A new parameter has the default as its value and nobody to tell.        *)
LEMMA MadeFacts ==
    ASSUME ObjectTypes, NEW k \in Keys, NEW capitals \in BOOLEAN, NEW default \in Settings,
           Get(k, capitals, default), ~ (~ capitals /\ Known(k))
    PROVE  /\ ObjectTypes'
           /\ Len(m_val') = Len(m_val) + 1 /\ Objects \subseteq Objects'
           /\ \A p \in Objects' : p \in Objects \/ p = Len(m_val) + 1
           /\ \A p \in Objects : m_val'[p] = m_val[p] /\ m_cbs'[p] = m_cbs[p] /\ last'[p] = last[p] /\ told'[p] = told[p]
           /\ m_cbs'[Len(m_val) + 1] = <<>>
<1>1. /\ m_val' = Append(m_val, default)
      /\ m_cbs' = Append(m_cbs, <<>>)
      /\ last' = Append(last, [l \in Listeners |-> default])
      /\ told' = Append(told, [l \in Listeners |-> {}])
  BY DEF Get
<1>2. <<>> \in Lists /\ [l \in Listeners |-> default] \in Kept
      /\ [l \in Listeners |-> {}] \in Heard
  BY DEF Lists, Kept, Heard
<1> DEFINE d == [l \in Listeners |-> default]
           e == [l \in Listeners |-> {}]
<1> HIDE DEF d, e
<1>3. /\ m_val' \in Seq(Settings) /\ Len(m_val') = Len(m_val) + 1 /\ Objects \subseteq Objects'
      /\ \A p \in Objects' : p \in Objects \/ p = Len(m_val) + 1
      /\ \A p \in Objects : m_val'[p] = m_val[p]
  BY <1>1, Longer DEF ObjectTypes, Objects
<1>4. /\ m_cbs' \in Seq(Lists) /\ Len(m_cbs') = Len(m_cbs) + 1
      /\ m_cbs'[Len(m_cbs) + 1] = <<>>
      /\ \A p \in DOMAIN m_cbs : m_cbs'[p] = m_cbs[p]
  BY <1>1, <1>2, Longer DEF ObjectTypes
<1>5. /\ last' \in Seq(Kept) /\ Len(last') = Len(last) + 1
      /\ \A p \in DOMAIN last : last'[p] = last[p]
  <2>1. last' = Append(last, d) /\ d \in Kept
    BY <1>1, <1>2 DEF d
  <2> QED
    BY <2>1, Longer DEF ObjectTypes
<1>6. /\ told' \in Seq(Heard) /\ Len(told') = Len(told) + 1
      /\ \A p \in DOMAIN told : told'[p] = told[p]
  <2>1. told' = Append(told, e) /\ e \in Heard
    BY <1>1, <1>2 DEF e
  <2> QED
    BY <2>1, Longer DEF ObjectTypes
<1>7. ObjectTypes'
  BY <1>3, <1>4, <1>5, <1>6 DEF ObjectTypes
<1> QED
  BY <1>3, <1>4, <1>5, <1>6, <1>7, ObjectFacts DEF ObjectTypes

(* A callback that is told x, or added by one who has read x.              *)
Tells(o, l, x, X) == last' = [last EXCEPT ![o][l] = x] /\ told' = [told EXCEPT ![o][l] = X]

LEMMA ToldFacts ==
    ASSUME ObjectTypes, NEW o \in Objects, NEW l \in Listeners, NEW x \in Settings, NEW X \in SUBSET Settings,
           Tells(o, l, x, X)
    PROVE  /\ last' \in Seq(Kept) /\ Len(last') = Len(last)
           /\ told' \in Seq(Heard) /\ Len(told') = Len(told)
           /\ last'[o][l] = x /\ told'[o][l] = X
           /\ \A p \in Objects, m \in Listeners :
                 p # o \/ m # l => last'[p][m] = last[p][m] /\ told'[p][m] = told[p][m]
<1>1. /\ last \in Seq(Kept) /\ DOMAIN last = Objects /\ last[o] \in Kept
      /\ told \in Seq(Heard) /\ DOMAIN told = Objects /\ told[o] \in Heard
      /\ \A p \in Objects : last[p] \in Kept /\ told[p] \in Heard
  BY ObjectFacts DEF ObjectTypes
<1>2. /\ last'[o] = [last[o] EXCEPT ![l] = x] /\ \A p \in Objects \ {o} : last'[p] = last[p]
      /\ told'[o] = [told[o] EXCEPT ![l] = X] /\ \A p \in Objects \ {o} : told'[p] = told[p]
      /\ DOMAIN last' = Objects /\ DOMAIN told' = Objects
  BY <1>1 DEF Tells
<1>3. /\ last'[o] \in Kept /\ last'[o][l] = x /\ \A m \in Listeners : m # l => last'[o][m] = last[o][m]
      /\ told'[o] \in Heard /\ told'[o][l] = X /\ \A m \in Listeners : m # l => told'[o][m] = told[o][m]
  BY <1>1, <1>2 DEF Kept, Heard
<1>4. last' \in [Objects -> Kept] /\ told' \in [Objects -> Heard]
  <2>1. last' = [p \in Objects |-> last'[p]] /\ told' = [p \in Objects |-> told'[p]]
    BY <1>1 DEF Tells
  <2> QED
    BY <1>1, <1>2, <1>3, <2>1
<1> QED
  BY <1>1, <1>2, <1>3, <1>4, SameShape

LEMMA CallbackFacts ==
    ASSUME ObjectTypes, NEW o \in Objects, NEW c \in Lists, m_cbs' = [m_cbs EXCEPT ![o] = c]
    PROVE  /\ m_cbs' \in Seq(Lists) /\ Len(m_cbs') = Len(m_cbs)
           /\ \A p \in Objects : m_cbs'[p] = IF p = o THEN c ELSE m_cbs[p]
<1>1. m_cbs \in Seq(Lists) /\ o \in DOMAIN m_cbs /\ DOMAIN m_cbs = Objects
  BY ObjectFacts DEF ObjectTypes
<1> QED
  BY <1>1, Changed

LEMMA AddedFacts ==
    ASSUME ObjectTypes, NEW o \in Objects, NEW l \in Listeners
    PROVE  Append(m_cbs[o], l) \in Lists /\ ToSet(Append(m_cbs[o], l)) = ToSet(m_cbs[o]) \cup {l}
<1> DEFINE c == Append(m_cbs[o], l)
<1>1. /\ c \in Lists /\ DOMAIN m_cbs[o] \subseteq DOMAIN c /\ Len(m_cbs[o]) + 1 \in DOMAIN c
      /\ \A p \in DOMAIN c : p \in DOMAIN m_cbs[o] \/ p = Len(m_cbs[o]) + 1
      /\ \A p \in DOMAIN m_cbs[o] : c[p] = m_cbs[o][p]
      /\ c[Len(m_cbs[o]) + 1] = l
  BY ObjectFacts, Longer DEF Lists
<1> QED
  BY <1>1 DEF ToSet

-----------------------------------------------------------------------------
(***************************************************************************)
(* The steps                                                               *)
(***************************************************************************)

LEMMA GetStep ==
    ASSUME ConfigIInv, NEW k \in Keys, NEW capitals \in BOOLEAN, NEW default \in Settings, Get(k, capitals, default)
    PROVE  ConfigIInv'
<1> USE DEF ConfigIInv
<1>0. /\ UNCHANGED <<op, target, v, i, missed, mixed>>
      /\ cased' = IF capitals THEN cased \cup {k} ELSE cased
  BY DEF Get
<1>1. CASE ~ capitals /\ Known(k)
  <2>1. UNCHANGED <<m_datas, m_val, m_cbs, last, told>>
    BY <1>1 DEF Get
  <2>2. NameTypes' /\ GivenInv'
    <3>1. given' = [given EXCEPT ![k] = @ \cup {m_datas[k]}] /\ cased' = cased
      BY <1>0, <1>1 DEF Get
    <3> QED
      BY <1>1, <2>1, <3>1 DEF NameTypes, GivenInv, Known
  <2>3. ObjectTypes' /\ SetterTypes' /\ SetterInv' /\ AloneInv'
    BY <1>0, <2>1 DEF ObjectTypes, SetterTypes, SetterInv, AloneInv, Knows, Told, Objects
  <2>4. ToldInv'
    BY <1>0, <2>1 DEF ToldInv, Told, Busy, Objects
  <2> QED
    BY <2>2, <2>3, <2>4
<1>2. CASE ~ (~ capitals /\ Known(k))
  <2> DEFINE n == Len(m_val) + 1
  <2>1. /\ ObjectTypes'
        /\ Len(m_val') = n /\ Objects \subseteq Objects'
        /\ \A p \in Objects' : p \in Objects \/ p = n
        /\ \A p \in Objects : m_val'[p] = m_val[p] /\ m_cbs'[p] = m_cbs[p] /\ last'[p] = last[p] /\ told'[p] = told[p]
        /\ m_cbs'[n] = <<>>
    BY <1>2, MadeFacts
  <2>2. n \in Nat \ {0} /\ m_datas' = [m_datas EXCEPT ![k] = n] /\ given' = [given EXCEPT ![k] = @ \cup {n}]
    BY <1>2, <2>1, ObjectFacts DEF Get
  <2> HIDE DEF n
  <2>3. \A j \in Keys : /\ m_datas'[j] = IF j = k THEN n ELSE m_datas[j]
                        /\ given'[j] = IF j = k THEN given[j] \cup {n} ELSE given[j]
    BY <1>0, <2>2 DEF NameTypes
  <2>4. NameTypes' /\ GivenInv'
    <3>1. \A j \in Keys \ cased' : j \in Keys \ cased /\ (j = k => given[j] = {})
      BY <1>0, <1>2 DEF NameTypes, Known
    <3> QED
      BY <1>0, <2>2, <2>3, <3>1 DEF NameTypes, GivenInv
  <2>5. SetterTypes' /\ AloneInv'
    BY <1>0, <2>1 DEF SetterTypes, AloneInv
  <2>6. \A p \in Objects', l \in Listeners : Told(p, l)' => p \in Objects
    BY <2>1 DEF Told, ToSet
  <2>7. \A p \in Objects, l \in Listeners : Told(p, l)' <=> Told(p, l)
    BY <1>0, <2>1 DEF Told, ToSet
  <2>8. \A p \in Objects : Busy(p)' <=> Busy(p)
    BY <1>0 DEF Busy
  <2>9. SetterInv'
    <3>1. \A t \in Setters : op[t] # "free" => target[t] \in Objects
      BY DEF SetterTypes
    <3> QED
      BY <1>0, <2>1, <2>7, <3>1 DEF SetterInv, Knows
  <2>10. ToldInv'
    BY <1>0, <2>1, <2>6, <2>7, <2>8 DEF ToldInv
  <2> QED
    BY <2>1, <2>4, <2>5, <2>9, <2>10
<1> QED
  BY <1>1, <1>2

(* A listener that is added while a thread is about to store is counted as *)
(* one that has missed the change; the callbacks hold the lock.            *)
LEMMA AddCallbackStep ==
    ASSUME ConfigIInv, NEW o \in Objects, NEW l \in Listeners, AddCallback(o, l)
    PROVE  ConfigIInv'
<1> USE DEF ConfigIInv
<1>0. /\ ~ Reading(o) /\ missed' = IF Busy(o) THEN missed \cup {<<o, l>>} ELSE missed
      /\ UNCHANGED <<m_datas, m_val, op, target, v, i, given, cased, mixed>>
  BY DEF AddCallback
<1>1. m_val[o] \in Settings /\ {m_val[o]} \in SUBSET Settings
  BY ObjectFacts
<1>2. /\ last' \in Seq(Kept) /\ Len(last') = Len(last)
      /\ told' \in Seq(Heard) /\ Len(told') = Len(told)
      /\ last'[o][l] = m_val[o] /\ told'[o][l] = {m_val[o]}
      /\ \A p \in Objects, m \in Listeners :
            p # o \/ m # l => last'[p][m] = last[p][m] /\ told'[p][m] = told[p][m]
  <2>1. Tells(o, l, m_val[o], {m_val[o]})
    BY DEF AddCallback, Tells
  <2> QED
    BY <1>1, <2>1, ToldFacts
<1>3. /\ m_cbs' \in Seq(Lists) /\ Len(m_cbs') = Len(m_cbs)
      /\ \A p \in Objects \ {o} : m_cbs'[p] = m_cbs[p]
      /\ ToSet(m_cbs'[o]) = ToSet(m_cbs[o]) \cup {l}
  <2> DEFINE c == Append(m_cbs[o], l)
  <2>1. c \in Lists /\ ToSet(c) = ToSet(m_cbs[o]) \cup {l}
    BY AddedFacts
  <2>2. m_cbs' = [m_cbs EXCEPT ![o] = c]
    BY DEF AddCallback
  <2> HIDE DEF c
  <2> QED
    <3>1. /\ m_cbs' \in Seq(Lists) /\ Len(m_cbs') = Len(m_cbs)
          /\ \A p \in Objects : m_cbs'[p] = IF p = o THEN c ELSE m_cbs[p]
      BY <2>1, <2>2, CallbackFacts, Zenon
    <3> QED
      BY <2>1, <3>1
<1>4. ObjectTypes' /\ SetterTypes' /\ NameTypes' /\ AloneInv' /\ GivenInv'
  BY <1>0, <1>2, <1>3 DEF ObjectTypes, SetterTypes, NameTypes, AloneInv, GivenInv, Objects
<1>5. ASSUME NEW p \in Objects, NEW m \in Listeners, Told(p, m)'
      PROVE  \/ Told(p, m) /\ (p # o \/ m # l)
             \/ p = o /\ m = l /\ ~ Busy(o)
  <2>1. CASE p # o
    BY <1>0, <1>3, <1>5, <2>1 DEF Told
  <2>2. CASE p = o
    <3>1. m \in ToSet(m_cbs[o]) \cup {l} /\ <<o, m>> \notin missed'
      BY <1>3, <1>5, <2>2 DEF Told
    <3>2. <<o, m>> \notin missed /\ (Busy(o) => m # l)
      BY <1>0, <3>1
    <3>3. l \notin ToSet(m_cbs[o])
      BY DEF AddCallback
    <3> QED
      BY <2>2, <3>1, <3>2, <3>3 DEF Told
  <2> QED
    BY <2>1, <2>2
<1>6. ToldInv'
  <2>1. \A p \in Objects : Busy(p)' <=> Busy(p)
    BY <1>0 DEF Busy
  <2>2. Objects' = Objects
    BY <1>0 DEF Objects
  <2> QED
    BY <1>0, <1>2, <1>5, <2>1, <2>2 DEF ToldInv
<1>7. ASSUME NEW t \in Setters, op[t] = "notify",
             NEW j \in DOMAIN m_cbs'[target[t]], j < i[t]
      PROVE  Knows(target[t], m_cbs[target[t]][j], v[t])' /\ m_cbs'[target[t]] = m_cbs[target[t]]
  <2>1. target[t] \in Objects /\ target[t] # o
    BY <1>0, <1>7 DEF SetterTypes, Reading
  <2>2. m_cbs'[target[t]] = m_cbs[target[t]]
    BY <1>3, <2>1
  <2>3. Knows(target[t], m_cbs[target[t]][j], v[t]) /\ m_cbs[target[t]][j] \in Listeners
    <3>1. m_cbs[target[t]][j] \in ToSet(m_cbs[target[t]])
      BY <1>7, <2>2 DEF ToSet
    <3>2. ToSet(m_cbs[target[t]]) \subseteq Listeners
      BY <2>1, ObjectFacts
    <3> QED
      BY <1>7, <2>2, <3>1, <3>2 DEF SetterInv
  <2> QED
    BY <1>0, <1>2, <2>1, <2>2, <2>3 DEF Knows
<1>8. ASSUME NEW t \in Setters, op[t] = "store", NEW m \in Listeners, Told(target[t], m)'
      PROVE  Knows(target[t], m, v[t])'
  <2>1. target[t] \in Objects /\ Busy(target[t])
    BY <1>8 DEF SetterTypes, Busy
  <2>2. Told(target[t], m) /\ (target[t] # o \/ m # l)
    <3>1. Told(target[t], m)'
      BY <1>8
    <3>2. target'[t] = target[t]
      BY <1>0
    <3> QED
      BY <1>5, <1>8, <2>1, <3>2 DEF Told
  <2>3. Knows(target[t], m, v[t])
    BY <1>8, <2>2 DEF SetterInv
  <2> QED
    BY <1>0, <1>2, <2>1, <2>2, <2>3 DEF Knows
<1>9. SetterInv'
  BY <1>0, <1>7, <1>8 DEF SetterInv
<1> QED
  BY <1>4, <1>6, <1>9

LEMMA ClearCallbackStep ==
    ASSUME ConfigIInv, NEW o \in Objects, ClearCallback(o)
    PROVE  ConfigIInv'
<1> USE DEF ConfigIInv
<1>0. ~ Reading(o) /\ UNCHANGED <<m_datas, m_val, last, told, op, target, v, i, given, cased, missed, mixed>>
  BY DEF ClearCallback
<1>1. /\ m_cbs' \in Seq(Lists) /\ Len(m_cbs') = Len(m_cbs)
      /\ \A p \in Objects : m_cbs'[p] = IF p = o THEN <<>> ELSE m_cbs[p]
  <2>1. <<>> \in Lists /\ m_cbs' = [m_cbs EXCEPT ![o] = <<>>]
    BY DEF Lists, ClearCallback
  <2> QED
    BY <2>1, CallbackFacts
<1>2. ObjectTypes' /\ SetterTypes' /\ NameTypes' /\ AloneInv' /\ GivenInv'
  BY <1>0, <1>1 DEF ObjectTypes, SetterTypes, NameTypes, AloneInv, GivenInv, Objects
<1>3. \A p \in Objects, m \in Listeners : Told(p, m)' => Told(p, m)
  BY <1>0, <1>1 DEF Told, ToSet
<1>4. ToldInv'
  <2>1. \A p \in Objects : Busy(p)' <=> Busy(p)
    BY <1>0 DEF Busy
  <2>2. Objects' = Objects
    BY <1>0 DEF Objects
  <2> QED
    BY <1>0, <1>3, <2>1, <2>2 DEF ToldInv
<1>5. ASSUME NEW t \in Setters, op[t] = "notify" PROVE m_cbs'[target[t]] = m_cbs[target[t]]
  BY <1>0, <1>1, <1>5 DEF SetterTypes, Reading
<1>6. ASSUME NEW t \in Setters, op[t] = "store", NEW m \in Listeners, Told(target[t], m)'
      PROVE  Knows(target[t], m, v[t])'
  <2>1. target[t] \in Objects /\ target'[t] = target[t]
    BY <1>0, <1>6 DEF SetterTypes
  <2>2. Told(target[t], m)
    BY <1>3, <1>6, <2>1 DEF Told
  <2> QED
    BY <1>0, <1>6, <2>2 DEF SetterInv, Knows
<1>7. SetterInv'
  BY <1>0, <1>5, <1>6 DEF SetterInv, Knows
<1> QED
  BY <1>2, <1>4, <1>7

(* Two threads that set one parameter make it one of the mixed.            *)
LEMMA SetValueStep ==
    ASSUME ConfigIInv, NEW o \in Objects, NEW t \in Setters, NEW new \in Settings, SetValue(t, o, new)
    PROVE  ConfigIInv'
<1> USE DEF ConfigIInv
<1>0. /\ op[t] = "free"
      /\ mixed' = IF Busy(o) THEN mixed \cup {o} ELSE mixed
      /\ UNCHANGED <<m_datas, m_val, m_cbs, last, told, given, cased, missed>>
  BY DEF SetValue
<1>1. /\ op' = [op EXCEPT ![t] = "notify"] /\ target' = [target EXCEPT ![t] = o]
      /\ v' = [v EXCEPT ![t] = new] /\ i' = [i EXCEPT ![t] = 1]
  BY DEF SetValue
<1>2. /\ op \in [Setters -> {"free", "notify", "store"}] /\ target \in [Setters -> Nat]
      /\ v \in [Setters -> Settings] /\ i \in [Setters -> Nat]
      /\ \A u \in Setters : op[u] # "free" => target[u] \in Objects
  BY DEF SetterTypes
<1>3. o \in Nat
  BY ObjectFacts
<1>4. \A u \in Setters :
        /\ op'[u] = IF u = t THEN "notify" ELSE op[u]
        /\ target'[u] = IF u = t THEN o ELSE target[u]
        /\ v'[u] = IF u = t THEN new ELSE v[u]
        /\ i'[u] = IF u = t THEN 1 ELSE i[u]
  BY <1>1, <1>2
<1>5. ObjectTypes' /\ NameTypes' /\ GivenInv' /\ Objects' = Objects
  BY <1>0 DEF ObjectTypes, NameTypes, GivenInv, Objects
<1>6. SetterTypes'
  <2>1. /\ op' \in [Setters -> {"free", "notify", "store"}] /\ target' \in [Setters -> Nat]
        /\ v' \in [Setters -> Settings] /\ i' \in [Setters -> Nat]
    BY <1>1, <1>2, <1>3
  <2>2. ASSUME NEW u \in Setters
        PROVE  /\ op'[u] # "free" => target'[u] \in Objects
               /\ op'[u] = "notify" => i'[u] # 0
    BY <1>4 DEF SetterTypes
  <2> QED
    BY <1>5, <2>1, <2>2 DEF SetterTypes
<1>7. mixed \subseteq mixed'
  BY <1>0
<1>8. AloneInv'
  <2>1. ASSUME NEW u \in Setters, op[u] # "free", target[u] = o PROVE o \in mixed'
    BY <1>0, <2>1 DEF Busy
  <2>2. ASSUME NEW a \in Setters, NEW b \in Setters,
               op'[a] # "free", op'[b] # "free", target'[a] = target'[b], target'[a] \notin mixed'
        PROVE  a = b
    <3>1. CASE a = t
      BY <1>4, <2>1, <2>2, <3>1
    <3>2. CASE b = t
      BY <1>4, <2>1, <2>2, <3>2
    <3>3. CASE a # t /\ b # t
      BY <1>4, <1>7, <2>2, <3>3 DEF AloneInv
    <3> QED
      BY <3>1, <3>2, <3>3
  <2> QED
    BY <2>2 DEF AloneInv
<1>9. \A p \in Objects : Busy(p) => Busy(p)'
  BY <1>0, <1>4 DEF Busy
<1>10. ToldInv'
  BY <1>0, <1>5, <1>7, <1>9 DEF ToldInv, Told
<1>11. SetterInv'
  <2>1. ASSUME NEW u \in Setters, op'[u] = "notify", NEW j \in DOMAIN m_cbs[target'[u]], j < i'[u]
        PROVE  Knows(target[u], m_cbs[target[u]][j], v[u])'
    <3>1. CASE u = t
      <4>1. j \in Nat \ {0}
        BY <1>4, <2>1, <3>1, ObjectFacts
      <4> QED
        BY <1>4, <2>1, <3>1, <4>1
    <3>2. CASE u # t
      <4>1. Knows(target[u], m_cbs[target[u]][j], v[u])
        BY <1>4, <2>1, <3>2 DEF SetterInv
      <4> QED
        BY <1>0, <1>4, <1>7, <3>2, <4>1 DEF Knows
    <3> QED
      BY <3>1, <3>2
  <2>2. ASSUME NEW u \in Setters, op'[u] = "store", NEW l \in Listeners, Told(target[u], l)'
        PROVE  Knows(target[u], l, v[u])'
    <3>1. u # t /\ op[u] = "store" /\ target'[u] = target[u] /\ v'[u] = v[u]
      BY <1>4, <2>2
    <3>2. Told(target[u], l)
      BY <1>0, <2>2, <3>1 DEF Told
    <3>3. Knows(target[u], l, v[u])
      BY <3>1, <3>2 DEF SetterInv
    <3> QED
      BY <1>0, <1>7, <3>1, <3>3 DEF Knows
  <2> QED
    BY <1>0, <2>1, <2>2 DEF SetterInv
<1> QED
  BY <1>5, <1>6, <1>8, <1>10, <1>11

(* What a callback does to the memory of the listeners: an object that     *)
(* other threads are setting as well is one of the mixed.                  *)
LEMMA TellFacts ==
    ASSUME ConfigIInv, NEW t \in Setters, Tell(t)
    PROVE  /\ last' \in Seq(Kept) /\ Len(last') = Len(last)
           /\ told' \in Seq(Heard) /\ Len(told') = Len(told)
           /\ \A p \in Objects, m \in Listeners :
                 /\ told[p][m] \subseteq told'[p][m]
                 /\ p # target[t] => last'[p][m] = last[p][m]
                 /\ p = target[t] => last'[p][m] \in {last[p][m], v[t]}
           /\ i[t] \in DOMAIN m_cbs[target[t]] /\ m_cbs[target[t]][i[t]] \in Listeners
           /\ v[t] \in told'[target[t]][m_cbs[target[t]][i[t]]]
           /\ last'[target[t]][m_cbs[target[t]][i[t]]] = v[t]
<1> USE DEF ConfigIInv
<1> DEFINE o == target[t]
           l == m_cbs[o][i[t]]
           x == v[t]
           X == told[o][l] \cup {x}
<1>1. o \in Objects /\ x \in Settings /\ i[t] \in Nat /\ i[t] # 0 /\ i[t] <= Len(m_cbs[o])
  <2>1. op[t] = "notify" /\ i[t] <= Len(m_cbs[o])
    BY DEF Tell
  <2>2. v \in [Setters -> Settings] /\ i \in [Setters -> Nat]
    BY DEF SetterTypes
  <2> QED
    BY <2>1, <2>2 DEF SetterTypes
<1>2. told[o] \in [Listeners -> SUBSET Settings] /\ ToSet(m_cbs[o]) \subseteq Listeners
      /\ DOMAIN m_cbs[o] = 1 .. Len(m_cbs[o]) /\ Len(m_cbs[o]) \in Nat
  BY <1>1, ObjectFacts DEF Heard
<1>3. i[t] \in DOMAIN m_cbs[o]
  BY <1>1, <1>2
<1>4. l \in Listeners
  BY <1>2, <1>3 DEF ToSet
<1>5. X \in SUBSET Settings
  BY <1>1, <1>2, <1>4
<1>6. Tells(o, l, x, X)
  <2>1. last' = [last EXCEPT ![o][l] = x] /\ told' = [told EXCEPT ![o][l] = @ \cup {x}]
    BY DEF Tell
  <2> QED
    BY <2>1 DEF Tells
<1> HIDE DEF o, l, x, X
<1>7. /\ last' \in Seq(Kept) /\ Len(last') = Len(last)
      /\ told' \in Seq(Heard) /\ Len(told') = Len(told)
      /\ last'[o][l] = x /\ told'[o][l] = X
      /\ \A p \in Objects, m \in Listeners :
            p # o \/ m # l => last'[p][m] = last[p][m] /\ told'[p][m] = told[p][m]
  BY <1>1, <1>4, <1>5, <1>6, ToldFacts
<1>8. told[o][l] \subseteq X /\ x \in X
  BY DEF X
<1>9. \A p \in Objects, m \in Listeners :
        /\ told[p][m] \subseteq told'[p][m]
        /\ p # o => last'[p][m] = last[p][m]
        /\ p = o => last'[p][m] \in {last[p][m], x}
  <2> SUFFICES ASSUME NEW p \in Objects, NEW m \in Listeners
               PROVE  /\ told[p][m] \subseteq told'[p][m]
                      /\ p # o => last'[p][m] = last[p][m]
                      /\ p = o => last'[p][m] \in {last[p][m], x}
    OBVIOUS
  <2>1. CASE p = o /\ m = l
    BY <1>7, <1>8, <2>1
  <2>2. CASE p # o \/ m # l
    BY <1>7, <2>2
  <2> QED
    BY <2>1, <2>2
<1> QED
  BY <1>3, <1>4, <1>7, <1>8, <1>9 DEF o, l, x

LEMMA TellStep ==
    ASSUME ConfigIInv, NEW t \in Setters, Tell(t)
    PROVE  ConfigIInv'
<1> USE DEF ConfigIInv
<1> DEFINE o == target[t]
           l == m_cbs[o][i[t]]
           x == v[t]
<1>1. /\ op[t] = "notify" /\ i' = [i EXCEPT ![t] = i[t] + 1]
      /\ UNCHANGED <<m_datas, m_val, m_cbs, op, target, v, given, cased, missed, mixed>>
  BY DEF Tell
<1>2. /\ last' \in Seq(Kept) /\ Len(last') = Len(last)
      /\ told' \in Seq(Heard) /\ Len(told') = Len(told)
      /\ \A p \in Objects, m \in Listeners :
            /\ told[p][m] \subseteq told'[p][m]
            /\ p # o => last'[p][m] = last[p][m]
            /\ p = o => last'[p][m] \in {last[p][m], x}
      /\ i[t] \in DOMAIN m_cbs[o] /\ l \in Listeners
      /\ x \in told'[o][l] /\ last'[o][l] = x
  BY TellFacts
<1>3. o \in Objects /\ Objects' = Objects /\ Busy(o)
  BY <1>1 DEF SetterTypes, Objects, Busy
<1>4. i \in [Setters -> Nat] /\ \A u \in Setters : i'[u] = IF u = t THEN i[t] + 1 ELSE i[u]
  BY <1>1 DEF SetterTypes
<1>5. ObjectTypes' /\ NameTypes' /\ GivenInv' /\ AloneInv'
  BY <1>1, <1>2 DEF ObjectTypes, NameTypes, GivenInv, AloneInv
<1>6. SetterTypes'
  <2>1. i' \in [Setters -> Nat] /\ \A u \in Setters : i[u] # 0 => i'[u] # 0
    BY <1>1, <1>4
  <2> QED
    BY <1>1, <1>3, <2>1 DEF SetterTypes
<1>7. ToldInv'
  <2>1. \A p \in Objects : Busy(p)' <=> Busy(p)
    BY <1>1 DEF Busy
  <2>2. \A p \in Objects, m \in Listeners : Told(p, m)' <=> Told(p, m)
    BY <1>1 DEF Told
  <2>3. ASSUME NEW p \in Objects, NEW m \in Listeners, Told(p, m)
        PROVE  m_val[p] \in told'[p][m] /\ (~ Busy(p) /\ p \notin mixed => last'[p][m] = m_val[p])
    <3>1. m_val[p] \in told[p][m] /\ (~ Busy(p) /\ p \notin mixed => last[p][m] = m_val[p])
      BY <2>3 DEF ToldInv
    <3> QED
      BY <1>2, <1>3, <3>1
  <2> QED
    BY <1>1, <1>3, <2>1, <2>2, <2>3 DEF ToldInv
<1>8. ASSUME NEW p \in Objects, NEW m \in Listeners, NEW y, Knows(p, m, y), p # o \/ p \in mixed \/ y = x
      PROVE  y \in told'[p][m] /\ (p \notin mixed' => last'[p][m] = y)
  BY <1>1, <1>2, <1>8 DEF Knows
<1>9. ASSUME NEW u \in Setters, op[u] # "free", target[u] = o PROVE o \in mixed \/ v[u] = x
  BY <1>1, <1>9 DEF AloneInv
<1>10. SetterInv'
  <2>1. ASSUME NEW u \in Setters, op[u] = "notify", NEW j \in DOMAIN m_cbs[target[u]], j < i'[u]
        PROVE  Knows(target[u], m_cbs[target[u]][j], v[u])'
    <3>1. target[u] \in Objects
      BY <2>1 DEF SetterTypes
    <3>2. m_cbs[target[u]][j] \in Listeners /\ j \in Nat
      BY <2>1, <3>1, ObjectFacts DEF ToSet
    <3>3. CASE u = t /\ j = i[t]
      BY <1>1, <1>2, <3>3 DEF Knows
    <3>4. CASE u # t \/ j # i[t]
      <4>1. j < i[u]
        BY <1>4, <2>1, <3>2, <3>4
      <4>2. Knows(target[u], m_cbs[target[u]][j], v[u])
        BY <2>1, <4>1 DEF SetterInv
      <4>3. target[u] # o \/ target[u] \in mixed \/ v[u] = x
        BY <1>9, <2>1
      <4>4. /\ v[u] \in told'[target[u]][m_cbs[target[u]][j]]
            /\ target[u] \notin mixed' => last'[target[u]][m_cbs[target[u]][j]] = v[u]
        BY <1>8, <3>1, <3>2, <4>2, <4>3
      <4> QED
        BY <1>1, <4>4 DEF Knows
    <3> QED
      BY <3>3, <3>4
  <2>2. ASSUME NEW u \in Setters, op[u] = "store", NEW m \in Listeners, Told(target[u], m)'
        PROVE  Knows(target[u], m, v[u])'
    <3>1. target[u] \in Objects /\ Told(target[u], m)
      BY <1>1, <2>2 DEF SetterTypes, Told
    <3>2. Knows(target[u], m, v[u])
      BY <2>2, <3>1 DEF SetterInv
    <3>3. target[u] # o \/ target[u] \in mixed \/ v[u] = x
      BY <1>9, <2>2
    <3>4. /\ v[u] \in told'[target[u]][m]
          /\ target[u] \notin mixed' => last'[target[u]][m] = v[u]
      BY <1>8, <3>1, <3>2, <3>3
    <3> QED
      BY <1>1, <3>4 DEF Knows
  <2> QED
    BY <1>1, <2>1, <2>2 DEF SetterInv
<1> QED
  BY <1>5, <1>6, <1>7, <1>10

LEMMA ReleaseStep ==
    ASSUME ConfigIInv, NEW t \in Setters, Release(t)
    PROVE  ConfigIInv'
<1> USE DEF ConfigIInv
<1>1. /\ op[t] = "notify" /\ AllTold(t) /\ op' = [op EXCEPT ![t] = "store"]
      /\ UNCHANGED <<m_datas, m_val, m_cbs, last, told, target, v, i, given, cased, missed, mixed>>
  BY DEF Release
<1>2. \A u \in Setters : op'[u] = IF u = t THEN "store" ELSE op[u]
  BY <1>1 DEF SetterTypes
<1>3. ObjectTypes' /\ NameTypes' /\ GivenInv' /\ Objects' = Objects
  BY <1>1 DEF ObjectTypes, NameTypes, GivenInv, Objects
<1>4. SetterTypes' /\ AloneInv'
  <2>1. op' \in [Setters -> {"free", "notify", "store"}]
    BY <1>1 DEF SetterTypes
  <2>2. \A u \in Setters : (op'[u] # "free" <=> op[u] # "free") /\ (op'[u] = "notify" => op[u] = "notify")
    BY <1>1, <1>2
  <2> QED
    BY <1>1, <1>3, <2>1, <2>2 DEF SetterTypes, AloneInv
<1>5. ToldInv'
  <2>1. \A p \in Objects : Busy(p)' <=> Busy(p)
    BY <1>1, <1>2 DEF Busy
  <2> QED
    BY <1>1, <1>3, <2>1 DEF ToldInv, Told
<1>6. ASSUME NEW l \in Listeners, Told(target[t], l) PROVE Knows(target[t], l, v[t])
  <2>1. target[t] \in Objects
    BY <1>1 DEF SetterTypes
  <2>2. PICK j \in DOMAIN m_cbs[target[t]] : m_cbs[target[t]][j] = l
    BY <1>6 DEF Told, ToSet
  <2>3. j < i[t]
    BY <1>1, <2>1, <2>2, ObjectFacts DEF AllTold, SetterTypes
  <2> QED
    BY <1>1, <2>2, <2>3 DEF SetterInv
<1>7. SetterInv'
  BY <1>1, <1>2, <1>6 DEF SetterInv, Knows, Told
<1> QED
  BY <1>3, <1>4, <1>5, <1>7

(* What is stored has been told to all, and nobody else sets an unmixed    *)
(* parameter.                                                              *)
LEMMA StoreValueStep ==
    ASSUME ConfigIInv, NEW t \in Setters, StoreValue(t)
    PROVE  ConfigIInv'
<1> USE DEF ConfigIInv
<1> DEFINE o == target[t]
<1>1. /\ op[t] = "store" /\ op' = [op EXCEPT ![t] = "free"] /\ m_val' = [m_val EXCEPT ![o] = v[t]]
      /\ target' = [target EXCEPT ![t] = 0] /\ v' = [v EXCEPT ![t] = AnyValue] /\ i' = [i EXCEPT ![t] = 0]
      /\ UNCHANGED <<m_datas, m_cbs, last, told, given, cased, missed, mixed>>
  BY DEF StoreValue
<1>2. o \in Objects /\ v[t] \in Settings
  BY <1>1 DEF SetterTypes
<1>0. /\ op \in [Setters -> {"free", "notify", "store"}] /\ target \in [Setters -> Nat]
      /\ v \in [Setters -> Settings] /\ i \in [Setters -> Nat]
  BY DEF SetterTypes
<1>3. \A u \in Setters :
        /\ op'[u] = IF u = t THEN "free" ELSE op[u]
        /\ target'[u] = IF u = t THEN 0 ELSE target[u]
        /\ v'[u] = IF u = t THEN AnyValue ELSE v[u]
        /\ i'[u] = IF u = t THEN 0 ELSE i[u]
  BY <1>1, <1>0
<1>4. /\ m_val' \in Seq(Settings) /\ Len(m_val') = Len(m_val) /\ Objects' = Objects
      /\ \A p \in Objects : m_val'[p] = IF p = o THEN v[t] ELSE m_val[p]
  BY <1>1, <1>2, Changed DEF ObjectTypes, Objects
<1>5. ObjectTypes' /\ NameTypes' /\ GivenInv'
  BY <1>1, <1>4 DEF ObjectTypes, NameTypes, GivenInv
<1>6. SetterTypes' /\ AloneInv'
  <2>1. /\ op' \in [Setters -> {"free", "notify", "store"}] /\ target' \in [Setters -> Nat]
        /\ v' \in [Setters -> Settings] /\ i' \in [Setters -> Nat]
    BY <1>1, <1>0, ConfigAssumption DEF AnyValue
  <2>2. \A u \in Setters : op'[u] # "free" =>
          u # t /\ op'[u] = op[u] /\ target'[u] = target[u] /\ i'[u] = i[u]
    BY <1>3
  <2>3. AloneInv'
    <3> SUFFICES ASSUME NEW a \in Setters, NEW b \in Setters, op'[a] # "free", op'[b] # "free",
                        target'[a] = target'[b], target'[a] \notin mixed'
                 PROVE  a = b
      BY DEF AloneInv
    <3>1. op[a] # "free" /\ op[b] # "free" /\ target[a] = target[b] /\ target[a] \notin mixed
      BY <1>1, <2>2
    <3> QED
      BY <3>1 DEF AloneInv
  <2>4. ASSUME NEW u \in Setters
        PROVE  /\ op'[u] # "free" => target'[u] \in Objects
               /\ op'[u] = "notify" => i'[u] # 0
    BY <2>2 DEF SetterTypes
  <2> QED
    BY <1>4, <2>1, <2>3, <2>4 DEF SetterTypes
<1>7. SetterInv'
  <2>1. \A u \in Setters : op'[u] \in {"notify", "store"} =>
          u # t /\ op'[u] = op[u] /\ target'[u] = target[u] /\ v'[u] = v[u] /\ i'[u] = i[u]
    BY <1>3
  <2>2. \A u \in Setters : op[u] = "notify" => \A j \in DOMAIN m_cbs[target[u]] :
            j < i[u] => Knows(target[u], m_cbs[target[u]][j], v[u])
    BY DEF SetterInv
  <2>3. \A u \in Setters : op[u] = "store" => \A l \in Listeners : Told(target[u], l) => Knows(target[u], l, v[u])
    BY DEF SetterInv
  <2>4. \A p, l, x : (Knows(p, l, x) => Knows(p, l, x)') /\ (Told(p, l)' => Told(p, l))
    BY <1>1 DEF Knows, Told
  <2> QED
    BY <1>1, <2>1, <2>2, <2>3, <2>4 DEF SetterInv
<1>8. ASSUME NEW p \in Objects, NEW l \in Listeners, Told(p, l)'
      PROVE  m_val'[p] \in told[p][l] /\ (~ Busy(p)' /\ p \notin mixed => last[p][l] = m_val'[p])
  <2>1. Told(p, l)
    BY <1>1, <1>8 DEF Told
  <2>2. CASE p = o
    <3>1. Knows(o, l, v[t])
      BY <1>1, <2>1, <2>2 DEF SetterInv
    <3> QED
      BY <1>2, <1>4, <2>2, <3>1 DEF Knows
  <2>3. CASE p # o
    <3>1. Busy(p) => Busy(p)'
      BY <1>3, <2>3 DEF Busy
    <3> QED
      BY <1>4, <2>1, <2>3, <3>1 DEF ToldInv
  <2> QED
    BY <2>2, <2>3
<1>9. ToldInv'
  BY <1>1, <1>4, <1>8 DEF ToldInv
<1> QED
  BY <1>5, <1>6, <1>7, <1>9

-----------------------------------------------------------------------------
LEMMA ConfigIInvInit == ConfigInit => ConfigIInv
<1> SUFFICES ASSUME ConfigInit PROVE ConfigIInv
  OBVIOUS
<1>1. /\ m_datas = [k \in Keys |-> 0]
      /\ m_val = <<>> /\ m_cbs = <<>> /\ last = <<>> /\ told = <<>>
      /\ op = [t \in Setters |-> "free"] /\ target = [t \in Setters |-> 0]
      /\ v = [t \in Setters |-> AnyValue]
      /\ i = [t \in Setters |-> 0]
      /\ given = [k \in Keys |-> {}]
  BY DEF ConfigInit
<1>2. AnyValue \in Settings
  BY ConfigAssumption DEF AnyValue
<1>3. ObjectTypes /\ Objects = {}
  BY <1>1 DEF ObjectTypes, Objects
<1>4. SetterTypes
  BY <1>1, <1>2 DEF SetterTypes
<1>5. NameTypes /\ GivenInv
  BY <1>1 DEF NameTypes, GivenInv
<1>6. SetterInv /\ AloneInv
  BY <1>1 DEF SetterInv, AloneInv
<1>7. ToldInv
  BY <1>3 DEF ToldInv
<1> QED
  BY <1>3, <1>4, <1>5, <1>6, <1>7 DEF ConfigIInv

LEMMA ConfigStutter == ConfigIInv /\ UNCHANGED configVars => ConfigIInv'
<1> SUFFICES ASSUME ConfigIInv, UNCHANGED configVars PROVE ConfigIInv'
  OBVIOUS
<1>1. UNCHANGED <<m_datas, m_val, m_cbs, last, told, op, target, v, i, given, cased, missed, mixed>>
  BY DEF configVars
<1>2. ObjectTypes' /\ SetterTypes' /\ NameTypes' /\ SetterInv' /\ AloneInv' /\ GivenInv'
  BY <1>1 DEF ConfigIInv, ObjectTypes, SetterTypes, NameTypes, SetterInv, AloneInv, GivenInv, Knows, Told, Objects
<1>3. ToldInv'
  BY <1>1 DEF ConfigIInv, ToldInv, Told, Busy, Objects
<1> QED
  BY <1>2, <1>3 DEF ConfigIInv

LEMMA ConfigIInvNext == ConfigIInv /\ [ConfigNext]_configVars => ConfigIInv'
<1> SUFFICES ASSUME ConfigIInv, [ConfigNext]_configVars PROVE ConfigIInv'
  OBVIOUS
<1>1. CASE UNCHANGED configVars
  BY <1>1, ConfigStutter
<1>2. ASSUME NEW k \in Keys, NEW capitals \in BOOLEAN, NEW default \in Settings, Get(k, capitals, default) PROVE ConfigIInv'
  BY <1>2, GetStep
<1>3. ASSUME NEW o \in Objects, NEW l \in Listeners, AddCallback(o, l) PROVE ConfigIInv'
  BY <1>3, AddCallbackStep
<1>4. ASSUME NEW o \in Objects, ClearCallback(o) PROVE ConfigIInv'
  BY <1>4, ClearCallbackStep
<1>5. ASSUME NEW o \in Objects, NEW t \in Setters, NEW new \in Settings, SetValue(t, o, new) PROVE ConfigIInv'
  BY <1>5, SetValueStep
<1>6. ASSUME NEW t \in Setters, Tell(t) PROVE ConfigIInv'
  BY <1>6, TellStep
<1>7. ASSUME NEW t \in Setters, Release(t) PROVE ConfigIInv'
  BY <1>7, ReleaseStep
<1>8. ASSUME NEW t \in Setters, StoreValue(t) PROVE ConfigIInv'
  BY <1>8, StoreValueStep
<1> QED
  BY <1>1, <1>2, <1>3, <1>4, <1>5, <1>6, <1>7, <1>8 DEF ConfigNext

-----------------------------------------------------------------------------
(* What a parameter holds was told to each of its listeners, and was the   *)
(* last they were told once no thread is setting it (Config::setValue).    *)
(* Exempt are a listener that was added between the callbacks of a change  *)
(* and its end, and, for the last told, a parameter that two threads were  *)
(* setting at a time.  Every caller of ConfigManager::get with one name is *)
(* given the object that load() sets, if nobody has written the name with  *)
(* a capital letter.                                                       *)
THEOREM ListenersTold == ConfigSpec => []ListenersAgree
<1>1. ConfigInit => ConfigIInv
  BY ConfigIInvInit
<1>2. ConfigIInv /\ [ConfigNext]_configVars => ConfigIInv'
  BY ConfigIInvNext
<1>3. ConfigIInv => ListenersAgree
  BY DEF ConfigIInv, ToldInv, GivenInv, ListenersAgree
<1> QED
  BY <1>1, <1>2, <1>3, PTL DEF ConfigSpec
-----------------------------------------------------------------------------
(***************************************************************************)
(* The events of descriptors                                               *)
(***************************************************************************)
(* AllTablesAgree is inductive.                                            *)
Sync == interest = m_event /\ registered = {s[1] : s \in m_event}
Waiting == m_event = {s \in Slots : phase[s] = "wait"}

LEMMA TablesAre ==
    ASSUME AllTablesAgree, aborted = "no"
    PROVE  EventsTypeOK /\ Sync /\ PendingIsRegistered /\ Waiting
BY DEF AllTablesAgree, TablesAgree, KernelInSync, WaitersRegistered, Sync, Waiting

LEMMA TablesAreNext ==
    ASSUME EventsTypeOK', PendingIsRegistered', aborted' = "no" => Sync' /\ Waiting'
    PROVE  AllTablesAgree'
BY DEF AllTablesAgree, TablesAgree, KernelInSync, WaitersRegistered, Sync, Waiting

-----------------------------------------------------------------------------
(***************************************************************************)
(* Slots                                                                   *)
(***************************************************************************)

LEMMA SlotFacts ==
    /\ \A s \in Slots : s[1] \in Fds /\ s[2] \in Events /\ s = <<s[1], s[2]>>
    /\ \A fd \in Fds, e \in Events : <<fd, e>> \in Slots /\ <<fd, e>>[1] = fd /\ <<fd, e>>[2] = e
BY DEF Slots

LEMMA OfFacts ==
    ASSUME NEW fd \in Fds, NEW evs \in SUBSET Events
    PROVE  /\ Of(fd, evs) \subseteq Slots
           /\ \A s \in Slots : s \in Of(fd, evs) <=> s[1] = fd /\ s[2] \in evs
BY DEF Of, Slots

LEMMA HeldFacts ==
    ASSUME NEW fd \in Fds
    PROVE  /\ Held(fd) \in SUBSET Events
           /\ \A s \in Slots : s[1] = fd => (s \in m_event <=> s[2] \in Held(fd))
BY SlotFacts DEF Held

LEMMA SlotsFinite ==
    ASSUME m_event \subseteq Slots
    PROVE  IsFiniteSet(Events) /\ IsFiniteSet(m_event) /\ Cardinality(m_event) \in Nat
<1>1. IsFiniteSet(Events)
  <2>1. Events = {"READ"} \cup {"WRITE"}
    BY DEF Events
  <2> QED
    BY <2>1, FS_Singleton, FS_Union
<1>2. IsFiniteSet(Slots)
  BY <1>1, EventsAssumption, FS_Product DEF Slots
<1> QED
  BY <1>1, <1>2, FS_Subset, FS_CardinalityType

(* Taking away the events evs of fd takes away as many slots.              *)
LEMMA SlotsCounted ==
    ASSUME m_event \subseteq Slots, NEW fd \in Fds, NEW evs \in SUBSET Events, evs \subseteq Held(fd)
    PROVE  /\ Cardinality(m_event \ Of(fd, evs)) = Cardinality(m_event) - Cardinality(evs)
           /\ Cardinality(m_event \ Of(fd, evs)) \in Nat
<1>1. IsFiniteSet(Events) /\ IsFiniteSet(m_event) /\ Cardinality(m_event) \in Nat
  BY SlotsFinite
<1>2. IsFiniteSet(evs) /\ Cardinality(evs) \in Nat
  BY <1>1, FS_Subset, FS_CardinalityType
<1>3. Cardinality(Of(fd, evs)) = Cardinality(evs)
  <2>1. IsFiniteSet({fd}) /\ Cardinality({fd}) = 1
    BY FS_Singleton
  <2>2. Cardinality({fd} \X evs) = Cardinality({fd}) * Cardinality(evs)
    BY <1>2, <2>1, FS_Product
  <2> QED
    BY <1>2, <2>1, <2>2 DEF Of
<1>4. m_event \cap Of(fd, evs) = Of(fd, evs)
  BY DEF Of, Held
<1>5. Cardinality(m_event \ Of(fd, evs)) = Cardinality(m_event) - Cardinality(evs)
  <2>1. Cardinality(m_event \ Of(fd, evs)) = Cardinality(m_event) - Cardinality(m_event \cap Of(fd, evs))
    BY <1>1, FS_Difference
  <2> QED
    BY <1>3, <1>4, <2>1
<1>6. Cardinality(m_event \ Of(fd, evs)) \in Nat
  BY <1>1, FS_Difference, FS_CardinalityType
<1> QED
  BY <1>5, <1>6

LEMMA SlotAdded ==
    ASSUME m_event \subseteq Slots, NEW s \in Slots, s \notin m_event
    PROVE  Cardinality(m_event \cup {s}) = Cardinality(m_event) + 1 /\ Cardinality(m_event) \in Nat
<1>1. IsFiniteSet(m_event) /\ Cardinality(m_event) \in Nat
  BY SlotsFinite
<1> QED
  BY <1>1, FS_AddElement

(* epoll after an epoll_ctl: fd is watched for evs, the others as before.  *)
LEMMA CtlFacts ==
    ASSUME EventsTypeOK, NEW fd \in Fds, NEW evs \in SUBSET Events, Ctl(fd, evs)
    PROVE  /\ registered' \subseteq Fds /\ interest' \subseteq Slots /\ rdy' \subseteq registered'
           /\ \A s \in Slots : s \in interest' <=> IF s[1] = fd THEN s[2] \in evs ELSE s \in interest
           /\ \A f \in Fds : f \in registered' <=> IF f = fd THEN evs # {} ELSE f \in registered
           /\ \A f \in rdy : f \in rdy' \/ (f = fd /\ evs = {})
           /\ \A s \in Slots : s[1] = fd /\ s[2] \in evs /\ (s \in level \/ fd \in hup) => fd \in rdy'
<1>1. /\ registered' = IF evs = {} THEN registered \ {fd} ELSE registered \cup {fd}
      /\ interest' = {s \in interest : s[1] # fd} \cup Of(fd, evs)
      /\ rdy' = IF evs = {} THEN rdy \ {fd}
                ELSE IF fd \in hup \/ Of(fd, evs) \cap level # {} THEN rdy \cup {fd}
                ELSE rdy
  BY DEF Ctl
<1>2. registered \subseteq Fds /\ interest \subseteq Slots /\ rdy \subseteq registered
  BY DEF EventsTypeOK
<1>3. registered' \subseteq Fds /\ interest' \subseteq Slots /\ rdy' \subseteq registered'
  BY <1>1, <1>2, OfFacts
<1>4. \A s \in Slots : s \in interest' <=> IF s[1] = fd THEN s[2] \in evs ELSE s \in interest
  BY <1>1, <1>2, OfFacts
<1>5. \A s \in Slots : s[1] = fd /\ s[2] \in evs /\ (s \in level \/ fd \in hup) => fd \in rdy'
  BY <1>1, OfFacts
<1> QED
  BY <1>1, <1>2, <1>3, <1>4, <1>5

(* epoll and the IOContexts still agree if both have made the same change. *)
LEMMA SyncKept ==
    ASSUME EventsTypeOK, Sync, NEW fd \in Fds, NEW evs \in SUBSET Events, Ctl(fd, evs), m_event' \subseteq Slots,
           \A s \in Slots : s \in m_event' <=> IF s[1] = fd THEN s[2] \in evs ELSE s \in m_event
    PROVE  Sync'
<1>1. /\ registered' \subseteq Fds /\ interest' \subseteq Slots
      /\ \A s \in Slots : s \in interest' <=> IF s[1] = fd THEN s[2] \in evs ELSE s \in interest
      /\ \A f \in Fds : f \in registered' <=> IF f = fd THEN evs # {} ELSE f \in registered
  BY CtlFacts
<1>2. interest = m_event /\ registered = {s[1] : s \in m_event} /\ m_event \subseteq Slots
  BY DEF Sync, EventsTypeOK
<1>3. interest' = m_event'
  BY <1>1, <1>2
<1>4. ASSUME NEW f \in Fds PROVE f \in registered' <=> \E s \in m_event' : s[1] = f
  <2>1. CASE f = fd
    <3>1. evs # {} => \E e \in evs : <<fd, e>> \in m_event' /\ <<fd, e>>[1] = fd
      BY SlotFacts
    <3> QED
      BY <1>1, <2>1, <3>1
  <2>2. CASE f # fd
    BY <1>1, <1>2, <2>2
  <2> QED
    BY <2>1, <2>2
<1>5. registered' = {s[1] : s \in m_event'}
  BY <1>1, <1>4, SlotFacts
<1> QED
  BY <1>3, <1>5 DEF Sync

-----------------------------------------------------------------------------
(***************************************************************************)
(* The steps                                                               *)
(***************************************************************************)

(* Steps of the peers, of epoll_wait, and of those that do not wait.       *)
LEMMA OutsideStep ==
    ASSUME AllTablesAgree, aborted = "no",
           \/ \E s \in Slots : Arrive(s) \/ Drain(s) \/ Resume(s)
           \/ \E fd \in Fds : HangUp(fd)
           \/ \E th \in Threads : EpollWait(th) \/ \E r \in Reports : SkipReport(th, r)
    PROVE  AllTablesAgree'
<1>1. EventsTypeOK /\ Sync /\ PendingIsRegistered /\ Waiting
  BY TablesAre
<1>2. UNCHANGED <<m_event, ctx, m_pendingCount, registered, interest, aborted>>
  BY DEF Arrive, Drain, Resume, HangUp, EpollWait, SkipReport, userVars, epollVars
<1>3. level' \subseteq Slots /\ hup' \subseteq Fds /\ rdy' \subseteq registered
  <2>1. level \subseteq Slots /\ hup \subseteq Fds /\ rdy \subseteq registered
    BY <1>1 DEF EventsTypeOK
  <2>2. \A s \in Slots : s \in interest => s[1] \in registered
    BY <1>1 DEF Sync
  <2> QED
    BY <2>1, <2>2 DEF Arrive, Drain, Resume, HangUp, EpollWait, SkipReport, socketVars
<1>4. batch' \in [Threads -> SUBSET Reports]
  <2>1. batch \in [Threads -> SUBSET Reports] /\ rdy \subseteq Fds
    BY <1>1 DEF EventsTypeOK
  <2>2. CASE batch' = batch
    BY <2>1, <2>2
  <2>3. ASSUME NEW th \in Threads, EpollWait(th) PROVE batch' \in [Threads -> SUBSET Reports]
    <3>1. \A fd \in rdy : Report(fd) \in Reports
      BY <2>1 DEF Report, Reports, Wanted
    <3>2. {r \in {Report(fd) : fd \in rdy} : Something(r)} \in SUBSET Reports
      BY <3>1
    <3> QED
      BY <2>1, <2>3, <3>2 DEF EpollWait
  <2>4. ASSUME NEW th \in Threads, NEW r \in Reports, SkipReport(th, r) PROVE batch' \in [Threads -> SUBSET Reports]
    BY <2>1, <2>4 DEF SkipReport, Done
  <2> QED
    BY <2>2, <2>3, <2>4 DEF Arrive, Drain, Resume, HangUp
<1>5. phase' \in [Slots -> {"run", "wait", "woken"}] /\ \A s \in Slots : phase'[s] = "wait" <=> phase[s] = "wait"
  <2>1. phase \in [Slots -> {"run", "wait", "woken"}]
    BY <1>1 DEF EventsTypeOK
  <2> QED
    BY <2>1 DEF Arrive, Drain, Resume, HangUp, EpollWait, SkipReport, userVars
<1>6. EventsTypeOK'
  BY <1>1, <1>2, <1>3, <1>4, <1>5 DEF EventsTypeOK
<1>7. Sync' /\ PendingIsRegistered' /\ Waiting'
  BY <1>1, <1>2, <1>5 DEF Sync, PendingIsRegistered, Waiting
<1> QED
  BY <1>6, <1>7, TablesAreNext

LEMMA AddStep ==
    ASSUME AllTablesAgree, aborted = "no", NEW s \in Slots, add(s)
    PROVE  AllTablesAgree'
<1>1. EventsTypeOK /\ Sync /\ PendingIsRegistered /\ Waiting
  BY TablesAre
<1>2. CASE s \in ctx
  <2>1. UNCHANGED <<m_event, ctx, m_pendingCount, phase, registered, interest, level, hup, rdy, batch>> /\ aborted' = "context"
    BY <1>2 DEF add, Abort, userVars, epollVars, socketVars
  <2> QED
    BY <1>1, <2>1, TablesAreNext DEF EventsTypeOK, PendingIsRegistered
<1>3. CASE s \notin ctx
  <2> DEFINE fd == s[1]
             evs == Held(fd) \cup {s[2]}
  <2>1. /\ phase[s] = "run" /\ Ctl(fd, evs)
        /\ m_event' = m_event \cup {s} /\ ctx' = ctx \cup {s}
        /\ m_pendingCount' = m_pendingCount + 1
        /\ phase' = [phase EXCEPT ![s] = "wait"]
        /\ UNCHANGED <<level, hup, batch, aborted>>
    BY <1>3 DEF add, socketVars
  <2>2. /\ m_event \subseteq Slots /\ ctx \subseteq Slots /\ m_pendingCount \in Nat
        /\ phase \in [Slots -> {"run", "wait", "woken"}]
    BY <1>1 DEF EventsTypeOK
  <2>3. fd \in Fds /\ evs \in SUBSET Events
    BY SlotFacts, HeldFacts
  <2>4. s \notin m_event
    BY <1>1, <2>1 DEF Waiting
  <2>5. \A x \in Slots : x \in m_event' <=> IF x[1] = fd THEN x[2] \in evs ELSE x \in m_event
    BY <2>1, <2>3, HeldFacts, SlotFacts
  <2> HIDE DEF evs, fd
  <2>6. registered' \subseteq Fds /\ interest' \subseteq Slots /\ rdy' \subseteq registered'
    BY <1>1, <2>1, <2>3, CtlFacts
  <2>7. EventsTypeOK'
    BY <1>1, <2>1, <2>2, <2>6 DEF EventsTypeOK
  <2>8. Sync'
    BY <1>1, <2>1, <2>2, <2>3, <2>5, SyncKept
  <2>9. PendingIsRegistered'
    BY <1>1, <2>1, <2>2, <2>4, SlotAdded DEF PendingIsRegistered
  <2>10. Waiting'
    BY <1>1, <2>1, <2>2 DEF Waiting
  <2> QED
    BY <2>7, <2>8, <2>9, <2>10, TablesAreNext
<1> QED
  BY <1>2, <1>3

(* Any step that takes the events evs away from epoll and from the         *)
(* IOContext of fd, and whose parties wait no longer.                      *)
LEMMA TakesAway ==
    ASSUME AllTablesAgree, aborted = "no", NEW fd \in Fds, NEW evs \in SUBSET Events, evs \subseteq Held(fd),
           Ctl(fd, Held(fd) \ evs),
           m_event' = m_event \ Of(fd, evs), ctx' \subseteq Slots,
           m_pendingCount' = m_pendingCount - Cardinality(evs),
           phase' \in [Slots -> {"run", "wait", "woken"}],
           \A s \in Slots : phase'[s] = "wait" <=> phase[s] = "wait" /\ s \notin Of(fd, evs),
           batch' \in [Threads -> SUBSET Reports], UNCHANGED <<level, hup, aborted>>
    PROVE  AllTablesAgree'
<1>1. EventsTypeOK /\ Sync /\ PendingIsRegistered /\ Waiting
  BY TablesAre
<1>2. m_event \subseteq Slots /\ level \subseteq Slots /\ hup \subseteq Fds
  BY <1>1 DEF EventsTypeOK
<1>3. Held(fd) \ evs \in SUBSET Events
  BY HeldFacts
<1>4. registered' \subseteq Fds /\ interest' \subseteq Slots /\ rdy' \subseteq registered'
  BY <1>1, <1>3, CtlFacts
<1>5. Cardinality(m_event \ Of(fd, evs)) = Cardinality(m_event) - Cardinality(evs)
      /\ Cardinality(m_event \ Of(fd, evs)) \in Nat
  BY <1>2, SlotsCounted
<1>6. PendingIsRegistered' /\ m_pendingCount' \in Nat
  BY <1>1, <1>5 DEF PendingIsRegistered
<1>7. EventsTypeOK'
  BY <1>1, <1>2, <1>4, <1>6 DEF EventsTypeOK
<1>8. \A s \in Slots : s \in m_event' <=> IF s[1] = fd THEN s[2] \in Held(fd) \ evs ELSE s \in m_event
  BY OfFacts, HeldFacts
<1>9. Sync'
  BY <1>1, <1>2, <1>3, <1>8, SyncKept
<1>10. Waiting'
  BY <1>1, <1>2 DEF Waiting
<1> QED
  BY <1>6, <1>7, <1>9, <1>10, TablesAreNext

(* trigger(): as many are scheduled as are no longer waited for.           *)
LEMMA TriggerStep ==
    ASSUME AllTablesAgree, aborted = "no", NEW fd \in Fds, NEW evs \in SUBSET Events, evs \subseteq Held(fd),
           Ctl(fd, Held(fd) \ evs), Trigger(fd, evs),
           batch' \in [Threads -> SUBSET Reports], UNCHANGED socketVars
    PROVE  AllTablesAgree'
<1>1. EventsTypeOK
  BY TablesAre
<1>2. /\ m_event' = m_event \ Of(fd, evs) /\ ctx' = ctx \ Of(fd, evs)
      /\ m_pendingCount' = m_pendingCount - Cardinality(evs)
      /\ phase' = [s \in Slots |-> IF s \in Of(fd, evs) THEN "woken" ELSE phase[s]]
      /\ UNCHANGED <<level, hup, aborted>>
  BY DEF Trigger, socketVars
<1>3. ctx' \subseteq Slots /\ phase' \in [Slots -> {"run", "wait", "woken"}]
  BY <1>1, <1>2 DEF EventsTypeOK
<1>4. \A s \in Slots : phase'[s] = "wait" <=> phase[s] = "wait" /\ s \notin Of(fd, evs)
  BY <1>2
<1> QED
  BY <1>2, <1>3, <1>4, TakesAway

LEMMA CancelStep ==
    ASSUME AllTablesAgree, aborted = "no",
           \/ \E s \in Slots : Cancel(s)
           \/ \E fd \in Fds : CancelAll(fd)
    PROVE  AllTablesAgree'
<1>1. batch \in [Threads -> SUBSET Reports]
  BY DEF AllTablesAgree, TablesAgree, EventsTypeOK
<1>2. ASSUME NEW s \in Slots, Cancel(s) PROVE AllTablesAgree'
  <2>1. s[1] \in Fds /\ {s[2]} \in SUBSET Events /\ {s[2]} \subseteq Held(s[1])
    BY <1>2, SlotFacts, HeldFacts DEF Cancel
  <2> QED
    BY <1>1, <1>2, <2>1, TriggerStep DEF Cancel
<1>3. ASSUME NEW fd \in Fds, CancelAll(fd) PROVE AllTablesAgree'
  <2>1. Held(fd) \in SUBSET Events /\ Held(fd) \ Held(fd) = {}
    BY HeldFacts
  <2> QED
    BY <1>1, <1>3, <2>1, TriggerStep DEF CancelAll
<1> QED
  BY <1>2, <1>3

LEMMA DelStep ==
    ASSUME AllTablesAgree, aborted = "no",
           \/ \E s \in Slots : Del(s)
           \/ \E fd \in Fds : DelAll(fd)
    PROVE  AllTablesAgree'
<1>1. EventsTypeOK /\ Waiting
  BY TablesAre
<1>2. /\ batch \in [Threads -> SUBSET Reports] /\ phase \in [Slots -> {"run", "wait", "woken"}]
      /\ ctx \subseteq Slots /\ m_event \subseteq Slots
  BY <1>1 DEF EventsTypeOK
<1>3. ASSUME NEW s \in Slots, Del(s) PROVE AllTablesAgree'
  <2> DEFINE fd == s[1]
             evs == {s[2]}
  <2>1. /\ s \in m_event /\ Ctl(fd, Held(fd) \ evs) /\ m_event' = m_event \ {s} /\ ctx' = ctx \ {s}
        /\ m_pendingCount' = m_pendingCount - 1 /\ phase' = [phase EXCEPT ![s] = "run"]
        /\ UNCHANGED <<level, hup, batch, aborted>>
    BY <1>3 DEF Del, socketVars
  <2>2. fd \in Fds /\ evs \in SUBSET Events /\ evs \subseteq Held(fd)
    BY <2>1, SlotFacts, HeldFacts
  <2>3. Of(fd, evs) = {s} /\ Cardinality(evs) = 1
    <3>1. s = <<fd, s[2]>>
      BY SlotFacts
    <3>2. {fd} \X {s[2]} = {<<fd, s[2]>>}
      OBVIOUS
    <3> QED
      BY <3>1, <3>2, FS_Singleton DEF Of
  <2> HIDE DEF fd, evs
  <2>4. phase' \in [Slots -> {"run", "wait", "woken"}]
        /\ \A x \in Slots : phase'[x] = "wait" <=> phase[x] = "wait" /\ x \notin Of(fd, evs)
    BY <1>2, <2>1, <2>3
  <2> QED
    BY <1>2, <2>1, <2>2, <2>3, <2>4, TakesAway
<1>4. ASSUME NEW fd \in Fds, DelAll(fd) PROVE AllTablesAgree'
  <2> DEFINE evs == Held(fd)
  <2>1. /\ Ctl(fd, {}) /\ m_event' = m_event \ Of(fd, Events) /\ ctx' = ctx \ {<<fd, "READ">>}
        /\ m_pendingCount' = m_pendingCount - Cardinality(evs)
        /\ phase' = [s \in Slots |-> IF s[1] = fd /\ phase[s] = "wait" THEN "run" ELSE phase[s]]
        /\ UNCHANGED <<level, hup, batch, aborted>>
    BY <1>4 DEF DelAll, socketVars
  <2>2. evs \in SUBSET Events /\ evs \ evs = {}
    BY HeldFacts
  <2>3. m_event' = m_event \ Of(fd, evs)
    BY <1>2, <2>1, <2>2, OfFacts, HeldFacts
  <2>4. \A x \in Slots : phase'[x] = "wait" <=> phase[x] = "wait" /\ x \notin Of(fd, evs)
    BY <1>1, <2>1, <2>2, OfFacts, HeldFacts DEF Waiting
  <2>5. phase' \in [Slots -> {"run", "wait", "woken"}] /\ ctx' \subseteq Slots
    BY <1>2, <2>1
  <2> QED
    BY <1>2, <2>1, <2>2, <2>3, <2>4, <2>5, TakesAway
<1> QED
  BY <1>3, <1>4

LEMMA HandleStep ==
    ASSUME AllTablesAgree, aborted = "no", NEW th \in Threads, NEW r \in Reports, HandleReport(th, r)
    PROVE  AllTablesAgree'
<1> DEFINE evs == RealEvents(r)
           fd == r.fd
<1>1. EventsTypeOK /\ PendingIsRegistered
  BY TablesAre
<1>2. fd \in Fds /\ r.ev \in SUBSET Events /\ Held(fd) \in SUBSET Events
  BY HeldFacts DEF Reports
<1>3. evs \in SUBSET Events
  BY <1>2 DEF RealEvents
<1>4. Ctl(fd, Held(fd) \ evs) /\ UNCHANGED socketVars /\ batch' \in [Threads -> SUBSET Reports]
  BY <1>1 DEF HandleReport, Done, EventsTypeOK
<1>5. CASE evs \subseteq Held(fd)
  <2>1. Trigger(fd, evs)
    BY <1>5 DEF HandleReport
  <2> QED
    BY <1>2, <1>3, <1>4, <1>5, <2>1, TriggerStep
<1>6. CASE ~ (evs \subseteq Held(fd))
  <2>1. aborted' = "trigger" /\ UNCHANGED <<m_event, ctx, m_pendingCount, phase, level, hup>>
    BY <1>6 DEF HandleReport, userVars, socketVars
  <2>2. registered' \subseteq Fds /\ interest' \subseteq Slots /\ rdy' \subseteq registered'
    BY <1>1, <1>2, <1>3, <1>4, CtlFacts
  <2> QED
    BY <1>1, <1>4, <2>1, <2>2, TablesAreNext DEF EventsTypeOK, PendingIsRegistered
<1> QED
  BY <1>5, <1>6

-----------------------------------------------------------------------------
LEMMA TablesInit == Init => AllTablesAgree
<1> SUFFICES ASSUME Init PROVE AllTablesAgree
  OBVIOUS
<1>1. EventsTypeOK /\ PendingIsRegistered
  BY FS_EmptySet DEF Init, EventsTypeOK, PendingIsRegistered
<1>2. Sync /\ Waiting
  BY DEF Init, Sync, Waiting
<1> QED
  BY <1>1, <1>2 DEF AllTablesAgree, TablesAgree, KernelInSync, WaitersRegistered, Sync, Waiting

LEMMA TablesNext == AllTablesAgree /\ [Next]_vars => AllTablesAgree'
<1> SUFFICES ASSUME AllTablesAgree, [Next]_vars PROVE AllTablesAgree'
  OBVIOUS
<1>1. CASE UNCHANGED vars
  BY <1>1 DEF vars, userVars, epollVars, socketVars, AllTablesAgree, TablesAgree, EventsTypeOK, KernelInSync,
              PendingIsRegistered, WaitersRegistered
<1>2. CASE Next
  BY <1>2, OutsideStep, AddStep, CancelStep, DelStep, HandleStep DEF Next, Running, Handle
<1> QED
  BY <1>1, <1>2

(* What epoll watches, what the IOContexts hold, what m_pendingCount says  *)
(* and who waits agree after every call of IOManager::add, del and cancel  *)
(* and every report, in whatever order the threads make them.              *)
THEOREM EventTables == Spec => []AllTablesAgree
BY TablesInit, TablesNext, PTL DEF Spec

-----------------------------------------------------------------------------
(***************************************************************************)
(* No event is missed                                                      *)
(***************************************************************************)

Could(s) == s \in level \/ s[1] \in hup
Holds(s) == \E th \in Threads : \E r \in batch[th] : r.fd = s[1] /\ (s[2] \in r.ev \/ r.err)
Noticed(s) == s[1] \in rdy \/ Holds(s)

(* The invariant is kept if each party that waits afterwards has its event *)
(* noticed.                                                                *)
LEMMA NoticedIs ==
    ASSUME NoMissedEvent, aborted = "no"
    PROVE  \A s \in m_event : Could(s) => Noticed(s)
BY DEF NoMissedEvent, Could, Noticed, Holds

LEMMA NoticedNext ==
    ASSUME aborted' = "no" => \A s \in m_event' : Could(s)' => Noticed(s)'
    PROVE  NoMissedEvent'
BY DEF NoMissedEvent, Could, Noticed, Holds

(* Who waited before and is still noticed, because neither epoll nor the   *)
(* threads have forgotten anything about its descriptor.                   *)
LEMMA NoticedStill ==
    ASSUME NoMissedEvent, aborted = "no", NEW s \in m_event, Could(s), s[1] \in rdy => s[1] \in rdy', Holds(s) => Holds(s)'
    PROVE  Noticed(s)'
BY NoticedIs DEF Noticed

LEMMA PeerMissesNothing ==
    ASSUME AllTablesAgree, NoMissedEvent, aborted = "no",
           \/ \E s \in Slots : Arrive(s) \/ Drain(s) \/ Resume(s)
           \/ \E fd \in Fds : HangUp(fd)
    PROVE  NoMissedEvent'
<1>1. Sync
  BY TablesAre
<1>2. UNCHANGED <<m_event, batch, aborted>> /\ rdy \subseteq rdy'
  BY DEF Arrive, Drain, Resume, HangUp, userVars
<1>3. ASSUME NEW s \in m_event, Could(s)' PROVE Could(s) \/ s[1] \in rdy'
  <2>1. ASSUME NEW x \in Slots, Arrive(x) PROVE Could(s) \/ s[1] \in rdy'
    BY <1>1, <1>3, <2>1 DEF Arrive, Could, Sync
  <2>2. ASSUME NEW x \in Slots, Drain(x) \/ Resume(x) PROVE Could(s) \/ s[1] \in rdy'
    BY <1>3, <2>2 DEF Drain, Resume, Could, socketVars
  <2>3. ASSUME NEW fd \in Fds, HangUp(fd) PROVE Could(s) \/ s[1] \in rdy'
    BY <1>1, <1>3, <2>3 DEF HangUp, Could, Sync
  <2> QED
    BY <2>1, <2>2, <2>3
<1>4. ASSUME NEW s \in m_event, Could(s)' PROVE Noticed(s)'
  <2>1. Holds(s) => Holds(s)'
    BY <1>2 DEF Holds
  <2> QED
    BY <1>2, <1>3, <1>4, <2>1, NoticedStill DEF Noticed
<1> QED
  BY <1>2, <1>4, NoticedNext

LEMMA EpollWaitMissesNothing ==
    ASSUME AllTablesAgree, NoMissedEvent, aborted = "no", NEW th \in Threads, EpollWait(th)
    PROVE  NoMissedEvent'
<1>1. EventsTypeOK /\ Sync
  BY TablesAre
<1> DEFINE new == {r \in {Report(fd) : fd \in rdy} : Something(r)}
<1>2. /\ batch[th] = {} /\ batch' = [batch EXCEPT ![th] = new]
      /\ UNCHANGED <<m_event, level, hup, aborted>>
  BY DEF EpollWait, userVars, socketVars
<1>3. batch'[th] = new /\ \A x \in Threads : x # th => batch'[x] = batch[x]
  BY <1>1, <1>2 DEF EventsTypeOK
<1>4. ASSUME NEW s \in m_event, Could(s) PROVE Holds(s)'
  <2>1. Noticed(s)
    BY <1>4, NoticedIs
  <2>2. CASE s[1] \in rdy
    <3> DEFINE r == Report(s[1])
    <3>1. r.fd = s[1] /\ r.ev = {e \in Wanted(s[1]) : <<s[1], e>> \in level} /\ r.err = (s[1] \in hup)
      BY DEF Report
    <3>2. s \in Slots /\ s = <<s[1], s[2]>> /\ s[2] \in Events
      BY <1>1, SlotFacts DEF EventsTypeOK
    <3>3. s[2] \in Wanted(s[1])
      BY <1>1, <3>2 DEF Sync, Wanted
    <3>4. s[2] \in r.ev \/ r.err
      BY <1>4, <3>1, <3>2, <3>3 DEF Could
    <3>5. r \in new
      BY <2>2, <3>1, <3>4 DEF Something
    <3> QED
      BY <1>3, <3>1, <3>4, <3>5 DEF Holds
  <2>3. CASE Holds(s)
    BY <1>2, <1>3, <2>3 DEF Holds
  <2> QED
    BY <2>1, <2>2, <2>3 DEF Noticed
<1>5. \A s \in m_event' : Could(s)' => Noticed(s)'
  BY <1>2, <1>4 DEF Noticed, Could
<1> QED
  BY <1>5, NoticedNext

(* epoll_ctl reports again what is ready among the events it is to watch.  *)
LEMMA CtlMissesNothing ==
    ASSUME AllTablesAgree, NoMissedEvent, aborted = "no", NEW fd \in Fds, NEW evs \in SUBSET Events, Ctl(fd, evs),
           UNCHANGED <<level, hup>>, aborted' = "no",
           m_event' \subseteq Slots,
           \A s \in m_event' : IF s[1] = fd THEN s[2] \in evs ELSE s \in m_event,
           \A th \in Threads : \A r \in batch[th] : r.fd # fd => r \in batch'[th]
    PROVE  NoMissedEvent'
<1>1. EventsTypeOK
  BY TablesAre
<1>2. /\ \A f \in rdy : f \in rdy' \/ (f = fd /\ evs = {})
      /\ \A s \in Slots : s[1] = fd /\ s[2] \in evs /\ (s \in level \/ fd \in hup) => fd \in rdy'
  BY <1>1, CtlFacts
<1>3. ASSUME NEW s \in m_event', Could(s) PROVE Noticed(s)'
  <2>1. CASE s[1] = fd
    BY <1>2, <1>3, <2>1 DEF Could, Noticed
  <2>2. CASE s[1] # fd
    <3>1. s \in m_event /\ (Holds(s) => Holds(s)')
      BY <2>2 DEF Holds
    <3> QED
      BY <1>2, <1>3, <2>2, <3>1, NoticedStill
  <2> QED
    BY <2>1, <2>2
<1>4. \A s \in m_event' : Could(s)' => Noticed(s)'
  BY <1>3 DEF Could
<1> QED
  BY <1>4, NoticedNext

LEMMA CallMissesNothing ==
    ASSUME AllTablesAgree, NoMissedEvent, aborted = "no",
           \/ \E s \in Slots : add(s) \/ Cancel(s) \/ Del(s)
           \/ \E fd \in Fds : CancelAll(fd) \/ DelAll(fd)
    PROVE  NoMissedEvent'
<1>1. m_event \subseteq Slots /\ batch' = batch /\ UNCHANGED <<level, hup>>
  BY TablesAre DEF EventsTypeOK, add, Cancel, Del, CancelAll, DelAll, socketVars
<1>2. ASSUME NEW s \in Slots, add(s) PROVE NoMissedEvent'
  <2>1. CASE s \in ctx
    BY <1>2, <2>1 DEF add, Abort, NoMissedEvent
  <2>2. CASE s \notin ctx
    <3>1. Ctl(s[1], Held(s[1]) \cup {s[2]}) /\ m_event' = m_event \cup {s} /\ aborted' = aborted
      BY <1>2, <2>2 DEF add
    <3>2. s[1] \in Fds /\ Held(s[1]) \cup {s[2]} \in SUBSET Events
      BY SlotFacts, HeldFacts
    <3>3. \A x \in m_event' : IF x[1] = s[1] THEN x[2] \in Held(s[1]) \cup {s[2]} ELSE x \in m_event
      BY <1>1, <3>1, <3>2, HeldFacts
    <3>4. m_event' \subseteq Slots
      BY <1>1, <3>1
    <3> QED
      BY <1>1, <3>1, <3>2, <3>3, <3>4, CtlMissesNothing
  <2> QED
    BY <2>1, <2>2
<1>3. ASSUME NEW s \in Slots, Cancel(s) \/ Del(s) PROVE NoMissedEvent'
  <2>1. s[1] \in Fds /\ Held(s[1]) \ {s[2]} \in SUBSET Events /\ s = <<s[1], s[2]>>
    BY SlotFacts, HeldFacts
  <2>2. Of(s[1], {s[2]}) = {s}
    BY <2>1 DEF Of
  <2>3. Ctl(s[1], Held(s[1]) \ {s[2]}) /\ m_event' = m_event \ {s} /\ aborted' = aborted
    BY <1>3, <2>2 DEF Cancel, Del, Trigger
  <2>4. \A x \in Slots : x = <<x[1], x[2]>>
    BY SlotFacts
  <2>5. \A x \in m_event' : IF x[1] = s[1] THEN x[2] \in Held(s[1]) \ {s[2]} ELSE x \in m_event
    BY <1>1, <2>1, <2>3, <2>4, HeldFacts
  <2> QED
    BY <1>1, <2>1, <2>3, <2>5, CtlMissesNothing
<1>4. ASSUME NEW fd \in Fds, CancelAll(fd) \/ DelAll(fd) PROVE NoMissedEvent'
  <2>1. Ctl(fd, {}) /\ aborted' = aborted /\ (m_event' = m_event \ Of(fd, Held(fd)) \/ m_event' = m_event \ Of(fd, Events))
    BY <1>4 DEF CancelAll, DelAll, Trigger
  <2>2. \A x \in m_event' : x[1] # fd /\ x \in m_event
    BY <1>1, <2>1, OfFacts, HeldFacts, SlotFacts
  <2> QED
    BY <1>1, <2>1, <2>2, CtlMissesNothing
<1> QED
  BY <1>2, <1>3, <1>4

(* A report that is skipped says nothing of an event that is waited for;   *)
(* for one that is handled, epoll is told to watch what is left.           *)
LEMMA ReportMissesNothing ==
    ASSUME AllTablesAgree, NoMissedEvent, aborted = "no", NEW th \in Threads, NEW r \in Reports,
           SkipReport(th, r) \/ HandleReport(th, r)
    PROVE  NoMissedEvent'
<1>1. m_event \subseteq Slots /\ batch \in [Threads -> SUBSET Reports]
  BY TablesAre DEF EventsTypeOK
<1>2. batch' = [batch EXCEPT ![th] = batch[th] \ {r}] /\ UNCHANGED <<level, hup>>
  BY DEF SkipReport, HandleReport, Done, socketVars
<1>3. \A x \in Threads : batch'[x] = IF x = th THEN batch[th] \ {r} ELSE batch[x]
  BY <1>1, <1>2
<1>4. r.fd \in Fds /\ Held(r.fd) \ RealEvents(r) \in SUBSET Events
  BY HeldFacts DEF Reports
<1>5. CASE SkipReport(th, r)
  <2>1. UNCHANGED <<m_event, rdy, aborted>> /\ Held(r.fd) \cap RealEvents(r) = {}
    BY <1>5 DEF SkipReport, userVars
  <2>2. ASSUME NEW s \in m_event PROVE Holds(s) => Holds(s)'
    <3>1. s \in Slots
      BY <1>1
    <3>2. ~ (r.fd = s[1] /\ (s[2] \in r.ev \/ r.err))
      BY <2>1, <3>1, HeldFacts, <1>4 DEF RealEvents
    <3> QED
      BY <1>3, <3>2 DEF Holds
  <2>3. \A s \in m_event' : Could(s)' => Noticed(s)'
    BY <1>2, <2>1, <2>2, NoticedStill DEF Could
  <2> QED
    BY <2>3, NoticedNext
<1>6. CASE HandleReport(th, r) /\ RealEvents(r) \subseteq Held(r.fd)
  <2>1. /\ Ctl(r.fd, Held(r.fd) \ RealEvents(r)) /\ m_event' = m_event \ Of(r.fd, RealEvents(r))
        /\ aborted' = aborted
    BY <1>6 DEF HandleReport, Trigger
  <2>2. \A x \in m_event' : IF x[1] = r.fd THEN x[2] \in Held(r.fd) \ RealEvents(r) ELSE x \in m_event
    <3>1. RealEvents(r) \in SUBSET Events
      BY <1>4, <1>6, HeldFacts
    <3> QED
      BY <1>1, <1>4, <2>1, <3>1, OfFacts, HeldFacts
  <2>3. \A x \in Threads : \A y \in batch[x] : y.fd # r.fd => y \in batch'[x]
    BY <1>3
  <2>4. m_event' \subseteq Slots /\ aborted' = "no"
    BY <1>1, <2>1
  <2> QED
    BY <1>2, <1>4, <2>1, <2>2, <2>3, <2>4, CtlMissesNothing
<1>7. CASE HandleReport(th, r) /\ ~ (RealEvents(r) \subseteq Held(r.fd))
  BY <1>7 DEF HandleReport, NoMissedEvent
<1> QED
  BY <1>5, <1>6, <1>7

LEMMA NothingMissedNext == AllTablesAgree /\ NoMissedEvent /\ [Next]_vars => NoMissedEvent'
<1> SUFFICES ASSUME AllTablesAgree, NoMissedEvent, [Next]_vars PROVE NoMissedEvent'
  OBVIOUS
<1>1. CASE UNCHANGED vars
  BY <1>1 DEF vars, userVars, epollVars, socketVars, NoMissedEvent
<1>2. CASE Next
  BY <1>2, PeerMissesNothing, EpollWaitMissesNothing, CallMissesNothing, ReportMissesNothing DEF Next, Running, Handle
<1> QED
  BY <1>1, <1>2

(* A party that waits for an event that could be handled is not forgotten: *)
(* epoll will report its descriptor or a thread in IOManager::idle holds   *)
(* the report, although several threads handle reports of one descriptor   *)
(* while add, del and cancel change what epoll watches.                    *)
THEOREM NothingMissed == Spec => []NoMissedEvent
<1>1. Init => NoMissedEvent
  BY DEF Init, NoMissedEvent
<1> QED
  BY <1>1, TablesInit, TablesNext, NothingMissedNext, PTL DEF Spec

-----------------------------------------------------------------------------
LEMMA WokenHasWaited ==
    ASSUME AllTablesAgree, [Next]_vars, NEW s \in Slots, phase[s] = "run"
    PROVE  phase'[s] # "woken"
<1>1. CASE UNCHANGED vars
  BY <1>1 DEF vars, userVars
<1>2. CASE Next
  <2>1. aborted = "no" /\ Running
    BY <1>2 DEF Next
  <2>2. EventsTypeOK /\ Waiting
    BY <2>1, TablesAre
  <2>3. phase \in [Slots -> {"run", "wait", "woken"}] /\ s \notin m_event
    BY <2>2 DEF EventsTypeOK, Waiting
  <2>4. ASSUME NEW fd \in Fds, NEW evs, evs \subseteq Held(fd), Trigger(fd, evs) PROVE phase'[s] # "woken"
    <3>1. s \notin Of(fd, evs)
      BY <2>3, <2>4 DEF Of, Held
    <3> QED
      BY <2>4, <3>1 DEF Trigger
  <2>5. ASSUME NEW x \in Slots, Arrive(x) \/ Drain(x) \/ add(x) \/ Del(x) \/ Resume(x) PROVE phase'[s] # "woken"
    BY <2>3, <2>5 DEF Arrive, Drain, add, Abort, Del, Resume, userVars
  <2>6. ASSUME NEW x \in Slots, Cancel(x) PROVE phase'[s] # "woken"
    <3>1. x[1] \in Fds /\ {x[2]} \subseteq Held(x[1]) /\ Trigger(x[1], {x[2]})
      BY <2>6, SlotFacts, HeldFacts DEF Cancel
    <3> QED
      BY <2>4, <3>1
  <2>7. ASSUME NEW fd \in Fds, HangUp(fd) \/ CancelAll(fd) \/ DelAll(fd) PROVE phase'[s] # "woken"
    BY <2>3, <2>4, <2>7 DEF HangUp, CancelAll, DelAll, userVars
  <2>8. ASSUME NEW th \in Threads, EpollWait(th) \/ Handle(th) PROVE phase'[s] # "woken"
    <3>1. CASE EpollWait(th)
      BY <3>1 DEF EpollWait, userVars
    <3>2. ASSUME NEW r \in Reports, SkipReport(th, r) \/ HandleReport(th, r) PROVE phase'[s] # "woken"
      <4>1. CASE UNCHANGED userVars
        BY <4>1 DEF userVars
      <4>2. CASE RealEvents(r) \subseteq Held(r.fd) /\ Trigger(r.fd, RealEvents(r))
        BY <2>4, <4>2 DEF Reports
      <4> QED
        BY <3>2, <4>1, <4>2 DEF SkipReport, HandleReport
    <3> QED
      BY <2>8, <3>1, <3>2 DEF Handle
  <2> QED
    BY <2>1, <2>5, <2>6, <2>7, <2>8 DEF Running
<1> QED
  BY <1>1, <1>2

(* Nobody is scheduled by trigger() who does not wait: a second report of  *)
(* an event, or one that cancel() has answered, schedules nobody.          *)
THEOREM WakesWaitersOnly == Spec => WokenOnce
<1>1. AllTablesAgree /\ [Next]_vars => [\A s \in Slots : phase[s] = "run" => phase'[s] # "woken"]_vars
  BY WokenHasWaited
<1> QED
  BY <1>1, TablesInit, TablesNext, PTL DEF Spec, WokenOnce

-----------------------------------------------------------------------------
(***************************************************************************)
(* The buffer                                                              *)
(*                                                                         *)
(* The place of a byte is the quotient and the remainder of its number by  *)
(* the size of a block; the lemmas say what the arithmetic of Buffer comes *)
(* to in these terms, then what each step does to the bytes.               *)
(***************************************************************************)

(* A set of natural numbers that is not empty has a least one.             *)
LEMMA LeastNumber ==
    ASSUME NEW S \in SUBSET Nat, S # {}
    PROVE  \E n \in S : \A m \in 0 .. n - 1 : m \notin S
<1> DEFINE R == {ss \in Nat \X Nat : ss[1] < ss[2]}
<1>1. IsWellFoundedOn(R, Nat)
  BY NatLessThanWellFounded DEF OpToRel
<1>2. PICK n \in S : \A m \in S : <<m, n>> \notin R
  <2> HIDE DEF R
  <2> QED
    BY <1>1, WFMin
<1>3. ASSUME NEW m \in 0 .. n - 1, m \in S PROVE FALSE
  <2>1. m \in Nat /\ n \in Nat /\ m < n
    BY <1>2, <1>3
  <2>2. <<m, n>> \in Nat \X Nat /\ <<m, n>>[1] = m /\ <<m, n>>[2] = n
    BY <2>1
  <2> QED
    BY <1>2, <1>3, <2>1, <2>2
<1> QED
  BY <1>3

LEMMA DividesBy ==
    ASSUME NEW p \in Nat, NEW b \in Nat \ {0}
    PROVE  /\ p \div b \in Nat /\ p % b \in 0 .. b - 1
           /\ p = (p \div b) * b + (p % b)
<1>1. p \div b \in Nat
  OBVIOUS
<1>2. p % b \in 0 .. b - 1
  OBVIOUS
<1>3. p = b * (p \div b) + (p % b)
  OBVIOUS
<1>4. p = (p \div b) * b + (p % b)
  OBVIOUS
<1> QED BY <1>1, <1>2, <1>3

LEMMA Divides ==
    ASSUME NEW p \in Nat
    PROVE  /\ p \div m_baseSize \in Nat /\ p % m_baseSize \in 0 .. m_baseSize - 1
           /\ p = (p \div m_baseSize) * m_baseSize + (p % m_baseSize)
BY BufferAssumption, DividesBy

LEMMA Monotone ==
    ASSUME NEW a \in Nat, NEW b \in Nat, a < b
    PROVE  a * m_baseSize + m_baseSize <= b * m_baseSize
<1>1. PICK d \in Nat : b = a + 1 + d
  <2>1. b - a - 1 \in Nat /\ b = a + 1 + (b - a - 1)
    OBVIOUS
  <2> QED BY <2>1
<1>2. b * m_baseSize = a * m_baseSize + m_baseSize + d * m_baseSize
  BY <1>1, BufferAssumption
<1>3. d * m_baseSize \in Nat /\ a * m_baseSize \in Nat
  BY BufferAssumption
<1> QED BY <1>2, <1>3, BufferAssumption

LEMMA DividedOnly ==
    ASSUME NEW q \in Nat, NEW r \in 0 .. m_baseSize - 1, NEW p, p = q * m_baseSize + r
    PROVE  p \in Nat /\ p \div m_baseSize = q /\ p % m_baseSize = r
<1>1. p \in Nat /\ q * m_baseSize \in Nat /\ m_baseSize \in Nat
  BY BufferAssumption
<1>2. PICK a, b : a = p \div m_baseSize /\ b = p % m_baseSize
  OBVIOUS
<1>3. a \in Nat /\ b \in 0 .. m_baseSize - 1 /\ p = a * m_baseSize + b /\ a * m_baseSize \in Nat
  BY <1>1, <1>2, Divides
<1>4. ~ (a < q)
  BY <1>1, <1>3, Monotone
<1>5. ~ (q < a)
  BY <1>1, <1>3, Monotone
<1>6. a = q
  BY <1>3, <1>4, <1>5
<1> QED BY <1>1, <1>2, <1>3, <1>6

LEMMA Within ==
    ASSUME NEW p \in Nat, NEW n \in Nat
    PROVE  p < n * m_baseSize <=> p \div m_baseSize < n
<1>1. PICK a, b : a = p \div m_baseSize /\ b = p % m_baseSize
  OBVIOUS
<1>2. a \in Nat /\ b \in 0 .. m_baseSize - 1 /\ p = a * m_baseSize + b /\ a * m_baseSize \in Nat
      /\ n * m_baseSize \in Nat /\ m_baseSize \in Nat
  BY <1>1, Divides, BufferAssumption
<1>3. a < n => p < n * m_baseSize
  BY <1>2, Monotone
<1>4. n < a => ~ (p < n * m_baseSize)
  BY <1>2, Monotone
<1>5. n = a => ~ (p < n * m_baseSize)
  BY <1>2
<1> QED BY <1>1, <1>2, <1>3, <1>4, <1>5

(* The place of a byte k further on.                                       *)
LEMMA Further ==
    ASSUME NEW p \in Nat, NEW k \in Nat
    PROVE  /\ (p \div m_baseSize) + ((p % m_baseSize) + k) \div m_baseSize = (p + k) \div m_baseSize
           /\ ((p % m_baseSize) + k) % m_baseSize = (p + k) % m_baseSize
<1>1. PICK a, b : a = p \div m_baseSize /\ b = p % m_baseSize
  OBVIOUS
<1>2. a \in Nat /\ b \in 0 .. m_baseSize - 1 /\ p = a * m_baseSize + b /\ b \in Nat /\ b + k \in Nat
  BY <1>1, Divides, BufferAssumption
<1>3. PICK c, d : c = (b + k) \div m_baseSize /\ d = (b + k) % m_baseSize
  OBVIOUS
<1>4. c \in Nat /\ d \in 0 .. m_baseSize - 1 /\ b + k = c * m_baseSize + d
  BY <1>2, <1>3, Divides
<1>5. a + c \in Nat /\ p + k = (a + c) * m_baseSize + d
  <2>1. (a + c) * m_baseSize = a * m_baseSize + c * m_baseSize
    BY <1>2, <1>4, BufferAssumption
  <2>2. a * m_baseSize \in Nat /\ c * m_baseSize \in Nat
    BY <1>2, <1>4, BufferAssumption
  <2> QED BY <1>2, <1>4, <2>1, <2>2
<1>6. (p + k) \div m_baseSize = a + c /\ (p + k) % m_baseSize = d
  BY <1>4, <1>5, DividedOnly
<1> QED BY <1>1, <1>3, <1>6

-----------------------------------------------------------------------------
BlockOf(p) == p \div m_baseSize + 1
OffsetOf(p) == p % m_baseSize
Blocks == [0 .. m_baseSize - 1 -> Bytes \cup {Fresh}]
Room(ch) == Len(ch) * m_baseSize

(* The block the cursor points to, with the position at p.                 *)
CurAt(p, ch) == IF p < Room(ch) THEN BlockOf(p) ELSE 0

(* The chain has room for what there is, and the cursor, as long as none   *)
(* was followed that is null, is where the position is.                    *)
BufInv ==
    /\ chain \in Seq(Blocks) /\ chain # <<>> /\ m_capacity = Room(chain)
    /\ m_position \in Nat /\ m_size \in Nat /\ m_position <= m_size /\ m_size <= m_capacity
    /\ Sound => m_cur = CurAt(m_position, chain)

BytesOf(ch, n) == [nth \in 1 .. n |-> ch[BlockOf(nth - 1)][OffsetOf(nth - 1)]]

-----------------------------------------------------------------------------
LEMMA PlaceOf ==
    ASSUME NEW p \in Nat
    PROVE  /\ OffsetOf(p) \in 0 .. m_baseSize - 1 /\ BlockOf(p) \in Nat \ {0}
           /\ \A ch \in Seq(Blocks) : p < Room(ch) => BlockOf(p) \in 1 .. Len(ch)
           /\ \A ch \in Seq(Blocks) : ~ (p < Room(ch)) => BlockOf(p) > Len(ch)
<1>1. PICK a : a = p \div m_baseSize
  OBVIOUS
<1>2. a \in Nat /\ OffsetOf(p) \in 0 .. m_baseSize - 1 /\ BlockOf(p) = a + 1
  BY <1>1, Divides DEF OffsetOf, BlockOf
<1>3. ASSUME NEW ch \in Seq(Blocks) PROVE p < Room(ch) <=> a < Len(ch)
  BY <1>1, Within, LenProperties DEF Room
<1>4. ASSUME NEW ch \in Seq(Blocks) PROVE Len(ch) \in Nat
  BY LenProperties
<1>5. ASSUME NEW ch \in Seq(Blocks), p < Room(ch) PROVE BlockOf(p) \in 1 .. Len(ch)
  BY <1>2, <1>3, <1>4, <1>5
<1>6. ASSUME NEW ch \in Seq(Blocks), ~ (p < Room(ch)) PROVE BlockOf(p) > Len(ch)
  BY <1>2, <1>3, <1>4, <1>6
<1> QED BY <1>2, <1>5, <1>6

(* No two bytes have one place.                                            *)
LEMMA PlacesDiffer ==
    ASSUME NEW p \in Nat, NEW q \in Nat, BlockOf(p) = BlockOf(q), OffsetOf(p) = OffsetOf(q)
    PROVE  p = q
<1>1. p \div m_baseSize = q \div m_baseSize /\ p % m_baseSize = q % m_baseSize
  BY Divides DEF BlockOf, OffsetOf
<1> QED BY <1>1, Divides

LEMMA PlacesAre ==
    ASSUME NEW p \in Nat, NEW n \in Nat
    PROVE  Places(BlockOf(p), OffsetOf(p), n) = [k \in 1 .. n |-> <<BlockOf(p + (k - 1)), OffsetOf(p + (k - 1))>>]
<1>1. ASSUME NEW k \in 1 .. n
      PROVE  /\ BlockOf(p) + (OffsetOf(p) + k - 1) \div m_baseSize = BlockOf(p + (k - 1))
             /\ (OffsetOf(p) + k - 1) % m_baseSize = OffsetOf(p + (k - 1))
  <2>1. k - 1 \in Nat
    OBVIOUS
  <2>2. PICK a, b, c : /\ a = p \div m_baseSize
                       /\ b = (OffsetOf(p) + (k - 1)) \div m_baseSize
                       /\ c = (p + (k - 1)) \div m_baseSize
    OBVIOUS
  <2>3. /\ a + b = c /\ (OffsetOf(p) + (k - 1)) % m_baseSize = OffsetOf(p + (k - 1))
    BY <2>1, <2>2, Further DEF OffsetOf
  <2>4. a \in Nat /\ b \in Nat /\ c \in Nat
    <3>1. OffsetOf(p) \in Nat /\ OffsetOf(p) + (k - 1) \in Nat /\ p + (k - 1) \in Nat
      BY <2>1, PlaceOf, BufferAssumption
    <3> QED BY <2>2, <3>1, Divides
  <2>5. BlockOf(p) = a + 1 /\ BlockOf(p + (k - 1)) = c + 1
    BY <2>2 DEF BlockOf
  <2>6. (a + 1) + b = c + 1
    BY <2>3, <2>4
  <2> QED BY <2>2, <2>3, <2>5, <2>6
<1> QED BY <1>1 DEF Places

LEMMA LoadedIs ==
    ASSUME NEW ch \in Seq(Blocks), NEW p \in Nat, NEW n \in Nat, NEW size \in Nat,
           p + n <= size, size <= Room(ch)
    PROVE  Loaded(ch, Places(BlockOf(p), OffsetOf(p), n)) = SubSeq(BytesOf(ch, size), p + 1, p + n)
<1>1. PICK ps, bs, V, ld : /\ ps = Places(BlockOf(p), OffsetOf(p), n) /\ bs = BytesOf(ch, size)
                           /\ V = Bytes \cup {Fresh} /\ ld = Loaded(ch, ps)
  OBVIOUS
<1>2. Room(ch) \in Nat
  BY LenProperties, BufferAssumption DEF Room
<1>3. ASSUME NEW q \in Nat, q < size
      PROVE  ch[BlockOf(q)][OffsetOf(q)] \in V
  <2>1. q < Room(ch)
    BY <1>2, <1>3
  <2>2. BlockOf(q) \in 1 .. Len(ch) /\ OffsetOf(q) \in 0 .. m_baseSize - 1
    BY <2>1, PlaceOf
  <2>3. ch[BlockOf(q)] \in Blocks
    BY <2>2, ElementOfSeq
  <2> QED BY <1>1, <2>2, <2>3 DEF Blocks
<1>4. bs \in Seq(V) /\ Len(bs) = size /\ \A nth \in 1 .. size : bs[nth] = ch[BlockOf(nth - 1)][OffsetOf(nth - 1)]
  <2>1. \A nth \in 1 .. size : nth - 1 \in Nat /\ nth - 1 < size
    OBVIOUS
  <2>2. bs \in [1 .. size -> V]
    BY <1>1, <1>3, <2>1 DEF BytesOf
  <2> QED BY <1>1, <2>2 DEF BytesOf
<1>5. /\ DOMAIN ld = 1 .. n
      /\ \A k \in 1 .. n : ld[k] = ch[BlockOf(p + (k - 1))][OffsetOf(p + (k - 1))]
  <2>1. ps = [k \in 1 .. n |-> <<BlockOf(p + (k - 1)), OffsetOf(p + (k - 1))>>]
    BY <1>1, PlacesAre
  <2>2. ld = [k \in DOMAIN ps |-> ch[ps[k][1]][ps[k][2]]]
    BY <1>1 DEF Loaded
  <2> QED BY <2>1, <2>2
<1>6. ASSUME NEW k \in 1 .. n
      PROVE  /\ p + k \in 1 .. size /\ (p + k) - 1 = p + (k - 1) /\ ld[k] = bs[p + k] /\ bs[p + k] \in V
  <2>1. p + k \in 1 .. size /\ (p + k) - 1 = p + (k - 1)
    OBVIOUS
  <2>2. bs[p + k] \in V
    BY <1>4, <2>1, ElementOfSeq
  <2> QED BY <1>4, <1>5, <2>1, <2>2
<1>7. ld \in Seq(V) /\ Len(ld) = n
  <2>1. ld = [k \in 1 .. n |-> ld[k]]
    BY <1>1, <1>5 DEF Loaded
  <2>2. ld \in [1 .. n -> V]
    BY <1>6, <2>1
  <2> QED BY <2>2
<1>8. SubSeq(bs, p + 1, p + n) = ld
  <2>1. PICK ss, m, l : ss = SubSeq(bs, p + 1, p + n) /\ m = p + 1 /\ l = p + n
    OBVIOUS
  <2>2. m \in Int /\ l \in Int /\ \A nth \in m .. l : bs[nth] \in V
    BY <1>4, <2>1, ElementOfSeq
  <2>3. /\ SubSeq(bs, m, l) \in Seq(V)
        /\ Len(SubSeq(bs, m, l)) = IF m <= l THEN l - m + 1 ELSE 0
        /\ \A nth \in 1 .. l - m + 1 : SubSeq(bs, m, l)[nth] = bs[m + nth - 1]
    BY <2>2, SubSeqProperties
  <2>4. l - m + 1 = n /\ (IF m <= l THEN l - m + 1 ELSE 0) = n
    BY <2>1
  <2>5. ss \in Seq(V) /\ Len(ss) = n /\ \A nth \in 1 .. n : ss[nth] = bs[m + nth - 1]
    BY <2>1, <2>3, <2>4
  <2>6. \A nth \in 1 .. n : m + nth - 1 = p + nth
    BY <2>1
  <2>7. ss = ld
    BY <1>6, <1>7, <2>5, <2>6, SeqEqual
  <2> QED BY <2>1, <2>7
<1> QED BY <1>1, <1>8

LEMMA StoredIs ==
    ASSUME NEW ch \in Seq(Blocks), NEW p \in Nat, NEW n \in Nat, p + n <= Room(ch),
           NEW s \in [1 .. n -> Bytes], NEW new, new = Stored(ch, Places(BlockOf(p), OffsetOf(p), n), s)
    PROVE  /\ new \in Seq(Blocks) /\ Len(new) = Len(ch)
           /\ \A q \in Nat : q < Room(ch) =>
                 new[BlockOf(q)][OffsetOf(q)] =
                     IF q \in p .. p + n - 1 THEN s[q - p + 1] ELSE ch[BlockOf(q)][OffsetOf(q)]
<1>1. PICK ps, l : ps = Places(BlockOf(p), OffsetOf(p), n) /\ l = Len(ch)
  OBVIOUS
<1>2. l \in Nat /\ DOMAIN ch = 1 .. l /\ \A b \in 1 .. l : ch[b] \in Blocks
  BY <1>1, LenProperties, ElementOfSeq
<1>3. DOMAIN ps = 1 .. n /\ \A k \in 1 .. n : ps[k] = <<BlockOf(p + (k - 1)), OffsetOf(p + (k - 1))>>
  <2>1. ps = [k \in 1 .. n |-> <<BlockOf(p + (k - 1)), OffsetOf(p + (k - 1))>>]
    BY <1>1, PlacesAre
  <2> QED BY <2>1
<1>4. new = [b \in 1 .. l |-> [nth \in 0 .. m_baseSize - 1 |->
                IF \E k \in 1 .. n : ps[k] = <<b, nth>> THEN s[CHOOSE k \in 1 .. n : ps[k] = <<b, nth>>]
                ELSE ch[b][nth]]]
  <2>1. \A b \in 1 .. l : DOMAIN ch[b] = 0 .. m_baseSize - 1
    BY <1>2 DEF Blocks
  <2> QED BY <1>1, <1>2, <1>3, <2>1 DEF Stored
<1>5. ASSUME NEW b \in 1 .. l PROVE new[b] \in Blocks
  <2>1. new[b] = [nth \in 0 .. m_baseSize - 1 |->
                IF \E k \in 1 .. n : ps[k] = <<b, nth>> THEN s[CHOOSE k \in 1 .. n : ps[k] = <<b, nth>>]
                ELSE ch[b][nth]]
    BY <1>4
  <2>2. ASSUME NEW nth \in 0 .. m_baseSize - 1
        PROVE  (IF \E k \in 1 .. n : ps[k] = <<b, nth>> THEN s[CHOOSE k \in 1 .. n : ps[k] = <<b, nth>>]
                ELSE ch[b][nth]) \in Bytes \cup {Fresh}
    <3>1. CASE \E k \in 1 .. n : ps[k] = <<b, nth>>
      <4>1. (CHOOSE k \in 1 .. n : ps[k] = <<b, nth>>) \in 1 .. n
        BY <3>1
      <4> QED BY <3>1, <4>1
    <3>2. CASE ~ \E k \in 1 .. n : ps[k] = <<b, nth>>
      BY <1>2, <3>2 DEF Blocks
    <3> QED BY <3>1, <3>2
  <2> QED BY <2>1, <2>2 DEF Blocks
<1>6. new \in Seq(Blocks) /\ Len(new) = l
  <2>1. new \in [1 .. l -> Blocks]
    BY <1>4, <1>5
  <2> QED BY <1>2, <2>1
<1>7. ASSUME NEW q \in Nat, q < Room(ch)
      PROVE  new[BlockOf(q)][OffsetOf(q)] =
                 IF q \in p .. p + n - 1 THEN s[q - p + 1] ELSE ch[BlockOf(q)][OffsetOf(q)]
  <2>1. PICK b, nth : b = BlockOf(q) /\ nth = OffsetOf(q)
    OBVIOUS
  <2>2. b \in 1 .. l /\ nth \in 0 .. m_baseSize - 1
    BY <1>1, <1>7, <2>1, PlaceOf
  <2>3. new[b][nth] = IF \E k \in 1 .. n : ps[k] = <<b, nth>> THEN s[CHOOSE k \in 1 .. n : ps[k] = <<b, nth>>]
                    ELSE ch[b][nth]
    BY <1>4, <2>2, ZenonT(30)
  <2>4. ASSUME NEW k \in 1 .. n PROVE ps[k] = <<b, nth>> <=> k = q - p + 1
    <3>1. ps[k] = <<b, nth>> <=> BlockOf(p + (k - 1)) = b /\ OffsetOf(p + (k - 1)) = nth
      BY <1>3
    <3>2. p + (k - 1) \in Nat
      OBVIOUS
    <3>3. BlockOf(p + (k - 1)) = b /\ OffsetOf(p + (k - 1)) = nth <=> p + (k - 1) = q
      BY <2>1, <3>2, PlacesDiffer
    <3>4. p + (k - 1) = q <=> k = q - p + 1
      OBVIOUS
    <3> QED BY <3>1, <3>3, <3>4
  <2>5. CASE q \in p .. p + n - 1
    <3>1. PICK j : j = q - p + 1
      OBVIOUS
    <3>2. j \in 1 .. n
      BY <2>5, <3>1
    <3>3. ps[j] = <<b, nth>>
      BY <2>4, <3>1, <3>2
    <3>4. (CHOOSE k \in 1 .. n : ps[k] = <<b, nth>>) = j
      BY <2>4, <3>1, <3>2, <3>3
    <3> QED BY <2>1, <2>3, <2>5, <3>1, <3>2, <3>3, <3>4
  <2>6. CASE q \notin p .. p + n - 1
    <3>1. q - p + 1 \notin 1 .. n
      BY <2>6
    <3>2. ~ \E k \in 1 .. n : ps[k] = <<b, nth>>
      BY <2>4, <3>1
    <3> QED BY <2>1, <2>3, <2>6, <3>2
  <2> QED BY <2>5, <2>6
<1> QED BY <1>1, <1>6, <1>7

LEMMA CurIsBlock ==
    ASSUME BufInv, Sound, m_position < Room(chain)
    PROVE  m_cur = BlockOf(m_position) /\ m_cur \in 1 .. Len(chain)
<1>1. m_cur = BlockOf(m_position)
  BY DEF BufInv, CurAt
<1> QED BY <1>1, PlaceOf DEF BufInv

LEMMA RoomIs ==
    ASSUME BufInv
    PROVE  /\ Len(chain) \in Nat \ {0} /\ Room(chain) \in Nat /\ m_capacity = Room(chain)
           /\ m_position <= m_size /\ m_size <= Room(chain) /\ m_position \in Nat /\ m_size \in Nat
<1>1. Len(chain) \in Nat \ {0}
  BY LenProperties, EmptySeq DEF BufInv
<1> QED BY <1>1, BufferAssumption DEF BufInv, Room

LEMMA GrownIs ==
    ASSUME BufInv, Sound, NEW size \in Nat \ {0}, NEW g, g = Grown(size)
    PROVE  /\ g.chain \in Seq(Blocks) /\ g.chain # <<>> /\ g.capacity = Room(g.chain)
           /\ m_position + size <= Room(g.chain) /\ Room(chain) <= Room(g.chain)
           /\ g.cur = BlockOf(m_position) /\ g.cur = m_position \div m_baseSize + 1
           /\ \A b \in 1 .. Len(chain) : g.chain[b] = chain[b]
<1>1. PICK room, count, l : /\ room = m_capacity - m_position /\ l = Len(chain)
                /\ count = (IF room >= size THEN 0 ELSE (size - room + m_baseSize - 1) \div m_baseSize)
  OBVIOUS
<1>2. /\ g.chain = chain \o [nth \in 1 .. count |-> Block]
      /\ g.cur = (IF room = 0 /\ count > 0 THEN l + 1 ELSE m_cur)
      /\ g.capacity = m_capacity + count * m_baseSize
  BY <1>1 DEF Grown
<1>3. /\ l \in Nat \ {0} /\ Room(chain) = m_capacity /\ m_capacity \in Nat /\ m_position \in Nat
      /\ room \in Nat /\ chain \in Seq(Blocks) /\ m_baseSize \in Nat \ {0}
  BY <1>1, RoomIs, BufferAssumption DEF BufInv
<1>4. /\ count \in Nat /\ count * m_baseSize \in Nat
      /\ room < size => count > 0 /\ size <= room + count * m_baseSize
      /\ room >= size => count = 0
  <2>1. CASE room >= size
    BY <1>1, <1>3, <2>1
  <2>2. CASE ~ (room >= size)
    <3>1. PICK d, x, r : d = size - room /\ x = d + m_baseSize - 1 /\ r = x % m_baseSize
      OBVIOUS
    <3>2. d \in Nat \ {0} /\ x \in Nat /\ x = d + (m_baseSize - 1)
      BY <1>3, <2>2, <3>1
    <3>3. count = x \div m_baseSize
      BY <1>1, <2>2, <3>1
    <3>4. count \in Nat /\ r \in 0 .. m_baseSize - 1 /\ x = count * m_baseSize + r
      BY <3>1, <3>2, <3>3, Divides
    <3>5. count * m_baseSize \in Nat
      BY <1>3, <3>4
    <3>6. d <= count * m_baseSize
      BY <1>3, <3>2, <3>4, <3>5
    <3>7. count # 0
      BY <1>3, <3>2, <3>6
    <3> QED BY <1>3, <2>2, <3>1, <3>4, <3>5, <3>6, <3>7
  <2> QED BY <2>1, <2>2
<1>5. PICK more : more = [nth \in 1 .. count |-> Block]
  OBVIOUS
<1>6. more \in Seq(Blocks) /\ Len(more) = count
  <2>1. Block \in Blocks
    BY DEF Block, Blocks
  <2>2. more \in [1 .. count -> Blocks]
    BY <1>5, <2>1
  <2> QED BY <1>4, <2>2
<1>7. /\ g.chain \in Seq(Blocks) /\ Len(g.chain) = l + count
      /\ \A b \in 1 .. l : g.chain[b] = chain[b]
  <2>1. /\ chain \o more \in Seq(Blocks) /\ Len(chain \o more) = Len(chain) + Len(more)
        /\ \A nth \in 1 .. Len(chain) + Len(more) : (chain \o more)[nth] =
                 IF nth <= Len(chain) THEN chain[nth] ELSE more[nth - Len(chain)]
    BY <1>3, <1>6, ConcatProperties
  <2>2. \A b \in 1 .. l : b \in 1 .. l + count /\ b <= l
    BY <1>3, <1>4
  <2>3. g.chain = chain \o more
    BY <1>2, <1>5
  <2> QED BY <1>1, <1>6, <2>1, <2>2, <2>3
<1>8. Room(g.chain) = Room(chain) + count * m_baseSize
  <2>1. (l + count) * m_baseSize = l * m_baseSize + count * m_baseSize
    BY <1>3, <1>4
  <2> QED BY <1>1, <1>7, <2>1 DEF Room
<1>9. /\ g.capacity = Room(g.chain) /\ Room(chain) <= Room(g.chain)
      /\ m_position + size <= Room(g.chain)
  <2>1. m_capacity = m_position + room
    BY <1>1, <1>3
  <2> QED BY <1>2, <1>3, <1>4, <1>8, <2>1
<1>10. g.cur = BlockOf(m_position)
  <2>1. CASE room = 0
    <3>1. count > 0 /\ g.cur = l + 1
      BY <1>2, <1>4, <2>1
    <3>2. m_position = l * m_baseSize + 0 /\ 0 \in 0 .. m_baseSize - 1
      <4>1. m_position = m_capacity
        BY <1>1, <1>3, <2>1
      <4>2. m_capacity = l * m_baseSize /\ l * m_baseSize \in Nat
        BY <1>1, <1>3 DEF Room
      <4> QED BY <1>3, <4>1, <4>2
    <3>3. m_position \div m_baseSize = l
      BY <1>3, <3>2, DividedOnly
    <3> QED BY <3>1, <3>3 DEF BlockOf
  <2>2. CASE room # 0
    <3>1. m_position < Room(chain)
      BY <1>1, <1>3, <2>2
    <3> QED BY <1>2, <2>2, <3>1, CurIsBlock
  <2> QED BY <2>1, <2>2
<1>11. g.chain # <<>>
  BY <1>3, <1>4, <1>7, EmptySeq
<1> QED BY <1>1, <1>7, <1>9, <1>10, <1>11 DEF BlockOf

(* The cursor after some bytes.                                            *)
LEMMA MovedIs ==
    ASSUME NEW ch \in Seq(Blocks), NEW p \in Nat, NEW n \in Nat \ {0}, p + n <= Room(ch)
    PROVE  Moved(ch, Places(BlockOf(p), OffsetOf(p), n)) = CurAt(p + n, ch)
<1>1. PICK ps, l, q : ps = Places(BlockOf(p), OffsetOf(p), n) /\ l = Len(ch) /\ q = p + (n - 1)
  OBVIOUS
<1>2. l \in Nat /\ q \in Nat /\ p + n = q + 1 /\ Room(ch) = l * m_baseSize /\ Room(ch) \in Nat
      /\ m_baseSize \in Nat \ {0}
  BY <1>1, LenProperties, BufferAssumption DEF Room
<1>3. Len(ps) = n /\ ps[n] = <<BlockOf(q), OffsetOf(q)>>
  <2>1. ps = [k \in 1 .. n |-> <<BlockOf(p + (k - 1)), OffsetOf(p + (k - 1))>>]
    BY <1>1, PlacesAre
  <2>2. n \in 1 .. n
    OBVIOUS
  <2> QED BY <1>1, <2>1, <2>2
<1>4. PICK a, b : a = q \div m_baseSize /\ b = q % m_baseSize
  OBVIOUS
<1>5. a \in Nat /\ b \in 0 .. m_baseSize - 1 /\ q = a * m_baseSize + b /\ a * m_baseSize \in Nat
      /\ BlockOf(q) = a + 1 /\ OffsetOf(q) = b
  <2>1. a \in Nat /\ b \in 0 .. m_baseSize - 1 /\ q = a * m_baseSize + b
    BY <1>2, <1>4, Divides
  <2>2. a * m_baseSize \in Nat
    BY <1>2, <2>1
  <2> QED BY <1>4, <2>1, <2>2 DEF BlockOf, OffsetOf
<1>6. Moved(ch, ps) = IF b + 1 = m_baseSize THEN (IF a + 1 = l THEN 0 ELSE a + 2) ELSE a + 1
  <2>1. Last(ps) = <<a + 1, b>>
    BY <1>3, <1>5 DEF Last
  <2>2. Moved(ch, ps) = IF b + 1 = m_baseSize THEN After(ch, a + 1) ELSE a + 1
    BY <2>1 DEF Moved
  <2>3. After(ch, a + 1) = IF a + 1 = l THEN 0 ELSE a + 2
    BY <1>1, <1>5 DEF After
  <2> QED BY <2>2, <2>3
<1>7. q < Room(ch) /\ a < l
  <2>1. q < Room(ch)
    BY <1>1, <1>2
  <2>2. q < l * m_baseSize <=> q \div m_baseSize < l
    BY <1>2, Within
  <2> QED BY <1>2, <1>4, <2>1, <2>2
<1>8. CASE b + 1 = m_baseSize
  <2>1. (a + 1) * m_baseSize = a * m_baseSize + m_baseSize
    BY <1>2, <1>5
  <2>2. q + 1 = (a + 1) * m_baseSize + 0 /\ 0 \in 0 .. m_baseSize - 1 /\ a + 1 \in Nat
    BY <1>2, <1>5, <1>8, <2>1
  <2>3. (q + 1) \div m_baseSize = a + 1
    BY <2>2, DividedOnly
  <2>4. q + 1 < l * m_baseSize <=> a + 1 < l
    BY <1>2, <2>3, Within
  <2>5. CurAt(q + 1, ch) = IF a + 1 < l THEN a + 2 ELSE 0
    BY <1>2, <1>5, <2>3, <2>4 DEF CurAt, BlockOf
  <2> QED BY <1>1, <1>2, <1>5, <1>6, <1>7, <1>8, <2>5
<1>9. CASE b + 1 # m_baseSize
  <2>1. q + 1 = a * m_baseSize + (b + 1) /\ b + 1 \in 0 .. m_baseSize - 1
    BY <1>2, <1>5, <1>9
  <2>2. (q + 1) \div m_baseSize = a
    BY <1>5, <2>1, DividedOnly
  <2>3. q + 1 < l * m_baseSize <=> a < l
    BY <1>2, <2>2, Within
  <2>4. CurAt(q + 1, ch) = a + 1
    BY <1>2, <1>7, <2>2, <2>3 DEF CurAt, BlockOf
  <2> QED BY <1>1, <1>2, <1>6, <1>9, <2>4
<1> QED BY <1>8, <1>9

-----------------------------------------------------------------------------
LEMMA ContentIs ==
    ASSUME BufInv
    PROVE  /\ BytesHeld = BytesOf(chain, m_size) /\ BytesHeld \in Seq(Bytes \cup {Fresh}) /\ Len(BytesHeld) = m_size
           /\ \A nth \in 1 .. m_size : BytesHeld[nth] = chain[BlockOf(nth - 1)][OffsetOf(nth - 1)]
<1>1. BytesHeld = BytesOf(chain, m_size)
  BY DEF BytesHeld, BytesOf, BlockOf, OffsetOf
<1>2. PICK V, bs, size : V = Bytes \cup {Fresh} /\ bs = BytesHeld /\ size = m_size
  OBVIOUS
<1>3. \A nth \in 1 .. size : bs[nth] = chain[BlockOf(nth - 1)][OffsetOf(nth - 1)]
  BY <1>1, <1>2 DEF BytesOf
<1>4. ASSUME NEW nth \in 1 .. size PROVE bs[nth] \in V
  <2>1. nth - 1 \in Nat /\ nth - 1 < Room(chain) /\ chain \in Seq(Blocks)
    BY <1>2, RoomIs DEF BufInv
  <2>2. BlockOf(nth - 1) \in 1 .. Len(chain) /\ OffsetOf(nth - 1) \in 0 .. m_baseSize - 1
    BY <2>1, PlaceOf
  <2>3. chain[BlockOf(nth - 1)] \in Blocks
    BY <2>1, <2>2, ElementOfSeq
  <2> QED BY <1>2, <1>3, <2>2, <2>3 DEF Blocks
<1>5. bs \in [1 .. size -> V] /\ size \in Nat
  <2>1. bs = [nth \in 1 .. size |-> bs[nth]]
    BY <1>1, <1>2 DEF BytesOf
  <2> QED BY <1>2, <1>4, <2>1, RoomIs
<1>6. bs \in Seq(V) /\ Len(bs) = size
  BY <1>5
<1> QED BY <1>1, <1>2, <1>3, <1>6

(* Some bytes are put at the position, in a chain that has room for them.  *)
LEMMA PutIs ==
    ASSUME BufInv, NEW g \in Seq(Blocks), NEW n \in Nat \ {0}, NEW s \in [1 .. n -> Bytes],
           m_position + n <= Room(g), Room(chain) <= Room(g),
           \A b \in 1 .. Len(chain) : g[b] = chain[b],
           chain' = Stored(g, Places(BlockOf(m_position), OffsetOf(m_position), n), s),
           m_position' = m_position + n, out' = <<>>,
           m_size' = IF m_position + n > m_size THEN m_position + n ELSE m_size
    PROVE  /\ Store!Put
           /\ chain' \in Seq(Blocks) /\ Len(chain') = Len(g)
<1>1. PICK p, q, m, size, old : /\ p = m_position /\ q = p + n /\ m = m_size /\ old = BytesHeld
                                /\ size = IF q > m THEN q ELSE m
  OBVIOUS
<1>2. /\ p \in Nat /\ m \in Nat /\ p <= m /\ m <= Room(chain) /\ Room(chain) \in Nat /\ Room(g) \in Nat
      /\ q \in Nat /\ q <= Room(g) /\ size \in Nat /\ size <= Room(g) /\ m <= size /\ q <= size
      /\ chain \in Seq(Blocks)
  <2>1. Room(g) \in Nat
    BY LenProperties, BufferAssumption DEF Room
  <2> QED BY <1>1, <2>1, RoomIs DEF BufInv
<1>3. PICK new : new = chain'
  OBVIOUS
<1>4. /\ new \in Seq(Blocks) /\ Len(new) = Len(g)
      /\ \A x \in Nat : x < Room(g) =>
            new[BlockOf(x)][OffsetOf(x)] = IF x \in p .. p + n - 1 THEN s[x - p + 1] ELSE g[BlockOf(x)][OffsetOf(x)]
  <2>1. new = Stored(g, Places(BlockOf(p), OffsetOf(p), n), s) /\ p + n <= Room(g) /\ n \in Nat
    BY <1>1, <1>3
  <2> QED BY <1>2, <2>1, StoredIs, SMTT(30)
<1>5. BytesHeld' = [nth \in 1 .. size |-> new[BlockOf(nth - 1)][OffsetOf(nth - 1)]]
  BY <1>1, <1>3 DEF BytesHeld, BlockOf, OffsetOf
<1>6. ASSUME NEW nth \in 1 .. size
      PROVE  new[BlockOf(nth - 1)][OffsetOf(nth - 1)] = IF nth \in p + 1 .. p + n THEN s[nth - p] ELSE old[nth]
  <2>1. PICK x : x = nth - 1
    OBVIOUS
  <2>2. x \in Nat /\ x < Room(g)
    BY <1>2, <2>1
  <2>3. new[BlockOf(x)][OffsetOf(x)] = IF x \in p .. p + n - 1 THEN s[x - p + 1] ELSE g[BlockOf(x)][OffsetOf(x)]
    BY <1>4, <2>2
  <2>4. CASE nth \in p + 1 .. p + n
    <3>1. x \in p .. p + n - 1 /\ x - p + 1 = nth - p
      <4>1. nth \in Int /\ p + 1 <= nth /\ nth <= p + n /\ p \in Int
        BY <1>2, <2>4
      <4>2. x - p + 1 = nth - p
        BY <2>1, <4>1
      <4>3. p <= x /\ x <= p + n - 1 /\ x \in Int
        BY <2>1, <4>1
      <4> QED BY <4>1, <4>2, <4>3
    <3> QED BY <2>1, <2>3, <2>4, <3>1
  <2>5. CASE nth \notin p + 1 .. p + n
    <3>1. x \notin p .. p + n - 1 /\ nth \in 1 .. m /\ x < Room(chain)
      BY <1>1, <1>2, <2>1, <2>5
    <3>2. BlockOf(x) \in 1 .. Len(chain)
      BY <1>2, <2>2, <3>1, PlaceOf
    <3>3. g[BlockOf(x)] = chain[BlockOf(x)]
      BY <3>2
    <3>4. old[nth] = chain[BlockOf(x)][OffsetOf(x)]
      BY <1>1, <2>1, <3>1, ContentIs
    <3> QED BY <2>1, <2>3, <2>5, <3>1, <3>3, <3>4
  <2> QED BY <2>4, <2>5
<1>7. BytesHeld' = [nth \in 1 .. size |-> IF nth \in p + 1 .. p + n THEN s[nth - p] ELSE old[nth]]
  BY <1>5, <1>6
<1>8. Len(s) = n /\ Len(old) = m
  BY <1>1, ContentIs
<1>9. Store!Overwritten(s) = [nth \in 1 .. size |-> IF nth \in p + 1 .. p + n THEN s[nth - p] ELSE old[nth]]
  BY <1>1, <1>8 DEF Store!Overwritten
<1>10. p + n - p = n /\ m_position' - m_position = n /\ m_position' > m_position
  BY <1>1, <1>2
<1>11. \E t \in [1 .. m_position' - m_position -> Bytes] : BytesHeld' = Store!Overwritten(t)
  BY <1>7, <1>9, <1>10
<1> QED BY <1>3, <1>4, <1>10, <1>11 DEF Store!Put

(* setPosition, in a chain that may have become longer.                    *)
LEMMA SetPositionIs ==
    ASSUME BufInv, Sound, NEW g, NEW at \in Nat, g.chain \in Seq(Blocks), g.capacity = Room(g.chain),
           Len(chain') = Len(g.chain), Room(chain) <= Room(g.chain), SetPosition(g, at)
    PROVE  /\ at <= Room(g.chain) /\ m_position' = at /\ m_size' = (IF at > m_size THEN at ELSE m_size)
           /\ m_capacity' = Room(chain)'
           /\ m_position' \in Nat /\ m_size' \in Nat /\ m_position' <= m_size' /\ m_size' <= m_capacity'
           /\ (Sound => m_cur = CurAt(m_position, chain))'
<1>1. PICK c, n : c = g.chain /\ n = Len(c)
  OBVIOUS
<1>2. /\ at <= Room(c) /\ m_position' = at /\ m_size' = (IF at > m_size THEN at ELSE m_size)
      /\ m_capacity' = Room(c)
      /\ IF Sought(c, at) > n THEN fault' = "setPosition" ELSE m_cur' = Sought(c, at)
  BY <1>1 DEF SetPosition
<1>3. Room(chain)' = Room(c)
  BY <1>1 DEF Room
<1>4. m_size \in Nat /\ m_size <= Room(c)
  <2>1. Room(c) \in Nat
    BY <1>1, LenProperties, BufferAssumption DEF Room
  <2> QED BY <1>1, <2>1, RoomIs
<1>5. Sound' => m_cur' = CurAt(m_position, chain)'
  <2>1. Sought(c, at) = BlockOf(at)
    BY DEF Sought, BlockOf
  <2>2. CASE Sought(c, at) > n
    BY <1>2, <2>2 DEF Sound
  <2>3. CASE ~ (Sought(c, at) > n)
    <3>1. m_cur' = BlockOf(at)
      BY <1>2, <2>1, <2>3
    <3>2. at < Room(c)
      BY <1>1, <2>1, <2>3, PlaceOf
    <3>3. CurAt(m_position, chain)' = BlockOf(at)
      BY <1>2, <1>3, <3>2 DEF CurAt, BlockOf
    <3> QED BY <3>1, <3>3
  <2> QED BY <2>2, <2>3
<1> QED BY <1>1, <1>2, <1>3, <1>4, <1>5

-----------------------------------------------------------------------------
Stepped == BufInv' /\ Store!StoreNext

LEMMA WriteStep ==
    ASSUME BufInv, Write
    PROVE  Stepped
<1>1. PICK n \in 1 .. MaxOnce : \E s \in [1 .. n -> Bytes] :
        LET g == Grown(n)
            ps == Places_(g.cur, n)
        IN
        /\ Sound /\ Len(g.chain) <= MaxBlocks
        /\ chain' = Stored(g.chain, ps, s)
        /\ m_cur' = Moved(g.chain, ps)
        /\ m_capacity' = g.capacity
        /\ m_position' = m_position + n
        /\ m_size' = IF m_position + n > m_size THEN m_position + n ELSE m_size
        /\ out' = <<>> /\ UNCHANGED fault
  BY DEF Write
<1>2. PICK g, p : g = Grown(n) /\ p = m_position
  OBVIOUS
<1>3. PICK s \in [1 .. n -> Bytes] :
        /\ Sound /\ chain' = Stored(g.chain, Places_(g.cur, n), s)
        /\ m_cur' = Moved(g.chain, Places_(g.cur, n))
        /\ m_capacity' = g.capacity
        /\ m_position' = p + n
        /\ m_size' = (IF p + n > m_size THEN p + n ELSE m_size)
        /\ out' = <<>> /\ UNCHANGED fault
  BY <1>1, <1>2
<1>4. n \in Nat \ {0} /\ p \in Nat /\ m_size \in Nat
  BY <1>2, BufferAssumption, RoomIs
<1>5. /\ g.chain \in Seq(Blocks) /\ g.chain # <<>> /\ g.capacity = Room(g.chain)
      /\ p + n <= Room(g.chain) /\ Room(chain) <= Room(g.chain) /\ g.cur = BlockOf(p)
      /\ \A b \in 1 .. Len(chain) : g.chain[b] = chain[b]
  BY <1>2, <1>3, <1>4, GrownIs
<1>6. Places_(g.cur, n) = Places(BlockOf(p), OffsetOf(p), n)
  BY <1>2, <1>5 DEF Places_, OffsetOf
<1>7. Store!Put /\ chain' \in Seq(Blocks) /\ Len(chain') = Len(g.chain)
  BY <1>2, <1>3, <1>4, <1>5, <1>6, PutIs
<1>8. m_cur' = CurAt(p + n, g.chain)
  BY <1>3, <1>4, <1>5, <1>6, MovedIs
<1>9. Room(chain)' = Room(g.chain) /\ CurAt(m_position, chain)' = CurAt(p + n, g.chain)
  BY <1>3, <1>7 DEF Room, CurAt, BlockOf
<1>10. m_size <= Room(g.chain) /\ Room(g.chain) \in Nat
  <2>1. Room(g.chain) \in Nat
    BY <1>5, LenProperties, BufferAssumption DEF Room
  <2> QED BY <1>5, <2>1, RoomIs
<1>11. m_position' \in Nat /\ m_size' \in Nat /\ m_position' <= m_size' /\ m_size' <= Room(g.chain)
  BY <1>3, <1>4, <1>5, <1>10
<1>12. chain' # <<>>
  BY <1>5, <1>7, EmptySeq
<1>13. BufInv'
  BY <1>3, <1>5, <1>7, <1>8, <1>9, <1>11, <1>12 DEF BufInv
<1> QED BY <1>7, <1>13 DEF Stepped, Store!StoreNext

LEMMA SocketReadStep ==
    ASSUME BufInv, SocketRead
    PROVE  Stepped
<1>1. PICK length \in 1 .. MaxOnce : \E n \in 1 .. length : \E s \in [1 .. n -> Bytes] :
        LET g == Grown(length) IN
        /\ Sound /\ Len(g.chain) <= MaxBlocks
        /\ chain' = Stored(g.chain, Places_(g.cur, n), s)
        /\ SetPosition(g, m_position + n)
        /\ out' = <<>>
  BY DEF SocketRead
<1>2. PICK g, p : g = Grown(length) /\ p = m_position
  OBVIOUS
<1>3. PICK n \in 1 .. length : \E s \in [1 .. n -> Bytes] :
        /\ Sound /\ chain' = Stored(g.chain, Places_(g.cur, n), s)
        /\ SetPosition(g, p + n)
        /\ out' = <<>>
  BY <1>1, <1>2
<1>4. PICK s \in [1 .. n -> Bytes] :
        /\ Sound /\ chain' = Stored(g.chain, Places_(g.cur, n), s)
        /\ SetPosition(g, p + n)
        /\ out' = <<>>
  BY <1>3
<1>5. length \in Nat \ {0} /\ n \in Nat \ {0} /\ n <= length /\ p \in Nat /\ p + n \in Nat
  BY <1>2, BufferAssumption, RoomIs
<1>6. /\ g.chain \in Seq(Blocks) /\ g.chain # <<>> /\ g.capacity = Room(g.chain)
      /\ p + length <= Room(g.chain) /\ Room(chain) <= Room(g.chain) /\ g.cur = BlockOf(p)
      /\ \A b \in 1 .. Len(chain) : g.chain[b] = chain[b]
  BY <1>2, <1>4, <1>5, GrownIs
<1>7. p + n <= Room(g.chain)
  <2>1. Room(g.chain) \in Nat
    BY <1>6, LenProperties, BufferAssumption DEF Room
  <2> QED BY <1>5, <1>6, <2>1
<1>8. Places_(g.cur, n) = Places(BlockOf(p), OffsetOf(p), n)
  BY <1>2, <1>6 DEF Places_, OffsetOf
<1>9. m_position' = p + n /\ m_size' = (IF p + n > m_size THEN p + n ELSE m_size)
  BY <1>4 DEF SetPosition
<1>10. Store!Put /\ chain' \in Seq(Blocks) /\ Len(chain') = Len(g.chain)
  BY <1>2, <1>4, <1>5, <1>6, <1>7, <1>8, <1>9, PutIs
<1>11. /\ m_capacity' = Room(chain)'
       /\ m_position' \in Nat /\ m_size' \in Nat /\ m_position' <= m_size' /\ m_size' <= m_capacity'
       /\ (Sound => m_cur = CurAt(m_position, chain))'
  BY <1>4, <1>5, <1>6, <1>10, SetPositionIs
<1>12. chain' # <<>>
  BY <1>6, <1>10, EmptySeq
<1>13. BufInv'
  BY <1>10, <1>11, <1>12 DEF BufInv
<1> QED BY <1>10, <1>13 DEF Stepped, Store!StoreNext

(* Steps that leave the bytes alone and go on by n, or not at all.         *)
LEMMA TakeIs ==
    ASSUME BufInv, UNCHANGED <<chain, m_size>>, NEW n \in Nat, m_position + n <= m_size,
           m_position' = m_position + n,
           out' = SubSeq(BytesHeld, m_position + 1, m_position + n)
    PROVE  Store!Take
<1>1. BytesHeld' = BytesHeld /\ Len(BytesHeld) = m_size
  BY ContentIs DEF BytesHeld
<1>2. m_position' \in m_position .. Len(BytesHeld)
  BY <1>1, RoomIs
<1> QED BY <1>1, <1>2 DEF Store!Take

LEMMA NothingTaken ==
    ASSUME BufInv, UNCHANGED <<chain, m_size, m_position>>, out' = <<>>
    PROVE  Store!Take
<1>1. SubSeq(BytesHeld, m_position + 1, m_position + 0) = <<>>
  <2>1. PICK c, p : c = BytesHeld /\ p = m_position
    OBVIOUS
  <2>2. p \in Nat
    BY <2>1, RoomIs
  <2>3. SubSeq(c, p + 1, p + 0) = <<>>
    BY <2>2, SubSeqEmpty
  <2> QED BY <2>1, <2>3
<1>2. m_position + 0 = m_position /\ m_position <= m_size
  BY RoomIs
<1> QED BY <1>1, <1>2, TakeIs

LEMMA LoadedHere ==
    ASSUME BufInv, Sound, NEW n \in Nat, m_position + n <= m_size, n > 0
    PROVE  /\ m_cur = BlockOf(m_position) /\ m_cur # 0
           /\ Places_(m_cur, n) = Places(BlockOf(m_position), OffsetOf(m_position), n)
           /\ Loaded(chain, Places_(m_cur, n)) = SubSeq(BytesHeld, m_position + 1, m_position + n)
<1>1. PICK p, m : p = m_position /\ m = m_size
  OBVIOUS
<1>2. /\ p \in Nat /\ m \in Nat /\ p + n <= m /\ m <= Room(chain) /\ p < Room(chain)
      /\ chain \in Seq(Blocks)
  BY <1>1, RoomIs DEF BufInv
<1>3. m_cur = BlockOf(p) /\ m_cur # 0
  BY <1>1, <1>2, CurIsBlock
<1>4. Places_(m_cur, n) = Places(BlockOf(p), OffsetOf(p), n)
  BY <1>1, <1>3 DEF Places_, OffsetOf
<1>5. Loaded(chain, Places(BlockOf(p), OffsetOf(p), n)) = SubSeq(BytesOf(chain, m), p + 1, p + n)
  BY <1>2, LoadedIs
<1> QED BY <1>1, <1>3, <1>4, <1>5, ContentIs

LEMMA ReadStep ==
    ASSUME BufInv, Read
    PROVE  Stepped
<1>1. PICK n \in 0 .. MaxOnce :
        /\ Sound /\ n <= getReadSize
        /\ IF m_cur = 0 THEN fault' = "read" /\ out' = <<>> /\ UNCHANGED <<m_cur, m_position>>
           ELSE /\ out' = Loaded(chain, Places_(m_cur, n))
                /\ m_cur' = IF n = 0 THEN m_cur ELSE Moved(chain, Places_(m_cur, n))
                /\ m_position' = m_position + n
                /\ UNCHANGED fault
        /\ UNCHANGED <<chain, m_capacity, m_size>>
  BY DEF Read
<1>2. /\ n \in Nat /\ m_position + n <= m_size /\ m_position \in Nat /\ m_size \in Nat
      /\ chain \in Seq(Blocks) /\ m_size <= Room(chain) /\ m_position + n <= Room(chain)
  BY <1>1, BufferAssumption, RoomIs DEF getReadSize, BufInv
<1>3. CASE m_cur = 0
  <2>1. BufInv'
    BY <1>1, <1>3 DEF BufInv, Sound, Room
  <2>2. Store!Take
    BY <1>1, <1>3, NothingTaken
  <2> QED BY <2>1, <2>2 DEF Stepped, Store!StoreNext
<1>4. CASE m_cur # 0 /\ n = 0
  <2>1. Places_(m_cur, 0) = <<>>
    BY DEF Places_, Places
  <2>2. out' = <<>> /\ m_position' = m_position
    BY <1>1, <1>2, <1>4, <2>1 DEF Loaded
  <2>3. Store!Take
    BY <1>1, <2>2, NothingTaken
  <2>4. BufInv'
    BY <1>1, <1>4, <2>2 DEF BufInv, Sound, Room, CurAt, BlockOf
  <2> QED BY <2>3, <2>4 DEF Stepped, Store!StoreNext
<1>5. CASE m_cur # 0 /\ n # 0
  <2>1. /\ Places_(m_cur, n) = Places(BlockOf(m_position), OffsetOf(m_position), n)
        /\ Loaded(chain, Places_(m_cur, n)) = SubSeq(BytesHeld, m_position + 1, m_position + n)
    BY <1>1, <1>2, <1>5, LoadedHere
  <2>2. Store!Take
    BY <1>1, <1>2, <1>5, <2>1, TakeIs
  <2>3. m_cur' = CurAt(m_position + n, chain)
    <3>1. PICK p : p = m_position
      OBVIOUS
    <3>2. Moved(chain, Places(BlockOf(p), OffsetOf(p), n)) = CurAt(p + n, chain)
      BY <1>2, <1>5, <3>1, MovedIs
    <3> QED BY <1>1, <1>5, <2>1, <3>1, <3>2
  <2>4. CurAt(m_position, chain)' = CurAt(m_position + n, chain)
    BY <1>1, <1>5 DEF CurAt, Room, BlockOf
  <2>5. BufInv'
    <3>1. m_position' \in Nat /\ m_position' <= m_size
      BY <1>1, <1>2, <1>5
    <3> QED BY <1>1, <1>5, <2>3, <2>4, <3>1 DEF BufInv, Sound, Room
  <2> QED BY <2>2, <2>5 DEF Stepped, Store!StoreNext
<1> QED BY <1>3, <1>4, <1>5

LEMMA SocketWriteStep ==
    ASSUME BufInv, SocketWrite
    PROVE  Stepped
<1>1. PICK n \in 1 .. MaxOnce :
        /\ Sound /\ n <= getReadSize
        /\ out' = Loaded(chain, Places_(m_cur, n))
        /\ SetPosition(Here, m_position + n)
        /\ UNCHANGED chain
  BY DEF SocketWrite
<1>2. /\ n \in Nat /\ n > 0 /\ m_position + n <= m_size /\ m_position \in Nat /\ m_size \in Nat
  BY <1>1, BufferAssumption, RoomIs DEF getReadSize
<1>3. out' = SubSeq(BytesHeld, m_position + 1, m_position + n)
  BY <1>1, <1>2, LoadedHere
<1>4. PICK g, at : g = Here /\ at = m_position + n
  OBVIOUS
<1>5. /\ g.chain = chain /\ g.chain \in Seq(Blocks) /\ g.capacity = Room(g.chain) /\ at \in Nat
      /\ Room(chain) <= Room(g.chain) /\ SetPosition(g, at)
  BY <1>1, <1>2, <1>4, RoomIs DEF Here, BufInv
<1>6. Len(chain') = Len(g.chain)
  BY <1>1, <1>5
<1>7. /\ m_position' = at /\ m_size' = (IF at > m_size THEN at ELSE m_size)
      /\ m_capacity' = Room(chain)'
      /\ m_position' \in Nat /\ m_size' \in Nat /\ m_position' <= m_size' /\ m_size' <= m_capacity'
      /\ (Sound => m_cur = CurAt(m_position, chain))'
  BY <1>1, <1>5, <1>6, SetPositionIs
<1>8. BufInv'
  BY <1>1, <1>7 DEF BufInv
<1>9. m_size' = m_size
  BY <1>2, <1>4, <1>7
<1>10. Store!Take
  BY <1>1, <1>2, <1>3, <1>4, <1>7, <1>9, TakeIs
<1> QED BY <1>8, <1>10 DEF Stepped, Store!StoreNext

LEMMA PositionStep ==
    ASSUME BufInv, Position
    PROVE  Stepped
<1>1. PICK at \in 0 .. m_capacity : Sound /\ SetPosition(Here, at) /\ out' = <<>> /\ UNCHANGED chain
  BY DEF Position
<1>2. PICK g : g = Here
  OBVIOUS
<1>3. /\ g.chain = chain /\ g.chain \in Seq(Blocks) /\ g.capacity = Room(g.chain) /\ at \in Nat
      /\ Room(chain) <= Room(g.chain) /\ SetPosition(g, at)
  BY <1>1, <1>2, RoomIs DEF Here, BufInv
<1>4. Len(chain') = Len(g.chain)
  BY <1>1, <1>3
<1>5. /\ m_position' = at /\ m_size' = (IF at > m_size THEN at ELSE m_size)
      /\ m_capacity' = Room(chain)'
      /\ m_position' \in Nat /\ m_size' \in Nat /\ m_position' <= m_size' /\ m_size' <= m_capacity'
      /\ (Sound => m_cur = CurAt(m_position, chain))'
  BY <1>1, <1>3, <1>4, SetPositionIs
<1>6. BufInv'
  BY <1>1, <1>5 DEF BufInv
<1>7. Len(BytesHeld') = m_size' /\ Len(BytesHeld) = m_size
  <2>1. PICK c, n : c = BytesHeld' /\ n = m_size'
    OBVIOUS
  <2>2. DOMAIN c = 1 .. n /\ n \in Nat
    BY <1>5, <2>1 DEF BytesHeld
  <2>3. c = [nth \in 1 .. n |-> c[nth]]
    BY <2>1 DEF BytesHeld
  <2>4. Len(c) = n
    BY <2>2, <2>3
  <2> QED BY <2>1, <2>4, ContentIs
<1>8. ASSUME NEW nth \in 1 .. Len(BytesHeld) PROVE BytesHeld'[nth] = BytesHeld[nth]
  <2>1. nth \in 1 .. m_size /\ nth \in 1 .. m_size'
    BY <1>5, <1>7, RoomIs
  <2> QED BY <1>1, <2>1 DEF BytesHeld
<1>9. Store!Seek
  BY <1>1, <1>3, <1>5, <1>7, <1>8 DEF Store!Seek
<1> QED BY <1>6, <1>9 DEF Stepped, Store!StoreNext

LEMMA ResetStep ==
    ASSUME BufInv, Reinit \/ Clear
    PROVE  Stepped
<1>1. PICK blocks : (blocks = chain \/ blocks = <<chain[1]>>) /\ Reset(blocks)
  BY DEF Reinit, Clear
<1>2. blocks \in Seq(Blocks) /\ Len(blocks) \in Nat \ {0} /\ blocks # <<>>
  <2>1. chain[1] \in Blocks
    BY RoomIs, ElementOfSeq DEF BufInv
  <2>2. <<chain[1]>> \in Seq(Blocks) /\ Len(<<chain[1]>>) = 1 /\ <<chain[1]>> # <<>>
    BY <2>1
  <2>3. CASE blocks = chain
    BY <2>3, RoomIs DEF BufInv
  <2>4. CASE blocks = <<chain[1]>>
    <3>1. 1 \in Nat \ {0}
      OBVIOUS
    <3> QED BY <2>2, <2>4, <3>1
  <2> QED BY <1>1, <2>3, <2>4
<1>3. /\ Sound /\ chain' = blocks /\ m_cur' = 1 /\ m_position' = 0 /\ m_size' = 0
      /\ m_capacity' = Len(blocks) * m_baseSize /\ out' = <<>> /\ UNCHANGED fault
  BY <1>1 DEF Reset
<1>4. Room(chain)' = Len(blocks) * m_baseSize /\ 0 < Len(blocks) * m_baseSize
  <2>1. Room(chain)' = Len(blocks) * m_baseSize
    BY <1>3 DEF Room
  <2>2. 0 < Len(blocks) * m_baseSize
    <3>1. 0 < Len(blocks) /\ 0 * m_baseSize + m_baseSize <= Len(blocks) * m_baseSize
      BY <1>2, Monotone
    <3>2. 0 * m_baseSize + m_baseSize = m_baseSize /\ m_baseSize > 0
      BY BufferAssumption
    <3>3. Len(blocks) * m_baseSize \in Nat
      BY <1>2, BufferAssumption
    <3> QED BY <3>1, <3>2, <3>3, BufferAssumption
  <2> QED BY <2>1, <2>2
<1>5. CurAt(m_position, chain)' = 1
  <2>1. BlockOf(0) = 1
    <3>1. 0 = 0 * m_baseSize + 0 /\ 0 \in 0 .. m_baseSize - 1
      BY BufferAssumption
    <3>2. 0 \div m_baseSize = 0
      BY <3>1, DividedOnly
    <3> QED BY <3>2 DEF BlockOf
  <2> QED BY <1>3, <1>4, <2>1 DEF CurAt, BlockOf
<1>6. BufInv'
  <2>1. 0 <= m_capacity'
    BY <1>3, <1>4, <1>2, BufferAssumption
  <2> QED BY <1>2, <1>3, <1>4, <1>5, <2>1 DEF BufInv
<1>7. BytesHeld' = <<>>
  BY <1>3 DEF BytesHeld
<1> QED BY <1>3, <1>6, <1>7 DEF Stepped, Store!StoreNext, Store!Empty

LEMMA PeekIs ==
    ASSUME BufInv, UNCHANGED <<chain, m_size, m_position>>,
           out' = SubSeq(BytesHeld, m_position + 1, m_size)
    PROVE  Store!Peek
<1>1. BytesHeld' = BytesHeld /\ Len(BytesHeld) = m_size
  BY ContentIs DEF BytesHeld
<1> QED BY <1>1 DEF Store!Peek

LEMMA ToTextStep ==
    ASSUME BufInv, ToText
    PROVE  Stepped
<1>1. /\ Sound /\ out' = Loaded(chain, Places_(m_cur, getReadSize))
      /\ UNCHANGED <<chain, m_cur, m_position, m_capacity, m_size, fault>>
  BY DEF ToText
<1>2. BufInv'
  BY <1>1 DEF BufInv, Sound, Room, CurAt, BlockOf
<1>3. PICK n : n = getReadSize
  OBVIOUS
<1>4. n \in Nat /\ m_position + n = m_size
  BY <1>3, RoomIs DEF getReadSize
<1>5. CASE n = 0
  <2>1. Places_(m_cur, 0) = <<>>
    BY DEF Places_, Places
  <2>2. out' = <<>>
    BY <1>1, <1>3, <1>5, <2>1 DEF Loaded
  <2>3. Store!Take
    BY <1>1, <2>2, NothingTaken
  <2> QED BY <1>2, <2>3 DEF Stepped, Store!StoreNext
<1>6. CASE n # 0
  <2>1. Loaded(chain, Places_(m_cur, n)) = SubSeq(BytesHeld, m_position + 1, m_position + n)
    BY <1>1, <1>4, <1>6, RoomIs, LoadedHere
  <2>2. Store!Peek
    BY <1>1, <1>3, <1>4, <2>1, PeekIs
  <2> QED BY <1>2, <2>2 DEF Stepped, Store!StoreNext
<1> QED BY <1>5, <1>6
-----------------------------------------------------------------------------
(* AfterTurns is the function its equation describes.                         *)
LEMMA PiecesExist ==
    ASSUME NEW start, NEW n \in Nat
    PROVE  \E f : f = [k \in 0 .. n |-> IF k = 0 THEN start ELSE NextPiece(f[k - 1])]
<1> DEFINE Meant(m, f) == f = [k \in 0 .. m |-> IF k = 0 THEN start ELSE NextPiece(f[k - 1])]
<1>1. \E f : Meant(0, f)
  <2>1. PICK f : f = [k \in 0 .. 0 |-> start]
    OBVIOUS
  <2>2. f = [k \in 0 .. 0 |-> IF k = 0 THEN start ELSE NextPiece(f[k - 1])]
    BY <2>1
  <2> QED BY <2>2
<1>2. ASSUME NEW m \in Nat, NEW f, Meant(m, f)
      PROVE  \E g : Meant(m + 1, g)
  <2>1. PICK g : g = [k \in 0 .. m + 1 |-> IF k = m + 1 THEN NextPiece(f[m]) ELSE f[k]]
    OBVIOUS
  <2>2. ASSUME NEW k \in 0 .. m + 1
        PROVE  g[k] = IF k = 0 THEN start ELSE NextPiece(g[k - 1])
    <3>1. CASE k = m + 1
      <4>1. k # 0 /\ k - 1 = m /\ m \in 0 .. m + 1 /\ m # m + 1
        BY <3>1
      <4>2. g[k] = NextPiece(f[m]) /\ g[m] = f[m]
        BY <2>1, <3>1, <4>1
      <4> QED BY <4>1, <4>2
    <3>2. CASE k # m + 1
      <4>1. k \in 0 .. m /\ g[k] = f[k]
        BY <2>1, <3>2
      <4>2. f[k] = IF k = 0 THEN start ELSE NextPiece(f[k - 1])
        BY <1>2, <4>1
      <4>3. k # 0 => k - 1 \in 0 .. m + 1 /\ k - 1 # m + 1 /\ g[k - 1] = f[k - 1]
        BY <2>1, <4>1
      <4> QED BY <4>1, <4>2, <4>3
    <3> QED BY <3>1, <3>2
  <2>3. Meant(m + 1, g)
    <3>1. g = [k \in 0 .. m + 1 |-> g[k]]
      BY <2>1
    <3> QED BY <2>2, <3>1
  <2> QED BY <2>3
<1> HIDE DEF Meant
<1> DEFINE None == {m \in Nat : ~ \E f : Meant(m, f)}
<1>3. None = {}
  <2>1. SUFFICES ASSUME None # {} PROVE FALSE
    OBVIOUS
  <2>2. PICK m \in None : \A k \in 0 .. m - 1 : k \notin None
    <3>1. None \in SUBSET Nat
      OBVIOUS
    <3> QED BY <2>1, <3>1, LeastNumber
  <2>3. m \in Nat /\ m # 0
    BY <1>1, <2>2
  <2>4. m - 1 \in Nat /\ m - 1 \notin None /\ (m - 1) + 1 = m
    <3>1. m - 1 \in Nat /\ m - 1 \in 0 .. m - 1 /\ (m - 1) + 1 = m
      BY <2>3
    <3> QED BY <2>2, <3>1
  <2>5. PICK f : Meant(m - 1, f)
    BY <2>4
  <2>6. \E g : Meant((m - 1) + 1, g)
    BY <1>2, <2>4, <2>5
  <2> QED BY <2>2, <2>4, <2>6
<1>4. \E f : Meant(n, f)
  BY <1>3
<1> QED BY <1>4 DEF Meant

LEMMA WrittenIs ==
    ASSUME Len(chain) \in Nat
    PROVE  /\ AfterTurns[0] = [pos |-> m_position, cur |-> m_cur, left |-> getReadSize, bad |-> FALSE, text |-> <<>>]
           /\ \A k \in 0 .. Len(chain) : AfterTurns[k + 1] = NextPiece(AfterTurns[k])
<1>1. PICK n, start : /\ n = Len(chain) + 1
                      /\ start = [pos |-> m_position, cur |-> m_cur, left |-> getReadSize, bad |-> FALSE, text |-> <<>>]
  OBVIOUS
<1>2. n \in Nat
  BY <1>1
<1>3. AfterTurns = CHOOSE f : f = [k \in 0 .. n |-> IF k = 0 THEN start ELSE NextPiece(f[k - 1])]
  BY <1>1 DEF AfterTurns
<1> DEFINE Meant(f) == f = [k \in 0 .. n |-> IF k = 0 THEN start ELSE NextPiece(f[k - 1])]
<1>4. AfterTurns = [k \in 0 .. n |-> IF k = 0 THEN start ELSE NextPiece(AfterTurns[k - 1])]
  <2>1. AfterTurns = CHOOSE f : Meant(f)
    BY <1>3
  <2>2. \E f : Meant(f)
    BY <1>2, PiecesExist, ZenonT(30)
  <2> HIDE DEF Meant
  <2>3. Meant(AfterTurns)
    BY <2>1, <2>2
  <2> QED BY <2>3 DEF Meant
<1> HIDE DEF Meant
<1>5. AfterTurns[0] = start
  BY <1>2, <1>4
<1>6. ASSUME NEW k \in 0 .. Len(chain) PROVE AfterTurns[k + 1] = NextPiece(AfterTurns[k])
  <2>1. k + 1 \in 0 .. n /\ k + 1 # 0 /\ (k + 1) - 1 = k
    BY <1>1
  <2> QED BY <1>4, <2>1
<1> QED BY <1>1, <1>5, <1>6

LEMMA PieceIs ==
    ASSUME BufInv, NEW p \in Nat, NEW n \in Nat, p + n <= m_size, OffsetOf(p) + n <= m_baseSize
    PROVE  [k \in 1 .. n |-> chain[BlockOf(p)][OffsetOf(p) + k - 1]] = SubSeq(BytesHeld, p + 1, p + n)
<1>1. PICK c, d, ps : c = BlockOf(p) /\ d = OffsetOf(p) /\ ps = Places(c, d, n)
  OBVIOUS
<1>2. c \in Nat /\ d \in Nat /\ d + n <= m_baseSize /\ m_baseSize \in Nat
  BY <1>1, PlaceOf, BufferAssumption
<1>3. ASSUME NEW k \in 1 .. n PROVE ps[k] = <<c, d + k - 1>>
  <2>1. PICK r : r = d + (k - 1)
    OBVIOUS
  <2>2. r \in 0 .. m_baseSize - 1 /\ r = 0 * m_baseSize + r
    BY <1>2, <2>1
  <2>3. r \div m_baseSize = 0 /\ r % m_baseSize = r
    BY <2>2, DividedOnly
  <2>4. ps[k] = <<c + r \div m_baseSize, r % m_baseSize>>
    BY <1>1, <2>1 DEF Places
  <2>5. c + 0 = c
    BY <1>2
  <2> QED BY <2>1, <2>3, <2>4, <2>5
<1>4. Loaded(chain, ps) = [k \in 1 .. n |-> chain[c][d + k - 1]]
  <2>1. DOMAIN ps = 1 .. n
    BY <1>1 DEF Places
  <2>2. \A k \in 1 .. n : chain[ps[k][1]][ps[k][2]] = chain[c][d + k - 1]
    BY <1>3
  <2> QED BY <2>1, <2>2 DEF Loaded
<1>5. Loaded(chain, Places(BlockOf(p), OffsetOf(p), n)) = SubSeq(BytesOf(chain, m_size), p + 1, p + n)
  <2>1. PICK m : m = m_size
    OBVIOUS
  <2>2. m \in Nat /\ m <= Room(chain) /\ p + n <= m /\ chain \in Seq(Blocks)
    BY <2>1, RoomIs DEF BufInv
  <2>3. Loaded(chain, Places(BlockOf(p), OffsetOf(p), n)) = SubSeq(BytesOf(chain, m), p + 1, p + n)
    BY <2>2, LoadedIs
  <2> QED BY <2>1, <2>3
<1> QED BY <1>1, <1>4, <1>5, ContentIs

LEMMA PiecesJoin ==
    ASSUME NEW V, NEW c \in Seq(V), NEW a \in Nat, NEW b \in Nat, NEW d \in Nat,
           a <= b, b <= d, d <= Len(c)
    PROVE  SubSeq(c, a + 1, b) \o SubSeq(c, b + 1, d) = SubSeq(c, a + 1, d)
<1>1. ASSUME NEW x \in Nat, NEW y \in Nat, x <= y, y <= Len(c)
      PROVE  /\ SubSeq(c, x + 1, y) \in Seq(V) /\ Len(SubSeq(c, x + 1, y)) = y - x
             /\ \A nth \in 1 .. y - x : SubSeq(c, x + 1, y)[nth] = c[x + nth]
  <2>1. PICK m : m = x + 1
    OBVIOUS
  <2>2. m \in Int /\ \A nth \in m .. y : c[nth] \in V
    BY <1>1, <2>1, ElementOfSeq
  <2>3. /\ SubSeq(c, m, y) \in Seq(V)
        /\ Len(SubSeq(c, m, y)) = IF m <= y THEN y - m + 1 ELSE 0
        /\ \A nth \in 1 .. y - m + 1 : SubSeq(c, m, y)[nth] = c[m + nth - 1]
    BY <2>2, SubSeqProperties
  <2>4. y - m + 1 = y - x /\ (IF m <= y THEN y - m + 1 ELSE 0) = y - x
    BY <1>1, <2>1
  <2>5. \A nth \in 1 .. y - x : m + nth - 1 = x + nth
    BY <2>1
  <2> QED BY <2>1, <2>3, <2>4, <2>5
<1>2. PICK l, r, s : l = SubSeq(c, a + 1, b) /\ r = SubSeq(c, b + 1, d) /\ s = SubSeq(c, a + 1, d)
  OBVIOUS
<1>3. /\ l \in Seq(V) /\ Len(l) = b - a /\ \A nth \in 1 .. b - a : l[nth] = c[a + nth]
      /\ r \in Seq(V) /\ Len(r) = d - b /\ \A nth \in 1 .. d - b : r[nth] = c[b + nth]
      /\ s \in Seq(V) /\ Len(s) = d - a /\ \A nth \in 1 .. d - a : s[nth] = c[a + nth]
  <2>1. a <= d /\ b <= Len(c) /\ Len(c) \in Nat
    BY LenProperties
  <2> QED BY <1>1, <1>2, <2>1
<1>4. /\ l \o r \in Seq(V) /\ Len(l \o r) = Len(l) + Len(r)
      /\ \A nth \in 1 .. Len(l) + Len(r) : (l \o r)[nth] = IF nth <= Len(l) THEN l[nth] ELSE r[nth - Len(l)]
  BY <1>3, ConcatProperties
<1>5. Len(l) + Len(r) = d - a
  BY <1>3
<1>6. ASSUME NEW nth \in 1 .. d - a PROVE (l \o r)[nth] = s[nth]
  <2>1. CASE nth <= b - a
    <3>1. nth \in 1 .. b - a
      BY <2>1
    <3>2. (l \o r)[nth] = l[nth]
      BY <1>3, <1>4, <1>5, <2>1
    <3> QED BY <1>3, <3>1, <3>2
  <2>2. CASE ~ (nth <= b - a)
    <3>1. PICK j : j = nth - (b - a)
      OBVIOUS
    <3>2. j \in 1 .. d - b /\ b + j = a + nth
      BY <2>2, <3>1
    <3>3. (l \o r)[nth] = r[j]
      BY <1>3, <1>4, <1>5, <2>2, <3>1
    <3> QED BY <1>3, <3>2, <3>3
  <2> QED BY <2>1, <2>2
<1>7. l \o r = s
  <2>1. PICK lr : lr = l \o r
    OBVIOUS
  <2>2. lr \in Seq(V) /\ Len(lr) = Len(s) /\ \A nth \in 1 .. Len(s) : lr[nth] = s[nth]
    BY <1>3, <1>4, <1>5, <1>6, <2>1
  <2>3. lr = s
    BY <1>3, <2>2, SeqEqual
  <2> QED BY <2>1, <2>3
<1> QED BY <1>2, <1>7

-----------------------------------------------------------------------------
Copied(p, c, l, t) ==
    /\ l = m_size - p /\ m_position <= p /\ t = SubSeq(BytesHeld, m_position + 1, p)
    /\ l > 0 => c = BlockOf(p)
Lost(p, l) == l > 0 /\ l <= m_baseSize /\ l <= OffsetOf(p) /\ m_position < m_size
Followed(k, c, l, b) ==
    ~ b /\ l > 0 => \/ c = m_cur + k /\ c <= Len(chain)
                    \/ c = 0 /\ k = Len(chain) - m_cur + 1

(* writeToFile after k turns: what it has copied is what is there, or the  *)
(* rest is shorter than its offset in the block and never gets any shorter.*)
FileInv(k, w) ==
    \E p \in Nat, c \in Nat, l \in Nat, b \in BOOLEAN : \E t :
        /\ w = [pos |-> p, cur |-> c, left |-> l, bad |-> b, text |-> t]
        /\ b \/ Copied(p, c, l, t) \/ Lost(p, l)
        /\ Followed(k, c, l, b)

PieceLength(p, l) == (IF l > m_baseSize THEN m_baseSize ELSE l) - OffsetOf(p)

LEMMA PieceLengthIs ==
    ASSUME NEW b \in Nat \ {0}, NEW l \in Nat, l > 0, NEW d \in 0 .. b - 1, NEW len \in Nat,
           len = (IF l > b THEN b ELSE l) - d
    PROVE  len <= l /\ d + len <= b /\ (l >= b => len = b - d) /\ (l < b => len = l - d /\ l - len = d)
OBVIOUS

LEMMA CopiedOn ==
    ASSUME BufInv, NEW p \in Nat, NEW c \in Nat, NEW l \in Nat, NEW t,
           Copied(p, c, l, t), l > 0, c <= Len(chain),
           NEW len \in Nat, len = PieceLength(p, l)
    PROVE  /\ len <= l
           /\ \/ Copied(p + len, After(chain, c), l - len, t \o [k \in 1 .. len |-> chain[c][OffsetOf(p) + k - 1]])
              \/ Lost(p + len, l - len)
<1>1. PICK p0, m, d, a, n, cs : /\ p0 = m_position /\ m = m_size /\ d = OffsetOf(p) /\ a = p \div m_baseSize
                            /\ n = Len(chain) /\ cs = BytesHeld
  OBVIOUS
<1>2. /\ p0 \in Nat /\ m \in Nat /\ m <= Room(chain) /\ n \in Nat \ {0} /\ Room(chain) = n * m_baseSize
      /\ Room(chain) \in Nat /\ m_baseSize \in Nat \ {0}
  BY <1>1, RoomIs, BufferAssumption DEF Room
<1>3. l = m - p /\ p0 <= p /\ t = SubSeq(cs, p0 + 1, p) /\ c = BlockOf(p) /\ c = a + 1
  BY <1>1 DEF Copied, BlockOf
<1>4. a \in Nat /\ d \in 0 .. m_baseSize - 1 /\ p = a * m_baseSize + d /\ a * m_baseSize \in Nat
  <2>1. p \div m_baseSize \in Nat /\ p % m_baseSize \in 0 .. m_baseSize - 1
        /\ p = (p \div m_baseSize) * m_baseSize + (p % m_baseSize)
    BY Divides
  <2>2. d = p % m_baseSize
    BY <1>1 DEF OffsetOf
  <2>3. a \in Nat /\ d \in 0 .. m_baseSize - 1 /\ p = a * m_baseSize + d
    BY <1>1, <2>1, <2>2
  <2>4. a * m_baseSize \in Nat
    BY <1>2, <2>3
  <2> QED BY <2>3, <2>4
<1>5. /\ len <= l /\ d + len <= m_baseSize /\ p + len <= m /\ p + len \in Nat
      /\ l - len \in Nat /\ l - len = m - (p + len)
      /\ (l >= m_baseSize => len = m_baseSize - d) /\ (l < m_baseSize => len = l - d /\ l - len = d)
  <2>1. len = (IF l > m_baseSize THEN m_baseSize ELSE l) - d
    BY <1>1 DEF PieceLength
  <2>2. len <= l /\ d + len <= m_baseSize /\ (l >= m_baseSize => len = m_baseSize - d)
        /\ (l < m_baseSize => len = l - d /\ l - len = d)
    BY <1>2, <1>4, <2>1, PieceLengthIs
  <2>3. l = m - p
    BY <1>3
  <2>4. p + len <= m /\ p + len \in Nat /\ l - len \in Nat /\ l - len = m - (p + len)
    BY <1>2, <2>2, <2>3
  <2> QED BY <2>2, <2>4
<1>6. t \o [k \in 1 .. len |-> chain[c][d + k - 1]] = SubSeq(cs, p0 + 1, p + len)
  <2>1. [k \in 1 .. len |-> chain[c][d + k - 1]] = SubSeq(cs, p + 1, p + len)
    <3>1. p + len <= m_size /\ OffsetOf(p) + len <= m_baseSize
      BY <1>1, <1>5
    <3>2. [k \in 1 .. len |-> chain[BlockOf(p)][OffsetOf(p) + k - 1]] = SubSeq(BytesHeld, p + 1, p + len)
      BY <3>1, PieceIs
    <3>3. cs = BytesHeld /\ d = OffsetOf(p) /\ c = BlockOf(p)
      BY <1>1, <1>3
    <3> QED BY <3>2, <3>3
  <2>2. PICK q, V : q = p + len /\ V = Bytes \cup {Fresh}
    OBVIOUS
  <2>3. cs \in Seq(V) /\ Len(cs) = m /\ q \in Nat /\ p <= q /\ q <= m
    BY <1>1, <1>2, <1>5, <2>2, ContentIs, SMTT(30)
  <2>4. SubSeq(cs, p0 + 1, p) \o SubSeq(cs, p + 1, q) = SubSeq(cs, p0 + 1, q)
    <3>1. p0 \in Nat /\ p0 <= p
      BY <1>2, <1>3
    <3> HIDE <2>1, <2>2
    <3> QED BY <2>3, <3>1, PiecesJoin
  <2> QED BY <1>3, <2>1, <2>2, <2>4
<1>7. ASSUME p + len = a * m_baseSize + m_baseSize, l - len > 0
      PROVE  After(chain, c) = BlockOf(p + len)
  <2>1. (a + 1) * m_baseSize = a * m_baseSize + m_baseSize
    BY <1>2, <1>4
  <2>2. PICK q : q = p + len
    OBVIOUS
  <2>3. q = (a + 1) * m_baseSize + 0 /\ 0 \in 0 .. m_baseSize - 1 /\ a + 1 \in Nat /\ q \in Nat
    BY <1>2, <1>4, <1>5, <1>7, <2>1, <2>2
  <2>4. q \div m_baseSize = a + 1
    BY <2>3, DividedOnly
  <2>5. q < n * m_baseSize
    BY <1>2, <1>5, <1>7, <2>2, <2>3, SMTT(30)
  <2>6. a + 1 < n
    BY <1>2, <2>3, <2>4, <2>5, Within
  <2>7. BlockOf(q) = a + 2
    BY <1>4, <2>4 DEF BlockOf
  <2>8. After(chain, c) = a + 2
    <3>1. c = a + 1 /\ n = Len(chain)
      BY <1>1, <1>3
    <3>2. c # Len(chain) /\ c + 1 = a + 2
      BY <1>2, <1>4, <2>6, <3>1
    <3> QED BY <3>2 DEF After
  <2> QED BY <2>2, <2>7, <2>8
<1>8. ASSUME l - len > 0 => After(chain, c) = BlockOf(p + len)
      PROVE  Copied(p + len, After(chain, c), l - len, t \o [k \in 1 .. len |-> chain[c][OffsetOf(p) + k - 1]])
  <2>1. p0 <= p + len
    BY <1>2, <1>3
  <2> QED BY <1>1, <1>5, <1>6, <1>8, <2>1 DEF Copied
<1>9. CASE l >= m_baseSize
  <2>1. len = m_baseSize - d
    BY <1>5, <1>9
  <2>2. p + len = a * m_baseSize + m_baseSize
    BY <1>2, <1>4, <2>1, SMTT(30)
  <2> QED BY <1>5, <1>7, <1>8, <2>2
<1>10. CASE l < m_baseSize
  <2>1. len = l - d /\ l - len = d
    BY <1>5, <1>10
  <2>2. CASE d = 0
    <3>1. ~ (l - len > 0)
      BY <2>1, <2>2
    <3> QED BY <1>5, <1>8, <3>1
  <2>3. CASE d # 0
    <3>1. PICK q : q = p + len
      OBVIOUS
    <3>2. q = a * m_baseSize + l /\ l \in 0 .. m_baseSize - 1
      BY <1>2, <1>4, <1>10, <2>1, <3>1
    <3>3. OffsetOf(q) = l
      BY <1>4, <3>2, DividedOnly DEF OffsetOf
    <3>4. d <= l /\ d > 0 /\ d <= m_baseSize
      BY <1>2, <1>4, <1>10, <2>1, <2>3
    <3>5. p0 < m
      BY <1>2, <1>3
    <3>6. Lost(q, l - len)
      BY <1>1, <2>1, <3>3, <3>4, <3>5 DEF Lost
    <3> QED BY <1>5, <3>1, <3>6
  <2> QED BY <2>2, <2>3
<1> QED BY <1>2, <1>9, <1>10

LEMMA FileOn ==
    ASSUME BufInv, Sound, NEW k \in 0 .. Len(chain), NEW w, FileInv(k, w)
    PROVE  FileInv(k + 1, NextPiece(w))
<1>1. PICK p \in Nat, c \in Nat, l \in Nat, b \in BOOLEAN : \E t :
        /\ w = [pos |-> p, cur |-> c, left |-> l, bad |-> b, text |-> t]
        /\ b \/ Copied(p, c, l, t) \/ Lost(p, l)
        /\ Followed(k, c, l, b)
  BY DEF FileInv
<1>2. PICK t : /\ w = [pos |-> p, cur |-> c, left |-> l, bad |-> b, text |-> t]
               /\ b \/ Copied(p, c, l, t) \/ Lost(p, l)
               /\ Followed(k, c, l, b)
  BY <1>1
<1>3. PICK len, n : len = PieceLength(p, l) /\ n = Len(chain)
  OBVIOUS
<1>4. /\ len \in Int /\ n \in Nat \ {0} /\ k \in 0 .. n /\ OffsetOf(p) \in 0 .. m_baseSize - 1
      /\ m_baseSize \in Nat \ {0}
  <2>1. /\ n \in Nat \ {0} /\ k \in 0 .. n /\ OffsetOf(p) \in 0 .. m_baseSize - 1
        /\ m_baseSize \in Nat \ {0}
    BY <1>3, RoomIs, PlaceOf, BufferAssumption
  <2>2. len \in Int
    BY <1>3, <2>1 DEF PieceLength
  <2> QED BY <2>1, <2>2
<1>5. NextPiece(w) =
        IF l = 0 \/ b THEN w
        ELSE IF c = 0 \/ len < 0 THEN [w EXCEPT !.bad = TRUE]
        ELSE [pos |-> p + len, cur |-> After(chain, c), left |-> l - len, bad |-> FALSE,
              text |-> t \o [nth \in 1 .. len |-> chain[c][OffsetOf(p) + nth - 1]]]
  BY <1>2, <1>3 DEF NextPiece, PieceLength, OffsetOf
<1>6. CASE l = 0 \/ b
  <2>1. NextPiece(w) = w
    BY <1>5, <1>6
  <2>2. Followed(k + 1, c, l, b)
    BY <1>6 DEF Followed
  <2> QED BY <1>2, <2>1, <2>2 DEF FileInv
<1>7. CASE ~ (l = 0 \/ b) /\ (c = 0 \/ len < 0)
  <2>1. NextPiece(w) = [pos |-> p, cur |-> c, left |-> l, bad |-> TRUE, text |-> t]
    BY <1>2, <1>5, <1>7
  <2>2. Followed(k + 1, c, l, TRUE)
    BY DEF Followed
  <2> QED BY <2>1, <2>2 DEF FileInv
<1>8. CASE ~ (l = 0 \/ b) /\ ~ (c = 0 \/ len < 0)
  <2>1. PICK u : u = t \o [nth \in 1 .. len |-> chain[c][OffsetOf(p) + nth - 1]]
    OBVIOUS
  <2>2. NextPiece(w) = [pos |-> p + len, cur |-> After(chain, c), left |-> l - len, bad |-> FALSE, text |-> u]
    BY <1>5, <1>8, <2>1
  <2>3. l > 0 /\ ~ b /\ c # 0 /\ len \in Nat
    BY <1>4, <1>8
  <2>4. c = m_cur + k /\ c <= n
    BY <1>2, <1>3, <2>3 DEF Followed
  <2>5. PICK cur : cur = m_cur
    OBVIOUS
  <2>6. cur \in Nat
    <3>1. CurAt(m_position, chain) \in Nat
      BY RoomIs, PlaceOf DEF CurAt
    <3> QED BY <2>5, <3>1 DEF BufInv
  <2>7. /\ After(chain, c) \in Nat
        /\ \/ After(chain, c) = cur + (k + 1) /\ After(chain, c) <= n
           \/ After(chain, c) = 0 /\ k + 1 = n - cur + 1
    BY <1>3, <1>4, <2>4, <2>5, <2>6 DEF After
  <2>8. Followed(k + 1, After(chain, c), l - len, FALSE)
    BY <1>3, <2>5, <2>7 DEF Followed
  <2>9. len <= l /\ (Copied(p + len, After(chain, c), l - len, u) \/ Lost(p + len, l - len))
    <3>1. CASE Copied(p, c, l, t)
      BY <1>3, <2>1, <2>3, <2>4, <3>1, CopiedOn
    <3>2. CASE Lost(p, l)
      <4>1. l <= m_baseSize /\ l <= OffsetOf(p)
        BY <3>2 DEF Lost
      <4>2. len = 0
        <5>1. len = l - OffsetOf(p)
          BY <1>3, <1>4, <4>1 DEF PieceLength
        <5> QED BY <1>4, <2>3, <4>1, <5>1
      <4>3. p + len = p /\ l - len = l
        BY <4>2
      <4>4. Lost(p + len, l - len)
        BY <3>2, <4>3
      <4> QED BY <2>3, <4>2, <4>4
    <3> QED BY <1>2, <2>3, <3>1, <3>2
  <2>10. p + len \in Nat /\ l - len \in Nat
    BY <2>3, <2>9
  <2> QED BY <2>2, <2>7, <2>8, <2>9, <2>10 DEF FileInv
<1> QED BY <1>6, <1>7, <1>8

LEMMA FileStart ==
    ASSUME BufInv, Sound
    PROVE  FileInv(0, [pos |-> m_position, cur |-> m_cur, left |-> getReadSize, bad |-> FALSE, text |-> <<>>])
<1>1. PICK p, c, l, m, n, cs : /\ p = m_position /\ c = m_cur /\ l = getReadSize /\ m = m_size
                               /\ n = Len(chain) /\ cs = BytesHeld
  OBVIOUS
<1>2. p \in Nat /\ m \in Nat /\ n \in Nat /\ p <= m /\ l = m - p
  BY <1>1, RoomIs DEF getReadSize
<1>3. l \in Nat
  BY <1>2
<1>4. c \in Nat
  <2>1. CurAt(m_position, chain) \in Nat
    BY RoomIs, PlaceOf DEF CurAt
  <2> QED BY <1>1, <2>1 DEF BufInv
<1>5. Copied(p, c, l, <<>>)
  <2>1. SubSeq(cs, p + 1, p) = <<>>
    BY <1>2, SubSeqEmpty
  <2>2. l > 0 => c = BlockOf(p)
    <3>1. l > 0 => m_position < Room(chain)
      BY <1>1, <1>2, RoomIs
    <3> QED BY <1>1, <3>1, CurIsBlock
  <2> QED BY <1>1, <1>2, <2>1, <2>2 DEF Copied
<1>6. Followed(0, c, l, FALSE)
  <2>1. ASSUME l > 0 PROVE c = m_cur + 0 /\ c <= n
    <3>1. m_position < Room(chain)
      BY <1>1, <1>2, <2>1, RoomIs
    <3>2. c \in 1 .. n
      BY <1>1, <3>1, CurIsBlock
    <3> QED BY <1>1, <1>2, <1>4, <3>2
  <2> QED BY <1>1, <2>1 DEF Followed
<1>7. FileInv(0, [pos |-> p, cur |-> c, left |-> l, bad |-> FALSE, text |-> <<>>])
  BY <1>2, <1>3, <1>4, <1>5, <1>6 DEF FileInv
<1> QED BY <1>1, <1>7

LEMMA FileEnd ==
    ASSUME BufInv, Sound
    PROVE  FileInv(Len(chain) + 1, AfterTurns[Len(chain) + 1])
<1>1. PICK n : n = Len(chain)
  OBVIOUS
<1>2. n \in Nat
  BY <1>1, RoomIs
<1>3. /\ FileInv(0, AfterTurns[0])
      /\ \A k \in 0 .. n : AfterTurns[k + 1] = NextPiece(AfterTurns[k])
  BY <1>1, <1>2, WrittenIs, FileStart
<1>4. ASSUME NEW k \in 0 .. n, FileInv(k, AfterTurns[k]) PROVE FileInv(k + 1, AfterTurns[k + 1])
  BY <1>1, <1>3, <1>4, FileOn
<1> DEFINE Missed == {k \in 0 .. n + 1 : ~ FileInv(k, AfterTurns[k])}
<1>5. Missed = {}
  <2>1. SUFFICES ASSUME Missed # {} PROVE FALSE
    OBVIOUS
  <2>2. PICK m \in Missed : \A k \in 0 .. m - 1 : k \notin Missed
    <3>1. Missed \in SUBSET Nat
      BY <1>2
    <3> QED BY <2>1, <3>1, LeastNumber
  <2>3. m \in 0 .. n + 1 /\ m # 0 /\ ~ FileInv(m, AfterTurns[m])
    BY <1>3, <2>2
  <2>4. PICK k : k = m - 1
    OBVIOUS
  <2>5. k \in 0 .. m - 1 /\ k \in 0 .. n /\ k \in 0 .. n + 1 /\ k + 1 = m
    BY <1>2, <2>3, <2>4
  <2>6. FileInv(k, AfterTurns[k])
    BY <2>2, <2>5
  <2> QED BY <1>4, <2>3, <2>5, <2>6
<1>6. n + 1 \in 0 .. n + 1
  BY <1>2
<1> QED BY <1>1, <1>5, <1>6

LEMMA FileStep ==
    ASSUME BufInv, WriteToFile
    PROVE  Stepped
<1>1. PICK w, n : w = AfterTurns[Len(chain) + 1] /\ n = Len(chain)
  OBVIOUS
<1>2. /\ Sound
      /\ IF w.bad THEN fault' = "writeToFile" /\ out' = <<>> ELSE out' = w.text /\ UNCHANGED fault
      /\ UNCHANGED <<chain, m_cur, m_position, m_capacity, m_size>>
  BY <1>1 DEF WriteToFile
<1>3. FileInv(n + 1, w)
  BY <1>1, <1>2, FileEnd
<1>4. PICK p \in Nat, c \in Nat, l \in Nat, b \in BOOLEAN : \E t :
        /\ w = [pos |-> p, cur |-> c, left |-> l, bad |-> b, text |-> t]
        /\ b \/ Copied(p, c, l, t) \/ Lost(p, l)
        /\ Followed(n + 1, c, l, b)
  BY <1>3 DEF FileInv
<1>5. PICK t : /\ w = [pos |-> p, cur |-> c, left |-> l, bad |-> b, text |-> t]
               /\ b \/ Copied(p, c, l, t) \/ Lost(p, l)
               /\ Followed(n + 1, c, l, b)
  BY <1>4
<1>6. w.bad = b /\ w.text = t
  BY <1>5
<1>7. CASE b
  <2>1. fault' = "writeToFile" /\ out' = <<>>
    BY <1>2, <1>6, <1>7
  <2>2. BufInv'
    BY <1>2, <2>1 DEF BufInv, Sound, Room
  <2>3. Store!Take
    BY <1>2, <2>1, NothingTaken
  <2> QED BY <2>2, <2>3 DEF Stepped, Store!StoreNext
<1>8. CASE ~ b
  <2>1. out' = t /\ UNCHANGED fault
    BY <1>2, <1>6, <1>8
  <2>2. BufInv'
    BY <1>2, <2>1 DEF BufInv, Sound, Room, CurAt, BlockOf
  <2>3. PICK p0, c0, m : p0 = m_position /\ c0 = m_cur /\ m = m_size
    OBVIOUS
  <2>4. n \in Nat \ {0} /\ p0 \in Nat /\ m \in Nat /\ p0 <= m
    BY <1>1, <2>3, RoomIs
  <2>5. ~ (l > 0)
    <3>1. SUFFICES ASSUME l > 0 PROVE FALSE
      OBVIOUS
    <3>2. \/ c = c0 + (n + 1) /\ c <= n
          \/ c = 0 /\ (n + 1) = n - c0 + 1
      BY <1>1, <1>5, <1>8, <2>3, <3>1 DEF Followed
    <3>3. c0 = CurAt(p0, chain) /\ c0 \in Nat
      <4>1. CurAt(p0, chain) \in Nat
        BY <2>4, PlaceOf DEF CurAt
      <4>2. m_cur = CurAt(m_position, chain)
        BY <1>2 DEF BufInv
      <4> QED BY <2>3, <4>1, <4>2
    <3>4. p0 = m
      <4>1. c0 = 0
        BY <2>4, <3>2, <3>3
      <4>2. ~ (p0 < Room(chain))
        BY <2>4, <3>3, <4>1, PlaceOf DEF CurAt
      <4> QED BY <2>3, <2>4, <4>2, RoomIs
    <3>5. p0 < m
      <4>1. CASE Copied(p, c, l, t)
        <5>1. l = m - p /\ p0 <= p
          BY <2>3, <4>1 DEF Copied
        <5> QED BY <2>4, <3>1, <5>1
      <4>2. CASE Lost(p, l)
        BY <2>3, <4>2 DEF Lost
      <4> QED BY <1>5, <1>8, <4>1, <4>2
    <3> QED BY <2>4, <3>4, <3>5
  <2>6. Copied(p, c, l, t)
    BY <1>5, <1>8, <2>5 DEF Lost
  <2>7. p = m /\ t = SubSeq(BytesHeld, m_position + 1, p)
    <3>1. l = m - p
      BY <2>3, <2>6 DEF Copied
    <3>2. l = 0
      BY <2>5
    <3> QED BY <2>4, <2>6, <3>1, <3>2 DEF Copied
  <2>8. Store!Peek
    BY <1>2, <2>1, <2>3, <2>7, PeekIs
  <2> QED BY <2>2, <2>8 DEF Stepped, Store!StoreNext
<1> QED BY <1>7, <1>8

-----------------------------------------------------------------------------
LEMMA BufferStarts ==
    ASSUME BufferInit
    PROVE  BufInv /\ Store!StoreInit
<1>1. /\ chain = <<Block>> /\ m_cur = 1 /\ m_position = 0 /\ m_capacity = m_baseSize /\ m_size = 0
      /\ out = <<>> /\ m_baseSize \in Nat \ {0}
  BY BufferAssumption DEF BufferInit
<1>2. Block \in Blocks
  BY DEF Block, Blocks
<1>3. chain \in Seq(Blocks) /\ chain # <<>> /\ Len(chain) = 1
  BY <1>1, <1>2
<1>4. Room(chain) = m_baseSize
  BY <1>1, <1>3 DEF Room
<1>5. CurAt(0, chain) = 1
  <2>1. 0 = 0 * m_baseSize + 0 /\ 0 \in 0 .. m_baseSize - 1
    BY <1>1
  <2>2. 0 \div m_baseSize = 0
    BY <2>1, DividedOnly
  <2> QED BY <1>1, <1>4, <2>2 DEF CurAt, BlockOf
<1>6. BufInv
  BY <1>1, <1>3, <1>4, <1>5 DEF BufInv
<1>7. BytesHeld = <<>>
  BY <1>1 DEF BytesHeld
<1> QED BY <1>1, <1>6, <1>7 DEF Store!StoreInit

LEMMA BufferStays ==
    ASSUME BufInv, UNCHANGED bufferVars
    PROVE  BufInv' /\ UNCHANGED Store!storeVars
<1>1. UNCHANGED <<chain, m_cur, m_position, m_capacity, m_size, out, fault>>
  BY DEF bufferVars
<1>2. BufInv'
  BY <1>1 DEF BufInv, Sound, Room, CurAt, BlockOf
<1>3. BytesHeld' = BytesHeld
  BY <1>1 DEF BytesHeld
<1> QED BY <1>1, <1>2, <1>3 DEF Store!storeVars

(* Whatever the size of a block, and whatever is called in which order,    *)
(* the chain of blocks is the sequence of bytes with a position that       *)
(* buffer.h describes: no read, write, text, socket or file sees or leaves *)
(* anything else.                                                          *)
THEOREM BufferImplements == BufferSpec => ImplementsStore
<1>1. BufferInit => BufInv /\ Store!StoreInit
  BY BufferStarts
<1>2. BufInv /\ [BufferNext]_bufferVars => BufInv' /\ [Store!StoreNext]_(Store!storeVars)
  <2>1. SUFFICES ASSUME BufInv, [BufferNext]_bufferVars
                 PROVE  BufInv' /\ [Store!StoreNext]_(Store!storeVars)
    OBVIOUS
  <2>2. CASE UNCHANGED bufferVars
    BY <2>1, <2>2, BufferStays
  <2>3. CASE BufferNext
    <3>1. CASE Write
      BY <2>1, <3>1, WriteStep DEF Stepped
    <3>2. CASE Read
      BY <2>1, <3>2, ReadStep DEF Stepped
    <3>3. CASE Reinit \/ Clear
      BY <2>1, <3>3, ResetStep DEF Stepped
    <3>4. CASE Position
      BY <2>1, <3>4, PositionStep DEF Stepped
    <3>5. CASE ToText
      BY <2>1, <3>5, ToTextStep DEF Stepped
    <3>6. CASE SocketRead
      BY <2>1, <3>6, SocketReadStep DEF Stepped
    <3>7. CASE SocketWrite
      BY <2>1, <3>7, SocketWriteStep DEF Stepped
    <3>8. CASE WriteToFile
      BY <2>1, <3>8, FileStep DEF Stepped
    <3> QED BY <2>3, <3>1, <3>2, <3>3, <3>4, <3>5, <3>6, <3>7, <3>8 DEF BufferNext
  <2> QED BY <2>1, <2>2, <2>3
<1> QED BY <1>1, <1>2, PTL DEF BufferSpec, ImplementsStore, Store!StoreSpec
=============================================================================
