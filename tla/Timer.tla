------------------------------- MODULE Timer -------------------------------
(***************************************************************************)
(* The timers of bifang: Timer and TimerManager of src/src/timer.cpp, with *)
(* the idle threads of IOManager that sleep until the earliest timer is    *)
(* due.                                                                    *)
(*                                                                         *)
(* m_timers is a std::set ordered by m_next, so an element is found again  *)
(* only under the m_next it was inserted with; it is modelled by the pairs *)
(* <<m_next at insertion, timer>>.  One action is one critical section of  *)
(* m_mutex, or one read of the clock.                                      *)
(***************************************************************************)
EXTENDS Integers, FiniteSets, FiniteSetsExt

CONSTANTS
    Timers,
    Recurring,  \* the timers made with m_recurring
    IdleThreads, \* the threads that call idle()
    Delays,     \* the values of m_ms
    MaxTimeout, \* 2500 in IOManager::idle
    MaxTime     \* a bound on the clock (of the model)

(* m_ms is a uint64_t, 0 if a hooked usleep() is for less than a           *)
(* millisecond, and an IOManager has at least one thread.                  *)
ASSUME TimerAssumption ==
    /\ Recurring \subseteq Timers
    /\ IdleThreads # {}
    /\ Delays \subseteq Nat /\ IsFiniteSet(Delays)
    /\ MaxTimeout \in Nat \ {0}
    /\ MaxTime \in Nat

VARIABLES
    now,        \* getCurrentMS()
    m_next,
    m_ms,
    stage,      \* "none", "made" (constructed), "added"
    m_cb,       \* the timers whose m_cb is not null
    m_timers,
    m_tickled,
    tickling,   \* a timerTickle() that has not been made yet
    edge,       \* a write to the pipe nobody has been woken by yet
    pc,         \* what each thread does: run, sleep, list, expire
    deadline,   \* when the sleep of a thread ends by itself (0: awake)
    now_ms,     \* listExpiredCb's local (0: not in it)
    cbs,        \* idle()'s local: callbacks to be scheduled
    cancelled   \* history: the timers whose cancel() answered true

setVars    == <<m_next, m_ms, stage, m_cb, m_timers, cancelled>>
tickleVars == <<m_tickled, tickling, edge>>
threadVars == <<pc, deadline, now_ms, cbs>>
timerVars  == <<now, setVars, tickleVars, threadVars>>

(* find(): the element with this timer's present m_next.                   *)
Key(t) == <<m_next[t], t>>
Least(S) == Min({k[1] : k \in S})

TimerInit ==
    /\ now = 0
    /\ m_next = [t \in Timers |-> 0]
    /\ m_ms = [t \in Timers |-> 0]
    /\ stage = [t \in Timers |-> "none"]
    /\ m_cb = {} /\ m_timers = {} /\ cancelled = {}
    /\ m_tickled = FALSE /\ tickling = FALSE /\ edge = FALSE
    /\ pc = [th \in IdleThreads |-> "run"]
    /\ deadline = [th \in IdleThreads |-> 0]
    /\ now_ms = [th \in IdleThreads |-> 0]
    /\ cbs = [th \in IdleThreads |-> {}]

Tick ==
    /\ now < MaxTime
    /\ now' = now + 1
    /\ UNCHANGED <<setVars, tickleVars, threadVars>>

-----------------------------------------------------------------------------
(***************************************************************************)
(* The callers' side                                                       *)
(***************************************************************************)

(* Timer::Timer reads the clock before the manager is locked.              *)
Construct(t, ms) ==
    /\ stage[t] = "none"
    /\ m_ms' = [m_ms EXCEPT ![t] = ms]
    /\ m_next' = [m_next EXCEPT ![t] = now + ms]
    /\ stage' = [stage EXCEPT ![t] = "made"]
    /\ m_cb' = m_cb \cup {t}
    /\ UNCHANGED <<now, m_timers, cancelled, tickleVars, threadVars>>

(* Mutant: the new timer is compared with the first one after it.          *)
InsertLate(key, others) ==
    LET atFront == others # {} /\ key[1] < Least(others) /\ ~ m_tickled
    IN  /\ m_timers' = others \cup {key}
        /\ m_tickled' = (m_tickled \/ atFront)
        /\ tickling' = (tickling \/ atFront)
        /\ UNCHANGED edge

(* addTimer(val, lock): insert, and tickle if it is the first one now.     *)
(* The order of timers due at the same time is that of their addresses.    *)
Insert(key, others) ==
    \E first \in BOOLEAN :
        /\ others = {} \/ key[1] < Least(others) => first
        /\ others # {} /\ key[1] > Least(others) => ~ first
        /\ LET atFront == first /\ ~ m_tickled
           IN  /\ m_timers' = others \cup {key}
               /\ m_tickled' = (m_tickled \/ atFront)
               /\ tickling' = (tickling \/ atFront)
        /\ UNCHANGED edge

addTimer(t) ==
    /\ stage[t] = "made"
    /\ stage' = [stage EXCEPT ![t] = "added"]
    /\ Insert(Key(t), m_timers)
    /\ UNCHANGED <<now, m_next, m_ms, m_cb, cancelled, threadVars>>

(* timerTickle(), after the lock: write to the pipe if a thread is idle.   *)
timerTickle ==
    /\ tickling
    /\ tickling' = FALSE
    /\ edge' = (edge \/ \E th \in IdleThreads : pc[th] # "run")
    /\ UNCHANGED <<now, setVars, m_tickled, threadVars>>

(* cancel(): find() is followed by erase() without a test for end().       *)
cancel(t) ==
    /\ stage[t] = "added"
    /\ t \in m_cb
    /\ m_cb' = m_cb \ {t}
    /\ m_timers' = m_timers \ {Key(t)}
    /\ cancelled' = cancelled \cup {t}
    /\ UNCHANGED <<now, m_next, m_ms, stage, tickleVars, threadVars>>

(* Mutant: m_next is moved while the timer is in the set.                  *)
refreshInPlace(t) ==
    /\ stage[t] = "added" /\ t \in m_cb /\ Key(t) \in m_timers
    /\ m_next' = [m_next EXCEPT ![t] = now + m_ms[t]]
    /\ UNCHANGED <<now, m_ms, stage, m_cb, m_timers, cancelled, tickleVars, threadVars>>

(* refresh(): the timer can only move back, so nobody needs a tickle.      *)
refresh(t) ==
    /\ stage[t] = "added" /\ t \in m_cb /\ Key(t) \in m_timers
    /\ m_next' = [m_next EXCEPT ![t] = now + m_ms[t]]
    /\ m_timers' = (m_timers \ {Key(t)}) \cup {<<m_next'[t], t>>}
    /\ UNCHANGED <<now, m_ms, stage, m_cb, cancelled, tickleVars, threadVars>>

(* Mutant: reset() inserts like refresh() does, without a tickle.          *)
resetQuiet(t, ms) ==
    /\ stage[t] = "added" /\ t \in m_cb /\ Key(t) \in m_timers
    /\ m_ms' = [m_ms EXCEPT ![t] = ms]
    /\ m_next' = [m_next EXCEPT ![t] = now + ms]
    /\ m_timers' = (m_timers \ {Key(t)}) \cup {<<m_next'[t], t>>}
    /\ UNCHANGED <<now, stage, m_cb, cancelled, tickleVars, threadVars>>

(* reset(ms): may become the earliest one.                                 *)
reset(t, ms) ==
    /\ stage[t] = "added" /\ t \in m_cb /\ Key(t) \in m_timers
    /\ m_ms' = [m_ms EXCEPT ![t] = ms]
    /\ m_next' = [m_next EXCEPT ![t] = now + ms]
    /\ Insert(<<now + ms, t>>, m_timers \ {Key(t)})
    /\ UNCHANGED <<now, stage, m_cb, cancelled, threadVars>>

-----------------------------------------------------------------------------
(***************************************************************************)
(* The idle threads                                                        *)
(***************************************************************************)

(* getNextTimer(), and the sleep it bounds.                                *)
getNextTimer(th) ==
    /\ pc[th] = "run"
    /\ m_tickled' = FALSE
    /\ deadline' = [deadline EXCEPT ![th] =
           IF m_timers = {} THEN now + MaxTimeout
           ELSE Min({now + MaxTimeout, Max({now, Least(m_timers)})})]
    /\ pc' = [pc EXCEPT ![th] = "sleep"]
    /\ UNCHANGED <<now, setVars, tickling, edge, now_ms, cbs>>

(* epoll_wait returns: the timeout, the pipe, or a descriptor.             *)
WakeUp(th) ==
    /\ pc[th] = "sleep"
    /\ now >= deadline[th] \/ edge
    /\ edge' = FALSE
    /\ pc' = [pc EXCEPT ![th] = "list"]
    /\ deadline' = [deadline EXCEPT ![th] = 0]
    /\ UNCHANGED <<now, setVars, m_tickled, tickling, now_ms, cbs>>

(* listExpiredCb reads the clock, then asks whether there is a timer.      *)
ReadClock(th) ==
    /\ pc[th] = "list"
    /\ now_ms' = [now_ms EXCEPT ![th] = IF m_timers = {} THEN 0 ELSE now]
    /\ pc' = [pc EXCEPT ![th] = IF m_timers = {} THEN "run" ELSE "expire"]
    /\ UNCHANGED <<now, setVars, tickleVars, deadline, cbs>>

Expired(ms) == {t \in Timers : \E k \in m_timers : k[2] = t /\ k[1] <= ms}

(* Mutant: a one-shot timer keeps its callback.                            *)
listExpiredCbKept(th) ==
    LET ms == now_ms[th]
        expired == Expired(ms)
        again == expired \cap Recurring
    IN  /\ pc[th] = "expire"
        /\ m_next' = [t \in Timers |-> IF t \in again THEN ms + m_ms[t] ELSE m_next[t]]
        /\ m_timers' = {k \in m_timers : k[2] \notin expired}
                       \cup {<<m_next'[t], t>> : t \in again}
        /\ cbs' = [cbs EXCEPT ![th] = expired]
        /\ now_ms' = [now_ms EXCEPT ![th] = 0]
        /\ pc' = [pc EXCEPT ![th] = "run"]
        /\ UNCHANGED <<now, m_ms, stage, m_cb, cancelled, tickleVars, deadline>>

(* The rest of listExpiredCb, under the write lock: what is due leaves the *)
(* set, and a recurring timer comes back under a new m_next.               *)
listExpiredCb(th) ==
    LET ms == now_ms[th]
        expired == Expired(ms)
        again == expired \cap Recurring
    IN  /\ pc[th] = "expire"
        /\ m_next' = [t \in Timers |-> IF t \in again THEN ms + m_ms[t] ELSE m_next[t]]
        /\ m_timers' = {k \in m_timers : k[2] \notin expired}
                       \cup {<<m_next'[t], t>> : t \in again}
        /\ m_cb' = m_cb \ (expired \ Recurring)
        /\ cbs' = [cbs EXCEPT ![th] = expired]
        /\ now_ms' = [now_ms EXCEPT ![th] = 0]
        /\ pc' = [pc EXCEPT ![th] = "run"]
        /\ UNCHANGED <<now, m_ms, stage, cancelled, tickleVars, deadline>>

(* idle() schedules the callbacks; they run on some thread.                *)
ScheduleCbs(th) ==
    /\ cbs[th] # {}
    /\ cbs' = [cbs EXCEPT ![th] = {}]
    /\ UNCHANGED <<now, setVars, tickleVars, pc, deadline, now_ms>>

-----------------------------------------------------------------------------
IdleStep(th) ==
    \/ cbs[th] = {} /\ (getNextTimer(th) \/ WakeUp(th) \/ ReadClock(th) \/ listExpiredCb(th))
    \/ ScheduleCbs(th)

TimerNext ==
    \/ Tick
    \/ \E t \in Timers :
        \/ addTimer(t) \/ cancel(t) \/ refresh(t)
        \/ \E ms \in Delays : Construct(t, ms) \/ reset(t, ms)
    \/ timerTickle
    \/ \E th \in IdleThreads : IdleStep(th)

TimerSpec == TimerInit /\ [][TimerNext]_timerVars

(* The clock runs, addTimer() and timerTickle() are carried through, and   *)
(* idle threads go on.                                                     *)
TimerFairSpec ==
    /\ TimerSpec
    /\ WF_timerVars(Tick) /\ WF_timerVars(timerTickle)
    /\ \A t \in Timers : WF_timerVars(addTimer(t))
    /\ \A th \in IdleThreads : WF_timerVars(IdleStep(th))

-----------------------------------------------------------------------------
(***************************************************************************)
(* Properties                                                              *)
(***************************************************************************)
TimerTypeOK ==
    /\ now \in 0 .. MaxTime
    /\ m_next \in [Timers -> 0 .. MaxTime + Max(Delays \cup {0})]
    /\ m_ms \in [Timers -> Delays \cup {0}]
    /\ stage \in [Timers -> {"none", "made", "added"}]
    /\ m_cb \subseteq Timers
    /\ m_timers \subseteq Nat \X Timers
    /\ m_tickled \in BOOLEAN /\ tickling \in BOOLEAN /\ edge \in BOOLEAN
    /\ pc \in [IdleThreads -> {"run", "sleep", "list", "expire"}]
    /\ deadline \in [IdleThreads -> Nat]
    /\ now_ms \in [IdleThreads -> 0 .. MaxTime]
    /\ cbs \in [IdleThreads -> SUBSET Timers]
    /\ cancelled \subseteq Timers

(* A timer has a callback exactly while it is in m_timers, once and under  *)
(* its present m_next.  cancel() relies on it: it erases what find()       *)
(* returns without a test.                                                 *)
SetMatches == m_timers = {Key(t) : t \in {u \in m_cb : stage[u] = "added"}}

SetInv == TimerTypeOK /\ SetMatches

(* One wake-up is enough: while all threads sleep, one of them wakes up no *)
(* later than the earliest timer (or after MaxTimeout), or is being woken, *)
(* although most insertions do not tickle.                                 *)
WakesInTime ==
    m_timers # {} /\ (\A th \in IdleThreads : pc[th] = "sleep") =>
        \/ edge \/ tickling
        \/ \E th \in IdleThreads : deadline[th] <= Max({now, Least(m_timers)})

(* A one-shot timer whose cancel() answered true does not fire any more.   *)
CancelIsFinal ==
    \A t \in cancelled \ Recurring : \A th \in IdleThreads : t \notin cbs[th]

(* Every timer whose time comes fires, is cancelled, or is moved.          *)
Fires ==
    \A t \in Timers :
        (stage[t] = "added" /\ t \in m_cb /\ m_next[t] <= MaxTime)
            ~> (t \notin m_cb \/ \E th \in IdleThreads : t \in cbs[th] \/ m_next[t] > MaxTime)
=============================================================================
