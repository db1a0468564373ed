-------------------------- MODULE SchedulerProofs --------------------------
(***************************************************************************)
(* Proofs that the scheduler keeps its safety invariants for any number of *)
(* threads and tasks, and that it implements FiberPool.                    *)
(***************************************************************************)
EXTENDS Scheduler, SequenceTheorems, FiniteSetTheorems, TLAPS

(***************************************************************************)
(* The inductive invariant                                                 *)
(***************************************************************************)

(* TypeOK with counters that are only known to be integers.                *)
TypeInv ==
    /\ fibers \in Seq(Tasks)
    /\ state \in [Tasks -> {"INIT", "EXEC", "TERM"}]
    /\ armed \subseteq Tasks
    /\ yields \in [Tasks -> 0 .. MaxYields]
    /\ pc \in [Threads -> ThreadPc]
    /\ ft \in [Threads -> Tasks \cup {NoTask}]
    /\ idleTerm \in [Threads -> BOOLEAN]
    /\ activeThreadCount \in Int
    /\ idleThreadCount \in Int
    /\ autoStop \in BOOLEAN
    /\ stopping \in BOOLEAN
    /\ cpc \in CallerPc

(* A task's one right to run is in one place: not given, in the hands of   *)
(* whoever it armed, in one place of the queue, or with the thread that    *)
(* took it from there.                                                     *)
OneToken ==
    /\ \A i, j \in 1 .. Len(fibers) : fibers[i] = fibers[j] => i = j
    /\ armed \cap Queued = {}
    /\ \A th \in Threads : pc[th] = "got" => ft[th] \notin armed \cup Queued

(* What the state of a task says about the thread that holds it.           *)
HeldState ==
    \A th \in Threads :
        /\ pc[th] \in Holding => ft[th] \in Tasks
        /\ pc[th] = "got" => state[ft[th]] # "EXEC"
        /\ pc[th] = "run" => state[ft[th]] = "EXEC"
        /\ pc[th] \in {"swapped", "settle"} =>
            \/ state[ft[th]] = "TERM"
            \/ state[ft[th]] = "EXEC" /\ ft[th] \in armed \cup Queued

OwnInv == OneToken /\ HeldState /\ Exclusive

(* The phases of the constructing thread.                                  *)
PhaseInv ==
    /\ cpc = "new" => \A th \in Threads : pc[th] = "off"
    /\ cpc \in {"new", "up", "raise", "check"} =>
        \A th \in Threads : th = Caller => pc[th] = "off"
    /\ cpc \in {"new", "up"} => ~ autoStop

CountInv ==
    /\ activeThreadCount = Cardinality({th \in Threads : pc[th] \in Active})
    /\ idleThreadCount = Cardinality({th \in Threads : pc[th] \in {"idle", "idleout"}})

Quiet ==
    /\ autoStop /\ stopping
    /\ fibers = <<>>
    /\ \A th \in Threads : pc[th] \notin Active

(* Once stopping() has answered true the scheduler is quiet for ever.      *)
QuietInv ==
    /\ \A th \in Threads : idleTerm[th] => Quiet
    /\ \A th \in Threads : pc[th] = "exit" => idleTerm[th]
    /\ cpc = "done" => Quiet
    /\ cpc = "join" /\ UseCaller => Quiet

IInv == TypeInv /\ OwnInv /\ PhaseInv /\ CountInv /\ QuietInv /\ NothingLost

-----------------------------------------------------------------------------
(***************************************************************************)
(* Lemmas on the operators                                                 *)
(***************************************************************************)

(* Erasing the entry at i from the list.                                   *)
LEMMA RemoveAtFacts ==
    ASSUME NEW S, NEW s \in Seq(S), NEW i \in 1 .. Len(s)
    PROVE  /\ RemoveAt(s, i) \in Seq(S)
           /\ Len(RemoveAt(s, i)) = Len(s) - 1
           /\ \A j \in 1 .. Len(s) - 1 :
                RemoveAt(s, i)[j] = IF j < i THEN s[j] ELSE s[j + 1]
<1> DEFINE a == SubSeq(s, 1, i - 1)
           b == SubSeq(s, i + 1, Len(s))
<1>1. Len(s) \in Nat
  BY LenProperties
<1>2. /\ a \in Seq(S) /\ Len(a) = i - 1
      /\ \A j \in 1 .. i - 1 : a[j] = s[j]
  BY <1>1, SubSeqProperties
<1>3. /\ b \in Seq(S) /\ Len(b) = Len(s) - i
      /\ \A j \in 1 .. Len(s) - i : b[j] = s[i + j]
  BY <1>1, SubSeqProperties
<1>4. RemoveAt(s, i) = a \o b
  BY DEF RemoveAt
<1> HIDE DEF a, b
<1>5. /\ a \o b \in Seq(S)
      /\ Len(a \o b) = (i - 1) + (Len(s) - i)
      /\ \A j \in 1 .. (i - 1) + (Len(s) - i) :
            (a \o b)[j] = IF j <= i - 1 THEN a[j] ELSE b[j - (i - 1)]
  <2>1. /\ a \o b \in Seq(S)
        /\ Len(a \o b) = Len(a) + Len(b)
        /\ \A j \in 1 .. Len(a) + Len(b) :
              (a \o b)[j] = IF j <= Len(a) THEN a[j] ELSE b[j - Len(a)]
    BY <1>2, <1>3, ConcatProperties
  <2> QED
    BY <1>2, <1>3, <2>1
<1>6. ASSUME NEW j \in 1 .. Len(s) - 1
      PROVE  (a \o b)[j] = IF j < i THEN s[j] ELSE s[j + 1]
  <2>1. CASE j < i
    BY <1>1, <1>2, <1>5, <2>1
  <2>2. CASE ~ (j < i)
    <3>1. /\ i \in Int /\ j \in Int /\ j <= Len(s) - 1
      BY <1>1
    <3>2. j - (i - 1) \in 1 .. Len(s) - i
      BY <1>1, <2>2, <3>1
    <3>3. b[j - (i - 1)] = s[i + (j - (i - 1))]
      BY <1>3, <3>2
    <3>4. i + (j - (i - 1)) = j + 1 /\ ~ (j <= i - 1) /\ j \in 1 .. (i - 1) + (Len(s) - i)
      BY <1>1, <2>2, <3>1
    <3>5. (a \o b)[j] = b[j - (i - 1)]
      BY <1>5, <3>4
    <3> QED
      BY <2>2, <3>3, <3>4, <3>5
  <2> QED
    BY <1>1, <2>1, <2>2
<1> QED
  BY <1>1, <1>4, <1>5, <1>6

(* The erased entry of a list without duplicates is gone, the others stay. *)
LEMMA RemoveAtSet ==
    ASSUME NEW S, NEW s \in Seq(S), NEW i \in 1 .. Len(s),
           \A j, k \in 1 .. Len(s) : s[j] = s[k] => j = k
    PROVE  /\ ToSet(RemoveAt(s, i)) = ToSet(s) \ {s[i]}
           /\ \A j, k \in 1 .. Len(RemoveAt(s, i)) :
                RemoveAt(s, i)[j] = RemoveAt(s, i)[k] => j = k
<1> DEFINE r == RemoveAt(s, i)
<1>1. Len(s) \in Nat /\ DOMAIN s = 1 .. Len(s)
  BY LenProperties
<1>2. /\ r \in Seq(S) /\ Len(r) = Len(s) - 1
      /\ \A j \in 1 .. Len(s) - 1 : r[j] = IF j < i THEN s[j] ELSE s[j + 1]
  BY RemoveAtFacts
<1>3. DOMAIN r = 1 .. Len(s) - 1
  BY <1>2, LenProperties
<1> HIDE DEF r
<1>4. ASSUME NEW x \in ToSet(r) PROVE x \in ToSet(s) \ {s[i]}
  <2>1. PICK j \in 1 .. Len(s) - 1 : x = r[j]
    BY <1>3, <1>4 DEF ToSet
  <2>2. PICK k \in 1 .. Len(s) : x = s[k] /\ k # i
    BY <1>1, <1>2, <2>1
  <2> QED
    BY <1>1, <2>2 DEF ToSet
<1>5. ASSUME NEW x \in ToSet(s), x # s[i] PROVE x \in ToSet(r)
  <2>1. PICK j \in 1 .. Len(s) : x = s[j]
    BY <1>1, <1>5 DEF ToSet
  <2>2. CASE j < i
    <3>1. j \in 1 .. Len(s) - 1 /\ r[j] = x
      BY <1>1, <1>2, <2>1, <2>2
    <3> QED BY <3>1, <1>3 DEF ToSet
  <2>3. CASE j > i
    <3>1. j - 1 \in 1 .. Len(s) - 1 /\ r[j - 1] = x
      BY <1>1, <1>2, <2>1, <2>3
    <3> QED BY <3>1, <1>3 DEF ToSet
  <2> QED
    BY <1>1, <1>5, <2>1, <2>2, <2>3
<1>6. \A j, k \in 1 .. Len(s) - 1 : r[j] = r[k] => j = k
  BY <1>1, <1>2
<1>7. ToSet(r) = ToSet(s) \ {s[i]}
  BY <1>4, <1>5
<1> QED
  BY <1>2, <1>6, <1>7 DEF r

LEMMA AppendSet ==
    ASSUME NEW S, NEW s \in Seq(S), NEW e \in S, e \notin ToSet(s),
           \A j, k \in 1 .. Len(s) : s[j] = s[k] => j = k
    PROVE  /\ Append(s, e) \in Seq(S)
           /\ ToSet(Append(s, e)) = ToSet(s) \cup {e}
           /\ \A j, k \in 1 .. Len(Append(s, e)) :
                Append(s, e)[j] = Append(s, e)[k] => j = k
<1> DEFINE r == Append(s, e)
<1>1. Len(s) \in Nat /\ DOMAIN s = 1 .. Len(s)
  BY LenProperties
<1>2. /\ r \in Seq(S) /\ Len(r) = Len(s) + 1
      /\ \A j \in 1 .. Len(s) : r[j] = s[j]
      /\ r[Len(s) + 1] = e
  BY AppendProperties
<1>3. DOMAIN r = 1 .. Len(s) + 1
  BY <1>2, LenProperties
<1> HIDE DEF r
<1>4. \A j \in 1 .. Len(s) : s[j] # e
  BY <1>1 DEF ToSet
<1>5. ToSet(r) = ToSet(s) \cup {e}
  <2>1. \A x \in ToSet(r) : x \in ToSet(s) \cup {e}
    BY <1>1, <1>2, <1>3 DEF ToSet
  <2>2. \A x \in ToSet(s) : x \in ToSet(r)
    BY <1>1, <1>2, <1>3 DEF ToSet
  <2>3. e \in ToSet(r)
    BY <1>1, <1>2, <1>3 DEF ToSet
  <2> QED BY <2>1, <2>2, <2>3
<1>6. \A j, k \in 1 .. Len(s) + 1 : r[j] = r[k] => j = k
  BY <1>1, <1>2, <1>4
<1> QED
  BY <1>2, <1>5, <1>6 DEF r

LEMMA ThreadsFinite == IsFiniteSet(Threads)
<1>1. IsFiniteSet(IF UseCaller THEN {Caller} ELSE {})
  BY FS_EmptySet, FS_Singleton
<1> QED
  BY <1>1, FS_Union, SchedulerAssumption DEF Threads

(* How moving one thread changes the number of threads at some set of      *)
(* points of run().                                                        *)
LEMMA CountMove ==
    ASSUME NEW P, NEW th \in Threads, NEW new,
           NEW p \in [Threads -> ThreadPc]
    PROVE  LET q == [p EXCEPT ![th] = new]
               before == Cardinality({x \in Threads : p[x] \in P})
               after == Cardinality({x \in Threads : q[x] \in P})
           IN  /\ before \in Nat
               /\ p[th] \in P /\ new \notin P => after = before - 1
               /\ p[th] \notin P /\ new \in P => after = before + 1
               /\ (p[th] \in P <=> new \in P) => after = before
<1> DEFINE q == [p EXCEPT ![th] = new]
           B == {x \in Threads : p[x] \in P}
           A == {x \in Threads : q[x] \in P}
<1>1. IsFiniteSet(B) /\ IsFiniteSet(A)
  BY ThreadsFinite, FS_Subset
<1>2. Cardinality(B) \in Nat
  BY <1>1, FS_CardinalityType
<1>3. ASSUME p[th] \in P, new \notin P PROVE Cardinality(A) = Cardinality(B) - 1
  <2>1. A = B \ {th} /\ th \in B
    BY <1>3
  <2> QED
    BY <1>1, <2>1, FS_RemoveElement
<1>4. ASSUME p[th] \notin P, new \in P PROVE Cardinality(A) = Cardinality(B) + 1
  <2>1. A = B \cup {th} /\ th \notin B
    BY <1>4
  <2> QED
    BY <1>1, <2>1, FS_AddElement
<1>5. ASSUME p[th] \in P <=> new \in P PROVE A = B
  BY <1>5
<1> QED
  BY <1>2, <1>3, <1>4, <1>5

-----------------------------------------------------------------------------
(***************************************************************************)
(* The steps                                                               *)
(***************************************************************************)

(* The actions of the scheduler, one alternative each.                     *)
ThreadAction(th) ==
    \/ Pick(th) \/ PickNone(th) \/ SwapIn(th) \/ SkipTerm(th)
    \/ SwappedOut(th) \/ Settle(th) \/ Exit(th) \/ IdleIn(th)
    \/ Idle(th) \/ IdleOut(th) \/ (\E t \in Tasks : TaskSchedule(th, t))
    \/ Arm(th) \/ Yield(th) \/ Finish(th)

StopAction ==
    start \/ Stop \/ Raise \/ StopCheck \/ RootBack \/ Join

LEMMA NextCases ==
    ASSUME [Next]_vars
    PROVE  \/ \E th \in Threads : ThreadAction(th)
           \/ \E t \in Tasks : CallerSchedule(t)
           \/ StopAction
           \/ UNCHANGED vars
BY DEF Next, RunLoop, TaskStep, CallerStep, StopStep, ThreadAction, StopAction, Terminated

LEMMA TypeStep == ASSUME TypeInv, HeldState, [Next]_vars PROVE TypeInv'
<1> USE DEF TypeInv, ThreadPc, CallerPc, stopVars, threadVars, taskVars
<1>1. ASSUME NEW th \in Threads, Pick(th) PROVE TypeInv'
  <2>1. PICK i \in DOMAIN fibers : /\ ft' = [ft EXCEPT ![th] = fibers[i]]
                                   /\ fibers' = RemoveAt(fibers, i)
    BY <1>1 DEF Pick
  <2>2. i \in 1 .. Len(fibers) /\ fibers[i] \in Tasks
    BY LenProperties, ElementOfSeq
  <2>3. fibers' \in Seq(Tasks)
    BY <2>1, <2>2, RemoveAtFacts
  <2> QED
    BY <1>1, <2>1, <2>2, <2>3 DEF Pick
<1>2. ASSUME NEW th \in Threads, ThreadAction(th), ~ Pick(th) PROVE TypeInv'
  <2>1. CASE PickNone(th) \/ Exit(th) \/ Yield(th)
    BY <2>1 DEF PickNone, Exit, Yield
  <2>2. CASE Idle(th)
    BY <2>2 DEF Idle, Stopping
  <2>3. CASE SwapIn(th)
    BY <2>3 DEF SwapIn
  <2>3a. CASE SkipTerm(th)
    BY <2>3a DEF SkipTerm
  <2>3b. CASE SwappedOut(th)
    BY <2>3b DEF SwappedOut
  <2>3c. CASE IdleIn(th)
    BY <2>3c DEF IdleIn
  <2>3d. CASE IdleOut(th)
    BY <2>3d DEF IdleOut
  <2>4. CASE Settle(th) \/ Finish(th)
    BY <2>4 DEF Settle, Finish
  <2>5. CASE \E t \in Tasks : TaskSchedule(th, t)
    BY <2>5, AppendProperties DEF TaskSchedule, schedule
  <2>6. CASE Arm(th)
    <3>1. ft[th] \in Tasks
      BY <2>6 DEF Arm, HeldState, Holding, Active
    <3>2. yields[ft[th]] + 1 \in 0 .. MaxYields
      BY <2>6, <3>1, SchedulerAssumption DEF Arm
    <3> QED
      BY <2>6, <3>1, <3>2 DEF Arm
  <2> QED
    BY <1>2, <2>1, <2>2, <2>3, <2>3a, <2>3b, <2>3c, <2>3d, <2>4, <2>5, <2>6 DEF ThreadAction
<1>3. ASSUME NEW t \in Tasks, CallerSchedule(t) PROVE TypeInv'
  BY <1>3, AppendProperties DEF CallerSchedule, schedule
<1>4. ASSUME StopAction PROVE TypeInv'
  <2>1. CASE start
    BY <2>1 DEF start
  <2>2. CASE Stop \/ Raise \/ RootBack \/ Join
    BY <2>2 DEF Stop, Raise, RootBack, Join
  <2>3. CASE StopCheck
    BY <2>3 DEF StopCheck
  <2> QED
    BY <1>4, <2>1, <2>2, <2>3 DEF StopAction
<1>5. ASSUME UNCHANGED vars PROVE TypeInv'
  BY <1>5 DEF vars
<1> QED
  BY <1>1, <1>2, <1>3, <1>4, <1>5, NextCases

(* schedule() of a task: a new or armed token moves to the queue.          *)
LEMMA ScheduleOwn ==
    ASSUME TypeInv, OwnInv, NEW t \in Tasks, schedule(t), UNCHANGED <<pc, ft>>
    PROVE  OwnInv' /\ Queued' = Queued \cup {t}
<1>1. /\ t \notin Queued /\ ~ Held(t)
      /\ fibers' = Append(fibers, t) /\ armed' = armed \ {t} /\ state' = state
  BY DEF schedule, CanSchedule
<1>2. \A i, j \in 1 .. Len(fibers) : fibers[i] = fibers[j] => i = j
  BY DEF OwnInv, OneToken
<1>3. /\ Queued' = Queued \cup {t}
      /\ \A i, j \in 1 .. Len(fibers') : fibers'[i] = fibers'[j] => i = j
  BY <1>1, <1>2, AppendSet DEF TypeInv, Queued
<1>4. OneToken'
  BY <1>1, <1>3 DEF OneToken, OwnInv, Held
<1>5. HeldState'
  BY <1>1, <1>3 DEF HeldState, OwnInv
<1>6. Exclusive'
  BY <1>1 DEF Exclusive, OwnInv
<1> QED
  BY <1>3, <1>4, <1>5, <1>6 DEF OwnInv

(* Taking a task: its token moves from the queue to the thread.            *)
LEMMA PickOwn ==
    ASSUME TypeInv, OwnInv, NEW th \in Threads, Pick(th)
    PROVE  /\ OwnInv'
           /\ ft'[th] \in Queued
           /\ ~ Executing(ft'[th])
           /\ Queued' = Queued \ {ft'[th]}
<1>1. PICK i \in DOMAIN fibers : /\ IsFirstIdle(i)
                                 /\ ft' = [ft EXCEPT ![th] = fibers[i]]
                                 /\ fibers' = RemoveAt(fibers, i)
  BY DEF Pick
<1> DEFINE t == fibers[i]
<1>2. i \in 1 .. Len(fibers) /\ t \in Tasks
  BY LenProperties, ElementOfSeq DEF TypeInv
<1>3. \A j, k \in 1 .. Len(fibers) : fibers[j] = fibers[k] => j = k
  BY DEF OwnInv, OneToken
<1>4. t \in Queued /\ state[t] # "EXEC"
  BY <1>1 DEF Queued, ToSet, IsFirstIdle, Executing
<1>5. /\ Queued' = Queued \ {t}
      /\ \A j, k \in 1 .. Len(fibers') : fibers'[j] = fibers'[k] => j = k
  <2>1. fibers \in Seq(Tasks)
    BY DEF TypeInv
  <2>2. /\ ToSet(RemoveAt(fibers, i)) = ToSet(fibers) \ {t}
        /\ \A j, k \in 1 .. Len(RemoveAt(fibers, i)) :
              RemoveAt(fibers, i)[j] = RemoveAt(fibers, i)[k] => j = k
    BY <1>2, <1>3, <2>1, RemoveAtSet
  <2> QED
    BY <1>1, <2>2 DEF Queued, ToSet
<1>6. /\ pc[th] = "scan" /\ pc' = [pc EXCEPT ![th] = "got"]
      /\ armed' = armed /\ state' = state
  BY DEF Pick
<1>7. ft'[th] = t /\ \A x \in Threads : x # th => ft'[x] = ft[x] /\ pc'[x] = pc[x]
  BY <1>1, <1>6 DEF TypeInv
<1>8. pc'[th] = "got"
  BY <1>6 DEF TypeInv
<1> HIDE DEF t
<1>9. t \notin armed /\ \A x \in Threads : pc[x] = "got" => ft[x] # t
  BY <1>4 DEF OwnInv, OneToken
<1>10. OneToken'
  BY <1>5, <1>6, <1>7, <1>8, <1>9 DEF OneToken, OwnInv
<1>11. HeldState'
  <2>1. ASSUME NEW x \in Threads, x # th, pc[x] \in {"swapped", "settle"}, ft[x] = t
        PROVE  state[t] = "TERM"
    BY <1>4, <2>1 DEF OwnInv, HeldState
  <2> QED
    BY <1>2, <1>4, <1>5, <1>6, <1>7, <1>8, <2>1 DEF HeldState, OwnInv, t
<1>12. Exclusive'
  <2>1. ASSUME NEW x \in Threads, x # th, pc[x] \in Holding, ft[x] = t
        PROVE  state[t] = "TERM"
    BY <1>4, <1>9, <2>1 DEF OwnInv, HeldState, Holding, Active, OnFiber
  <2> QED
    BY <1>6, <1>7, <1>8, <2>1 DEF Exclusive, OwnInv
<1> QED
  BY <1>4, <1>5, <1>7, <1>10, <1>11, <1>12 DEF OwnInv, Executing

(* A thread that moves on while tasks and queue stay as they are, and that *)
(* does not newly hold a task.                                             *)
LEMMA MoveOwn ==
    ASSUME TypeInv, OwnInv, NEW th \in Threads, NEW new,
           pc' = [pc EXCEPT ![th] = new],
           new \notin Holding \/ (pc[th] = "swapped" /\ new = "settle"),
           ft' = ft \/ (new \notin Holding /\ ft' = [ft EXCEPT ![th] = NoTask]),
           UNCHANGED taskVars
    PROVE  OwnInv'
<1>1. /\ pc'[th] = new
      /\ \A x \in Threads : x # th => pc'[x] = pc[x] /\ ft'[x] = ft[x]
      /\ new \in Holding => ft' = ft
  BY DEF TypeInv
<1>2. fibers' = fibers /\ Queued' = Queued /\ armed' = armed /\ state' = state
  BY DEF taskVars, Queued
<1> USE <1>1, <1>2 DEF OwnInv, Holding, Active, OnFiber
<1>3. OneToken'
  BY DEF OneToken
<1>4. HeldState'
  BY DEF HeldState
<1>5. Exclusive'
  BY DEF Exclusive
<1> QED
  BY <1>3, <1>4, <1>5

LEMMA OwnStep == ASSUME TypeInv, OwnInv, [Next]_vars PROVE OwnInv'
<1>1. ASSUME NEW th \in Threads, ThreadAction(th) PROVE OwnInv'
  <2>1. CASE Pick(th)
    BY <2>1, PickOwn
  <2>2. CASE PickNone(th) \/ Exit(th) \/ IdleIn(th) \/ Idle(th) \/ IdleOut(th)
    <3>1. \E new \in {"none", "exit", "idle", "idleout", "scan"} :
              pc' = [pc EXCEPT ![th] = new]
      BY <2>2 DEF PickNone, Exit, IdleIn, Idle, IdleOut
    <3>2. ft' = ft /\ UNCHANGED taskVars
      BY <2>2 DEF PickNone, Exit, IdleIn, Idle, IdleOut
    <3> QED
      BY <3>1, <3>2, MoveOwn DEF Holding, Active, OnFiber
  <2>3. CASE SwapIn(th)
    <3> DEFINE t == ft[th]
    <3>1. /\ pc[th] = "got" /\ pc' = [pc EXCEPT ![th] = "run"]
          /\ state[t] # "TERM" /\ state' = [state EXCEPT ![t] = "EXEC"]
          /\ ft' = ft /\ armed' = armed /\ Queued' = Queued /\ fibers' = fibers
      BY <2>3 DEF SwapIn, Queued
    <3>2. /\ t \in Tasks
          /\ pc'[th] = "run" /\ \A x \in Threads : x # th => pc'[x] = pc[x]
          /\ state'[t] = "EXEC" /\ \A u \in Tasks : u # t => state'[u] = state[u]
      BY <3>1 DEF OwnInv, HeldState, TypeInv, Holding, Active
    <3>3. \A x \in Threads : x # th /\ pc[x] \in Holding => ft[x] # t
      BY <3>1 DEF OwnInv, Exclusive, Holding, Active
    <3> HIDE DEF t
    <3>4. OneToken'
      BY <3>1, <3>2 DEF OneToken, OwnInv
    <3>5. HeldState'
      <4>1. ASSUME NEW x \in Threads, x # th, pc[x] \in Holding
            PROVE  ft[x] \in Tasks /\ ft[x] # t /\ state'[ft[x]] = state[ft[x]]
        BY <3>2, <3>3, <4>1 DEF OwnInv, HeldState
      <4> QED
        BY <3>1, <3>2, <4>1 DEF HeldState, OwnInv, Holding, Active, OnFiber, t
    <3>6. Exclusive'
      BY <3>1, <3>2, <3>3 DEF Exclusive, OwnInv, HeldState, Holding, Active, OnFiber, t
    <3> QED
      BY <3>4, <3>5, <3>6 DEF OwnInv
  <2>4. CASE SkipTerm(th)
    BY <2>4, MoveOwn DEF SkipTerm, Holding, Active, OnFiber
  <2>5. CASE SwappedOut(th)
    BY <2>5, MoveOwn DEF SwappedOut
  <2>6. CASE Settle(th)
    <3> DEFINE t == ft[th]
    <3>1. CASE state[t] = "TERM"
      <4>1. UNCHANGED taskVars
        BY <2>6, <3>1 DEF Settle, taskVars
      <4> QED
        BY <2>6, <4>1, MoveOwn DEF Settle, Holding, Active, OnFiber
    <3>2. CASE state[t] # "TERM"
      <4>1. /\ pc[th] = "settle" /\ pc' = [pc EXCEPT ![th] = "scan"]
            /\ state' = [state EXCEPT ![t] = "INIT"]
            /\ ft' = [ft EXCEPT ![th] = NoTask]
            /\ armed' = armed /\ Queued' = Queued /\ fibers' = fibers
        BY <2>6, <3>2 DEF Settle, Queued
      <4>2. /\ t \in Tasks
            /\ pc'[th] = "scan"
            /\ \A x \in Threads : x # th => pc'[x] = pc[x] /\ ft'[x] = ft[x]
            /\ \A u \in Tasks : u # t => state'[u] = state[u]
        BY <4>1 DEF OwnInv, HeldState, TypeInv, Holding, OnFiber
      <4>3. \A x \in Threads : x # th /\ pc[x] \in Holding => ft[x] # t
        BY <3>2, <4>1 DEF OwnInv, Exclusive, Holding, OnFiber
      <4> HIDE DEF t
      <4>4. OneToken'
        BY <4>1, <4>2 DEF OneToken, OwnInv
      <4>5. \A x \in Threads : x # th /\ pc[x] \in Holding =>
              ft[x] \in Tasks /\ ft[x] # t /\ state'[ft[x]] = state[ft[x]]
        BY <4>2, <4>3 DEF OwnInv, HeldState
      <4>6. HeldState'
        BY <4>1, <4>2, <4>5 DEF HeldState, OwnInv, Holding, Active, OnFiber
      <4>7. Exclusive'
        BY <4>1, <4>2, <4>5 DEF Exclusive, OwnInv, Holding, Active, OnFiber
      <4> QED
        BY <4>4, <4>6, <4>7 DEF OwnInv
    <3> QED
      BY <3>1, <3>2
  <2>7. CASE \E t \in Tasks : TaskSchedule(th, t)
    BY <2>7, ScheduleOwn DEF TaskSchedule, threadVars
  <2>8. CASE Arm(th)
    <3> DEFINE t == ft[th]
    <3>1. /\ pc[th] = "run" /\ t \notin Queued /\ armed' = armed \cup {t}
          /\ fibers' = fibers /\ Queued' = Queued /\ state' = state
          /\ pc' = pc /\ ft' = ft
      BY <2>8 DEF Arm, threadVars, Queued
    <3>2. state[t] = "EXEC"
      BY <3>1 DEF OwnInv, HeldState
    <3>3. \A x \in Threads : pc[x] = "got" => ft[x] # t
      BY <3>2 DEF OwnInv, HeldState
    <3> HIDE DEF t
    <3>4. OneToken'
      BY <3>1, <3>3 DEF OneToken, OwnInv
    <3>5. HeldState'
      BY <3>1 DEF HeldState, OwnInv
    <3>6. Exclusive'
      BY <3>1 DEF Exclusive, OwnInv
    <3> QED
      BY <3>4, <3>5, <3>6 DEF OwnInv
  <2>9. CASE Yield(th)
    <3>1. /\ pc[th] = "run" /\ pc' = [pc EXCEPT ![th] = "swapped"]
          /\ ft[th] \in armed \cup Queued
          /\ ft' = ft /\ fibers' = fibers /\ Queued' = Queued
          /\ armed' = armed /\ state' = state
      BY <2>9 DEF Yield, taskVars, Queued
    <3>2. pc'[th] = "swapped" /\ \A x \in Threads : x # th => pc'[x] = pc[x]
      BY <3>1 DEF TypeInv
    <3>3. OneToken'
      BY <3>1, <3>2 DEF OneToken, OwnInv
    <3>4. HeldState'
      BY <3>1, <3>2 DEF HeldState, OwnInv, Holding, Active, OnFiber
    <3>5. Exclusive'
      BY <3>1, <3>2 DEF Exclusive, OwnInv, Holding, Active, OnFiber
    <3> QED
      BY <3>3, <3>4, <3>5 DEF OwnInv
  <2>10. CASE Finish(th)
    <3> DEFINE t == ft[th]
    <3>1. /\ pc[th] = "run" /\ pc' = [pc EXCEPT ![th] = "swapped"]
          /\ state' = [state EXCEPT ![t] = "TERM"]
          /\ ft' = ft /\ fibers' = fibers /\ Queued' = Queued /\ armed' = armed
      BY <2>10 DEF Finish, Queued
    <3>2. /\ t \in Tasks /\ state[t] = "EXEC"
          /\ pc'[th] = "swapped" /\ \A x \in Threads : x # th => pc'[x] = pc[x]
          /\ state'[t] = "TERM" /\ \A u \in Tasks : u # t => state'[u] = state[u]
      BY <3>1 DEF OwnInv, HeldState, TypeInv, Holding, Active
    <3>3. \A x \in Threads : x # th /\ pc[x] \in Holding => ft[x] # t
      BY <3>1, <3>2 DEF OwnInv, Exclusive, Holding, Active
    <3> HIDE DEF t
    <3>4. OneToken'
      BY <3>1, <3>2 DEF OneToken, OwnInv
    <3>5. \A x \in Threads : x # th /\ pc[x] \in Holding =>
            ft[x] \in Tasks /\ ft[x] # t /\ state'[ft[x]] = state[ft[x]]
      BY <3>2, <3>3 DEF OwnInv, HeldState
    <3>6. HeldState'
      BY <3>1, <3>2, <3>5 DEF HeldState, OwnInv, Holding, Active, OnFiber, t
    <3>7. Exclusive'
      BY <3>1, <3>2, <3>5 DEF Exclusive, OwnInv, Holding, Active, OnFiber, t
    <3> QED
      BY <3>4, <3>6, <3>7 DEF OwnInv
  <2> QED
    BY <1>1, <2>1, <2>2, <2>3, <2>4, <2>5, <2>6, <2>7, <2>8, <2>9, <2>10
    DEF ThreadAction
<1>2. ASSUME NEW t \in Tasks, CallerSchedule(t) PROVE OwnInv'
  BY <1>2, ScheduleOwn DEF CallerSchedule, threadVars
<1>3. ASSUME UNCHANGED taskVars, ft' = ft,
             \A th \in Threads : pc'[th] = pc[th] \/ pc'[th] = "scan"
      PROVE  OwnInv'
  <2>1. fibers' = fibers /\ Queued' = Queued /\ armed' = armed /\ state' = state
    BY <1>3 DEF taskVars, Queued
  <2>2. OneToken'
    BY <1>3, <2>1 DEF OneToken, OwnInv
  <2>3. HeldState'
    BY <1>3, <2>1 DEF HeldState, OwnInv, Holding, Active, OnFiber
  <2>4. Exclusive'
    BY <1>3, <2>1 DEF Exclusive, OwnInv, Holding, Active, OnFiber
  <2> QED
    BY <2>2, <2>3, <2>4 DEF OwnInv
<1>4. ASSUME StopAction PROVE OwnInv'
  <2>1. UNCHANGED taskVars /\ ft' = ft
    BY <1>4 DEF StopAction, start, Stop, Raise, StopCheck, RootBack, Join, threadVars
  <2>2. \A th \in Threads : pc'[th] = pc[th] \/ pc'[th] = "scan"
    BY <1>4 DEF StopAction, start, Stop, Raise, StopCheck, RootBack, Join,
                threadVars, TypeInv
  <2> QED
    BY <1>3, <2>1, <2>2
<1>5. ASSUME UNCHANGED vars PROVE OwnInv'
  BY <1>3, <1>5 DEF vars, threadVars
<1> QED
  BY <1>1, <1>2, <1>4, <1>5, NextCases

(* A thread that is in run() leaves it only through Exit.                  *)
LEMMA ThreadMoves ==
    ASSUME TypeInv, NEW th \in Threads, ThreadAction(th)
    PROVE  /\ pc[th] # "off"
           /\ \A x \in Threads : x # th => pc'[x] = pc[x]
           /\ UNCHANGED stopVars
<1> USE DEF TypeInv, stopVars, threadVars
<1>1. CASE Pick(th) \/ PickNone(th) \/ SwapIn(th) \/ SkipTerm(th) \/ SwappedOut(th)
  BY <1>1 DEF Pick, PickNone, SwapIn, SkipTerm, SwappedOut
<1>2. CASE Settle(th) \/ Exit(th) \/ IdleIn(th) \/ Idle(th) \/ IdleOut(th)
  BY <1>2 DEF Settle, Exit, IdleIn, Idle, IdleOut
<1>3. CASE (\E t \in Tasks : TaskSchedule(th, t)) \/ Arm(th) \/ Yield(th) \/ Finish(th)
  BY <1>3 DEF TaskSchedule, Arm, Yield, Finish
<1> QED
  BY <1>1, <1>2, <1>3 DEF ThreadAction

LEMMA PhaseStep == ASSUME TypeInv, PhaseInv, [Next]_vars PROVE PhaseInv'
<1>1. ASSUME NEW th \in Threads, ThreadAction(th) PROVE PhaseInv'
  BY <1>1, ThreadMoves DEF PhaseInv, stopVars
<1>2. ASSUME NEW t \in Tasks, CallerSchedule(t) PROVE PhaseInv'
  BY <1>2 DEF PhaseInv, CallerSchedule, stopVars, threadVars
<1>3. ASSUME StopAction PROVE PhaseInv'
  <2>1. CASE start
    BY <2>1, SchedulerAssumption DEF start, PhaseInv, TypeInv
  <2>2. CASE Stop \/ Raise \/ StopCheck \/ RootBack \/ Join
    BY <2>2 DEF Stop, Raise, StopCheck, RootBack, Join, PhaseInv, threadVars
  <2> QED
    BY <1>3, <2>1, <2>2 DEF StopAction
<1>4. ASSUME UNCHANGED vars PROVE PhaseInv'
  BY <1>4 DEF vars, PhaseInv, threadVars, stopVars
<1> QED
  BY <1>1, <1>2, <1>3, <1>4, NextCases

(* One thread moves, and both counters follow it.                          *)
LEMMA MoveCount ==
    ASSUME TypeInv, CountInv, NEW th \in Threads, NEW new,
           pc' = [pc EXCEPT ![th] = new],
           activeThreadCount' = activeThreadCount
               + (IF new \in Active THEN 1 ELSE 0) - (IF pc[th] \in Active THEN 1 ELSE 0),
           idleThreadCount' = idleThreadCount
               + (IF new \in {"idle", "idleout"} THEN 1 ELSE 0)
               - (IF pc[th] \in {"idle", "idleout"} THEN 1 ELSE 0)
    PROVE  CountInv'
<1> DEFINE A == {x \in Threads : pc[x] \in Active}
           B == {x \in Threads : pc[x] \in {"idle", "idleout"}}
<1>1. pc \in [Threads -> ThreadPc]
  BY DEF TypeInv
<1>2. Cardinality(A') = Cardinality(A)
          + (IF new \in Active THEN 1 ELSE 0) - (IF pc[th] \in Active THEN 1 ELSE 0)
  <2>1. LET q == [pc EXCEPT ![th] = new]
            before == Cardinality({x \in Threads : pc[x] \in Active})
            after == Cardinality({x \in Threads : q[x] \in Active})
        IN  /\ before \in Nat
            /\ pc[th] \in Active /\ new \notin Active => after = before - 1
            /\ pc[th] \notin Active /\ new \in Active => after = before + 1
            /\ (pc[th] \in Active <=> new \in Active) => after = before
    BY <1>1, CountMove
  <2> QED
    BY <2>1 DEF Active
<1>3. Cardinality(B') = Cardinality(B)
          + (IF new \in {"idle", "idleout"} THEN 1 ELSE 0)
          - (IF pc[th] \in {"idle", "idleout"} THEN 1 ELSE 0)
  <2> DEFINE P == {"idle", "idleout"}
  <2>1. LET q == [pc EXCEPT ![th] = new]
            before == Cardinality({x \in Threads : pc[x] \in P})
            after == Cardinality({x \in Threads : q[x] \in P})
        IN  /\ before \in Nat
            /\ pc[th] \in P /\ new \notin P => after = before - 1
            /\ pc[th] \notin P /\ new \in P => after = before + 1
            /\ (pc[th] \in P <=> new \in P) => after = before
    <3> HIDE DEF P
    <3> QED
      BY <1>1, CountMove
  <2> QED
    BY <2>1
<1> QED
  BY <1>2, <1>3 DEF CountInv, Active

LEMMA CountStep == ASSUME TypeInv, PhaseInv, CountInv, [Next]_vars PROVE CountInv'
<1>1. ASSUME NEW th \in Threads, ThreadAction(th) PROVE CountInv'
  <2> DEFINE In(p, S) == IF p \in S THEN 1 ELSE 0
             Moves(old, new) ==
                /\ pc[th] = old /\ pc' = [pc EXCEPT ![th] = new]
                /\ activeThreadCount' = activeThreadCount + In(new, Active) - In(old, Active)
                /\ idleThreadCount' = idleThreadCount
                      + In(new, {"idle", "idleout"}) - In(old, {"idle", "idleout"})
  <2>1. ASSUME NEW old, NEW new, Moves(old, new) PROVE CountInv'
    BY <2>1, MoveCount
  <2>2. /\ activeThreadCount \in Int /\ idleThreadCount \in Int
    BY DEF TypeInv
  <2>3. CASE Pick(th)
    <3>1. Moves("scan", "got")
      BY <2>2, <2>3 DEF Pick, Active
    <3> QED
      BY <2>1, <3>1
  <2>4. CASE PickNone(th)
    <3>1. Moves("scan", "none")
      BY <2>2, <2>4 DEF PickNone, Active
    <3> QED
      BY <2>1, <3>1
  <2>5. CASE SwapIn(th)
    <3>1. Moves("got", "run")
      BY <2>2, <2>5 DEF SwapIn, Active
    <3> QED
      BY <2>1, <3>1
  <2>6. CASE SkipTerm(th)
    <3>1. Moves("got", "scan")
      BY <2>2, <2>6 DEF SkipTerm, Active
    <3> QED
      BY <2>1, <3>1
  <2>7. CASE SwappedOut(th)
    <3>1. Moves("swapped", "settle")
      BY <2>2, <2>7 DEF SwappedOut, Active
    <3> QED
      BY <2>1, <3>1
  <2>8. CASE Settle(th)
    <3>1. Moves("settle", "scan")
      BY <2>2, <2>8 DEF Settle, Active
    <3> QED
      BY <2>1, <3>1
  <2>9. CASE Exit(th)
    <3>1. Moves("none", "exit")
      BY <2>2, <2>9 DEF Exit, Active
    <3> QED
      BY <2>1, <3>1
  <2>10. CASE IdleIn(th)
    <3>1. Moves("none", "idle")
      BY <2>2, <2>10 DEF IdleIn, Active
    <3> QED
      BY <2>1, <3>1
  <2>11. CASE Idle(th)
    <3>1. Moves("idle", "idleout")
      BY <2>2, <2>11 DEF Idle, Active
    <3> QED
      BY <2>1, <3>1
  <2>12. CASE IdleOut(th)
    <3>1. Moves("idleout", "scan")
      BY <2>2, <2>12 DEF IdleOut, Active
    <3> QED
      BY <2>1, <3>1
  <2>13. CASE Yield(th)
    <3>1. Moves("run", "swapped")
      BY <2>2, <2>13 DEF Yield, Active
    <3> QED
      BY <2>1, <3>1
  <2>14. CASE Finish(th)
    <3>1. Moves("run", "swapped")
      BY <2>2, <2>14 DEF Finish, Active
    <3> QED
      BY <2>1, <3>1
  <2>15. CASE (\E t \in Tasks : TaskSchedule(th, t)) \/ Arm(th)
    BY <2>15 DEF TaskSchedule, Arm, threadVars, CountInv
  <2> QED
    BY <1>1, <2>3, <2>4, <2>5, <2>6, <2>7, <2>8, <2>9, <2>10, <2>11, <2>12, <2>13, <2>14, <2>15
    DEF ThreadAction
<1>2. ASSUME activeThreadCount' = activeThreadCount, idleThreadCount' = idleThreadCount,
             \A x \in Threads : pc'[x] = pc[x] \/ (pc[x] = "off" /\ pc'[x] = "scan")
      PROVE  CountInv'
  <2>1. /\ {x \in Threads : pc'[x] \in Active} = {x \in Threads : pc[x] \in Active}
        /\ {x \in Threads : pc'[x] \in {"idle", "idleout"}}
             = {x \in Threads : pc[x] \in {"idle", "idleout"}}
    BY <1>2 DEF Active
  <2> QED
    BY <1>2, <2>1 DEF CountInv
<1>3. ASSUME NEW t \in Tasks, CallerSchedule(t) PROVE CountInv'
  BY <1>2, <1>3 DEF CallerSchedule, threadVars
<1>4. ASSUME StopAction PROVE CountInv'
  <2>1. CASE start
    BY <1>2, <2>1 DEF start, PhaseInv
  <2>2. CASE StopCheck
    BY <1>2, <2>2 DEF StopCheck, PhaseInv, TypeInv
  <2>3. CASE Stop \/ Raise \/ RootBack \/ Join
    BY <1>2, <2>3 DEF Stop, Raise, RootBack, Join, threadVars
  <2> QED
    BY <1>4, <2>1, <2>2, <2>3 DEF StopAction
<1>5. ASSUME UNCHANGED vars PROVE CountInv'
  BY <1>2, <1>5 DEF vars, threadVars
<1> QED
  BY <1>1, <1>3, <1>4, <1>5, NextCases

LEMMA NobodyActive ==
    ASSUME CountInv, activeThreadCount = 0
    PROVE  \A th \in Threads : pc[th] \notin Active
<1> DEFINE A == {th \in Threads : pc[th] \in Active}
<1>1. IsFiniteSet(A) /\ Cardinality(A) = 0
  BY ThreadsFinite, FS_Subset DEF CountInv
<1>2. A = {}
  BY <1>1, FS_EmptySet
<1> QED
  BY <1>2

(* Nothing can start in a quiet scheduler.                                 *)
LEMMA QuietStable ==
    ASSUME TypeInv, PhaseInv, Quiet, [Next]_vars
    PROVE  Quiet'
<1> USE DEF Quiet, stopVars, threadVars, taskVars
<1>1. ASSUME NEW th \in Threads, ThreadAction(th) PROVE Quiet'
  <2>1. pc[th] \notin {"got", "run", "swapped"}
    BY DEF Active
  <2>2. ~ Pick(th)
    BY DEF Pick
  <2>3. \/ PickNone(th) \/ Settle(th) \/ Exit(th)
        \/ IdleIn(th) \/ Idle(th) \/ IdleOut(th)
    BY <1>1, <2>1, <2>2
    DEF ThreadAction, SwapIn, SkipTerm, SwappedOut, TaskSchedule, Arm, Yield, Finish
  <2>4. /\ fibers' = fibers
        /\ pc'[th] \in {"none", "scan", "exit", "idle", "idleout"}
    BY <2>3 DEF TypeInv, PickNone, Settle, Exit, IdleIn, Idle, IdleOut
  <2> QED
    BY <1>1, <2>4, ThreadMoves DEF Active
<1>2. ASSUME NEW t \in Tasks, CallerSchedule(t) PROVE Quiet'
  BY <1>2 DEF CallerSchedule, PhaseInv
<1>3. ASSUME StopAction PROVE Quiet'
  <2>1. ~ start /\ ~ Stop
    BY DEF start, Stop, PhaseInv
  <2>2. CASE Raise \/ RootBack \/ Join
    BY <2>2 DEF Raise, RootBack, Join
  <2>3. CASE StopCheck
    BY <2>3 DEF StopCheck, TypeInv, Active
  <2> QED
    BY <1>3, <2>1, <2>2, <2>3 DEF StopAction
<1>4. ASSUME UNCHANGED vars PROVE Quiet'
  BY <1>4 DEF vars
<1> QED
  BY <1>1, <1>2, <1>3, <1>4, NextCases

LEMMA QuietStep ==
    ASSUME TypeInv, PhaseInv, CountInv, QuietInv, [Next]_vars
    PROVE  QuietInv'
<1> USE DEF QuietInv
<1>1. Quiet => Quiet'
  BY QuietStable
<1>2. ASSUME UNCHANGED <<idleTerm, cpc>>,
             \A x \in Threads : pc'[x] = "exit" => pc[x] = "exit"
      PROVE  QuietInv'
  BY <1>1, <1>2
<1>3. ASSUME NEW th \in Threads, ThreadAction(th) PROVE QuietInv'
  <2>1. CASE Exit(th)
    BY <1>1, <2>1 DEF Exit, TypeInv, stopVars
  <2>2. CASE Idle(th)
    <3>1. Stopping => Quiet
      BY NobodyActive DEF Stopping, Quiet
    <3> QED
      BY <1>1, <2>2, <3>1 DEF Idle, TypeInv, stopVars
  <2>3. CASE ~ Exit(th) /\ ~ Idle(th)
    <3>1. \/ Pick(th) \/ PickNone(th) \/ SwapIn(th) \/ SkipTerm(th)
          \/ SwappedOut(th) \/ Settle(th) \/ IdleIn(th) \/ IdleOut(th)
          \/ (\E t \in Tasks : TaskSchedule(th, t))
          \/ Arm(th) \/ Yield(th) \/ Finish(th)
      BY <1>3, <2>3 DEF ThreadAction
    <3>2. /\ UNCHANGED <<idleTerm, cpc>>
          /\ pc' = pc \/ \E new \in ThreadPc \ {"exit"} : pc' = [pc EXCEPT ![th] = new]
      BY <3>1 DEF Pick, PickNone, SwapIn, SkipTerm, SwappedOut, Settle, IdleIn, IdleOut,
                  TaskSchedule, Arm, Yield, Finish, stopVars, threadVars, ThreadPc
    <3>3. \A x \in Threads : pc'[x] = "exit" => pc[x] = "exit"
      BY <3>2 DEF TypeInv
    <3> QED
      BY <1>2, <3>2, <3>3
  <2> QED
    BY <2>1, <2>2, <2>3
<1>4. ASSUME NEW t \in Tasks, CallerSchedule(t) PROVE QuietInv'
  BY <1>2, <1>4 DEF CallerSchedule, threadVars, stopVars
<1>5. ASSUME StopAction PROVE QuietInv'
  <2>1. UNCHANGED idleTerm /\ \A x \in Threads : pc'[x] = "exit" => pc[x] = "exit"
    BY <1>5 DEF StopAction, start, Stop, Raise, StopCheck, RootBack, Join,
                threadVars, TypeInv
  <2>2. CASE start \/ Stop
    BY <1>1, <2>1, <2>2 DEF start, Stop
  <2>3. CASE Raise
    <3>1. cpc' = "done" => Quiet'
      BY <2>3, NobodyActive DEF Raise, Stopping, Quiet, threadVars, taskVars, PhaseInv
    <3> QED
      BY <1>1, <2>1, <2>3, <3>1 DEF Raise
  <2>4. CASE StopCheck
    <3>1. Stopping => Quiet
      BY NobodyActive DEF Stopping, Quiet
    <3> QED
      BY <1>1, <2>1, <2>4, <3>1 DEF StopCheck
  <2>5. CASE RootBack
    <3>1. UseCaller => Caller \in Threads
      BY DEF Threads
    <3> QED
      BY <1>1, <2>1, <2>5, <3>1 DEF RootBack
  <2>6. CASE Join
    <3>1. CASE UseCaller
      BY <1>1, <2>1, <2>6, <3>1 DEF Join
    <3>2. CASE ~ UseCaller
      <4>1. PICK w \in Threads : pc[w] = "exit"
        BY <2>6, <3>2, SchedulerAssumption DEF Join, Threads
      <4> QED
        BY <1>1, <2>1, <2>6, <4>1 DEF Join
    <3> QED
      BY <3>1, <3>2
  <2> QED
    BY <1>5, <2>2, <2>3, <2>4, <2>5, <2>6 DEF StopAction
<1>6. ASSUME UNCHANGED vars PROVE QuietInv'
  BY <1>2, <1>6 DEF vars, threadVars, stopVars
<1> QED
  BY <1>3, <1>4, <1>5, <1>6, NextCases

(* schedule(t) moves the token of t and leaves the other tasks alone.      *)
LEMMA ScheduleLost ==
    ASSUME TypeInv, OwnInv, NothingLost, NEW t \in Tasks, schedule(t), UNCHANGED <<pc, ft>>
    PROVE  NothingLost'
<1>1. Queued' = Queued \cup {t} /\ armed' = armed \ {t} /\ state' = state /\ yields' = yields
  BY ScheduleOwn DEF schedule
<1> QED
  BY <1>1 DEF NothingLost

LEMMA LostStep ==
    ASSUME TypeInv, OwnInv, PhaseInv, NothingLost, [Next]_vars
    PROVE  NothingLost'
<1>1. ASSUME NEW th \in Threads, ThreadAction(th) PROVE NothingLost'
  <2>1. CASE Pick(th)
    <3>1. /\ Queued' = Queued \ {ft'[th]}
          /\ pc'[th] = "got" /\ pc[th] = "scan"
          /\ armed' = armed /\ state' = state /\ yields' = yields
          /\ \A x \in Threads : x # th => pc'[x] = pc[x] /\ ft'[x] = ft[x]
      BY <2>1, PickOwn DEF Pick, TypeInv
    <3>2. ASSUME NEW t \in Tasks, state'[t] # "TERM", yields'[t] > 0
          PROVE  \/ t \in armed' \cup Queued'
                 \/ \E x \in Threads : pc'[x] \in Holding /\ ft'[x] = t
      <4>1. CASE t = ft'[th]
        BY <3>1, <4>1 DEF Holding, Active
      <4>2. CASE t # ft'[th]
        BY <3>1, <3>2, <4>2 DEF NothingLost, Holding, Active, OnFiber
      <4> QED
        BY <4>1, <4>2
    <3> QED
      BY <3>2 DEF NothingLost
  <2>2. ASSUME UNCHANGED <<fibers, armed, yields>>,
               \A t \in Tasks : state'[t] # "TERM" =>
                    state[t] # "TERM" /\ (ft[th] = t => t \in armed \cup Queued),
               \A x \in Threads : x # th => pc'[x] = pc[x] /\ ft'[x] = ft[x]
        PROVE  NothingLost'
    <3>1. Queued' = Queued
      BY <2>2 DEF Queued
    <3> QED
      BY <2>2, <3>1 DEF NothingLost
  <2>3. ASSUME UNCHANGED <<fibers, armed, yields, ft>>,
               \A t \in Tasks : state'[t] # "TERM" => state[t] # "TERM",
               \A x \in Threads : pc[x] \in Holding => pc'[x] \in Holding
        PROVE  NothingLost'
    <3>1. Queued' = Queued
      BY <2>3 DEF Queued
    <3> QED
      BY <2>3, <3>1 DEF NothingLost
  <2>4. CASE PickNone(th) \/ Exit(th) \/ IdleIn(th) \/ Idle(th) \/ IdleOut(th)
    <3>1. /\ UNCHANGED <<fibers, armed, yields, ft, state>>
          /\ pc[th] \notin Holding
          /\ \A x \in Threads : x # th => pc'[x] = pc[x]
      BY <2>4 DEF PickNone, Exit, IdleIn, Idle, IdleOut, taskVars, TypeInv, Holding,
                  Active, OnFiber
    <3> QED
      BY <2>3, <3>1
  <2>5. CASE SwapIn(th)
    <3>1. /\ UNCHANGED <<fibers, armed, yields, ft>> /\ ft[th] \in Tasks
          /\ state[ft[th]] # "TERM"
          /\ \A t \in Tasks : t # ft[th] => state'[t] = state[t]
          /\ pc'[th] = "run" /\ \A x \in Threads : x # th => pc'[x] = pc[x]
      BY <2>5 DEF SwapIn, TypeInv, OwnInv, HeldState, Holding, Active
    <3> QED
      BY <2>3, <3>1 DEF Holding, Active
  <2>6. CASE SkipTerm(th)
    <3>1. /\ UNCHANGED <<fibers, armed, yields, state>>
          /\ state[ft[th]] = "TERM"
          /\ \A x \in Threads : x # th => pc'[x] = pc[x] /\ ft'[x] = ft[x]
      BY <2>6 DEF SkipTerm, taskVars, TypeInv
    <3> QED
      BY <2>2, <3>1
  <2>7. CASE SwappedOut(th)
    <3>1. /\ UNCHANGED <<fibers, armed, yields, ft, state>>
          /\ pc'[th] = "settle" /\ \A x \in Threads : x # th => pc'[x] = pc[x]
      BY <2>7 DEF SwappedOut, taskVars, TypeInv
    <3> QED
      BY <2>3, <3>1 DEF Holding, OnFiber
  <2>8. CASE Settle(th)
    <3>1. /\ UNCHANGED <<fibers, armed, yields>>
          /\ pc[th] = "settle" /\ ft[th] \in Tasks
          /\ \A t \in Tasks : t # ft[th] => state'[t] = state[t]
          /\ state[ft[th]] = "TERM" => state'[ft[th]] = "TERM"
          /\ \A x \in Threads : x # th => pc'[x] = pc[x] /\ ft'[x] = ft[x]
      BY <2>8 DEF Settle, TypeInv, OwnInv, HeldState, Holding, OnFiber
    <3>2. state[ft[th]] # "TERM" => ft[th] \in armed \cup Queued
      BY <3>1 DEF OwnInv, HeldState
    <3> QED
      BY <2>2, <3>1, <3>2
  <2>9. CASE \E t \in Tasks : TaskSchedule(th, t)
    BY <2>9, ScheduleLost DEF TaskSchedule, threadVars
  <2>10. CASE Arm(th)
    <3>1. /\ pc[th] = "run" /\ pc' = pc /\ ft' = ft /\ state' = state
          /\ armed' = armed \cup {ft[th]} /\ Queued' = Queued
          /\ \A t \in Tasks : t # ft[th] => yields'[t] = yields[t]
      BY <2>10 DEF Arm, threadVars, Queued, TypeInv
    <3> QED
      BY <3>1 DEF NothingLost
  <2>11. CASE Yield(th)
    <3>1. /\ UNCHANGED <<fibers, armed, yields, ft, state>>
          /\ pc'[th] = "swapped" /\ \A x \in Threads : x # th => pc'[x] = pc[x]
      BY <2>11 DEF Yield, taskVars, TypeInv
    <3> QED
      BY <2>3, <3>1 DEF Holding, Active
  <2>12. CASE Finish(th)
    <3>1. /\ UNCHANGED <<fibers, armed, yields, ft>>
          /\ \A t \in Tasks : state'[t] = state[t] \/ state'[t] = "TERM"
          /\ pc'[th] = "swapped" /\ \A x \in Threads : x # th => pc'[x] = pc[x]
      BY <2>12 DEF Finish, TypeInv
    <3> QED
      BY <2>3, <3>1 DEF Holding, Active
  <2> QED
    BY <1>1, <2>1, <2>4, <2>5, <2>6, <2>7, <2>8, <2>9, <2>10, <2>11, <2>12 DEF ThreadAction
<1>2. ASSUME NEW t \in Tasks, CallerSchedule(t) PROVE NothingLost'
  BY <1>2, ScheduleLost DEF CallerSchedule, threadVars
<1>3. ASSUME UNCHANGED <<taskVars, ft>>,
             \A x \in Threads : pc[x] \in Holding => pc'[x] \in Holding
      PROVE  NothingLost'
  <2>1. Queued' = Queued /\ armed' = armed /\ state' = state /\ yields' = yields
    BY <1>3 DEF taskVars, Queued
  <2> QED
    BY <1>3, <2>1 DEF NothingLost
<1>4. CASE StopAction
  <2>1. UNCHANGED <<taskVars, ft>>
    BY <1>4 DEF StopAction, start, Stop, Raise, StopCheck, RootBack, Join,
                threadVars
  <2>2. \A x \in Threads : pc[x] \in Holding => pc'[x] \in Holding
    <3>1. CASE start
      BY <1>4, <3>1 DEF start, PhaseInv, Holding, Active, OnFiber
    <3>2. CASE StopCheck
      BY <1>4, <3>2 DEF StopCheck, PhaseInv, Holding, Active, OnFiber, TypeInv
    <3>3. CASE ~ start /\ ~ StopCheck
      BY <1>4, <3>3 DEF StopAction, Stop, Raise, RootBack, Join, threadVars
    <3> QED
      BY <3>1, <3>2, <3>3
  <2> QED
    BY <1>3, <2>1, <2>2
<1>5. CASE UNCHANGED vars
  BY <1>3, <1>5 DEF vars, threadVars
<1> QED
  BY <1>1, <1>2, <1>4, <1>5, NextCases

-----------------------------------------------------------------------------
(***************************************************************************)
(* The theorems                                                            *)
(***************************************************************************)

LEMMA InitInv == Init => IInv
<1> SUFFICES ASSUME Init PROVE IInv
  OBVIOUS
<1>1. TypeInv
  <2>1. 0 \in 0 .. MaxYields
    BY SchedulerAssumption
  <2>2. fibers \in Seq(Tasks)
    BY EmptySeq DEF Init
  <2>3. /\ state \in [Tasks -> {"INIT", "EXEC", "TERM"}]
        /\ yields \in [Tasks -> 0 .. MaxYields]
        /\ pc \in [Threads -> ThreadPc]
        /\ ft \in [Threads -> Tasks \cup {NoTask}]
        /\ idleTerm \in [Threads -> BOOLEAN]
    BY <2>1 DEF Init, ThreadPc
  <2>4. activeThreadCount \in Int /\ idleThreadCount \in Int
    BY DEF Init
  <2>5. armed \subseteq Tasks /\ autoStop \in BOOLEAN /\ stopping \in BOOLEAN /\ cpc \in CallerPc
    BY Zenon DEF Init, CallerPc
  <2> QED
    BY <2>2, <2>3, <2>4, <2>5 DEF TypeInv
<1>2. OwnInv
  BY DEF Init, OwnInv, OneToken, HeldState, Exclusive, Queued, ToSet, Holding, Active, OnFiber
<1>3. PhaseInv
  BY DEF Init, PhaseInv
<1>4. CountInv
  <2>1. /\ {th \in Threads : pc[th] \in Active} = {}
        /\ {th \in Threads : pc[th] \in {"idle", "idleout"}} = {}
    BY DEF Init, Active
  <2> QED
    BY <2>1, FS_EmptySet DEF Init, CountInv
<1>5. QuietInv
  BY DEF Init, QuietInv
<1>6. NothingLost
  BY DEF Init, NothingLost
<1> QED
  BY <1>1, <1>2, <1>3, <1>4, <1>5, <1>6 DEF IInv

LEMMA StepInv == IInv /\ [Next]_vars => IInv'
<1> SUFFICES ASSUME IInv, [Next]_vars PROVE IInv'
  OBVIOUS
<1> USE DEF IInv
<1>1. TypeInv'
  BY TypeStep DEF OwnInv
<1>2. OwnInv' /\ PhaseInv'
  BY OwnStep, PhaseStep
<1>3. CountInv' /\ QuietInv' /\ NothingLost'
  BY CountStep, QuietStep, LostStep
<1> QED
  BY <1>1, <1>2, <1>3

(* The scheduler keeps its inductive invariant.                            *)
THEOREM Invariance == Spec => []IInv
BY InitInv, StepInv, PTL DEF Spec

(* Every variable keeps its type; in particular neither thread counter     *)
(* underflows or exceeds the number of threads.                            *)
THEOREM TypeCorrect == Spec => []TypeOK
<1>1. IInv => TypeOK
  <2> SUFFICES ASSUME IInv PROVE TypeOK
    OBVIOUS
  <2>1. ASSUME NEW P PROVE Cardinality({th \in Threads : pc[th] \in P}) \in
                             0 .. Cardinality(Threads)
    <3>1. {th \in Threads : pc[th] \in P} \subseteq Threads
      OBVIOUS
    <3> QED
      BY <3>1, ThreadsFinite, FS_Subset, FS_CardinalityType
  <2> QED
    BY <2>1 DEF IInv, TypeInv, CountInv, TypeOK
<1> QED
  BY <1>1, Invariance, PTL

(* No two threads hold a live task, no thread swaps in an executing fiber, *)
(* and nobody resets the state of a fiber under the thread that runs it.   *)
THEOREM MutualExclusion == Spec => []OneThreadPerFiber
<1>1. IInv => OneThreadPerFiber
  BY DEF IInv, OwnInv, HeldState, OneThreadPerFiber, FiberAsserts, Executing
<1> QED
  BY <1>1, Invariance, PTL

(* m_activeThreadCount counts the threads that hold a task.                *)
THEOREM CounterExact == Spec => []CountersExact
<1>1. IInv => ActiveExact
  BY DEF IInv, CountInv, ActiveExact
<1>2. TypeOK /\ ActiveExact => CountersExact
  BY DEF CountersExact
<1> QED
  BY <1>1, <1>2, TypeCorrect, Invariance, PTL

(* The scheduler stops, and stop() returns, with no work left.             *)
THEOREM StopsDrained == Spec => []Drained
<1>1. IInv => Drained
  BY DEF IInv, QuietInv, Quiet, Drained
<1> QED
  BY <1>1, Invariance, PTL

(* A suspended task is always queued, armed or held.                       *)
THEOREM NoTaskLost == Spec => []NothingLost
<1>1. IInv => NothingLost
  BY DEF IInv
<1> QED
  BY <1>1, Invariance, PTL

-----------------------------------------------------------------------------
(***************************************************************************)
(* The scheduler implements FiberPool                                      *)
(***************************************************************************)

(* A wake-up that has been taken is in the hands of one thread, that of a  *)
(* finished fiber too.                                                     *)
TakenOnce ==
    \A th, other \in Threads :
        pc[th] = "got" /\ pc[other] = "got" /\ ft[th] = ft[other] => th = other

(* A task that suspends itself, or is rescheduled while it runs, has       *)
(* counted its suspension: it is never taken for a fresh one.              *)
SuspensionCounted ==
    /\ \A t \in armed : yields[t] > 0
    /\ \A t \in Queued : state[t] = "EXEC" => yields[t] > 0
    /\ \A th \in Threads :
        pc[th] \in {"swapped", "settle"} /\ state[ft[th]] = "EXEC" => yields[ft[th]] > 0

MapInv == IInv /\ TakenOnce /\ SuspensionCounted

(* A step takes only what no thread has taken.                            *)
LEMMA TakenStep == ASSUME IInv, TakenOnce, [Next]_vars PROVE TakenOnce'
<1> USE DEF IInv, TypeInv, TakenOnce
<1>1. ASSUME \A x \in Threads : pc'[x] = "got" => pc[x] = "got", UNCHANGED ft
      PROVE  TakenOnce'
  BY <1>1
<1>2. ASSUME NEW th \in Threads, ThreadAction(th) PROVE TakenOnce'
  <2>1. CASE Pick(th)
    <3>1. PICK i \in DOMAIN fibers : ft' = [ft EXCEPT ![th] = fibers[i]]
      BY <2>1 DEF Pick
    <3>2. fibers[i] \in Queued
      BY <3>1 DEF Queued, ToSet
    <3>3. \A x \in Threads : pc[x] = "got" => ft[x] # fibers[i]
      BY <3>2 DEF OwnInv, OneToken
    <3> QED
      BY <2>1, <3>1, <3>3 DEF Pick
  <2>2. CASE SkipTerm(th) \/ Settle(th)
    <3>1. /\ ft' = [ft EXCEPT ![th] = NoTask]
          /\ pc' = [pc EXCEPT ![th] = "scan"]
      BY <2>2 DEF SkipTerm, Settle
    <3> QED
      BY <3>1
  <2>3. CASE ~ Pick(th) /\ ~ SkipTerm(th) /\ ~ Settle(th)
    BY <1>1, <1>2, <2>3
    DEF ThreadAction, PickNone, SwapIn, SwappedOut, Exit, IdleIn, Idle, IdleOut,
        TaskSchedule, Arm, Yield, Finish, threadVars
  <2> QED
    BY <2>1, <2>2, <2>3
<1>3. ASSUME NEW t \in Tasks, CallerSchedule(t) PROVE TakenOnce'
  BY <1>1, <1>3 DEF CallerSchedule, threadVars
<1>4. ASSUME StopAction PROVE TakenOnce'
  BY <1>1, <1>4 DEF StopAction, start, Stop, Raise, StopCheck, RootBack, Join, threadVars
<1>5. ASSUME UNCHANGED vars PROVE TakenOnce'
  BY <1>1, <1>5 DEF vars, threadVars
<1> QED
  BY <1>2, <1>3, <1>4, <1>5, NextCases

(* Only Arm lets a running task be queued again, and it counts.            *)
LEMMA SuspensionStep ==
    ASSUME IInv, SuspensionCounted, [Next]_vars PROVE SuspensionCounted'
<1> USE DEF IInv, TypeInv, SuspensionCounted
<1>1. ASSUME NEW t \in Tasks, schedule(t), UNCHANGED <<pc, ft>> PROVE SuspensionCounted'
  <2>1. Queued' = Queued \cup {t} /\ armed' = armed \ {t} /\ UNCHANGED <<state, yields>>
    BY <1>1, ScheduleOwn DEF schedule
  <2>2. state[t] = "EXEC" => yields[t] > 0
    BY <1>1 DEF schedule, CanSchedule, Fresh
  <2> QED
    BY <1>1, <2>1, <2>2
<1>2. ASSUME UNCHANGED taskVars, UNCHANGED ft,
             \A x \in Threads : pc'[x] \in {"swapped", "settle"} =>
                pc[x] \in {"swapped", "settle"}
      PROVE  SuspensionCounted'
  BY <1>2 DEF taskVars, Queued
<1>3. ASSUME NEW th \in Threads, ThreadAction(th) PROVE SuspensionCounted'
  <2>1. CASE Pick(th)
    <3>1. Queued' \subseteq Queued
      <4>1. PICK i \in DOMAIN fibers : fibers' = RemoveAt(fibers, i)
        BY <2>1 DEF Pick
      <4>2. i \in 1 .. Len(fibers)
        BY LenProperties
      <4> QED
        BY <4>1, <4>2, RemoveAtSet DEF Queued, OwnInv, OneToken
    <3> QED
      BY <2>1, <3>1 DEF Pick
  <2>2. CASE SwapIn(th)
    <3>1. ft[th] \in Tasks /\ ft[th] \notin Queued
      BY <2>2 DEF SwapIn, OwnInv, OneToken, HeldState, Holding, Active
    <3>2. \A x \in Threads : pc[x] \in {"swapped", "settle"} => ft[x] # ft[th]
      BY <2>2 DEF SwapIn, OwnInv, Exclusive, Holding, Active, OnFiber
    <3> QED
      BY <2>2, <3>1, <3>2 DEF SwapIn, Queued
  <2>3. CASE SkipTerm(th)
    BY <2>3 DEF SkipTerm, taskVars, Queued
  <2>4. CASE SwappedOut(th)
    BY <2>4 DEF SwappedOut, taskVars, Queued
  <2>5. CASE Settle(th)
    BY <2>5 DEF Settle, Queued
  <2>6. CASE \E t \in Tasks : TaskSchedule(th, t)
    BY <1>1, <2>6 DEF TaskSchedule, threadVars
  <2>7. CASE Arm(th)
    BY <2>7 DEF Arm, threadVars, Queued, OwnInv, HeldState, Holding, Active
  <2>8. CASE Yield(th)
    BY <2>8 DEF Yield, taskVars, Queued, OwnInv, HeldState
  <2>9. CASE Finish(th)
    BY <2>9 DEF Finish, Queued, OwnInv, HeldState, Holding, Active
  <2>10. CASE PickNone(th) \/ Exit(th) \/ IdleIn(th) \/ Idle(th) \/ IdleOut(th)
    BY <1>2, <2>10 DEF PickNone, Exit, IdleIn, Idle, IdleOut
  <2> QED
    BY <1>3, <2>1, <2>2, <2>3, <2>4, <2>5, <2>6, <2>7, <2>8, <2>9, <2>10 DEF ThreadAction
<1>4. ASSUME NEW t \in Tasks, CallerSchedule(t) PROVE SuspensionCounted'
  BY <1>1, <1>4 DEF CallerSchedule, threadVars
<1>5. ASSUME StopAction PROVE SuspensionCounted'
  BY <1>2, <1>5 DEF StopAction, start, Stop, Raise, StopCheck, RootBack, Join, threadVars
<1>6. ASSUME UNCHANGED vars PROVE SuspensionCounted'
  BY <1>2, <1>6 DEF vars, threadVars
<1> QED
  BY <1>3, <1>4, <1>5, <1>6, NextCases

(* The abstract state, and the step of the pool each step maps to.         *)
Woken == Queued \cup {t \in Tasks : Held(t)}

(* The cases of Phase exclude each other.                                  *)
LEMMA PhaseOf ==
    HeldState => \A t \in Tasks :
        /\ state[t] = "TERM" => Phase[t] = "ended"
        /\ (\E th \in Threads : RunningOn(th, t)) => Phase[t] = "running"
        /\ state[t] # "TERM" /\ (\A th \in Threads : ~ RunningOn(th, t)) =>
            Phase[t] = IF Fresh(t) THEN "new" ELSE "suspended"
BY DEF HeldState, Phase, RunningOn, Fresh

LEMMA PhaseOfNext ==
    HeldState' => \A t \in Tasks :
        /\ state'[t] = "TERM" => Phase'[t] = "ended"
        /\ (\E th \in Threads : RunningOn(th, t)') => Phase'[t] = "running"
        /\ state'[t] # "TERM" /\ (\A th \in Threads : ~ RunningOn(th, t)') =>
            Phase'[t] = IF Fresh(t)' THEN "new" ELSE "suspended"
BY DEF HeldState, Phase, RunningOn, Fresh

(* A task's phase changes only if its state does or it starts or stops.    *)
LEMMA PhaseKept ==
    ASSUME UNCHANGED <<state, yields>>,
           \A th \in Threads, t \in Tasks : RunningOn(th, t)' = RunningOn(th, t)
    PROVE  Phase' = Phase
BY DEF Phase, Fresh

LEMMA PhaseFunction ==
    /\ Phase = [t \in Tasks |-> Phase[t]]
    /\ Phase' = [t \in Tasks |-> Phase'[t]]
BY DEF Phase

(* A scheduler that is closed is quiet, and stays closed.                  *)
LEMMA ClosedQuiet == ASSUME IInv, Closed PROVE Quiet
BY DEF IInv, QuietInv, Closed

LEMMA QuietMeansStopping == ASSUME IInv, Quiet PROVE Stopping
<1>1. {th \in Threads : pc[th] \in Active} = {}
  BY DEF Quiet
<1> QED
  BY <1>1, FS_EmptySet DEF IInv, CountInv, Stopping, Quiet

(* Closing a scheduler in which nothing is left to do.                     *)
LEMMA CloseOrStay ==
    ASSUME MapInv, Closed', fibers = <<>>, \A x \in Threads : pc[x] \notin Active,
           UNCHANGED <<fibers, state, yields, ft>>,
           \A x \in Threads : pc'[x] # pc[x] =>
                pc[x] \notin {"got", "run"} /\ pc'[x] \notin {"got", "run"}
    PROVE  Pool!Close \/ UNCHANGED Pool!poolVars
<1>1. Woken = {} /\ Woken' = {}
  BY DEF Woken, Queued, ToSet, Held, Active
<1>2. Phase' = Phase
  BY PhaseKept DEF RunningOn
<1>3. \A t \in Tasks : Phase[t] # "running"
  BY PhaseOf DEF MapInv, IInv, OwnInv, HeldState, Active, RunningOn, Fresh
<1>4. CASE Closed
  <2>1. Closed' = Closed
    BY <1>4 DEF Closed
  <2> QED
    BY <1>1, <1>2, <2>1 DEF Pool!poolVars, Woken
<1>5. CASE ~ Closed
  <2>1. Closed' = TRUE
    BY DEF Closed
  <2> QED
    BY <1>1, <1>2, <1>3, <1>5, <2>1 DEF Pool!Close, Woken
<1> QED
  BY <1>4, <1>5

(* schedule() is a wake-up.                                                *)
LEMMA ScheduleMaps ==
    ASSUME MapInv, NEW t \in Tasks, schedule(t), UNCHANGED <<threadVars, stopVars>>, ~ Quiet
    PROVE  Pool!Wake(t)
<1>1. Queued' = Queued \cup {t} /\ t \notin Woken
  BY ScheduleOwn DEF MapInv, IInv, schedule, CanSchedule, Woken, threadVars
<1>2. Woken' = Woken \cup {t}
  BY <1>1 DEF Woken, Held, threadVars
<1>3. Phase' = Phase
  BY PhaseKept DEF schedule, RunningOn, threadVars
<1>4. ~ Closed /\ Closed' = Closed
  BY ClosedQuiet DEF MapInv, Closed, threadVars, stopVars
<1> QED
  BY <1>1, <1>2, <1>3, <1>4 DEF Pool!Wake, Woken

(* What each step of a thread is to the pool.                              *)
LEMMA ThreadMaps ==
    ASSUME MapInv, MapInv', NEW th \in Threads, ThreadAction(th)
    PROVE  Pool!PoolNext \/ UNCHANGED Pool!poolVars
<1> USE DEF MapInv, IInv, TypeInv
<1> DEFINE t == ft[th]
<1>1. pc[th] \in Active => ~ Closed
  BY ClosedQuiet DEF Quiet
<1>2. UNCHANGED <<idleTerm, cpc>> => Closed' = Closed
  BY DEF Closed
<1>3. ASSUME UNCHANGED <<fibers, ft, idleTerm, state, yields, cpc>>,
             pc[th] \notin {"got", "run"},
             \E new : pc' = [pc EXCEPT ![th] = new] /\ new \notin {"got", "run"}
      PROVE  UNCHANGED Pool!poolVars
  <2>1. Woken' = Woken
    BY <1>3 DEF Woken, Queued, Held
  <2>2. Phase' = Phase
    BY <1>3, PhaseKept DEF RunningOn
  <2> QED
    BY <1>2, <1>3, <2>1, <2>2 DEF Pool!poolVars, Woken
<1>4. CASE Pick(th)
  <2>1. PICK i \in DOMAIN fibers : /\ ft' = [ft EXCEPT ![th] = fibers[i]]
                                   /\ fibers' = RemoveAt(fibers, i)
    BY <1>4 DEF Pick
  <2>2. i \in 1 .. Len(fibers) /\ fibers[i] \in Queued /\ fibers[i] \in Tasks
    BY LenProperties, ElementOfSeq DEF Queued, ToSet
  <2>3. Queued' = Queued \ {fibers[i]}
    BY <2>1, <2>2, RemoveAtSet DEF Queued, OwnInv, OneToken
  <2>4. \A u \in Tasks : Held(u)' <=> Held(u) \/ u = fibers[i]
    BY <1>4, <2>1 DEF Pick, Held
  <2>5. Woken' = Woken
    BY <2>2, <2>3, <2>4 DEF Woken
  <2>6. Phase' = Phase
    BY <1>4, <2>1, PhaseKept DEF Pick, RunningOn
  <2> QED
    BY <1>2, <1>4, <2>5, <2>6 DEF Pick, stopVars, Pool!poolVars, Woken
<1>5. CASE SwapIn(th)
  <2>1. t \in Tasks /\ t \notin Queued /\ Held(t)
    BY <1>5 DEF SwapIn, OwnInv, HeldState, OneToken, Holding, Active, Held
  <2>2. \A x \in Threads : x # th /\ pc[x] \in Holding => ft[x] # t
    BY <1>5 DEF SwapIn, OwnInv, Exclusive, Holding, Active
  <2>3. Woken' = Woken \ {t}
    <3>1. \A u \in Tasks : Held(u)' <=> Held(u) /\ u # t
      BY <1>5, <2>2 DEF SwapIn, Held, Holding, Active
    <3> QED
      BY <1>5, <2>1, <3>1 DEF SwapIn, Woken, Queued
  <2>4. Phase[t] \in {"new", "suspended"}
    BY <1>5, <2>1, <2>2, PhaseOf DEF SwapIn, OwnInv, RunningOn, Holding, Active
  <2>5. Phase' = [Phase EXCEPT ![t] = "running"]
    <3>1. Phase'[t] = "running"
      BY <1>5, <2>1, PhaseOfNext DEF SwapIn, OwnInv, RunningOn
    <3>2. ASSUME NEW u \in Tasks, u # t PROVE Phase'[u] = Phase[u]
      BY <1>5, <3>2 DEF SwapIn, Phase, RunningOn, Fresh
    <3> QED
      BY <2>1, <3>1, <3>2 DEF Phase
  <2>6. ~ Closed /\ Closed' = Closed
    BY <1>1, <1>2, <1>5 DEF SwapIn, Active, stopVars
  <2>7. Pool!Resume(t)
    BY <2>1, <2>3, <2>4, <2>5, <2>6 DEF Pool!Resume, Woken
  <2> QED
    BY <2>1, <2>7 DEF Pool!PoolNext
<1>6. CASE SkipTerm(th)
  <2>1. t \in Tasks /\ t \notin Queued /\ Held(t) /\ Phase[t] = "ended"
    BY <1>6, PhaseOf DEF SkipTerm, OwnInv, HeldState, OneToken, Holding, Active, Held
  <2>2. \A u \in Tasks : Held(u)' <=> Held(u) /\ u # t
    BY <1>6 DEF SkipTerm, Held, TakenOnce
  <2>3. Woken' = Woken \ {t}
    BY <1>6, <2>1, <2>2 DEF SkipTerm, Woken, Queued, taskVars
  <2>4. Phase' = Phase
    BY <1>6, PhaseKept DEF SkipTerm, RunningOn, taskVars
  <2>5. ~ Closed /\ Closed' = Closed
    BY <1>1, <1>2, <1>6 DEF SkipTerm, Active, stopVars
  <2>6. Pool!Discard(t)
    BY <2>1, <2>3, <2>4, <2>5 DEF Pool!Discard, Woken
  <2> QED
    BY <2>1, <2>6 DEF Pool!PoolNext
<1>7. CASE SwappedOut(th) \/ PickNone(th) \/ Exit(th) \/ IdleIn(th) \/ IdleOut(th)
  BY <1>3, <1>7 DEF SwappedOut, PickNone, Exit, IdleIn, IdleOut, taskVars, stopVars
<1>8. CASE Settle(th)
  <2>1. t \in Tasks
    BY <1>8 DEF Settle, OwnInv, HeldState, Holding, OnFiber
  <2>2. Woken' = Woken
    BY <1>8 DEF Settle, Woken, Queued, Held
  <2>3. \A x \in Threads, u \in Tasks : RunningOn(x, u)' = RunningOn(x, u)
    BY <1>8 DEF Settle, RunningOn
  <2>4. Phase' = Phase
    <3>1. CASE state[t] = "TERM"
      BY <1>8, <2>3, <3>1, PhaseKept DEF Settle
    <3>2. CASE state[t] # "TERM"
      <4>1. state[t] = "EXEC" /\ yields[t] > 0 /\ state' = [state EXCEPT ![t] = "INIT"]
        BY <1>8, <3>2 DEF Settle, OwnInv, HeldState, SuspensionCounted
      <4>2. \A x \in Threads : ~ RunningOn(x, t)
        BY <1>8, <2>1, <3>2 DEF Settle, OwnInv, Exclusive, RunningOn, Holding, Active, OnFiber
      <4>3. Phase[t] = "suspended"
        BY <2>1, <4>1, <4>2, PhaseOf DEF OwnInv, Fresh
      <4>4. Phase'[t] = "suspended"
        BY <1>8, <2>1, <2>3, <4>1, <4>2, PhaseOfNext DEF Settle, OwnInv, Fresh
      <4>5. ASSUME NEW u \in Tasks, u # t PROVE Phase'[u] = Phase[u]
        BY <1>8, <2>3, <4>1, <4>5 DEF Settle, Phase, Fresh
      <4> QED
        BY <4>3, <4>4, <4>5, PhaseFunction
    <3> QED
      BY <3>1, <3>2
  <2> QED
    BY <1>2, <1>8, <2>2, <2>4 DEF Settle, stopVars, Pool!poolVars, Woken
<1>9. CASE Idle(th)
  <2>1. CASE Stopping
    <3>1. Quiet
      BY <2>1, NobodyActive DEF Stopping, Quiet
    <3>2. Closed'
      BY <1>9, <2>1 DEF Idle, Closed
    <3> QED
      BY <1>9, <3>1, <3>2, CloseOrStay DEF Idle, Quiet, taskVars, Pool!PoolNext
  <2>2. CASE ~ Stopping
    <3>1. ~ idleTerm[th]
      BY <2>2, QuietMeansStopping DEF QuietInv
    <3>2. UNCHANGED idleTerm
      BY <1>9, <2>2, <3>1 DEF Idle
    <3>3. pc[th] = "idle" /\ UNCHANGED <<fibers, ft, state, yields, cpc>>
      BY <1>9 DEF Idle, taskVars, stopVars
    <3>4. pc' = [pc EXCEPT ![th] = "idleout"]
      BY <1>9 DEF Idle
    <3>5. \E new : pc' = [pc EXCEPT ![th] = new] /\ new \notin {"got", "run"}
      BY <3>4, "idleout" \notin {"got", "run"}, Zenon
    <3> QED
      BY <1>3, <3>2, <3>3, <3>5
  <2> QED
    BY <2>1, <2>2
<1>10. CASE \E u \in Tasks : TaskSchedule(th, u)
  BY <1>10, ScheduleMaps DEF TaskSchedule, Quiet, Active, Pool!PoolNext
<1>11. CASE Arm(th)
  <2>1. t \in Tasks
    BY <1>11 DEF Arm, OwnInv, HeldState, Holding, Active
  <2>2. Woken' = Woken
    BY <1>11 DEF Arm, Woken, Queued, Held, threadVars
  <2>3. Phase' = Phase
    <3>1. Phase'[t] = "running" /\ Phase[t] = "running"
      BY <1>11, <2>1, PhaseOf, PhaseOfNext DEF Arm, OwnInv, RunningOn, threadVars
    <3>2. ASSUME NEW u \in Tasks, u # t PROVE Phase'[u] = Phase[u]
      BY <1>11, <3>2 DEF Arm, Phase, RunningOn, Fresh, threadVars
    <3> QED
      BY <3>1, <3>2, PhaseFunction
  <2> QED
    BY <1>2, <1>11, <2>2, <2>3 DEF Arm, threadVars, stopVars, Pool!poolVars, Woken
<1>12. CASE Yield(th) \/ Finish(th)
  <2>1. t \in Tasks /\ state[t] = "EXEC" /\ RunningOn(th, t) /\ Phase[t] = "running"
    BY <1>12, PhaseOf DEF Yield, Finish, OwnInv, HeldState, Holding, Active, RunningOn
  <2>2. \A x \in Threads : x # th /\ pc[x] \in Holding => ft[x] # t
    BY <1>12, <2>1 DEF Yield, Finish, OwnInv, Exclusive, Holding, Active
  <2>3. Woken' = Woken
    BY <1>12 DEF Yield, Finish, Woken, Queued, Held, taskVars
  <2>4. \A x \in Threads : ~ RunningOn(x, t)'
    BY <1>12, <2>2 DEF Yield, Finish, RunningOn, Holding, Active
  <2>5. ASSUME NEW u \in Tasks, u # t PROVE Phase'[u] = Phase[u]
    <3>1. \A x \in Threads : RunningOn(x, u)' = RunningOn(x, u)
      BY <1>12, <2>5 DEF Yield, Finish, RunningOn
    <3> QED
      BY <1>12, <2>5, <3>1 DEF Yield, Finish, Phase, Fresh, taskVars
  <2>6. Closed' = Closed
    BY <1>2, <1>12 DEF Yield, Finish, stopVars
  <2>7. CASE Yield(th)
    <3>1. Phase'[t] = "suspended"
      BY <2>1, <2>4, <2>7, PhaseOfNext DEF Yield, OwnInv, Fresh, taskVars
    <3>2. Phase' = [Phase EXCEPT ![t] = "suspended"]
      BY <2>5, <3>1 DEF Phase
    <3>3. Pool!Suspend(t)
      BY <2>1, <2>3, <2>6, <3>2 DEF Pool!Suspend, Woken
    <3> QED
      BY <2>1, <3>3 DEF Pool!PoolNext
  <2>8. CASE Finish(th)
    <3>1. Phase'[t] = "ended"
      BY <2>1, <2>8, PhaseOfNext DEF Finish, OwnInv
    <3>2. Phase' = [Phase EXCEPT ![t] = "ended"]
      BY <2>5, <3>1 DEF Phase
    <3>3. t \notin Woken
      BY <2>2, <2>8 DEF Finish, Woken, Held, Holding, Active
    <3>4. Pool!End(t)
      BY <2>1, <2>3, <2>6, <3>2, <3>3 DEF Pool!End, Woken
    <3> QED
      BY <2>1, <3>4 DEF Pool!PoolNext
  <2> QED
    BY <1>12, <2>7, <2>8
<1> QED
  BY <1>4, <1>5, <1>6, <1>7, <1>8, <1>9, <1>10, <1>11, <1>12 DEF ThreadAction

(* start() and stop() close the pool or do not concern it.                 *)
LEMMA StopMaps ==
    ASSUME MapInv, MapInv', StopAction
    PROVE  Pool!PoolNext \/ UNCHANGED Pool!poolVars
<1> USE DEF MapInv, IInv, TypeInv, taskVars, threadVars
<1>1. /\ UNCHANGED <<taskVars, ft, idleTerm>>
      /\ \A x \in Threads : pc'[x] # pc[x] => pc[x] = "off" /\ pc'[x] = "scan"
  BY DEF StopAction, start, Stop, Raise, StopCheck, RootBack, Join, PhaseInv
<1>2. CASE cpc' = "done"
  <2>1. fibers = <<>> /\ Closed'
    BY <1>1, <1>2 DEF QuietInv, Quiet, Closed
  <2>2. \A x \in Threads : pc[x] \notin Active
    BY <1>1, <1>2 DEF QuietInv, Quiet, Active
  <2> QED
    BY <1>1, <2>1, <2>2, CloseOrStay DEF Pool!PoolNext
<1>3. CASE cpc' # "done"
  <2>1. cpc # "done"
    BY <1>3 DEF StopAction, start, Stop, Raise, StopCheck, RootBack, Join
  <2>2. Closed' = Closed
    BY <1>1, <1>3, <2>1 DEF Closed
  <2>3. Woken' = Woken
    BY <1>1 DEF Woken, Queued, Held
  <2>4. Phase' = Phase
    BY <1>1, PhaseKept DEF RunningOn
  <2> QED
    BY <2>2, <2>3, <2>4 DEF Pool!poolVars, Woken
<1> QED
  BY <1>2, <1>3

LEMMA InitMaps == Init => Pool!PoolInit
<1> SUFFICES ASSUME Init PROVE Pool!PoolInit
  OBVIOUS
<1>1. Phase = [t \in Tasks |-> "new"]
  BY DEF Init, Phase, RunningOn, Fresh
<1>2. Woken = {}
  BY DEF Init, Woken, Queued, ToSet, Held
<1>3. Closed = FALSE
  BY DEF Init, Closed
<1> QED
  BY <1>1, <1>2, <1>3 DEF Pool!PoolInit, Woken

LEMMA StepMaps ==
    MapInv /\ MapInv' /\ [Next]_vars => [Pool!PoolNext]_Pool!poolVars
<1> SUFFICES ASSUME MapInv, MapInv', [Next]_vars
             PROVE  Pool!PoolNext \/ UNCHANGED Pool!poolVars
  OBVIOUS
<1>1. ASSUME NEW t \in Tasks, CallerSchedule(t) PROVE Pool!PoolNext
  <2>1. ~ Quiet
    BY <1>1 DEF CallerSchedule, MapInv, IInv, PhaseInv, Quiet
  <2> QED
    BY <1>1, <2>1, ScheduleMaps DEF CallerSchedule, Pool!PoolNext
<1>2. CASE UNCHANGED vars
  BY <1>2 DEF vars, taskVars, threadVars, stopVars, Pool!poolVars,
              Phase, RunningOn, Fresh, Queued, Held, Closed
<1> QED
  BY <1>1, <1>2, ThreadMaps, StopMaps, NextCases

LEMMA MapInvariance == Spec => []MapInv
<1>1. Init => MapInv
  BY InitInv DEF Init, MapInv, TakenOnce, SuspensionCounted, Queued, ToSet
<1>2. MapInv /\ [Next]_vars => MapInv'
  BY StepInv, TakenStep, SuspensionStep DEF MapInv
<1> QED
  BY <1>1, <1>2, PTL DEF Spec

(* The scheduler implements the pool: every wake-up lets its task run      *)
(* exactly once, never while it runs already, and the scheduler closes     *)
(* only when no wake-up is left, for any number of threads and tasks.      *)
THEOREM Refinement == Spec => ImplementsPool
BY InitMaps, StepMaps, MapInvariance, PTL DEF Spec, ImplementsPool, Pool!PoolSpec
=============================================================================
