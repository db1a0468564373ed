------------------------------- MODULE WebDav -------------------------------
(***************************************************************************)
(* The WebDAV module: the lock table (webdav_lock.cpp) and the requests    *)
(* that test it (webdav_action.cpp), handled by several threads.  Requests *)
(* that change neither the table nor a file are left out.  What the files  *)
(* hold is left out too: a file operation is the step act, a path exists   *)
(* or not when a request comes (m_stat), and the operation may fail.       *)
(*                                                                         *)
(* A path is the sequence of its components; those in Dirs end with '/'.   *)
(* A lock is known by its token, its number in `lock`; what rand() returns *)
(* is taken to be new.  m_locks is the set in tree order.                  *)
(***************************************************************************)
EXTENDS Integers, SequencesExt

CONSTANTS
    Threads,        \* the threads of http_process, which serve the requests
    Sends,          \* per thread the requests it gets, <<method, path>>
    Paths, Dirs,    \* the paths clients use, the components that are directories
    Timeouts,       \* "Timeout: Second-n"
    MaxLocks,       \* bound: LOCK requests granted
    MaxEntries,     \* bound: entries in m_locks, which may hold a lock twice
    MaxClock        \* bound: the clock

ASSUME DavAssumption ==
    /\ Timeouts \subseteq Int
    /\ \A p \in Paths :
        /\ p \in Seq(ToSet(p)) /\ p # <<>>
        /\ \A i \in 1 .. Len(p) - 1 : p[i] \in Dirs

VARIABLES
    m_locks,        \* WebDavLockManager::m_locks
    lock,           \* the WebDavLock objects
    held,           \* the locks granted and not given up by their owner
    clock,          \* time(0)
    step, req,      \* per thread: how far its request has come, and the request
    workers,        \* the threads configured
    refreshes       \* history: "missed" if a refresh has not found its lock
                    \* in the table, "found" if each has, "none" if there was none

tableVars == <<m_locks, lock, held, refreshes>>
davVars == <<tableVars, clock, step, req, workers>>

Infinity == -1      \* DAV_INFINITY_DEPTH
Invalid  == -2      \* DAV_INVALID_DEPTH

IsDir(p) == Last(p) \in Dirs
Deeper(p, q) == \E i \in Len(p) + 1 .. Len(q) : q[i] \in Dirs

-----------------------------------------------------------------------------
(* std::set: `before` is Comparator(lhs, rhs), with the address of a lock  *)
(* taken as its number.                                                    *)
before(l, k) == \/ lock[l].expire < lock[k].expire
                \/ lock[l].expire = lock[k].expire /\ l < k

(* Where a descent in the tree s may end that goes right at the locks in   *)
(* `right`: if s is out of order this depends on the shape of the tree, of *)
(* which three nodes or more have neither the first nor the last as root.  *)
Descents(s, right) ==
    {i \in 1 .. Len(s) + 1 :
        /\ i = 1 \/ s[i - 1] \in right
        /\ i = Len(s) + 1 \/ s[i] \notin right
        /\ Len(s) < 3 \/ \E rt \in 2 .. Len(s) - 1 : rt < i <=> s[rt] \in right}

(* find: lower_bound, and the lock found there is not after l; 0 is end(). *)
Finds(l) ==
    LET at == Descents(m_locks, {k \in ToSet(m_locks) : before(k, l)})
        hit(i) == i <= Len(m_locks) /\ ~ before(l, m_locks[i])
    IN {IF hit(i) THEN i ELSE 0 : i \in at}

ErasedAt(i) == IF i = 0 THEN m_locks ELSE RemoveAt(m_locks, i)

(* insert: nothing if the lock before the place found is the same.         *)
Inserted(s, l, right) ==
    {IF i > 1 /\ s[i - 1] = l THEN s ELSE InsertAt(s, i, l) : i \in Descents(s, right)}

(* eraseExpired: what may be left.                                         *)
Unexpired ==
    IF m_locks = <<>> \/ lock[Head(m_locks)].expire > clock THEN {m_locks}
    ELSE {SubSeq(m_locks, j, Len(m_locks)) : j \in {j \in 1 .. Len(m_locks) + 1 :
            \E i \in Descents(m_locks, {k \in ToSet(m_locks) : lock[k].expire < clock}) :
                /\ i <= j /\ \A k \in i .. j - 1 : lock[m_locks[k]].expire = clock
                /\ j <= Len(m_locks) => lock[m_locks[j]].expire # clock}}

(* Mutant: only upwards, a lock inside p is not seen.                      *)
coversUp(l, p, depth) ==
    LET q == lock[l].path
    IN q = p \/ (IsPrefix(q, p) /\ IsDir(q) /\ (lock[l].infinite \/ ~ Deeper(q, p)))

(* The test of get() for one lock.                                         *)
covers(l, p, depth) ==
    LET q == lock[l].path IN
    \/ q = p
    \/ /\ Len(q) < Len(p) /\ IsPrefix(q, p)
       /\ IsDir(q)
       /\ lock[l].infinite \/ ~ Deeper(q, p)
    \/ /\ Len(q) > Len(p) /\ IsPrefix(p, q)
       /\ depth \in {0, Infinity}
       /\ IsDir(p)
       /\ depth = 0 => ~ Deeper(p, q)

(* get(): 0 is nullptr.                                                    *)
FirstCovering(s, p, depth) ==
    LET i == SelectInSeq(s, LAMBDA l : covers(l, p, depth))
    IN IF i = 0 THEN 0 ELSE s[i]

-----------------------------------------------------------------------------
NoReq == [method |-> "none"]

DavInit ==
    /\ m_locks = <<>> /\ lock = <<>> /\ held = {} /\ refreshes = "none"
    /\ clock = 0
    /\ step = [t \in Threads |-> "idle"]
    /\ req = [t \in Threads |-> NoReq]

Goto(t, where, r) == step' = [step EXCEPT ![t] = where] /\ req' = [req EXCEPT ![t] = r]
Answer(t) == Goto(t, "idle", NoReq)
Gets(t, method, p) == step[t] = "idle" /\ t \in workers /\ <<method, p>> \in Sends[t]

(* "Depth: 0" or "infinity"; there is nothing below a file.                *)
Depths(p) == IF IsDir(p) THEN {0, Infinity} ELSE {Infinity}

(* lock_action: get(), and what follows from it: the lock is the client's  *)
(* own and is refreshed, is someone else's (LOCKED, PRECONDITION_FAILED),  *)
(* or there is none.                                                       *)
LockGet(t) ==
    /\ \E p \in Paths : Gets(t, "LOCK", p) /\
       \E timeout \in Timeouts, left \in Unexpired, depth \in Depths(p) :
        LET m == FirstCovering(left, p, depth) IN
        /\ m_locks' = left
        /\ \/ m = 0 /\ Goto(t, "add", [method |-> "LOCK", path |-> p, expire |-> clock + timeout,
                                       infinite |-> depth # 0])
           \/ m # 0 /\ Goto(t, "expire", [method |-> "LOCK", token |-> m, expire |-> clock + timeout])
           \/ m # 0 /\ Answer(t)
    /\ UNCHANGED <<lock, held, clock, workers, refreshes>>

(* setExpire, without the lock of the table.                               *)
SetExpire(t) ==
    /\ step[t] = "expire"
    /\ lock' = [lock EXCEPT ![req[t].token].expire = req[t].expire]
    /\ Goto(t, "refresh", req[t])
    /\ refreshes' = IF refreshes = "none" THEN "found" ELSE refreshes
    /\ UNCHANGED <<m_locks, held, clock, workers>>

Refresh(t) ==
    LET l == req[t].token IN
    /\ step[t] = "refresh"
    /\ \E i \in Finds(l) :
        /\ i = 0 => Len(m_locks) < MaxEntries
        /\ m_locks' \in Inserted(ErasedAt(i), l, {k \in ToSet(m_locks) : k = l \/ before(k, l)})
        /\ refreshes' = IF i = 0 THEN "missed" ELSE refreshes
    /\ Answer(t)
    /\ UNCHANGED <<lock, held, clock, workers>>

(* add(); then an empty file is made, if there is none (or that fails, and *)
(* the lock stays).                                                        *)
LockAdd(t) ==
    LET l == Len(lock) + 1 IN
    /\ step[t] = "add" /\ l <= MaxLocks
    /\ lock' = Append(lock, [path |-> req[t].path, expire |-> req[t].expire,
                             infinite |-> req[t].infinite])
    /\ m_locks' \in Inserted(m_locks, l, {k \in ToSet(m_locks) : lock[k].expire <= req[t].expire})
    /\ held' = held \cup {l}
    /\ Answer(t)
    /\ UNCHANGED <<clock, workers, refreshes>>

UnlockGet(t) ==
    /\ \E p \in Paths : Gets(t, "UNLOCK", p) /\ \E left \in Unexpired :
        LET m == FirstCovering(left, p, Invalid) IN
        /\ m_locks' = left
        /\ \/ m # 0 /\ Goto(t, "cancel", [method |-> "UNLOCK", token |-> m])
           \/ Answer(t)
    /\ UNCHANGED <<lock, held, clock, workers, refreshes>>

(* dav_verify_lock of the path, or of the source: with deleteLock the      *)
(* client's own lock on that very path is cancelled.                       *)
Passed(t, r) == Goto(t, IF r.method \in {"COPY", "MOVE"} THEN "header" ELSE "act", r)
VerifyLock(t, method, p, deleteLock) ==
    Gets(t, method, p) /\ \E left \in Unexpired :
        LET m == FirstCovering(left, p, Invalid)
            r == [method |-> method, path |-> p, to |-> p, token |-> m]
        IN
        /\ m_locks' = left
        /\ \/ m # 0 /\ Answer(t)                     \* without its token
           \/ IF deleteLock /\ m # 0 /\ lock[m].path = p THEN Goto(t, "cancel", r) ELSE Passed(t, r)
        /\ UNCHANGED <<lock, held, clock, workers, refreshes>>

PutAction(t)    == \E p \in Paths : ~ IsDir(p) /\ VerifyLock(t, "PUT", p, FALSE)
MkcolAction(t)  == \E p \in Paths : VerifyLock(t, "MKCOL", p, FALSE)
DeleteAction(t) == \E p \in Paths : VerifyLock(t, "DELETE", p, TRUE)
CopyAction(t)   == \E p \in Paths : VerifyLock(t, "COPY", p, TRUE)
MoveAction(t)   == \E p \in Paths : VerifyLock(t, "MOVE", p, TRUE)

Cancel(t) ==
    /\ step[t] = "cancel"
    /\ \E i \in Finds(req[t].token) : m_locks' = ErasedAt(i)
    /\ held' = held \ {req[t].token}
    /\ IF req[t].method = "UNLOCK" THEN Answer(t) ELSE Passed(t, req[t])
    /\ UNCHANGED <<lock, clock, workers, refreshes>>

(* Destination, Depth and Overwrite are looked at when the lock has been   *)
(* given up already; the destination is verified with the same token.      *)
BadHeader(t) ==
    /\ step[t] = "header" \/ (step[t] = "act" /\ req[t].method = "DELETE")
    /\ Answer(t)
    /\ UNCHANGED <<tableVars, clock, workers>>

(* Mutant: the destination is not tested.                                  *)
VerifyToNot(t) ==
    /\ step[t] = "header"
    /\ \E to \in Paths : to # req[t].path /\ Goto(t, "act", [req[t] EXCEPT !.to = to])
    /\ UNCHANGED <<tableVars, clock, workers>>

VerifyTo(t) ==
    /\ step[t] = "header"
    /\ \E to \in Paths, left \in Unexpired :
        LET m == FirstCovering(left, to, Invalid) IN
        /\ to # req[t].path
        /\ m_locks' = left
        /\ \/ m = 0 /\ Goto(t, "act", [req[t] EXCEPT !.to = to])
           \/ m # 0 /\ req[t].token \in {0, m} /\ Goto(t, "act", [req[t] EXCEPT !.to = to, !.token = m])
           \/ Answer(t)
    /\ UNCHANGED <<lock, held, clock, workers, refreshes>>

(* The file operation, after which the request is answered.                *)
Act(t) ==
    /\ step[t] = "act"
    /\ Answer(t)
    /\ UNCHANGED <<tableVars, clock, workers>>

Pass ==
    /\ clock < MaxClock
    /\ clock' = clock + 1
    /\ UNCHANGED <<tableVars, step, req, workers>>

DavStep(t) ==
    \/ LockGet(t) \/ SetExpire(t) \/ Refresh(t) \/ LockAdd(t)
    \/ UnlockGet(t) \/ Cancel(t)
    \/ PutAction(t) \/ MkcolAction(t) \/ DeleteAction(t) \/ CopyAction(t) \/ MoveAction(t)
    \/ BadHeader(t) \/ VerifyTo(t) \/ Act(t)

DavNext == Pass \/ \E t \in Threads : DavStep(t)

DavSpec == (DavInit /\ workers \in SUBSET Threads) /\ [][DavNext]_davVars

-----------------------------------------------------------------------------
Live(l) == l \in held /\ lock[l].expire > clock
serial == \E t \in Threads : workers = {t}

(* A refresh looks a lock up under a key that has changed already.  It may *)
(* miss it, and then the table is out of order.  Till then it is in order, *)
(* but for the lock of a request that is about to refresh it.              *)
orderly == refreshes = "none" \/ (serial /\ refreshes = "found")

(* What a lock is for: its path, everything below it, or, if it was asked  *)
(* for with depth 0, the files directly in it.                             *)
protects(l, p) ==
    LET q == lock[l].path IN
    IsPrefix(q, p) /\ (q = p \/ lock[l].infinite \/ (Len(p) = Len(q) + 1 /\ ~ IsDir(p)))

(* A lock stays in the table until its owner gives it up or lets it expire *)
(* (until then others are refused), however often it is refreshed: see     *)
(* eraseExpired, which erases a front part of the set.                     *)
LocksStay == \A l \in DOMAIN lock : Live(l) => l \in ToSet(m_locks)

(* As long as each refresh has found its lock.                             *)
LocksKept == orderly => LocksStay

(* With one http worker, and if no refresh has missed its lock, two        *)
(* clients never hold locks one of which protects the path of the other:   *)
(* LOCK looks up and down the tree before it adds.                         *)
LocksDisjoint ==
    serial /\ orderly =>
        \A l, k \in DOMAIN lock : l # k /\ Live(l) /\ Live(k) => ~ protects(l, lock[k].path)

LockTable == LocksKept /\ LocksDisjoint

(* Nor does any request then change what a live lock of someone else       *)
(* protects, at the moment of the change and not only of the test.         *)
GuardedWrites ==
    [][\A t \in Threads : serial /\ orderly /\ Act(t) =>
          \A l \in DOMAIN lock : Live(l) /\ l # req[t].token =>
              /\ req[t].method # "COPY" => ~ protects(l, req[t].path)
              /\ ~ protects(l, req[t].to)]_davVars
=============================================================================
