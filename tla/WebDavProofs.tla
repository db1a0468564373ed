---------------------------- MODULE WebDavProofs ----------------------------
(***************************************************************************)
(* Proof that the lock table of the WebDAV module keeps the locks that are *)
(* held, that with one worker no two of them protect the path of one       *)
(* another and no file operation changes what someone else has locked,     *)
(* for any paths, requests, timeouts and number of locks, as long as each  *)
(* refresh has found its lock.  The table is a set in order only while no  *)
(* key is changed in it: the searches are shown to be right for a table in *)
(* order, and the one lock whose key has changed is taken apart.           *)
(***************************************************************************)
EXTENDS WebDav, SequenceTheorems, FiniteSetTheorems, WellFoundedInduction, TLAPS

-----------------------------------------------------------------------------
(***************************************************************************)
(* The inductive invariant                                                 *)
(***************************************************************************)
DavSteps == {"idle", "add", "expire", "refresh", "cancel", "header", "act"}
Guarded == {"PUT", "MKCOL", "DELETE", "COPY", "MOVE"}
Lock_ == [path : Paths, expire : Int, infinite : BOOLEAN]

(* What a request carries from one step to the next.                       *)
ReqTypes(t) ==
    /\ step[t] = "add" =>
          req[t] \in [method : {"LOCK"}, path : Paths, expire : Int, infinite : BOOLEAN]
    /\ step[t] \in {"expire", "refresh"} =>
          req[t] \in [method : {"LOCK"}, token : DOMAIN lock, expire : Int]
    /\ step[t] = "cancel" /\ req[t].method = "UNLOCK" =>
          req[t] \in [method : {"UNLOCK"}, token : DOMAIN lock]
    /\ step[t] \in {"cancel", "header", "act"} /\ ~ (step[t] = "cancel" /\ req[t].method = "UNLOCK") =>
          req[t] \in [method : Guarded, path : Paths, to : Paths, token : 0 .. Len(lock)]
    /\ step[t] = "cancel" => req[t].token # 0

DavTypes ==
    /\ lock \in Seq(Lock_)
    /\ m_locks \in Seq(DOMAIN lock)
    /\ held \subseteq DOMAIN lock
    /\ clock \in Int
    /\ workers \subseteq Threads
    /\ refreshes \in {"none", "found", "missed"}
    /\ step \in [Threads -> DavSteps]
    /\ DOMAIN req = Threads
    /\ \A t \in Threads : ReqTypes(t)
    /\ \A t \in Threads : step[t] # "idle" => t \in workers

(* The locks whose key has changed and which are not yet put in again.     *)
Changing == {req[t].token : t \in {u \in Threads : step[u] = "refresh"}}

Ordered(s) == \A i, j \in DOMAIN s : i < j => before(s[i], s[j])

(* The table, but for those, is in order, and what is in it is held.       *)
OrderInv ==
    orderly =>
        /\ refreshes = "none" => Changing = {}
        /\ \A i, j \in DOMAIN m_locks : i < j =>
              /\ m_locks[i] # m_locks[j]
              /\ \/ m_locks[i] \in Changing
                 \/ m_locks[j] \in Changing
                 \/ before(m_locks[i], m_locks[j])
        /\ ToSet(m_locks) \subseteq held

(* What a lock on q is for: see protects.                                  *)
Guards(q, infinite, p) ==
    IsPrefix(q, p) /\ (q = p \/ infinite \/ (Len(p) = Len(q) + 1 /\ ~ IsDir(p)))

(* What the test of a request has found still holds when it is acted on.   *)
AddInv(t) ==
    step[t] = "add" =>
        \A l \in DOMAIN lock : Live(l) =>
            /\ ~ protects(l, req[t].path)
            /\ ~ Guards(req[t].path, req[t].infinite, lock[l].path)

ExpireInv(t) ==
    step[t] \in {"expire", "refresh"} =>
        /\ req[t].token \in ToSet(m_locks)
        /\ \A l \in DOMAIN lock : Live(l) /\ l # req[t].token =>
              ~ protects(l, lock[req[t].token].path) /\ ~ protects(req[t].token, lock[l].path)

ActInv(t) ==
    /\ step[t] = "cancel" /\ req[t].method # "UNLOCK" => req[t].to = req[t].path
    /\ step[t] \in {"cancel", "header", "act"} /\ req[t].method # "UNLOCK" =>
          \A l \in DOMAIN lock : Live(l) /\ l # req[t].token => ~ protects(l, req[t].path)
    /\ step[t] = "act" =>
          \A l \in DOMAIN lock : Live(l) /\ l # req[t].token => ~ protects(l, req[t].to)

TestedInv == serial /\ orderly => \A t \in Threads : AddInv(t) /\ ExpireInv(t) /\ ActInv(t)

DavIInv == DavTypes /\ OrderInv /\ LocksKept /\ LocksDisjoint /\ TestedInv

-----------------------------------------------------------------------------
(* A set of numbers that is not empty has a least element.                 *)
LEMMA LeastNumber ==
    ASSUME NEW S \in SUBSET Nat, S # {}
    PROVE  \E n \in S : \A m \in 0 .. n - 1 : m \notin S
<1> DEFINE R == {ss \in Nat \X Nat : ss[1] < ss[2]}
<1>1. IsWellFoundedOn(R, Nat)
  BY NatLessThanWellFounded DEF OpToRel
<1>2. PICK n \in S : \A m \in S : <<m, n>> \notin R
  <2> HIDE DEF R
  <2> QED
    BY <1>1, WFMin
<1>3. ASSUME NEW m \in 0 .. n - 1, m \in S PROVE FALSE
  <2>1. m \in Nat /\ n \in Nat /\ m < n
    BY <1>2, <1>3
  <2>2. <<m, n>> \in Nat \X Nat /\ <<m, n>>[1] = m /\ <<m, n>>[2] = n
    BY <2>1
  <2> QED
    BY <1>2, <1>3, <2>1, <2>2
<1> QED
  BY <1>3

-----------------------------------------------------------------------------
(* Paths: a proper beginning of a path ends with a directory.              *)
Comps == UNION {ToSet(p) : p \in Paths}

LEMMA PathTypes ==
    ASSUME NEW p \in Paths
    PROVE  p \in Seq(Comps) /\ Len(p) \in Nat \ {0} /\ \A i \in 1 .. Len(p) - 1 : p[i] \in Dirs
<1>1. p \in Seq(ToSet(p)) /\ p # <<>> BY DavAssumption
<1>2. \A i \in 1 .. Len(p) : p[i] \in Comps BY <1>1 DEF Comps, ToSet
<1>3. p \in Seq(Comps)
  <2>1. p = [i \in 1 .. Len(p) |-> p[i]] /\ Len(p) \in Nat BY <1>1
  <2> QED BY <2>1, <1>2, IsASeq
<1> QED BY <1>1, <1>3, DavAssumption, EmptySeq

LEMMA PrefixElems ==
    ASSUME NEW p \in Paths, NEW q \in Paths
    PROVE  /\ IsPrefix(q, p) <=> Len(q) <= Len(p) /\ \A i \in 1 .. Len(q) : q[i] = p[i]
           /\ IsPrefix(q, p) /\ Len(q) = Len(p) => q = p
<1>1. /\ p \in Seq(Comps) /\ Len(p) \in Nat \ {0}
      /\ q \in Seq(Comps) /\ Len(q) \in Nat \ {0} BY PathTypes
<1>2. /\ SubSeq(q, 1, Len(q)) \in Seq(Comps)
      /\ Len(SubSeq(q, 1, Len(q))) = Len(q)
      /\ \A i \in 1 .. Len(q) : SubSeq(q, 1, Len(q))[i] = q[i]
  BY <1>1, SubSeqProperties
<1>3. ASSUME Len(q) <= Len(p)
      PROVE /\ SubSeq(p, 1, Len(q)) \in Seq(Comps)
            /\ Len(SubSeq(p, 1, Len(q))) = Len(q)
            /\ \A i \in 1 .. Len(q) : SubSeq(p, 1, Len(q))[i] = p[i]
  <2>1. \A i \in 1 .. Len(q) : p[i] \in Comps BY <1>1, <1>3
  <2> QED BY <1>1, <2>1, SubSeqProperties
<1>4. IsPrefix(q, p) <=> Len(q) <= Len(p) /\ \A i \in 1 .. Len(q) : q[i] = p[i]
  BY <1>1, <1>2, <1>3, SeqEqual DEF IsPrefix
<1>5. ASSUME IsPrefix(q, p), Len(q) = Len(p) PROVE q = p
  BY <1>4, <1>5, <1>1, SeqEqual
<1> QED BY <1>4, <1>5

(* A lock for q is seen by who asks for what it is for, and a lock that is *)
(* to be added sees those on what it is to be for.                         *)
LEMMA SeenFromBelow ==
    ASSUME NEW l, lock[l].path \in Paths, NEW p \in Paths, NEW d, protects(l, p)
    PROVE  covers(l, p, d)
<1> DEFINE q == lock[l].path
<1>1. CASE q = p BY <1>1 DEF covers
<1>2. CASE q # p
  <2>1. /\ IsPrefix(q, p) /\ Len(q) < Len(p)
        /\ \A i \in 1 .. Len(q) : q[i] = p[i]
        /\ Len(q) \in Nat \ {0} /\ Len(p) \in Nat
        /\ \A i \in 1 .. Len(p) - 1 : p[i] \in Dirs
    BY <1>2, PathTypes, PrefixElems DEF protects
  <2>2. IsDir(q) BY <2>1 DEF IsDir, Last
  <2>3. lock[l].infinite \/ ~ Deeper(q, p)
    BY <1>2, <2>1 DEF protects, Deeper, IsDir, Last
  <2> QED BY <2>1, <2>2, <2>3 DEF covers
<1> QED BY <1>1, <1>2

LEMMA SeenFromAbove ==
    ASSUME NEW l, lock[l].path \in Paths, NEW p \in Paths, NEW d \in Depths(p),
           Guards(p, d # 0, lock[l].path)
    PROVE  covers(l, p, d)
<1> DEFINE q == lock[l].path
<1>1. CASE q = p BY <1>1 DEF covers
<1>2. CASE q # p
  <2>1. /\ IsPrefix(p, q) /\ Len(p) < Len(q)
        /\ \A i \in 1 .. Len(p) : q[i] = p[i]
        /\ Len(p) \in Nat \ {0} /\ Len(q) \in Nat
        /\ \A i \in 1 .. Len(q) - 1 : q[i] \in Dirs
    BY <1>2, PathTypes, PrefixElems DEF Guards
  <2>2. IsDir(p) BY <2>1 DEF IsDir, Last
  <2>3. d = 0 => ~ Deeper(p, q)
    BY <1>2, <2>1 DEF Guards, Deeper, IsDir, Last
  <2>4. d \in {0, Infinity} BY DEF Depths
  <2> QED BY <2>1, <2>2, <2>3, <2>4 DEF covers
<1> QED BY <1>1, <1>2

(* Of two locks for one path, one is for the path of the other.            *)
LEMMA OneGuard ==
    ASSUME NEW l, lock[l].path \in Paths, NEW m, lock[m].path \in Paths, NEW p \in Paths,
           lock[m].infinite \in BOOLEAN,
           protects(l, p), covers(m, p, Invalid)
    PROVE  protects(l, lock[m].path) \/ protects(m, lock[l].path)
<1> DEFINE ql == lock[l].path
           qm == lock[m].path
<1>0. /\ Len(p) \in Nat \ {0} /\ Len(ql) \in Nat \ {0} /\ Len(qm) \in Nat \ {0}
      /\ \A i \in 1 .. Len(p) - 1 : p[i] \in Dirs
  BY PathTypes
<1>1. CASE qm = p BY <1>1
<1>2. CASE qm # p
  <2>1. /\ Len(qm) < Len(p) /\ IsPrefix(qm, p) /\ IsDir(qm)
        /\ lock[m].infinite \/ ~ Deeper(qm, p)
    BY <1>2 DEF covers, Invalid, Infinity
  <2>2. /\ Len(ql) <= Len(p)
        /\ \A i \in 1 .. Len(ql) : ql[i] = p[i]
        /\ ql = p \/ lock[l].infinite \/ (Len(p) = Len(ql) + 1 /\ ~ IsDir(p))
    BY PrefixElems DEF protects
  <2>3. \A i \in 1 .. Len(qm) : qm[i] = p[i] BY <2>1, PrefixElems
  <2>4. CASE Len(ql) <= Len(qm)
    <3>1. \A i \in 1 .. Len(ql) : ql[i] = qm[i] BY <1>0, <2>2, <2>3, <2>4
    <3>2. IsPrefix(ql, qm) BY <3>1, <2>4, PrefixElems
    <3>3. ql = qm \/ lock[l].infinite
      BY <3>2, <2>1, <2>2, <2>4, <1>0, PrefixElems
    <3> QED BY <3>2, <3>3 DEF protects
  <2>5. CASE Len(qm) < Len(ql)
    <3>1. \A i \in 1 .. Len(qm) : qm[i] = ql[i] BY <1>0, <2>2, <2>3, <2>5
    <3>2. IsPrefix(qm, ql) BY <3>1, <2>5, <1>0, PrefixElems
    <3>3. ASSUME ~ lock[m].infinite PROVE Len(ql) = Len(qm) + 1 /\ ~ IsDir(ql)
      <4>1. \A i \in Len(qm) + 1 .. Len(p) : p[i] \notin Dirs BY <2>1, <3>3 DEF Deeper
      <4>2. ~ Len(qm) + 1 < Len(p)
        <5>1. ASSUME Len(qm) + 1 < Len(p) PROVE FALSE
          <6>1. Len(qm) + 1 \in 1 .. Len(p) - 1 /\ Len(qm) + 1 \in Len(qm) + 1 .. Len(p) BY <5>1, <1>0
          <6> QED BY <6>1, <4>1, <1>0
        <5> QED BY <5>1
      <4>3. Len(p) = Len(qm) + 1 /\ Len(ql) = Len(p) BY <4>2, <1>0, <2>1, <2>2, <2>5
      <4>4. ql = p BY <4>3, PrefixElems DEF protects
      <4> QED BY <4>1, <4>3, <4>4, <1>0 DEF IsDir, Last
    <3> QED BY <3>2, <3>3 DEF protects
  <2> QED BY <2>4, <2>5, <1>0
<1> QED BY <1>1, <1>2

-----------------------------------------------------------------------------
(* The order of the locks.                                                 *)
LEMMA BeforeTotal ==
    ASSUME DavTypes
    PROVE  /\ \A l, k \in DOMAIN lock : before(l, k) \/ before(k, l) \/ l = k
           /\ \A l, k \in DOMAIN lock : ~ (before(l, k) /\ before(k, l)) /\ ~ before(l, l)
           /\ \A l, k, m \in DOMAIN lock : before(l, k) /\ before(k, m) => before(l, m)
<1>1. /\ DOMAIN lock \subseteq Nat
      /\ \A l \in DOMAIN lock : lock[l].expire \in Int
  <2>1. lock \in Seq(Lock_) BY DEF DavTypes
  <2>2. DOMAIN lock = 1 .. Len(lock) /\ Len(lock) \in Nat BY <2>1, LenProperties
  <2>3. \A l \in DOMAIN lock : lock[l] \in Lock_ BY <2>1, <2>2, ElementOfSeq
  <2> QED BY <2>2, <2>3 DEF Lock_
<1> QED BY <1>1 DEF before

LEMMA TableTypes ==
    ASSUME DavTypes
    PROVE  /\ Len(m_locks) \in Nat /\ DOMAIN m_locks = 1 .. Len(m_locks)
           /\ \A i \in 1 .. Len(m_locks) : m_locks[i] \in DOMAIN lock
           /\ ToSet(m_locks) \subseteq DOMAIN lock
           /\ Len(lock) \in Nat /\ DOMAIN lock = 1 .. Len(lock)
           /\ \A l \in DOMAIN lock : lock[l] \in Lock_
BY LenProperties DEF DavTypes, ToSet

(* get() gives a lock of the table that covers the path, if there is one.  *)
LEMMA FirstFound ==
    ASSUME DavTypes, NEW s \in Seq(DOMAIN lock), NEW p, NEW d
    PROVE  /\ FirstCovering(s, p, d) = 0 => \A l \in ToSet(s) : ~ covers(l, p, d)
           /\ FirstCovering(s, p, d) # 0 =>
                 FirstCovering(s, p, d) \in ToSet(s) /\ covers(FirstCovering(s, p, d), p, d)
           /\ FirstCovering(s, p, d) \in 0 .. Len(lock)
<1> DEFINE I == {i \in 1 .. Len(s) : covers(s[i], p, d)}
           least == CHOOSE x \in I : \A y \in I : x <= y
<1>0. Len(s) \in Nat /\ DOMAIN s = 1 .. Len(s) /\ (\A i \in 1 .. Len(s) : s[i] \in DOMAIN lock)
  BY LenProperties
<1>1. FirstCovering(s, p, d) = IF (IF I # {} THEN least ELSE 0) = 0 THEN 0 ELSE s[IF I # {} THEN least ELSE 0]
  BY DEF FirstCovering, SelectInSeq, Min
<1>2. CASE I = {}
  <2>1. FirstCovering(s, p, d) = 0 BY <1>1, <1>2
  <2>2. \A l \in ToSet(s) : ~ covers(l, p, d) BY <1>2, <1>0 DEF ToSet
  <2> QED BY <2>1, <2>2, TableTypes
<1>3. CASE I # {}
  <2>1. \E x \in I : \A y \in I : x <= y
    <3>1. I \in SUBSET Nat BY <1>0
    <3>2. PICK n \in I : \A m \in 0 .. n - 1 : m \notin I BY <1>3, <3>1, LeastNumber
    <3> QED BY <3>1, <3>2
  <2>2. least \in I BY <2>1
  <2>b. \A x \in I : x # 0 BY <1>0
  <2>a. least # 0
    <3> HIDE DEF I, least
    <3> QED BY <2>2, <2>b
  <2>3. FirstCovering(s, p, d) = s[least]
    <3> HIDE DEF I
    <3>1. (IF I # {} THEN least ELSE 0) = least BY <1>3
    <3> HIDE DEF least
    <3> QED BY <1>1, <3>1, <2>a
  <2>4. s[least] \in DOMAIN lock /\ s[least] \in ToSet(s) /\ covers(s[least], p, d)
    BY <2>2, <1>0 DEF ToSet
  <2> QED BY <2>3, <2>4, TableTypes
<1> QED BY <1>2, <1>3

(* An element of a front or a back part.                                   *)
LEMMA BackPart ==
    ASSUME NEW S, NEW s \in Seq(S), NEW j \in 1 .. Len(s) + 1
    PROVE  /\ SubSeq(s, j, Len(s)) \in Seq(S)
           /\ Len(SubSeq(s, j, Len(s))) = Len(s) - j + 1
           /\ \A i \in 1 .. Len(s) - j + 1 : SubSeq(s, j, Len(s))[i] = s[j + i - 1]
<1>1. Len(s) \in Nat /\ \A i \in j .. Len(s) : s[i] \in S BY ElementOfSeq, LenProperties
<1>2. j \in Int /\ Len(s) \in Int BY <1>1
<1>3. /\ SubSeq(s, j, Len(s)) \in Seq(S)
      /\ Len(SubSeq(s, j, Len(s))) = IF j <= Len(s) THEN Len(s) - j + 1 ELSE 0
      /\ \A i \in 1 .. Len(s) - j + 1 : SubSeq(s, j, Len(s))[i] = s[j + i - 1]
  BY <1>1, <1>2, SubSeqProperties
<1> QED BY <1>1, <1>3

(* What expiry leaves is a back part of the table; from a table in order   *)
(* it takes what has expired, and nothing else.                            *)
LEMMA ExpiryTypes ==
    ASSUME DavTypes, NEW left \in Unexpired
    PROVE  \E j \in 1 .. Len(m_locks) + 1 : left = SubSeq(m_locks, j, Len(m_locks))
<1>1. CASE left = m_locks
  <2>1. m_locks = SubSeq(m_locks, 1, Len(m_locks))
    BY TableTypes, BackPart, SeqEqual DEF DavTypes
  <2> QED BY <1>1, <2>1, TableTypes
<1>2. CASE left # m_locks BY <1>2 DEF Unexpired
<1> QED BY <1>1, <1>2

LEMMA ExpiryExact ==
    ASSUME DavTypes, NEW left \in Unexpired, Ordered(m_locks)
    PROVE  /\ \A l \in ToSet(m_locks) : lock[l].expire > clock => l \in ToSet(left)
           /\ \A l \in ToSet(left) : l \in ToSet(m_locks) /\ lock[l].expire > clock
           /\ left \in Seq(DOMAIN lock) /\ Ordered(left)
<1> DEFINE n == Len(m_locks)
           e(i) == lock[m_locks[i]].expire
<1>0. /\ n \in Nat /\ DOMAIN m_locks = 1 .. n
      /\ \A i \in 1 .. n : m_locks[i] \in DOMAIN lock /\ e(i) \in Int
      /\ clock \in Int
  BY TableTypes DEF DavTypes, Lock_
<1>1. \A i, k \in 1 .. n : i < k => e(i) <= e(k)
  BY <1>0 DEF Ordered, before
<1>2. PICK j \in 1 .. n + 1 : /\ left = SubSeq(m_locks, j, n)
                              /\ \A i \in 1 .. j - 1 : e(i) <= clock
                              /\ \A i \in j .. n : e(i) > clock
  <2>1. CASE m_locks = <<>> \/ lock[Head(m_locks)].expire > clock
    <3>1. left = m_locks BY <2>1 DEF Unexpired
    <3>2. m_locks = SubSeq(m_locks, 1, n)
      BY <1>0, BackPart, SeqEqual DEF DavTypes
    <3>3. \A i \in 1 .. n : e(i) > clock
      <4>1. CASE m_locks = <<>> BY <4>1, <1>0
      <4>2. CASE m_locks # <<>>
        <5>1. n >= 1 /\ Head(m_locks) = m_locks[1] BY <4>2, <1>0, EmptySeq, HeadTailProperties DEF DavTypes
        <5>2. e(1) > clock BY <5>1, <4>2, <2>1
        <5> QED BY <5>1, <5>2, <1>0, <1>1
      <4> QED BY <4>1, <4>2
    <3> QED BY <3>1, <3>2, <3>3, <1>0
  <2>2. CASE ~ (m_locks = <<>> \/ lock[Head(m_locks)].expire > clock)
    <3> DEFINE right == {k \in ToSet(m_locks) : lock[k].expire < clock}
    <3>1. PICK j \in 1 .. n + 1, i \in Descents(m_locks, right) :
              /\ left = SubSeq(m_locks, j, n)
              /\ i <= j /\ \A k \in i .. j - 1 : e(k) = clock
              /\ j <= n => e(j) # clock
      <4>1. left \in {SubSeq(m_locks, j, Len(m_locks)) : j \in {j \in 1 .. Len(m_locks) + 1 :
            \E i \in Descents(m_locks, right) :
                /\ i <= j /\ \A k \in i .. j - 1 : lock[m_locks[k]].expire = clock
                /\ j <= Len(m_locks) => lock[m_locks[j]].expire # clock}}
        BY <2>2 DEF Unexpired
      <4> QED BY <4>1
    <3>2. /\ i \in 1 .. n + 1
          /\ i # 1 => m_locks[i - 1] \in right
          /\ i # n + 1 => m_locks[i] \notin right
      BY <3>1 DEF Descents
    <3>3. \A k \in 1 .. i - 1 : e(k) <= clock
      <4>1. SUFFICES ASSUME i # 1 PROVE \A k \in 1 .. i - 1 : e(k) <= clock
        BY <3>2, <1>0
      <4>2. i - 1 \in 1 .. n /\ e(i - 1) < clock BY <3>2, <4>1, <1>0
      <4> QED BY <4>2, <1>0, <1>1
    <3>4. \A k \in 1 .. j - 1 : e(k) <= clock
      <4> TAKE k \in 1 .. j - 1
      <4>1. CASE k \in 1 .. i - 1 BY <4>1, <3>3
      <4>2. CASE k \in i .. j - 1 BY <4>2, <3>1, <1>0
      <4> QED BY <4>1, <4>2, <3>2, <1>0
    <3>5. j <= n => e(j) > clock
      <4>1. SUFFICES ASSUME j <= n PROVE e(j) > clock OBVIOUS
      <4>2. CASE j = i
        <5>1. m_locks[i] \notin right BY <4>2, <4>1, <3>2
        <5>2. m_locks[i] \in ToSet(m_locks) BY <4>2, <4>1, <1>0 DEF ToSet
        <5> QED BY <5>1, <5>2, <4>2, <4>1, <3>1, <1>0
      <4>3. CASE j # i
        <5>1. j - 1 \in i .. j - 1 /\ j - 1 \in 1 .. n BY <4>3, <3>1, <3>2, <1>0
        <5>2. e(j - 1) = clock BY <5>1, <3>1
        <5>3. e(j - 1) <= e(j) BY <5>1, <4>1, <1>1
        <5> QED BY <5>2, <5>3, <3>1, <4>1, <1>0
      <4> QED BY <4>2, <4>3
    <3>6. \A k \in j .. n : e(k) > clock
      BY <3>5, <1>0, <1>1
    <3> QED BY <3>1, <3>4, <3>6
  <2> QED BY <2>1, <2>2
<1>3. /\ left \in Seq(DOMAIN lock) /\ Len(left) = n - j + 1
      /\ \A i \in 1 .. n - j + 1 : left[i] = m_locks[j + i - 1]
      /\ DOMAIN left = 1 .. n - j + 1
  BY <1>0, <1>2, BackPart, LenProperties DEF DavTypes
<1>4. \A l \in ToSet(m_locks) : lock[l].expire > clock => l \in ToSet(left)
  <2> SUFFICES ASSUME NEW i \in 1 .. n, e(i) > clock PROVE m_locks[i] \in ToSet(left)
    BY <1>0 DEF ToSet
  <2>1. i >= j BY <1>2, <1>0
  <2>2. i - j + 1 \in 1 .. n - j + 1 /\ j + (i - j + 1) - 1 = i BY <2>1, <1>0
  <2>3. left[i - j + 1] = m_locks[i] BY <2>2, <1>3
  <2> QED BY <2>2, <2>3, <1>3 DEF ToSet
<1>5. \A l \in ToSet(left) : l \in ToSet(m_locks) /\ lock[l].expire > clock
  <2> SUFFICES ASSUME NEW i \in 1 .. n - j + 1 PROVE left[i] \in ToSet(m_locks) /\ lock[left[i]].expire > clock
    BY <1>3 DEF ToSet
  <2>1. j + i - 1 \in j .. n /\ j + i - 1 \in 1 .. n BY <1>0
  <2> QED BY <2>1, <1>2, <1>3, <1>0 DEF ToSet
<1>6. Ordered(left)
  <2> SUFFICES ASSUME NEW i \in 1 .. n - j + 1, NEW k \in 1 .. n - j + 1, i < k PROVE before(left[i], left[k])
    BY <1>3 DEF Ordered
  <2>1. j + i - 1 \in 1 .. n /\ j + k - 1 \in 1 .. n /\ j + i - 1 < j + k - 1 BY <1>0
  <2> QED BY <2>1, <1>0, <1>3 DEF Ordered
<1> QED BY <1>3, <1>4, <1>5, <1>6
(* What a search finds is the lock itself; in a table in order it finds it *)
(* if it is there.                                                         *)
LEMMA FindsTypes ==
    ASSUME DavTypes, NEW l \in DOMAIN lock, NEW i \in Finds(l)
    PROVE  /\ i \in 0 .. Len(m_locks)
           /\ i # 0 => m_locks[i] = l
<1> DEFINE n == Len(m_locks)
           right == {k \in ToSet(m_locks) : before(k, l)}
<1>1. PICK a \in Descents(m_locks, right) : i = IF a <= n /\ ~ before(l, m_locks[a]) THEN a ELSE 0
  BY DEF Finds
<1>2. a \in 1 .. n + 1 /\ (a # n + 1 => m_locks[a] \notin right) BY DEF Descents
<1>3. n \in Nat BY TableTypes
<1>4. CASE a <= n /\ ~ before(l, m_locks[a])
  <2>1. a \in 1 .. n /\ i = a BY <1>1, <1>2, <1>3, <1>4
  <2>2. m_locks[a] \in ToSet(m_locks) /\ m_locks[a] \in DOMAIN lock BY <2>1, TableTypes DEF ToSet
  <2>3. ~ before(m_locks[a], l) BY <1>2, <2>1, <2>2, <1>3
  <2>4. m_locks[a] = l BY <2>2, <2>3, <1>4, BeforeTotal
  <2> QED BY <2>1, <2>4
<1>5. CASE ~ (a <= n /\ ~ before(l, m_locks[a])) BY <1>1, <1>3, <1>5
<1> QED BY <1>4, <1>5

LEMMA FindsAll ==
    ASSUME DavTypes, NEW l \in DOMAIN lock, 0 \in Finds(l), Ordered(m_locks)
    PROVE  l \notin ToSet(m_locks)
<1> DEFINE n == Len(m_locks)
           right == {k \in ToSet(m_locks) : before(k, l)}
<1>1. PICK a \in Descents(m_locks, right) : 0 = IF a <= n /\ ~ before(l, m_locks[a]) THEN a ELSE 0
  BY DEF Finds
<1>2. /\ a \in 1 .. n + 1
      /\ a # n + 1 => m_locks[a] \notin right
      /\ a # 1 => m_locks[a - 1] \in right
  BY DEF Descents
<1>3. n \in Nat /\ DOMAIN m_locks = 1 .. n BY TableTypes
<1>4. a <= n => before(l, m_locks[a]) BY <1>1, <1>2
<1>5. SUFFICES ASSUME NEW x \in 1 .. n, m_locks[x] = l PROVE FALSE
  BY <1>3 DEF ToSet
<1>6. CASE x < a
  <2>1. a # 1 /\ a - 1 \in 1 .. n BY <1>6, <1>2, <1>3
  <2>2. before(m_locks[a - 1], l) /\ m_locks[a - 1] \in DOMAIN lock BY <2>1, <1>2, TableTypes
  <2>3. x # a - 1 BY <2>2, <1>5, BeforeTotal
  <2>4. before(l, m_locks[a - 1]) BY <2>1, <2>3, <1>6, <1>5, <1>3, <1>2 DEF Ordered
  <2> QED BY <2>2, <2>4, BeforeTotal
<1>7. CASE x = a BY <1>7, <1>4, <1>3, <1>5, BeforeTotal
<1>8. CASE a < x
  <2>1. a \in 1 .. n /\ m_locks[a] \in ToSet(m_locks) BY <1>8, <1>2, <1>3 DEF ToSet
  <2>2. before(m_locks[a], l) BY <2>1, <1>8, <1>5, <1>3 DEF Ordered
  <2> QED BY <2>1, <2>2, <1>2, <1>3
<1> QED BY <1>6, <1>7, <1>8, <1>2, <1>3

LEMMA FrontPart ==
    ASSUME NEW S, NEW s \in Seq(S), NEW j \in 0 .. Len(s)
    PROVE  /\ SubSeq(s, 1, j) \in Seq(S)
           /\ Len(SubSeq(s, 1, j)) = j
           /\ \A i \in 1 .. j : SubSeq(s, 1, j)[i] = s[i]
<1>1. Len(s) \in Nat BY LenProperties
<1>2. j \in Int /\ \A i \in 1 .. j : s[i] \in S BY <1>1, ElementOfSeq
<1>3. /\ SubSeq(s, 1, j) \in Seq(S)
      /\ Len(SubSeq(s, 1, j)) = IF 1 <= j THEN j - 1 + 1 ELSE 0
      /\ \A i \in 1 .. j - 1 + 1 : SubSeq(s, 1, j)[i] = s[1 + i - 1]
  BY <1>2, SubSeqProperties
<1> QED BY <1>1, <1>3

LEMMA RemovedElems ==
    ASSUME NEW S, NEW s \in Seq(S), NEW i \in 1 .. Len(s)
    PROVE  /\ RemoveAt(s, i) \in Seq(S)
           /\ Len(RemoveAt(s, i)) = Len(s) - 1
           /\ \A k \in 1 .. Len(s) - 1 : RemoveAt(s, i)[k] = IF k < i THEN s[k] ELSE s[k + 1]
<1> DEFINE f == SubSeq(s, 1, i - 1)
           b == SubSeq(s, i + 1, Len(s))
<1>0. Len(s) \in Nat BY LenProperties
<1>1. f \in Seq(S) /\ Len(f) = i - 1 /\ \A k \in 1 .. i - 1 : f[k] = s[k]
  <2>1. i - 1 \in 0 .. Len(s) BY <1>0
  <2> HIDE DEF f
  <2> QED BY <2>1, FrontPart DEF f
<1>2. b \in Seq(S) /\ Len(b) = Len(s) - i /\ \A k \in 1 .. Len(s) - i : b[k] = s[k + i]
  <2>1. i + 1 \in 1 .. Len(s) + 1 BY <1>0
  <2>2. /\ b \in Seq(S) /\ Len(b) = Len(s) - (i + 1) + 1
        /\ \A k \in 1 .. Len(s) - (i + 1) + 1 : b[k] = s[(i + 1) + k - 1]
    BY <2>1, BackPart
  <2> HIDE DEF b
  <2> QED BY <2>2, <1>0
<1> HIDE DEF f, b
<1>3. RemoveAt(s, i) = f \o b BY DEF RemoveAt, f, b
<1>4. /\ f \o b \in Seq(S) /\ Len(f \o b) = Len(f) + Len(b)
      /\ \A k \in 1 .. Len(f) + Len(b) : (f \o b)[k] = IF k <= Len(f) THEN f[k] ELSE b[k - Len(f)]
  BY <1>1, <1>2, ConcatProperties
<1>5. Len(f) + Len(b) = Len(s) - 1 BY <1>0, <1>1, <1>2
<1>6. ASSUME NEW k \in 1 .. Len(s) - 1 PROVE (f \o b)[k] = IF k < i THEN s[k] ELSE s[k + 1]
  <2>1. CASE k < i BY <2>1, <1>0, <1>1, <1>4, <1>5
  <2>2. CASE ~ k < i
    <3>1. ~ k <= Len(f) /\ k - Len(f) \in 1 .. Len(s) - i /\ k - Len(f) + i = k + 1 BY <2>2, <1>0, <1>1
    <3> QED BY <3>1, <2>2, <1>2, <1>4, <1>5
  <2> QED BY <2>1, <2>2
<1> QED BY <1>3, <1>4, <1>5, <1>6

LEMMA InsertedElems ==
    ASSUME NEW S, NEW s \in Seq(S), NEW i \in 1 .. Len(s) + 1, NEW e \in S
    PROVE  /\ InsertAt(s, i, e) \in Seq(S)
           /\ Len(InsertAt(s, i, e)) = Len(s) + 1
           /\ \A k \in 1 .. Len(s) + 1 :
                 InsertAt(s, i, e)[k] = IF k < i THEN s[k] ELSE IF k = i THEN e ELSE s[k - 1]
<1> DEFINE f == SubSeq(s, 1, i - 1)
           b == SubSeq(s, i, Len(s))
<1>0. Len(s) \in Nat BY LenProperties
<1>1. f \in Seq(S) /\ Len(f) = i - 1 /\ \A k \in 1 .. i - 1 : f[k] = s[k]
  <2>1. i - 1 \in 0 .. Len(s) BY <1>0
  <2> HIDE DEF f
  <2> QED BY <2>1, FrontPart DEF f
<1>2. b \in Seq(S) /\ Len(b) = Len(s) - i + 1 /\ \A k \in 1 .. Len(s) - i + 1 : b[k] = s[i + k - 1]
  BY BackPart
<1> HIDE DEF f, b
<1>3. InsertAt(s, i, e) = f \o <<e>> \o b BY DEF InsertAt, f, b
<1>4. <<e>> \in Seq(S) /\ Len(<<e>>) = 1 /\ <<e>>[1] = e OBVIOUS
<1> DEFINE g == f \o <<e>>
<1>5. g \in Seq(S) /\ Len(g) = i /\ \A k \in 1 .. i : g[k] = IF k < i THEN s[k] ELSE e
  BY <1>0, <1>1, <1>4, ConcatProperties
<1>6. InsertAt(s, i, e) = g \o b BY <1>3
<1> HIDE DEF g
<1>7. /\ g \o b \in Seq(S) /\ Len(g \o b) = Len(g) + Len(b)
      /\ \A k \in 1 .. Len(g) + Len(b) : (g \o b)[k] = IF k <= Len(g) THEN g[k] ELSE b[k - Len(g)]
  BY <1>2, <1>5, ConcatProperties
<1>8. Len(g) + Len(b) = Len(s) + 1 BY <1>0, <1>2, <1>5
<1>9. ASSUME NEW k \in 1 .. Len(s) + 1
      PROVE  (g \o b)[k] = IF k < i THEN s[k] ELSE IF k = i THEN e ELSE s[k - 1]
  <2>1. CASE k <= i BY <2>1, <1>0, <1>5, <1>7, <1>8
  <2>2. CASE ~ k <= i
    <3>1. ~ k <= Len(g) /\ k - Len(g) \in 1 .. Len(s) - i + 1 /\ i + (k - Len(g)) - 1 = k - 1 BY <2>2, <1>0, <1>5
    <3>2. (g \o b)[k] = b[k - Len(g)] BY <3>1, <1>7, <1>8
    <3>3. b[k - Len(g)] = s[k - 1] BY <3>1, <1>2
    <3>4. ~ k < i /\ k # i BY <2>2, <1>0
    <3> QED BY <3>2, <3>3, <3>4
  <2> QED BY <2>1, <2>2
<1> QED BY <1>6, <1>7, <1>8, <1>9

(* An insertion in a sequence in order leaves it in order.                 *)
InOrder(s, R) == \A i, j \in DOMAIN s : i < j => <<s[i], s[j]>> \in R
Fits(s, l, right, R) ==
    /\ l \notin ToSet(s)
    /\ \A k \in ToSet(s) : IF k \in right THEN <<k, l>> \in R ELSE <<l, k>> \in R
IsTransitive(R, S) == \A x, y, z \in S : <<x, y>> \in R /\ <<y, z>> \in R => <<x, z>> \in R

LEMMA InsertKeeps ==
    ASSUME NEW S, NEW s \in Seq(S), NEW l \in S, NEW right, NEW R, NEW t \in Inserted(s, l, right),
           InOrder(s, R), Fits(s, l, right, R), IsTransitive(R, S)
    PROVE  /\ t \in Seq(S)
           /\ \A x : x \in ToSet(t) <=> x \in ToSet(s) \/ x = l
           /\ InOrder(t, R)
<1> DEFINE n == Len(s)
<1>0. n \in Nat /\ DOMAIN s = 1 .. n /\ \A i \in 1 .. n : s[i] \in S /\ s[i] \in ToSet(s)
  BY LenProperties, ElementOfSeq DEF ToSet
<1>a. /\ l \notin ToSet(s)
      /\ \A i, j \in 1 .. n : i < j => <<s[i], s[j]>> \in R
      /\ \A k \in ToSet(s) : /\ k \in right => <<k, l>> \in R
                             /\ k \notin right => <<l, k>> \in R
      /\ \A x, y, z \in S : <<x, y>> \in R /\ <<y, z>> \in R => <<x, z>> \in R
  BY <1>0 DEF InOrder, Fits, IsTransitive
<1>1. PICK e \in Descents(s, right) : t = IF e > 1 /\ s[e - 1] = l THEN s ELSE InsertAt(s, e, l)
  BY DEF Inserted
<1>2. /\ e \in 1 .. n + 1
      /\ e # 1 => s[e - 1] \in right
      /\ e # n + 1 => s[e] \notin right
  BY DEF Descents
<1>3. t = InsertAt(s, e, l)
  <2>1. e > 1 => e - 1 \in 1 .. n BY <1>2, <1>0, <1>a
  <2> QED BY <1>1, <2>1, <1>0, <1>a
<1>4. /\ t \in Seq(S) /\ Len(t) = n + 1 /\ DOMAIN t = 1 .. n + 1
      /\ \A k \in 1 .. n + 1 : t[k] = IF k < e THEN s[k] ELSE IF k = e THEN l ELSE s[k - 1]
  <2>1. /\ t \in Seq(S) /\ Len(t) = n + 1
        /\ \A k \in 1 .. n + 1 : t[k] = IF k < e THEN s[k] ELSE IF k = e THEN l ELSE s[k - 1]
    <3>1. /\ InsertAt(s, e, l) \in Seq(S) /\ Len(InsertAt(s, e, l)) = n + 1
          /\ \A k \in 1 .. n + 1 : InsertAt(s, e, l)[k] = IF k < e THEN s[k] ELSE IF k = e THEN l ELSE s[k - 1]
      BY <1>2, InsertedElems
    <3> QED BY <3>1, <1>3
  <2> QED BY <2>1, LenProperties
<1>b. \A k \in ToSet(s) : k \in right => <<k, l>> \in R BY <1>a
<1>5. \A k \in 1 .. n : k < e => <<s[k], l>> \in R
  <2> SUFFICES ASSUME NEW k \in 1 .. n, k < e PROVE <<s[k], l>> \in R
    OBVIOUS
  <2>1. e # 1 /\ e - 1 \in 1 .. n BY <1>2, <1>0, <1>a
  <2>2. s[e - 1] \in right /\ s[e - 1] \in ToSet(s) BY <2>1, <1>2, <1>0
  <2>b. <<s[e - 1], l>> \in R BY <2>2, <1>b
  <2>3. k = e - 1 \/ <<s[k], s[e - 1]>> \in R BY <2>1, <1>0, <1>a, <1>2
  <2> QED BY <2>1, <2>b, <2>3, <1>0, <1>a
<1>6. \A k \in 1 .. n : e <= k => <<l, s[k]>> \in R
  <2> SUFFICES ASSUME NEW k \in 1 .. n, e <= k PROVE <<l, s[k]>> \in R
    OBVIOUS
  <2>1. e # n + 1 /\ e \in 1 .. n BY <1>2, <1>0, <1>a
  <2>2. <<l, s[e]>> \in R BY <2>1, <1>2, <1>0, <1>a
  <2>3. k = e \/ <<s[e], s[k]>> \in R BY <2>1, <1>0, <1>a, <1>2
  <2> QED BY <2>1, <2>2, <2>3, <1>0, <1>a
<1>7. ToSet(t) = ToSet(s) \cup {l}
  <2>1. \A k \in 1 .. n + 1 : t[k] \in ToSet(s) \cup {l}
    <3> TAKE k \in 1 .. n + 1
    <3>1. CASE k < e
      <4>1. k \in 1 .. n BY <3>1, <1>2, <1>0, <1>a
      <4> QED BY <4>1, <3>1, <1>0, <1>a, <1>4
    <3>2. CASE k = e BY <3>2, <1>4, <1>0, <1>a, <1>2
    <3>3. CASE k > e
      <4>1. k - 1 \in 1 .. n BY <3>3, <1>2, <1>0, <1>a
      <4> QED BY <4>1, <3>3, <1>0, <1>a, <1>2, <1>4
    <3> QED BY <3>1, <3>2, <3>3, <1>2, <1>0, <1>a
  <2>2. \A k \in 1 .. n : s[k] \in ToSet(t)
    <3> TAKE k \in 1 .. n
    <3>1. CASE k < e
      <4>1. k \in 1 .. n + 1 /\ t[k] = s[k] BY <3>1, <1>0, <1>a, <1>4
      <4> QED BY <4>1, <1>4 DEF ToSet
    <3>2. CASE e <= k
      <4>1. k + 1 \in 1 .. n + 1 /\ t[k + 1] = s[k + 1 - 1] /\ k + 1 - 1 = k BY <3>2, <1>0, <1>a, <1>2, <1>4
      <4> QED BY <4>1, <1>4 DEF ToSet
    <3> QED BY <3>1, <3>2, <1>2, <1>0, <1>a
  <2>3. l \in ToSet(t)
    <3>1. e \in 1 .. n + 1 /\ t[e] = l BY <1>2, <1>0, <1>a, <1>4
    <3> QED BY <3>1, <1>4 DEF ToSet
  <2> QED BY <2>1, <2>2, <2>3, <1>0, <1>a, <1>4 DEF ToSet
<1>8. \A i, j \in 1 .. n + 1 : i < j => <<t[i], t[j]>> \in R
  <2> SUFFICES ASSUME NEW i \in 1 .. n + 1, NEW j \in 1 .. n + 1, i < j PROVE <<t[i], t[j]>> \in R
    OBVIOUS
  <2>0. e \in Int /\ n \in Nat BY <1>2, <1>0, <1>a
  <2>1. CASE j < e
    <3>1. i \in 1 .. n /\ j \in 1 .. n /\ t[i] = s[i] /\ t[j] = s[j] BY <2>1, <2>0, <1>2, <1>4
    <3> QED BY <3>1, <1>a
  <2>2. CASE j = e
    <3>1. i \in 1 .. n /\ i < e /\ t[i] = s[i] /\ t[j] = l BY <2>2, <2>0, <1>2, <1>4
    <3> QED BY <3>1, <1>5
  <2>3. CASE j > e /\ i < e
    <3>1. i \in 1 .. n /\ j - 1 \in 1 .. n /\ i < j - 1 /\ t[i] = s[i] /\ t[j] = s[j - 1] BY <2>3, <2>0, <1>2, <1>4
    <3> QED BY <3>1, <1>a
  <2>4. CASE j > e /\ i = e
    <3>1. j - 1 \in 1 .. n /\ e <= j - 1 /\ t[i] = l /\ t[j] = s[j - 1] BY <2>4, <2>0, <1>2, <1>4
    <3> QED BY <3>1, <1>6
  <2>5. CASE j > e /\ i > e
    <3>1. i - 1 \in 1 .. n /\ j - 1 \in 1 .. n /\ i - 1 < j - 1 /\ t[i] = s[i - 1] /\ t[j] = s[j - 1]
      BY <2>5, <2>0, <1>2, <1>4
    <3> QED BY <3>1, <1>a
  <2> QED BY <2>0, <2>1, <2>2, <2>3, <2>4, <2>5
<1> QED BY <1>4, <1>7, <1>8 DEF InOrder

-----------------------------------------------------------------------------
(* Types of what the searches give, whatever the order of the table.       *)
LEMMA LeftTypes ==
    ASSUME DavTypes, NEW left \in Unexpired
    PROVE  left \in Seq(DOMAIN lock)
<1>1. PICK j \in 1 .. Len(m_locks) + 1 : left = SubSeq(m_locks, j, Len(m_locks)) BY ExpiryTypes
<1> QED BY <1>1, BackPart DEF DavTypes

LEMMA InsertedTypes ==
    ASSUME NEW S, NEW s \in Seq(S), NEW l \in S, NEW right, NEW u \in Inserted(s, l, right)
    PROVE  u \in Seq(S)
<1>1. PICK e \in Descents(s, right) : u = IF e > 1 /\ s[e - 1] = l THEN s ELSE InsertAt(s, e, l)
  BY DEF Inserted
<1>2. e \in 1 .. Len(s) + 1 BY DEF Descents
<1> QED BY <1>1, <1>2, InsertedElems

LEMMA ErasedTypes ==
    ASSUME DavTypes, NEW l \in DOMAIN lock, NEW i \in Finds(l)
    PROVE  ErasedAt(i) \in Seq(DOMAIN lock)
<1>1. i \in 0 .. Len(m_locks) /\ Len(m_locks) \in Nat BY FindsTypes, TableTypes
<1>2. CASE i = 0 BY <1>2 DEF ErasedAt, DavTypes
<1>3. CASE i # 0
  <2>1. i \in 1 .. Len(m_locks) BY <1>1, <1>3
  <2> QED BY <2>1, <1>3, RemovedElems DEF ErasedAt, DavTypes
<1> QED BY <1>2, <1>3

(* A step of one thread, and of no other.                                  *)
LEMMA OneGoes ==
    ASSUME DavTypes, NEW t \in Threads, NEW w \in DavSteps, NEW r, Goto(t, w, r)
    PROVE  /\ step'[t] = w /\ req'[t] = r
           /\ \A u \in Threads : u # t => step'[u] = step[u] /\ req'[u] = req[u]
           /\ step' \in [Threads -> DavSteps] /\ DOMAIN req' = Threads
           /\ w # "refresh" => Changing' \subseteq Changing
<1>1. /\ step'[t] = w /\ req'[t] = r
      /\ \A u \in Threads : u # t => step'[u] = step[u] /\ req'[u] = req[u]
      /\ step' \in [Threads -> DavSteps] /\ DOMAIN req' = Threads
  BY DEF DavTypes, Goto
<1>2. ASSUME w # "refresh" PROVE Changing' \subseteq Changing
  BY <1>1, <1>2 DEF Changing
<1> QED BY <1>1, <1>2

LEMMA TypesStep ==
    ASSUME DavTypes, NEW t \in workers, NEW w \in DavSteps, NEW r, Goto(t, w, r),
           lock' \in Seq(Lock_), DOMAIN lock \subseteq DOMAIN lock',
           m_locks' \in Seq(DOMAIN lock'), held' \subseteq DOMAIN lock',
           UNCHANGED <<clock, workers>>, refreshes' \in {"none", "found", "missed"},
           ReqTypes(t)'
    PROVE  DavTypes'
<1>0. t \in Threads BY DEF DavTypes
<1>1. /\ step'[t] = w
      /\ \A u \in Threads : u # t => step'[u] = step[u] /\ req'[u] = req[u]
      /\ step' \in [Threads -> DavSteps] /\ DOMAIN req' = Threads
  BY <1>0, OneGoes
<1>2. /\ Len(lock) \in Nat /\ DOMAIN lock = 1 .. Len(lock)
      /\ Len(lock') \in Nat /\ DOMAIN lock' = 1 .. Len(lock')
  BY LenProperties DEF DavTypes
<1>3. 0 .. Len(lock) \subseteq 0 .. Len(lock') BY <1>2
<1>4. ASSUME NEW u \in Threads PROVE ReqTypes(u)' /\ (step'[u] # "idle" => u \in workers')
  <2>1. CASE u = t BY <2>1
  <2>2. CASE u # t
    <3>1. ReqTypes(u) /\ step'[u] = step[u] /\ req'[u] = req[u] BY <2>2, <1>1 DEF DavTypes
    <3>2. ReqTypes(u)' BY <3>1, <1>3 DEF ReqTypes
    <3> QED BY <3>1, <3>2 DEF DavTypes
  <2> QED BY <2>1, <2>2
<1>5. clock' \in Int /\ workers' \subseteq Threads BY DEF DavTypes
<1> QED BY <1>1, <1>4, <1>5 DEF DavTypes

(* With one worker the others have no request.                             *)
LEMMA OthersIdle ==
    ASSUME DavTypes, serial, NEW t \in workers
    PROVE  \A u \in Threads : u # t => step[u] = "idle"
BY DEF DavTypes, serial

LEMMA NoneChanging ==
    ASSUME DavTypes, OrderInv, orderly, NEW t \in workers, step[t] # "refresh"
    PROVE  Changing = {} /\ Ordered(m_locks)
<1>1. Changing = {}
  <2>1. CASE refreshes = "none" BY <2>1 DEF OrderInv
  <2>2. CASE refreshes # "none"
    <3>1. \A u \in Threads : u # t => step[u] = "idle" BY <2>2, OthersIdle DEF orderly
    <3>2. \A u \in Threads : step[u] # "refresh" BY <3>1
    <3> QED BY <3>2 DEF Changing
  <2> QED BY <2>1, <2>2
<1> QED BY <1>1 DEF OrderInv, Ordered

(* The table is in order again, or still, with the same locks held.        *)
LEMMA OrderStep ==
    ASSUME DavTypes', Ordered(m_locks)', ToSet(m_locks)' \subseteq held',
           orderly' => Changing' = {}
    PROVE  OrderInv'
<1>1. ASSUME NEW i \in DOMAIN m_locks', NEW j \in DOMAIN m_locks', i < j
      PROVE  m_locks'[i] # m_locks'[j] /\ before(m_locks[i], m_locks[j])'
  <2>1. before(m_locks[i], m_locks[j])' BY <1>1 DEF Ordered
  <2>2. m_locks'[i] \in DOMAIN lock' /\ m_locks'[j] \in DOMAIN lock'
    <3>1. DOMAIN m_locks' = 1 .. Len(m_locks') BY LenProperties DEF DavTypes
    <3> QED BY <3>1, ElementOfSeq DEF DavTypes
  <2>3. \A x \in DOMAIN lock' : ~ before(x, x)'
    <3>1. \A x \in DOMAIN lock' : lock'[x] \in Lock_ /\ x \in Nat
      <4>1. lock' \in Seq(Lock_) BY DEF DavTypes
      <4>2. DOMAIN lock' = 1 .. Len(lock') /\ Len(lock') \in Nat BY <4>1, LenProperties
      <4> QED BY <4>1, <4>2, ElementOfSeq
    <3> QED BY <3>1 DEF before, Lock_
  <2> QED BY <2>1, <2>2, <2>3
<1> QED BY <1>1 DEF OrderInv

LEMMA TestedStep ==
    ASSUME DavTypes, NEW t \in workers, NEW w \in DavSteps, NEW r, Goto(t, w, r), workers' = workers,
           serial /\ orderly' => (AddInv(t) /\ ExpireInv(t) /\ ActInv(t))'
    PROVE  TestedInv'
<1>0. t \in Threads BY DEF DavTypes
<1>1. SUFFICES ASSUME serial', orderly', NEW u \in Threads PROVE (AddInv(u) /\ ExpireInv(u) /\ ActInv(u))'
  BY DEF TestedInv
<1>2. serial BY <1>1 DEF serial
<1>3. CASE u = t BY <1>1, <1>2, <1>3
<1>4. CASE u # t
  <2>1. step'[u] = "idle" BY <1>0, <1>2, <1>4, OthersIdle, OneGoes
  <2> QED BY <2>1 DEF AddInv, ExpireInv, ActInv
<1> QED BY <1>3, <1>4

LEMMA AnswerTests ==
    ASSUME DavTypes, NEW t \in workers, Answer(t), workers' = workers
    PROVE  TestedInv'
<1>1. Goto(t, "idle", NoReq) BY DEF Answer
<1>2. step'[t] = "idle" BY <1>1, OneGoes DEF DavTypes, DavSteps
<1>3. (AddInv(t) /\ ExpireInv(t) /\ ActInv(t))' BY <1>2 DEF AddInv, ExpireInv, ActInv
<1> QED BY <1>1, <1>3, TestedStep DEF DavSteps

-----------------------------------------------------------------------------
(* A request looks into the table, from which what has expired goes.       *)
LEMMA LookKeeps ==
    ASSUME DavIInv, NEW t \in workers, NEW left \in Unexpired, m_locks' = left,
           UNCHANGED <<lock, held, clock, workers, refreshes>>,
           NEW w \in DavSteps \ {"refresh"}, NEW r, Goto(t, w, r), step[t] # "refresh", ReqTypes(t)'
    PROVE  /\ DavTypes' /\ OrderInv' /\ LocksKept' /\ LocksDisjoint'
           /\ orderly => /\ \A l \in DOMAIN lock : Live(l) => l \in ToSet(left)
                         /\ \A l \in ToSet(left) : Live(l)
           /\ \A l : Live(l)' <=> Live(l)
           /\ \A l, p : protects(l, p)' <=> protects(l, p)
           /\ orderly' <=> orderly
<1>0. /\ \A l : Live(l)' <=> Live(l)
      /\ \A l, p : protects(l, p)' <=> protects(l, p)
      /\ orderly' <=> orderly
      /\ serial' <=> serial
  BY DEF Live, protects, orderly, serial
<1>1. DavTypes' BY LeftTypes, TypesStep DEF DavIInv, DavTypes
<1>2. orderly => /\ \A l \in DOMAIN lock : Live(l) => l \in ToSet(left)
                 /\ \A l \in ToSet(left) : Live(l)
  <2>1. SUFFICES ASSUME orderly
                 PROVE  /\ \A l \in DOMAIN lock : Live(l) => l \in ToSet(left)
                        /\ \A l \in ToSet(left) : Live(l)
    OBVIOUS
  <2>2. Ordered(m_locks) BY <2>1, NoneChanging DEF DavIInv
  <2>3. /\ \A l \in ToSet(m_locks) : lock[l].expire > clock => l \in ToSet(left)
        /\ \A l \in ToSet(left) : l \in ToSet(m_locks) /\ lock[l].expire > clock
    BY <2>2, ExpiryExact DEF DavIInv
  <2>4. ToSet(m_locks) \subseteq held BY <2>1 DEF DavIInv, OrderInv
  <2>5. \A l \in DOMAIN lock : Live(l) => l \in ToSet(m_locks) BY <2>1 DEF DavIInv, LocksKept, LocksStay
  <2> QED BY <2>3, <2>4, <2>5 DEF Live
<1>3. OrderInv'
  <2>1. CASE orderly
    <3>1. Ordered(m_locks) /\ Changing = {} BY <2>1, NoneChanging DEF DavIInv
    <3>2. Ordered(left) BY <3>1, ExpiryExact DEF DavIInv
    <3>3. Ordered(m_locks)' BY <3>2 DEF Ordered, before
    <3>4. ToSet(m_locks)' \subseteq held' BY <2>1, <1>2 DEF Live
    <3>5. Changing' = {} BY <3>1, OneGoes DEF DavIInv, DavTypes
    <3> QED BY <1>1, <3>3, <3>4, <3>5, OrderStep
  <2>2. CASE ~ orderly BY <2>2, <1>0 DEF OrderInv
  <2> QED BY <2>1, <2>2
<1>4. LocksKept' BY <1>0, <1>2 DEF LocksKept, LocksStay
<1>5. LocksDisjoint' BY <1>0 DEF DavIInv, LocksDisjoint
<1> QED BY <1>0, <1>1, <1>2, <1>3, <1>4, <1>5

(* What get() finds, or does not find, tells of all locks.                 *)
LEMMA LookTells ==
    ASSUME DavIInv, serial, orderly, NEW left \in Unexpired, NEW p \in Paths,
           \A l \in DOMAIN lock : Live(l) => l \in ToSet(left),
           \A l \in ToSet(left) : Live(l),
           NEW l \in DOMAIN lock, Live(l), l # FirstCovering(left, p, Invalid)
    PROVE  ~ protects(l, p)
<1> DEFINE m == FirstCovering(left, p, Invalid)
<1>1. left \in Seq(DOMAIN lock) BY LeftTypes DEF DavIInv
<1>2. \A k \in DOMAIN lock : lock[k].path \in Paths /\ lock[k].infinite \in BOOLEAN
  BY TableTypes DEF DavIInv, Lock_
<1>3. CASE m = 0
  <2>1. ~ covers(l, p, Invalid) BY <1>1, <1>3, FirstFound DEF DavIInv
  <2> QED BY <2>1, <1>2, SeenFromBelow
<1>4. CASE m # 0
  <2>1. m \in ToSet(left) /\ covers(m, p, Invalid) BY <1>1, <1>4, FirstFound DEF DavIInv
  <2>2. m \in DOMAIN lock /\ Live(m)
    <3>1. ToSet(left) \subseteq DOMAIN lock
      <4>1. DOMAIN left = 1 .. Len(left) BY <1>1, LenProperties
      <4> QED BY <1>1, <4>1, ElementOfSeq DEF ToSet
    <3> QED BY <2>1, <3>1
  <2>3. ~ protects(l, lock[m].path) /\ ~ protects(m, lock[l].path)
    <3> HIDE DEF m
    <3> QED BY <2>2 DEF DavIInv, LocksDisjoint, m
  <2> QED
    <3> HIDE DEF m
    <3> QED BY <2>1, <2>2, <2>3, <1>2, OneGuard
<1> QED BY <1>3, <1>4

-----------------------------------------------------------------------------

(* One lemma per action.                                                   *)
LEMMA LockGetKeeps ==
    ASSUME DavIInv, NEW t \in Threads, LockGet(t)
    PROVE  DavIInv'
<1>1. PICK p \in Paths, timeout \in Timeouts, left \in Unexpired, depth \in {0, Infinity} :
        /\ depth \in Depths(p)
        /\ Gets(t, "LOCK", p)
        /\ m_locks' = left
        /\ \/ /\ FirstCovering(left, p, depth) = 0
              /\ Goto(t, "add", [method |-> "LOCK", path |-> p, expire |-> clock + timeout,
                                 infinite |-> depth # 0])
           \/ /\ FirstCovering(left, p, depth) # 0
              /\ Goto(t, "expire", [method |-> "LOCK", token |-> FirstCovering(left, p, depth),
                                    expire |-> clock + timeout])
           \/ Answer(t)
  BY DEF LockGet, Depths
<1> DEFINE m == FirstCovering(left, p, depth)
<1>2. t \in workers /\ step[t] = "idle" BY <1>1 DEF Gets
<1>3. UNCHANGED <<lock, held, clock, workers, refreshes>> BY DEF LockGet
<1>4. left \in Seq(DOMAIN lock) BY LeftTypes DEF DavIInv
<1>5. clock + timeout \in Int BY DavAssumption DEF DavIInv, DavTypes
<1>6. ToSet(left) \subseteq DOMAIN lock
  <2>1. DOMAIN left = 1 .. Len(left) BY <1>4, LenProperties
  <2> QED BY <1>4, <2>1, ElementOfSeq DEF ToSet
<1>7. \A k \in DOMAIN lock : lock[k].path \in Paths BY TableTypes DEF DavIInv, Lock_
<1>8. CASE m = 0 /\ Goto(t, "add", [method |-> "LOCK", path |-> p, expire |-> clock + timeout,
                                    infinite |-> depth # 0])
  <2> DEFINE r == [method |-> "LOCK", path |-> p, expire |-> clock + timeout, infinite |-> depth # 0]
  <2>1. step'[t] = "add" /\ req'[t] = r BY <1>8, OneGoes DEF DavIInv, DavSteps
  <2>2. ReqTypes(t)' BY <2>1, <1>5 DEF ReqTypes
  <2>3. /\ DavTypes' /\ OrderInv' /\ LocksKept' /\ LocksDisjoint'
        /\ orderly => \A l \in DOMAIN lock : Live(l) => l \in ToSet(left)
        /\ \A l : Live(l)' <=> Live(l)
        /\ \A l, q : protects(l, q)' <=> protects(l, q)
        /\ orderly' <=> orderly
    BY <1>1, <1>2, <1>3, <1>8, <2>2, LookKeeps DEF DavSteps
  <2>4. ASSUME orderly, NEW l \in DOMAIN lock, Live(l)
        PROVE  ~ protects(l, p) /\ ~ Guards(p, depth # 0, lock[l].path)
    <3>1. l \in ToSet(left) BY <2>3, <2>4
    <3>2. ~ covers(l, p, depth) BY <3>1, <1>4, <1>8, FirstFound DEF DavIInv
    <3>3. ~ protects(l, p) BY <3>2, <1>7, SeenFromBelow
    <3>4. ~ Guards(p, depth # 0, lock[l].path) BY <3>2, <1>1, <1>7, SeenFromAbove
    <3> QED BY <3>3, <3>4
  <2>5. orderly' => (AddInv(t) /\ ExpireInv(t) /\ ActInv(t))'
    <3>1. orderly' => AddInv(t)' BY <2>1, <2>3, <2>4, <1>3 DEF AddInv
    <3>2. ExpireInv(t)' /\ ActInv(t)' BY <2>1 DEF ExpireInv, ActInv
    <3> QED BY <3>1, <3>2
  <2>6. TestedInv' BY <1>2, <1>3, <1>8, <2>5, TestedStep DEF DavIInv, DavSteps
  <2> QED BY <2>3, <2>6 DEF DavIInv
<1>9. CASE m # 0 /\ Goto(t, "expire", [method |-> "LOCK", token |-> m, expire |-> clock + timeout])
  <2> DEFINE r == [method |-> "LOCK", token |-> m, expire |-> clock + timeout]
  <2>0. m \in ToSet(left) /\ m \in DOMAIN lock BY <1>4, <1>6, <1>9, FirstFound DEF DavIInv
  <2> HIDE DEF m
  <2>1. step'[t] = "expire" /\ req'[t] = r BY <1>9, OneGoes DEF DavIInv, DavSteps
  <2>2. ReqTypes(t)' BY <2>0, <2>1, <1>3, <1>5 DEF ReqTypes
  <2>3. /\ DavTypes' /\ OrderInv' /\ LocksKept' /\ LocksDisjoint'
        /\ orderly => \A l \in ToSet(left) : Live(l)
        /\ \A l : Live(l)' <=> Live(l)
        /\ \A l, q : protects(l, q)' <=> protects(l, q)
        /\ orderly' <=> orderly
    BY <1>1, <1>2, <1>3, <1>9, <2>2, LookKeeps DEF DavSteps
  <2>4. serial /\ orderly' => ExpireInv(t)'
    <3>1. SUFFICES ASSUME serial, orderly
                   PROVE  /\ m \in ToSet(left)
                          /\ \A l \in DOMAIN lock : Live(l) /\ l # m =>
                                ~ protects(l, lock[m].path) /\ ~ protects(m, lock[l].path)
      BY <2>1, <2>3, <1>1, <1>3 DEF ExpireInv
    <3>2. Live(m) BY <2>0, <2>3, <3>1
    <3> QED BY <2>0, <3>1, <3>2 DEF DavIInv, LocksDisjoint
  <2>5. AddInv(t)' /\ ActInv(t)' BY <2>1 DEF AddInv, ActInv
  <2>6. TestedInv' BY <1>2, <1>3, <1>9, <2>4, <2>5, TestedStep DEF DavIInv, DavSteps
  <2> QED BY <2>3, <2>6 DEF DavIInv
<1>10. CASE Answer(t)
  <2>1. step'[t] = "idle" BY <1>10, OneGoes DEF DavIInv, DavSteps, Answer
  <2>2. ReqTypes(t)' BY <2>1 DEF ReqTypes
  <2>3. DavTypes' /\ OrderInv' /\ LocksKept' /\ LocksDisjoint'
    BY <1>1, <1>2, <1>3, <1>10, <2>2, LookKeeps DEF DavSteps, Answer
  <2> QED BY <2>3, <1>2, <1>3, <1>10, AnswerTests DEF DavIInv
<1> QED BY <1>1, <1>8, <1>9, <1>10

LEMMA UnlockGetKeeps ==
    ASSUME DavIInv, NEW t \in Threads, UnlockGet(t)
    PROVE  DavIInv'
<1>1. PICK p \in Paths, left \in Unexpired :
        /\ Gets(t, "UNLOCK", p)
        /\ m_locks' = left
        /\ \/ /\ FirstCovering(left, p, Invalid) # 0
              /\ Goto(t, "cancel", [method |-> "UNLOCK", token |-> FirstCovering(left, p, Invalid)])
           \/ Answer(t)
  BY DEF UnlockGet
<1> DEFINE m == FirstCovering(left, p, Invalid)
<1>2. t \in workers /\ step[t] = "idle" BY <1>1 DEF Gets
<1>3. UNCHANGED <<lock, held, clock, workers, refreshes>> BY DEF UnlockGet
<1>4. CASE m # 0 /\ Goto(t, "cancel", [method |-> "UNLOCK", token |-> m])
  <2>0. m \in DOMAIN lock
    <3>1. left \in Seq(DOMAIN lock) BY LeftTypes DEF DavIInv
    <3>2. m \in 0 .. Len(lock) BY <3>1, FirstFound DEF DavIInv
    <3> QED BY <3>2, <1>4, TableTypes DEF DavIInv
  <2> HIDE DEF m
  <2>1. step'[t] = "cancel" /\ req'[t] = [method |-> "UNLOCK", token |-> m]
    BY <1>4, OneGoes DEF DavIInv, DavSteps
  <2>2. ReqTypes(t)' BY <2>0, <2>1, <1>3, <1>4 DEF ReqTypes
  <2>3. DavTypes' /\ OrderInv' /\ LocksKept' /\ LocksDisjoint'
    BY <1>1, <1>2, <1>3, <1>4, <2>2, LookKeeps DEF DavSteps
  <2>4. (AddInv(t) /\ ExpireInv(t) /\ ActInv(t))' BY <2>1 DEF AddInv, ExpireInv, ActInv
  <2>5. TestedInv' BY <1>2, <1>3, <1>4, <2>4, TestedStep DEF DavIInv, DavSteps
  <2> QED BY <2>3, <2>5 DEF DavIInv
<1>5. CASE Answer(t)
  <2>1. step'[t] = "idle" BY <1>5, OneGoes DEF DavIInv, DavSteps, Answer
  <2>2. ReqTypes(t)' BY <2>1 DEF ReqTypes
  <2>3. DavTypes' /\ OrderInv' /\ LocksKept' /\ LocksDisjoint'
    BY <1>1, <1>2, <1>3, <1>5, <2>2, LookKeeps DEF DavSteps, Answer
  <2> QED BY <2>3, <1>2, <1>3, <1>5, AnswerTests DEF DavIInv
<1> QED BY <1>1, <1>4, <1>5

LEMMA VerifyKeeps ==
    ASSUME DavIInv, NEW t \in Threads, NEW method \in Guarded, NEW p \in Paths, NEW deleteLock,
           VerifyLock(t, method, p, deleteLock)
    PROVE  DavIInv'
<1>1. PICK left \in Unexpired :
        /\ Gets(t, method, p)
        /\ m_locks' = left
        /\ \/ Answer(t)
           \/ \E w \in {"cancel", "header", "act"} :
                /\ w = "cancel" => FirstCovering(left, p, Invalid) # 0
                /\ Goto(t, w, [method |-> method, path |-> p, to |-> p,
                               token |-> FirstCovering(left, p, Invalid)])
  BY DEF VerifyLock, Passed
<1> DEFINE m == FirstCovering(left, p, Invalid)
           r == [method |-> method, path |-> p, to |-> p, token |-> m]
<1>2. t \in workers /\ step[t] = "idle" BY <1>1 DEF Gets
<1>3. UNCHANGED <<lock, held, clock, workers, refreshes>> BY DEF VerifyLock
<1>4. ASSUME NEW w \in {"cancel", "header", "act"}, w = "cancel" => m # 0, Goto(t, w, r)
      PROVE  DavIInv'
  <2>0. m \in 0 .. Len(lock)
    <3>1. left \in Seq(DOMAIN lock) BY LeftTypes DEF DavIInv
    <3> QED BY <3>1, FirstFound DEF DavIInv
  <2>1. step'[t] = w /\ req'[t] = r BY <1>4, OneGoes DEF DavIInv, DavSteps
  <2>2. ReqTypes(t)'
    <3> HIDE DEF m
    <3> QED BY <2>0, <2>1, <1>3, <1>4 DEF ReqTypes, Guarded
  <2>3. /\ DavTypes' /\ OrderInv' /\ LocksKept' /\ LocksDisjoint'
        /\ orderly => /\ \A l \in DOMAIN lock : Live(l) => l \in ToSet(left)
                      /\ \A l \in ToSet(left) : Live(l)
        /\ \A l : Live(l)' <=> Live(l)
        /\ \A l, q : protects(l, q)' <=> protects(l, q)
        /\ orderly' <=> orderly
    BY <1>1, <1>2, <1>3, <1>4, <2>2, LookKeeps DEF DavSteps
  <2>4. serial /\ orderly => \A l \in DOMAIN lock : Live(l) /\ l # m => ~ protects(l, p)
    BY <2>3, LookTells
  <2> HIDE DEF m
  <2>5. serial /\ orderly' => ActInv(t)' BY <2>1, <2>3, <2>4, <1>3 DEF ActInv
  <2>6. AddInv(t)' /\ ExpireInv(t)' BY <2>1 DEF AddInv, ExpireInv
  <2>7. TestedInv' BY <1>2, <1>3, <1>4, <2>5, <2>6, TestedStep DEF DavIInv, DavSteps
  <2> QED BY <2>3, <2>7 DEF DavIInv
<1>5. CASE Answer(t)
  <2>1. step'[t] = "idle" BY <1>5, OneGoes DEF DavIInv, DavSteps, Answer
  <2>2. ReqTypes(t)' BY <2>1 DEF ReqTypes
  <2>3. DavTypes' /\ OrderInv' /\ LocksKept' /\ LocksDisjoint'
    BY <1>1, <1>2, <1>3, <1>5, <2>2, LookKeeps DEF DavSteps, Answer
  <2> QED BY <2>3, <1>2, <1>3, <1>5, AnswerTests DEF DavIInv
<1> QED BY <1>1, <1>4, <1>5

LEMMA VerifyToKeeps ==
    ASSUME DavIInv, NEW t \in Threads, VerifyTo(t)
    PROVE  DavIInv'
<1>1. PICK to \in Paths, left \in Unexpired :
        /\ m_locks' = left
        /\ \/ FirstCovering(left, to, Invalid) = 0 /\ Goto(t, "act", [req[t] EXCEPT !.to = to])
           \/ /\ FirstCovering(left, to, Invalid) # 0
              /\ req[t].token \in {0, FirstCovering(left, to, Invalid)}
              /\ Goto(t, "act", [req[t] EXCEPT !.to = to, !.token = FirstCovering(left, to, Invalid)])
           \/ Answer(t)
  BY DEF VerifyTo
<1> DEFINE m == FirstCovering(left, to, Invalid)
<1>2. step[t] = "header" /\ t \in workers BY DEF VerifyTo, DavIInv, DavTypes
<1>3. UNCHANGED <<lock, held, clock, workers, refreshes>> BY DEF VerifyTo
<1>4. req[t] \in [method : Guarded, path : Paths, to : Paths, token : 0 .. Len(lock)]
  BY <1>2 DEF DavIInv, DavTypes, ReqTypes
<1>5. ASSUME NEW token \in 0 .. Len(lock), Goto(t, "act", [req[t] EXCEPT !.to = to, !.token = token]),
             req[t].token \in {0, token}, m \in {0, token}
      PROVE  DavIInv'
  <2> DEFINE r == [req[t] EXCEPT !.to = to, !.token = token]
  <2>0. /\ r \in [method : Guarded, path : Paths, to : Paths, token : 0 .. Len(lock)]
        /\ r.method = req[t].method /\ r.path = req[t].path /\ r.to = to /\ r.token = token
    BY <1>4
  <2>1. step'[t] = "act" /\ req'[t] = r BY <1>5, OneGoes DEF DavIInv, DavSteps
  <2>2. ReqTypes(t)' BY <2>0, <2>1, <1>3 DEF ReqTypes
  <2>3. /\ DavTypes' /\ OrderInv' /\ LocksKept' /\ LocksDisjoint'
        /\ orderly => /\ \A l \in DOMAIN lock : Live(l) => l \in ToSet(left)
                      /\ \A l \in ToSet(left) : Live(l)
        /\ \A l : Live(l)' <=> Live(l)
        /\ \A l, q : protects(l, q)' <=> protects(l, q)
        /\ orderly' <=> orderly
    BY <1>1, <1>2, <1>3, <1>5, <2>2, LookKeeps DEF DavSteps
  <2>4. serial /\ orderly => \A l \in DOMAIN lock : Live(l) /\ l # m => ~ protects(l, to)
    BY <2>3, LookTells
  <2> HIDE DEF m
  <2>5. serial /\ orderly' => ActInv(t)'
    <3>1. SUFFICES ASSUME serial, orderly, NEW l \in DOMAIN lock, Live(l), l # token
                   PROVE  ~ protects(l, req[t].path) /\ ~ protects(l, to)
      BY <2>0, <2>1, <2>3, <1>3 DEF ActInv
    <3>2. l # 0 BY TableTypes DEF DavIInv
    <3>3. ~ protects(l, to) BY <2>4, <3>1, <3>2, <1>5
    <3>4. t \in Threads /\ req[t].method # "UNLOCK" BY <1>4 DEF Guarded
    <3>5. ~ protects(l, req[t].path)
      BY <3>1, <3>2, <3>4, <1>2, <1>5 DEF DavIInv, TestedInv, ActInv
    <3> QED BY <3>3, <3>5
  <2>6. AddInv(t)' /\ ExpireInv(t)' BY <2>1 DEF AddInv, ExpireInv
  <2>7. TestedInv' BY <1>2, <1>3, <1>5, <2>5, <2>6, TestedStep DEF DavIInv, DavSteps
  <2> QED BY <2>3, <2>7 DEF DavIInv
<1>6. CASE m = 0 /\ Goto(t, "act", [req[t] EXCEPT !.to = to])
  <2>1. [req[t] EXCEPT !.to = to] = [req[t] EXCEPT !.to = to, !.token = req[t].token] BY <1>4
  <2> QED BY <1>4, <1>5, <1>6, <2>1
<1>7. CASE /\ m # 0 /\ req[t].token \in {0, m}
           /\ Goto(t, "act", [req[t] EXCEPT !.to = to, !.token = m])
  <2>1. m \in 0 .. Len(lock)
    <3>1. left \in Seq(DOMAIN lock) BY LeftTypes DEF DavIInv
    <3> QED BY <3>1, FirstFound DEF DavIInv
  <2> QED BY <1>5, <1>7, <2>1
<1>8. CASE Answer(t)
  <2>1. step'[t] = "idle" BY <1>8, OneGoes DEF DavIInv, DavSteps, Answer
  <2>2. ReqTypes(t)' BY <2>1 DEF ReqTypes
  <2>3. DavTypes' /\ OrderInv' /\ LocksKept' /\ LocksDisjoint'
    BY <1>1, <1>2, <1>3, <1>8, <2>2, LookKeeps DEF DavSteps, Answer
  <2> QED BY <2>3, <1>2, <1>3, <1>8, AnswerTests DEF DavIInv
<1> QED BY <1>1, <1>6, <1>7, <1>8

(* From now on the table is in order but for the one lock.                 *)
LEMMA SetExpireKeeps ==
    ASSUME DavIInv, NEW t \in Threads, SetExpire(t)
    PROVE  DavIInv'
<1> DEFINE l == req[t].token
           x == req[t].expire
<1>1. /\ step[t] = "expire" /\ t \in workers
      /\ lock' = [lock EXCEPT ![l].expire = x]
      /\ Goto(t, "refresh", req[t])
      /\ refreshes' = IF refreshes = "none" THEN "found" ELSE refreshes
      /\ UNCHANGED <<m_locks, held, clock, workers>>
  BY DEF SetExpire, DavIInv, DavTypes
<1>2. req[t] \in [method : {"LOCK"}, token : DOMAIN lock, expire : Int]
  BY <1>1 DEF DavIInv, DavTypes, ReqTypes
<1>3. /\ lock \in Seq(Lock_) /\ DOMAIN lock = 1 .. Len(lock) /\ Len(lock) \in Nat
      /\ \A k \in DOMAIN lock : lock[k] \in Lock_
  BY TableTypes DEF DavIInv, DavTypes
<1>4. /\ l \in DOMAIN lock /\ x \in Int
      /\ DOMAIN lock' = DOMAIN lock
      /\ \A k \in DOMAIN lock : /\ lock'[k].path = lock[k].path /\ lock'[k].infinite = lock[k].infinite
                                /\ k # l => lock'[k] = lock[k]
      /\ [lock[l] EXCEPT !.expire = x] \in Lock_
  BY <1>1, <1>2, <1>3 DEF Lock_
<1>5. lock' \in Seq(Lock_) BY <1>1, <1>3, <1>4, ExceptSeq
<1>6. step'[t] = "refresh" /\ req'[t] = req[t] BY <1>1, OneGoes DEF DavIInv, DavSteps
<1>7. DavTypes'
  <2>1. ReqTypes(t)' BY <1>2, <1>4, <1>6 DEF ReqTypes
  <2>2. m_locks' \in Seq(DOMAIN lock') /\ held' \subseteq DOMAIN lock'
    BY <1>1, <1>4 DEF DavIInv, DavTypes
  <2>3. refreshes' \in {"none", "found", "missed"} BY <1>1 DEF DavIInv, DavTypes
  <2> QED BY <1>1, <1>4, <1>5, <2>1, <2>2, <2>3, TypesStep DEF DavIInv, DavSteps
<1>8. \A k \in DOMAIN lock : k # l => (Live(k)' <=> Live(k))
  BY <1>1, <1>4 DEF Live
<1>9. \A k \in DOMAIN lock : \A p : protects(k, p)' <=> protects(k, p)
  BY <1>4 DEF protects
<1>10. ASSUME orderly'
       PROVE  /\ serial /\ orderly /\ Ordered(m_locks)
              /\ ToSet(m_locks) \subseteq held
              /\ l \in ToSet(m_locks)
              /\ \A k \in DOMAIN lock : Live(k) => k \in ToSet(m_locks)
              /\ \A k \in DOMAIN lock : Live(k) /\ k # l =>
                    ~ protects(k, lock[l].path) /\ ~ protects(l, lock[k].path)
              /\ \A k, m \in DOMAIN lock : k # m /\ Live(k) /\ Live(m) => ~ protects(k, lock[m].path)
  <2>1. serial /\ orderly BY <1>1, <1>10 DEF orderly, serial
  <2>2. Ordered(m_locks) BY <2>1, <1>1, NoneChanging DEF DavIInv
  <2>3. ExpireInv(t) BY <2>1 DEF DavIInv, TestedInv
  <2> QED BY <2>1, <2>2, <2>3, <1>1 DEF DavIInv, OrderInv, LocksKept, LocksStay, LocksDisjoint, ExpireInv
<1>11. OrderInv'
  <2>1. SUFFICES ASSUME orderly'
                 PROVE  /\ refreshes' # "none"
                        /\ \A i, j \in DOMAIN m_locks : i < j =>
                              /\ m_locks[i] # m_locks[j]
                              /\ \/ m_locks[i] = l \/ m_locks[j] = l
                                 \/ before(m_locks[i], m_locks[j])'
                        /\ ToSet(m_locks) \subseteq held
    <3>1. l \in Changing' BY <1>6 DEF Changing
    <3> HIDE DEF l
    <3> QED BY <1>1, <3>1 DEF OrderInv
  <2>2. refreshes' # "none" BY <1>1
  <2>3. ASSUME NEW i \in DOMAIN m_locks, NEW j \in DOMAIN m_locks, i < j
        PROVE  /\ m_locks[i] # m_locks[j]
               /\ \/ m_locks[i] = l \/ m_locks[j] = l
                  \/ before(m_locks[i], m_locks[j])'
    <3>1. before(m_locks[i], m_locks[j]) BY <2>1, <2>3, <1>10 DEF Ordered
    <3>2. m_locks[i] \in DOMAIN lock /\ m_locks[j] \in DOMAIN lock BY TableTypes DEF DavIInv
    <3>3. m_locks[i] # m_locks[j] BY <3>1, <3>2, BeforeTotal DEF DavIInv
    <3>4. ASSUME m_locks[i] # l, m_locks[j] # l PROVE before(m_locks[i], m_locks[j])'
      <4>1. lock'[m_locks[i]] = lock[m_locks[i]] /\ lock'[m_locks[j]] = lock[m_locks[j]]
        BY <3>2, <3>4, <1>4
      <4>2. m_locks' = m_locks BY <1>1
      <4> QED BY <3>1, <4>1, <4>2 DEF before
    <3> QED BY <3>3, <3>4
  <2> QED BY <2>1, <2>2, <2>3, <1>10
<1>12. LocksKept'
  <2>1. SUFFICES ASSUME orderly', NEW k \in DOMAIN lock, Live(k)' PROVE k \in ToSet(m_locks)
    BY <1>1, <1>4 DEF LocksKept, LocksStay
  <2> QED BY <2>1, <1>8, <1>10
<1>13. LocksDisjoint'
  <2>1. SUFFICES ASSUME orderly', NEW k \in DOMAIN lock, NEW m \in DOMAIN lock, k # m, Live(k)', Live(m)'
                 PROVE  ~ protects(k, lock[m].path)
    BY <1>4, <1>9 DEF LocksDisjoint
  <2>2. CASE k = l BY <2>1, <2>2, <1>8, <1>10
  <2>3. CASE m = l BY <2>1, <2>3, <1>8, <1>10
  <2>4. CASE k # l /\ m # l BY <2>1, <2>4, <1>8, <1>10
  <2> QED BY <2>2, <2>3, <2>4
<1>14. TestedInv'
  <2>1. AddInv(t)' /\ ActInv(t)' BY <1>6 DEF AddInv, ActInv
  <2>2. orderly' => ExpireInv(t)'
    <3>1. SUFFICES ASSUME orderly'
                   PROVE  /\ l \in ToSet(m_locks)
                          /\ \A k \in DOMAIN lock : Live(k)' /\ k # l =>
                                ~ protects(k, lock[l].path) /\ ~ protects(l, lock[k].path)
      BY <1>1, <1>4, <1>6, <1>9 DEF ExpireInv
    <3> QED BY <3>1, <1>8, <1>10
  <2> QED BY <2>1, <2>2, <1>1, TestedStep DEF DavIInv, DavSteps
<1> QED BY <1>7, <1>11, <1>12, <1>13, <1>14 DEF DavIInv

(* A table without a lock that was in it.                                  *)
LEMMA ErasedElems ==
    ASSUME DavTypes, NEW i \in 1 .. Len(m_locks),
           \A a, b \in DOMAIN m_locks : a < b => m_locks[a] # m_locks[b]
    PROVE  /\ ErasedAt(i) \in Seq(DOMAIN lock)
           /\ ToSet(ErasedAt(i)) = ToSet(m_locks) \ {m_locks[i]}
           /\ DOMAIN ErasedAt(i) = 1 .. Len(m_locks) - 1
           /\ \A a, b \in DOMAIN ErasedAt(i) : a < b =>
                 \E c, d \in DOMAIN m_locks : /\ c < d /\ c # i /\ d # i
                                              /\ ErasedAt(i)[a] = m_locks[c] /\ ErasedAt(i)[b] = m_locks[d]
<1> DEFINE s == ErasedAt(i)
           n == Len(m_locks)
           at(a) == IF a < i THEN a ELSE a + 1
<1>1. n \in Nat /\ DOMAIN m_locks = 1 .. n /\ i \in 1 .. n BY TableTypes
<1>2. s = RemoveAt(m_locks, i) BY <1>1 DEF ErasedAt
<1>3. s \in Seq(DOMAIN lock) /\ Len(s) = n - 1 /\ \A a \in 1 .. n - 1 : s[a] = m_locks[at(a)]
  <2>1. /\ RemoveAt(m_locks, i) \in Seq(DOMAIN lock)
        /\ Len(RemoveAt(m_locks, i)) = Len(m_locks) - 1
        /\ \A k \in 1 .. Len(m_locks) - 1 :
              RemoveAt(m_locks, i)[k] = IF k < i THEN m_locks[k] ELSE m_locks[k + 1]
    BY RemovedElems DEF DavTypes
  <2> HIDE DEF s
  <2> QED BY <2>1, <1>2
<1>4. DOMAIN s = 1 .. n - 1 BY <1>3, LenProperties
<1> HIDE DEF s
<1>5. \A a \in 1 .. n - 1 : at(a) \in 1 .. n /\ at(a) # i BY <1>1
<1>6. \A a, b \in 1 .. n - 1 : a < b => at(a) < at(b) BY <1>1
<1>7. \A c \in 1 .. n : c # i => \E a \in 1 .. n - 1 : at(a) = c
  <2> SUFFICES ASSUME NEW c \in 1 .. n, c # i PROVE \E a \in 1 .. n - 1 : at(a) = c
    OBVIOUS
  <2>1. CASE c < i
    <3>1. c \in 1 .. n - 1 /\ at(c) = c BY <2>1, <1>1
    <3> QED BY <3>1
  <2>2. CASE i < c
    <3>1. c - 1 \in 1 .. n - 1 /\ at(c - 1) = c BY <2>2, <1>1
    <3> QED BY <3>1
  <2> QED BY <2>1, <2>2, <1>1
<1>8. ToSet(s) = ToSet(m_locks) \ {m_locks[i]}
  <2>1. \A a \in 1 .. n - 1 : s[a] \in ToSet(m_locks) /\ s[a] # m_locks[i]
    <3> SUFFICES ASSUME NEW a \in 1 .. n - 1 PROVE s[a] \in ToSet(m_locks) /\ s[a] # m_locks[i]
      OBVIOUS
    <3>1. s[a] = m_locks[at(a)] /\ at(a) \in 1 .. n /\ at(a) # i BY <1>3, <1>5
    <3> HIDE DEF at
    <3>2. m_locks[at(a)] # m_locks[i] BY <3>1, <1>1
    <3> QED BY <3>1, <3>2, <1>1 DEF ToSet
  <2>2. \A c \in 1 .. n : m_locks[c] # m_locks[i] => m_locks[c] \in ToSet(s)
    <3> SUFFICES ASSUME NEW c \in 1 .. n, m_locks[c] # m_locks[i] PROVE m_locks[c] \in ToSet(s)
      OBVIOUS
    <3>1. PICK a \in 1 .. n - 1 : at(a) = c BY <1>7
    <3>2. s[a] = m_locks[c] BY <1>3, <3>1
    <3> QED BY <3>2, <1>4 DEF ToSet
  <2> QED BY <2>1, <2>2, <1>1, <1>4 DEF ToSet
<1>9. ASSUME NEW a \in 1 .. n - 1, NEW b \in 1 .. n - 1, a < b
      PROVE  \E c, d \in 1 .. n : c < d /\ c # i /\ d # i /\ s[a] = m_locks[c] /\ s[b] = m_locks[d]
  <2>1. at(a) \in 1 .. n /\ at(b) \in 1 .. n /\ at(a) < at(b) /\ at(a) # i /\ at(b) # i
    BY <1>5, <1>6, <1>9
  <2>2. s[a] = m_locks[at(a)] /\ s[b] = m_locks[at(b)] BY <1>3
  <2> HIDE DEF at
  <2> QED BY <2>1, <2>2
<1>10. /\ s \in Seq(DOMAIN lock)
       /\ ToSet(s) = ToSet(m_locks) \ {m_locks[i]}
       /\ DOMAIN s = 1 .. Len(m_locks) - 1
       /\ \A a, b \in DOMAIN s : a < b =>
             \E c, d \in DOMAIN m_locks : /\ c < d /\ c # i /\ d # i
                                          /\ s[a] = m_locks[c] /\ s[b] = m_locks[d]
  <2> HIDE DEF at
  <2>1. s \in Seq(DOMAIN lock) BY <1>3
  <2>2. DOMAIN s = 1 .. Len(m_locks) - 1 BY <1>4
  <2>3. ASSUME NEW a \in DOMAIN s, NEW b \in DOMAIN s, a < b
        PROVE  \E c, d \in DOMAIN m_locks : /\ c < d /\ c # i /\ d # i
                                            /\ s[a] = m_locks[c] /\ s[b] = m_locks[d]
    <3>1. a \in 1 .. n - 1 /\ b \in 1 .. n - 1 BY <1>4, <2>3
    <3>2. PICK c \in 1 .. n, d \in 1 .. n :
            c < d /\ c # i /\ d # i /\ s[a] = m_locks[c] /\ s[b] = m_locks[d]
      BY <1>9, <2>3, <3>1
    <3> QED BY <1>1, <3>2
  <2> QED BY <2>1, <2>2, <2>3, <1>8
<1> QED BY <1>10 DEF s

(* A lock that is given up leaves the table.                               *)
LEMMA CancelKeeps ==
    ASSUME DavIInv, NEW t \in Threads, Cancel(t)
    PROVE  DavIInv'
<1> DEFINE l == req[t].token
<1>1. /\ step[t] = "cancel" /\ t \in workers
      /\ held' = held \ {l}
      /\ UNCHANGED <<lock, clock, workers, refreshes>>
      /\ IF req[t].method = "UNLOCK" THEN Answer(t) ELSE Passed(t, req[t])
  BY DEF Cancel, DavIInv, DavTypes
<1>2. PICK i \in Finds(l) : m_locks' = ErasedAt(i) BY DEF Cancel
<1>3. ReqTypes(t) BY DEF DavIInv, DavTypes
<1>4. l \in DOMAIN lock
  <2>1. req[t].method # "UNLOCK" => l \in 0 .. Len(lock) /\ l # 0 BY <1>1, <1>3 DEF ReqTypes
  <2>2. req[t].method = "UNLOCK" => l \in DOMAIN lock BY <1>1, <1>3 DEF ReqTypes
  <2> QED BY <2>1, <2>2, TableTypes DEF DavIInv
<1>a. PICK w \in {"idle", "header", "act"} : \E r :
          /\ Goto(t, w, r)
          /\ w # "idle" => r = req[t] /\ req[t].method # "UNLOCK"
  BY <1>1 DEF Answer, Passed
<1>5. PICK r :
          /\ Goto(t, w, r)
          /\ w # "idle" => r = req[t] /\ req[t].method # "UNLOCK"
  BY <1>a
<1>6. step'[t] = w /\ req'[t] = r BY <1>5, OneGoes DEF DavIInv, DavSteps
<1>7. DavTypes'
  <2>1. ReqTypes(t)' BY <1>1, <1>3, <1>5, <1>6 DEF ReqTypes
  <2>2. m_locks' \in Seq(DOMAIN lock') BY <1>1, <1>2, <1>4, ErasedTypes DEF DavIInv
  <2> QED BY <1>1, <1>5, <2>1, <2>2, TypesStep DEF DavIInv, DavTypes, DavSteps
<1>8. ASSUME orderly'
      PROVE  /\ orderly /\ Changing' = {}
             /\ Ordered(m_locks)'
             /\ ToSet(m_locks)' = ToSet(m_locks) \ {l}
             /\ ToSet(m_locks)' \subseteq held'
  <2>1. orderly BY <1>1, <1>8 DEF orderly, serial
  <2>2. Ordered(m_locks) /\ Changing = {} BY <2>1, <1>1, NoneChanging DEF DavIInv
  <2>3. Changing' = {} BY <2>2, <1>5, OneGoes DEF DavIInv, DavSteps
  <2>4. ToSet(m_locks) \subseteq held BY <2>1 DEF DavIInv, OrderInv
  <2>5. Ordered(m_locks)' /\ ToSet(m_locks)' = ToSet(m_locks) \ {l}
    <3>1. CASE i = 0
      <4>1. m_locks' = m_locks BY <3>1, <1>2 DEF ErasedAt
      <4>2. l \notin ToSet(m_locks)
        <5>1. 0 \in Finds(l) BY <3>1
        <5> HIDE DEF l
        <5> QED BY <5>1, <1>4, <2>2, FindsAll DEF DavIInv
      <4> QED BY <4>1, <4>2, <2>2, <1>1 DEF Ordered, before
    <3>2. CASE i # 0
      <4>1. i \in 1 .. Len(m_locks) /\ m_locks[i] = l
        <5>1. i \in 0 .. Len(m_locks) /\ m_locks[i] = l /\ Len(m_locks) \in Nat
          BY <3>2, <1>4, FindsTypes, TableTypes DEF DavIInv
        <5> QED BY <5>1, <3>2
      <4>2. \A a, b \in DOMAIN m_locks : a < b => m_locks[a] # m_locks[b]
        BY <2>1, <2>2 DEF DavIInv, OrderInv
      <4>3. /\ ToSet(m_locks') = ToSet(m_locks) \ {l}
            /\ \A a, b \in DOMAIN m_locks' : a < b =>
                 \E c, d \in DOMAIN m_locks : /\ c < d
                                              /\ m_locks'[a] = m_locks[c] /\ m_locks'[b] = m_locks[d]
        BY <1>2, <4>1, <4>2, ErasedElems DEF DavIInv
      <4>4. Ordered(m_locks)'
        <5>1. SUFFICES ASSUME NEW a \in DOMAIN m_locks', NEW b \in DOMAIN m_locks', a < b
                       PROVE  before(m_locks[a], m_locks[b])'
          BY DEF Ordered
        <5>2. PICK c \in DOMAIN m_locks, d \in DOMAIN m_locks :
                  c < d /\ m_locks'[a] = m_locks[c] /\ m_locks'[b] = m_locks[d]
          BY <5>1, <4>3
        <5>3. before(m_locks[c], m_locks[d]) BY <5>2, <2>2 DEF Ordered
        <5> QED BY <5>2, <5>3, <1>1 DEF before
      <4> QED BY <4>3, <4>4
    <3> QED BY <3>1, <3>2
  <2> QED BY <2>1, <2>3, <2>4, <2>5, <1>1
<1>9. OrderInv'
  <2>1. CASE orderly' BY <2>1, <1>7, <1>8, OrderStep
  <2>2. CASE ~ orderly' BY <2>2 DEF OrderInv
  <2> QED BY <2>1, <2>2
<1>10. \A k : Live(k)' => Live(k) /\ k # l BY <1>1 DEF Live
<1>11. \A k, p : protects(k, p)' <=> protects(k, p) BY <1>1 DEF protects
<1>12. LocksKept'
  BY <1>1, <1>8, <1>10 DEF DavIInv, LocksKept, LocksStay
<1>13. LocksDisjoint'
  <2>1. serial' /\ orderly' => serial /\ orderly BY <1>1 DEF serial, orderly
  <2> QED BY <2>1, <1>1, <1>10, <1>11 DEF DavIInv, LocksDisjoint
<1>14. TestedInv'
  <2>1. AddInv(t)' /\ ExpireInv(t)' BY <1>5, <1>6 DEF AddInv, ExpireInv
  <2>2. ASSUME serial, orderly' PROVE ActInv(t)'
    <3>1. w # "idle" => ActInv(t) /\ req[t].method # "UNLOCK"
      BY <2>2, <1>5, <1>8 DEF DavIInv, TestedInv
    <3>2. w # "idle" => req'[t] = req[t] BY <1>5, <1>6
    <3> QED BY <3>1, <3>2, <1>1, <1>5, <1>6, <1>10, <1>11 DEF ActInv
  <2> QED BY <1>1, <1>5, <2>1, <2>2, TestedStep DEF DavIInv, DavSteps
<1> QED BY <1>7, <1>9, <1>12, <1>13, <1>14 DEF DavIInv

(* A refresh that finds its lock puts the table in order again.            *)
LEMMA RefreshKeeps ==
    ASSUME DavIInv, NEW t \in Threads, Refresh(t)
    PROVE  DavIInv'
<1> DEFINE me == req[t].token
           below == {k \in ToSet(m_locks) : k = me \/ before(k, me)}
<1>1. /\ step[t] = "refresh" /\ t \in workers
      /\ Answer(t)
      /\ UNCHANGED <<lock, held, clock, workers>>
  BY DEF Refresh, DavIInv, DavTypes
<1>2. PICK i \in Finds(me) :
          /\ m_locks' \in Inserted(ErasedAt(i), me, below)
          /\ refreshes' = IF i = 0 THEN "missed" ELSE refreshes
  BY DEF Refresh
<1>3. req[t] \in [method : {"LOCK"}, token : DOMAIN lock, expire : Int]
  BY <1>1 DEF DavIInv, DavTypes, ReqTypes
<1>4. me \in DOMAIN lock BY <1>3
<1>5. step'[t] = "idle" BY <1>1, OneGoes DEF DavIInv, DavSteps, Answer
<1>6. DavTypes'
  <2>1. ReqTypes(t)' BY <1>5 DEF ReqTypes
  <2>2. m_locks' \in Seq(DOMAIN lock')
    <3>1. ErasedAt(i) \in Seq(DOMAIN lock) BY <1>4, ErasedTypes DEF DavIInv
    <3> HIDE DEF below, me
    <3> QED BY <3>1, <1>1, <1>2, <1>4, InsertedTypes
  <2>3. refreshes' \in {"none", "found", "missed"} BY <1>2 DEF DavIInv, DavTypes
  <2>4. Goto(t, "idle", NoReq) BY <1>1 DEF Answer
  <2> QED BY <1>1, <2>1, <2>2, <2>3, <2>4, TypesStep DEF DavIInv, DavTypes, DavSteps
<1>7. ASSUME orderly'
      PROVE  /\ orderly /\ Changing' = {}
             /\ Ordered(m_locks)'
             /\ ToSet(m_locks)' = ToSet(m_locks)
             /\ ToSet(m_locks) \subseteq held
  <2>1. i # 0 /\ refreshes' = refreshes BY <1>2, <1>7 DEF orderly
  <2>2. orderly BY <2>1, <1>1, <1>7 DEF orderly, serial
  <2>3. me \in Changing BY <1>1 DEF Changing
  <2>4. refreshes # "none"
    <3> HIDE DEF me
    <3> QED BY <2>2, <2>3 DEF DavIInv, OrderInv
  <2>5. serial BY <2>2, <2>4 DEF orderly
  <2>6. \A u \in Threads : u # t => step[u] = "idle" BY <2>5, <1>1, OthersIdle DEF DavIInv
  <2>7. Changing = {me} BY <2>6, <1>1 DEF Changing
  <2>8. Changing' = {}
    <3>1. \A u \in Threads : step'[u] # "refresh"
      <4>1. Goto(t, "idle", NoReq) BY <1>1 DEF Answer
      <4> QED BY <4>1, <2>6, <1>5, OneGoes DEF DavIInv, DavSteps
    <3> QED BY <3>1 DEF Changing
  <2>9. i \in 1 .. Len(m_locks) /\ m_locks[i] = me
    <3>1. i \in 0 .. Len(m_locks) /\ m_locks[i] = me /\ Len(m_locks) \in Nat
      BY <2>1, <1>4, FindsTypes, TableTypes DEF DavIInv
    <3> QED BY <3>1, <2>1
  <2>10. \A a, b \in DOMAIN m_locks : a < b =>
            /\ m_locks[a] # m_locks[b]
            /\ m_locks[a] = me \/ m_locks[b] = me \/ before(m_locks[a], m_locks[b])
    <3> HIDE DEF me
    <3> QED BY <2>2, <2>7 DEF DavIInv, OrderInv
  <2> DEFINE rest == ErasedAt(i)
             D == DOMAIN lock
             Pairs == {x \in D \X D : before(x[1], x[2])}
  <2>11. /\ rest \in Seq(D) /\ ToSet(rest) = ToSet(m_locks) \ {me}
         /\ DOMAIN rest = 1 .. Len(m_locks) - 1
         /\ \A a, b \in DOMAIN rest : a < b =>
              \E c, d \in DOMAIN m_locks : /\ c < d /\ c # i /\ d # i
                                           /\ rest[a] = m_locks[c] /\ rest[b] = m_locks[d]
    BY <2>9, <2>10, ErasedElems DEF DavIInv
  <2> HIDE DEF rest
  <2>12. \A a, b \in 1 .. Len(rest) : a < b => before(rest[a], rest[b]) /\ rest[a] \in D /\ rest[b] \in D
    <3> SUFFICES ASSUME NEW a \in 1 .. Len(rest), NEW b \in 1 .. Len(rest), a < b
                 PROVE  before(rest[a], rest[b]) /\ rest[a] \in D /\ rest[b] \in D
      OBVIOUS
    <3>0. DOMAIN rest = 1 .. Len(rest) BY <2>11, LenProperties
    <3>1. PICK c \in DOMAIN m_locks, d \in DOMAIN m_locks :
              c < d /\ c # i /\ d # i /\ rest[a] = m_locks[c] /\ rest[b] = m_locks[d]
      BY <2>11, <3>0
    <3>2. c \in Int /\ d \in Int /\ i \in Int BY <2>9, TableTypes DEF DavIInv
    <3>3. m_locks[c] # me /\ m_locks[d] # me
      <4>1. i \in DOMAIN m_locks BY <2>9, TableTypes DEF DavIInv
      <4>2. c < i \/ i < c BY <3>1, <3>2
      <4>3. d < i \/ i < d BY <3>1, <3>2
      <4>4. m_locks[c] # m_locks[i] BY <4>1, <4>2, <2>10
      <4>5. m_locks[d] # m_locks[i] BY <4>1, <4>3, <2>10
      <4> QED BY <4>4, <4>5, <2>9
    <3>4. before(m_locks[c], m_locks[d]) BY <3>1, <3>3, <2>10
    <3> QED BY <3>1, <3>4, TableTypes DEF DavIInv
  <2>13. \A k \in ToSet(rest) : k \in D /\ k # me /\ k \in ToSet(m_locks)
    <3>1. ToSet(m_locks) \subseteq D BY TableTypes DEF DavIInv
    <3> QED BY <3>1, <2>11
  <2>14. Fits(rest, me, below, Pairs)
    <3> HIDE DEF me
    <3> SUFFICES ASSUME NEW k \in ToSet(rest)
                 PROVE  IF k \in below THEN <<k, me>> \in Pairs ELSE <<me, k>> \in Pairs
      BY <2>13 DEF Fits
    <3>1. k \in D /\ me \in D /\ k # me /\ k \in ToSet(m_locks) BY <2>13, <1>4
    <3>2. before(k, me) \/ before(me, k) BY <3>1, BeforeTotal DEF DavIInv
    <3> QED BY <3>1, <3>2
  <2>15. InOrder(rest, Pairs)
    <3>1. DOMAIN rest = 1 .. Len(rest) BY <2>11, LenProperties
    <3> QED BY <2>12, <3>1 DEF InOrder
  <2>16. IsTransitive(Pairs, D) BY BeforeTotal DEF DavIInv, IsTransitive
  <2>17. m_locks' \in Inserted(rest, me, below) BY <1>2 DEF rest
  <2>18. /\ \A x : x \in ToSet(m_locks') <=> x \in ToSet(rest) \/ x = me
         /\ InOrder(m_locks', Pairs)
    <3> HIDE DEF Pairs, below, D, me
    <3>1. me \in D BY <1>4 DEF D, me
    <3>2. rest \in Seq(D) BY <2>11
    <3>3. ASSUME NEW u \in Inserted(rest, me, below)
          PROVE  /\ \A x : x \in ToSet(u) <=> x \in ToSet(rest) \/ x = me
                 /\ InOrder(u, Pairs)
      <4>1. \A x : x \in ToSet(u) <=> x \in ToSet(rest) \/ x = me
        BY <3>1, <3>2, <3>3, <2>14, <2>15, <2>16, InsertKeeps
      <4>2. InOrder(u, Pairs)
        BY <3>1, <3>2, <3>3, <2>14, <2>15, <2>16, InsertKeeps
      <4> QED BY <4>1, <4>2
    <3> QED BY <2>17, <3>3
  <2>19. /\ ToSet(m_locks') = ToSet(rest) \cup {me}
         /\ \A a, b \in DOMAIN m_locks' : a < b => <<m_locks'[a], m_locks'[b]>> \in Pairs
    BY <2>18 DEF InOrder
  <2>20. Ordered(m_locks)'
    <3>1. \A a, b \in DOMAIN m_locks' : a < b => before(m_locks'[a], m_locks'[b]) BY <2>19
    <3> QED BY <3>1, <1>1 DEF Ordered, before
  <2>21. ToSet(m_locks)' = ToSet(m_locks)
    <3>1. me \in ToSet(m_locks) BY <2>9, TableTypes DEF ToSet, DavIInv
    <3> QED BY <3>1, <2>11, <2>19
  <2>22. ToSet(m_locks) \subseteq held BY <2>2 DEF DavIInv, OrderInv
  <2> QED BY <2>2, <2>8, <2>20, <2>21, <2>22
<1>8. OrderInv'
  <2>1. CASE orderly' BY <2>1, <1>1, <1>6, <1>7, OrderStep
  <2>2. CASE ~ orderly' BY <2>2 DEF OrderInv
  <2> QED BY <2>1, <2>2
<1>9. /\ \A k : Live(k)' <=> Live(k)
      /\ \A k, p : protects(k, p)' <=> protects(k, p)
  BY <1>1 DEF Live, protects
<1>10. LocksKept' BY <1>1, <1>7, <1>9 DEF DavIInv, LocksKept, LocksStay
<1>11. LocksDisjoint'
  <2>1. serial' /\ orderly' => serial /\ orderly BY <1>1, <1>7 DEF serial
  <2> QED BY <2>1, <1>1, <1>9 DEF DavIInv, LocksDisjoint
<1>12. TestedInv' BY <1>1, AnswerTests DEF DavIInv
<1> QED BY <1>6, <1>8, <1>10, <1>11, <1>12 DEF DavIInv

(* What the test before it has found makes the new lock a disjoint one.    *)
LEMMA LockAddKeeps ==
    ASSUME DavIInv, NEW t \in Threads, LockAdd(t)
    PROVE  DavIInv'
<1>0. PICK new : new = Len(lock) + 1 OBVIOUS
<1> DEFINE e == [path |-> req[t].path, expire |-> req[t].expire, infinite |-> req[t].infinite]
           below == {k \in ToSet(m_locks) : lock[k].expire <= req[t].expire}
<1>1. /\ step[t] = "add" /\ t \in workers
      /\ lock' = Append(lock, e)
      /\ m_locks' \in Inserted(m_locks, new, below)
      /\ held' = held \cup {new}
      /\ Answer(t)
      /\ UNCHANGED <<clock, workers, refreshes>>
  BY <1>0 DEF LockAdd, DavIInv, DavTypes
<1>2. req[t] \in [method : {"LOCK"}, path : Paths, expire : Int, infinite : BOOLEAN]
  BY <1>1 DEF DavIInv, DavTypes, ReqTypes
<1>3. e \in Lock_ BY <1>2 DEF Lock_
<1>4. /\ lock' \in Seq(Lock_) /\ Len(lock') = new
      /\ DOMAIN lock' = DOMAIN lock \cup {new} /\ new \notin DOMAIN lock
      /\ DOMAIN lock \subseteq Nat /\ new \in Nat /\ \A k \in DOMAIN lock : k < new
      /\ \A k \in DOMAIN lock : lock'[k] = lock[k] /\ lock[k] \in Lock_
      /\ lock'[new].path = req[t].path /\ lock'[new].expire = req[t].expire
      /\ lock'[new].infinite = req[t].infinite
  <2>1. lock \in Seq(Lock_) BY DEF DavIInv, DavTypes
  <2>2. Len(lock) \in Nat /\ DOMAIN lock = 1 .. Len(lock) BY <2>1, LenProperties
  <2>3. /\ Append(lock, e) \in Seq(Lock_) /\ Len(Append(lock, e)) = Len(lock) + 1
        /\ \A k \in 1 .. Len(lock) : Append(lock, e)[k] = lock[k]
        /\ Append(lock, e)[Len(lock) + 1] = e
        /\ DOMAIN Append(lock, e) = 1 .. Len(lock) + 1
    <3> HIDE DEF e
    <3> QED BY <2>1, <1>3, AppendProperties, LenProperties
  <2>4. \A k \in 1 .. Len(lock) : lock[k] \in Lock_ BY <2>1, <2>2
  <2> QED BY <1>0, <1>1, <2>2, <2>3, <2>4
<1>5. step'[t] = "idle" BY <1>1, OneGoes DEF DavIInv, DavSteps, Answer
<1> HIDE DEF e
<1>6. ToSet(m_locks) \subseteq DOMAIN lock BY TableTypes DEF DavIInv
<1>7. DavTypes'
  <2>1. ReqTypes(t)' BY <1>5 DEF ReqTypes
  <2>2. m_locks' \in Seq(DOMAIN lock')
    <3>1. m_locks \in Seq(DOMAIN lock')
      <4>1. m_locks \in Seq(DOMAIN lock) BY DEF DavIInv, DavTypes
      <4>2. m_locks = [i \in 1 .. Len(m_locks) |-> m_locks[i]] /\ Len(m_locks) \in Nat
            /\ \A i \in 1 .. Len(m_locks) : m_locks[i] \in DOMAIN lock'
        BY <4>1, <1>4, TableTypes DEF DavIInv
      <4> QED BY <4>2, IsASeq
    <3>2. new \in DOMAIN lock' BY <1>4
    <3> HIDE DEF below
    <3> QED BY <3>1, <3>2, <1>1, InsertedTypes
  <2>3. refreshes' \in {"none", "found", "missed"} BY <1>1 DEF DavIInv, DavTypes
  <2>4. Goto(t, "idle", NoReq) BY <1>1 DEF Answer
  <2>5. held' \subseteq DOMAIN lock' BY <1>1, <1>4 DEF DavIInv, DavTypes
  <2>6. DOMAIN lock \subseteq DOMAIN lock' BY <1>4
  <2> QED BY <1>1, <1>4, <2>1, <2>2, <2>3, <2>4, <2>5, <2>6, TypesStep DEF DavIInv, DavSteps
<1>8. ASSUME orderly'
      PROVE  /\ orderly /\ Changing' = {}
             /\ Ordered(m_locks)'
             /\ ToSet(m_locks)' = ToSet(m_locks) \cup {new}
             /\ ToSet(m_locks)' \subseteq held'
  <2>1. orderly BY <1>1, <1>8 DEF orderly, serial
  <2>2. Ordered(m_locks) /\ Changing = {} BY <2>1, <1>1, NoneChanging DEF DavIInv
  <2>3. Changing' = {}
    <3>1. Goto(t, "idle", NoReq) BY <1>1 DEF Answer
    <3> QED BY <2>2, <3>1, OneGoes DEF DavIInv, DavSteps
  <2> DEFINE D == DOMAIN lock'
             Pairs == {x \in D \X D : before(x[1], x[2])'}
  <2>4. \A j, k \in DOMAIN lock : before(j, k)' <=> before(j, k)
    BY <1>4 DEF before
  <2>5. InOrder(m_locks, Pairs)
    <3> SUFFICES ASSUME NEW a \in DOMAIN m_locks, NEW b \in DOMAIN m_locks, a < b
                 PROVE  <<m_locks[a], m_locks[b]>> \in Pairs
      BY DEF InOrder
    <3>1. before(m_locks[a], m_locks[b]) BY <2>2 DEF Ordered
    <3>2. PICK x \in DOMAIN lock, y \in DOMAIN lock : x = m_locks[a] /\ y = m_locks[b]
      BY TableTypes DEF DavIInv
    <3>3. before(x, y)' BY <3>1, <3>2, <2>4
    <3> QED BY <3>2, <3>3, <1>4
  <2>6. Fits(m_locks, new, below, Pairs)
    <3> SUFFICES ASSUME NEW k \in ToSet(m_locks)
                 PROVE  IF k \in below THEN <<k, new>> \in Pairs ELSE <<new, k>> \in Pairs
      BY <1>4, <1>6 DEF Fits
    <3>1. k \in DOMAIN lock /\ k < new /\ k \in Nat /\ new \in Nat BY <1>4, <1>6
    <3>2. lock'[k] = lock[k] /\ lock[k].expire \in Int BY <3>1, <1>4 DEF Lock_
    <3>3. IF k \in below THEN before(k, new)' ELSE before(new, k)'
      BY <3>1, <3>2, <1>2, <1>4 DEF before
    <3>4. k \in D /\ new \in D BY <3>1, <1>4
    <3> QED BY <3>3, <3>4
  <2>7. IsTransitive(Pairs, D)
    <3>1. \A k \in D : lock'[k].expire \in Int /\ k \in Nat BY <1>2, <1>4 DEF Lock_
    <3> SUFFICES ASSUME NEW x \in D, NEW y \in D, NEW z \in D, before(x, y)', before(y, z)'
                 PROVE  before(x, z)'
      BY DEF IsTransitive
    <3> QED BY <3>1 DEF before
  <2>8. m_locks \in Seq(D)
    <3>1. m_locks = [i \in 1 .. Len(m_locks) |-> m_locks[i]] /\ Len(m_locks) \in Nat
          /\ \A i \in 1 .. Len(m_locks) : m_locks[i] \in D
      <4>1. m_locks \in Seq(DOMAIN lock) BY DEF DavIInv, DavTypes
      <4> QED BY <4>1, <1>4, TableTypes DEF DavIInv
    <3> QED BY <3>1, IsASeq
  <2>9. new \in D BY <1>4
  <2>10. ASSUME NEW u \in Inserted(m_locks, new, below)
         PROVE  /\ \A x : x \in ToSet(u) <=> x \in ToSet(m_locks) \/ x = new
                /\ InOrder(u, Pairs)
    <3> HIDE DEF Pairs, below, D
    <3>1. \A x : x \in ToSet(u) <=> x \in ToSet(m_locks) \/ x = new
      BY <2>5, <2>6, <2>7, <2>8, <2>9, <2>10, InsertKeeps
    <3>2. InOrder(u, Pairs)
      BY <2>5, <2>6, <2>7, <2>8, <2>9, <2>10, InsertKeeps
    <3> QED BY <3>1, <3>2
  <2>11. ToSet(m_locks)' = ToSet(m_locks) \cup {new} /\ InOrder(m_locks', Pairs) BY <1>1, <2>10
  <2>12. Ordered(m_locks)'
    <3>1. \A a, b \in DOMAIN m_locks' : a < b => before(m_locks[a], m_locks[b])' BY <2>11 DEF InOrder
    <3> QED BY <3>1 DEF Ordered
  <2>13. ToSet(m_locks) \subseteq held BY <2>1 DEF DavIInv, OrderInv
  <2> QED BY <2>1, <2>3, <2>11, <2>12, <2>13, <1>1
<1>9. OrderInv'
  <2>1. CASE orderly' BY <2>1, <1>7, <1>8, OrderStep
  <2>2. CASE ~ orderly' BY <2>2 DEF OrderInv
  <2> QED BY <2>1, <2>2
<1>10. \A k \in DOMAIN lock : (Live(k)' <=> Live(k)) /\ \A p : protects(k, p)' <=> protects(k, p)
  BY <1>1, <1>4 DEF Live, protects
<1>11. LocksKept'
  <2>1. SUFFICES ASSUME orderly', NEW k \in DOMAIN lock', Live(k)' PROVE k \in ToSet(m_locks)'
    BY DEF LocksKept, LocksStay
  <2>2. CASE k = new BY <2>1, <2>2, <1>8
  <2>3. CASE k \in DOMAIN lock
    BY <2>1, <2>3, <1>8, <1>10 DEF DavIInv, LocksKept, LocksStay
  <2> QED BY <2>2, <2>3, <1>4
<1>12. LocksDisjoint'
  <2>1. SUFFICES ASSUME serial', orderly', NEW l \in DOMAIN lock', NEW k \in DOMAIN lock',
                        l # k, Live(l)', Live(k)'
                 PROVE  ~ protects(l, lock[k].path)'
    BY DEF LocksDisjoint
  <2>2. serial /\ orderly BY <2>1, <1>1, <1>8 DEF serial
  <2>3. AddInv(t) BY <2>2 DEF DavIInv, TestedInv
  <2>4. CASE l = new
    <3>1. k \in DOMAIN lock /\ Live(k) /\ lock'[k].path = lock[k].path BY <2>1, <2>4, <1>4, <1>10
    <3>2. ~ Guards(req[t].path, req[t].infinite, lock[k].path) BY <2>3, <3>1, <1>1 DEF AddInv
    <3> QED BY <3>1, <3>2, <2>4, <1>4 DEF protects, Guards
  <2>5. CASE k = new
    <3>1. l \in DOMAIN lock /\ Live(l) BY <2>1, <2>5, <1>4, <1>10
    <3>2. ~ protects(l, req[t].path) BY <2>3, <3>1, <1>1 DEF AddInv
    <3> QED BY <3>1, <3>2, <2>5, <1>4, <1>10
  <2>6. CASE l \in DOMAIN lock /\ k \in DOMAIN lock
    <3>1. Live(l) /\ Live(k) BY <2>1, <2>6, <1>10
    <3>2. ~ protects(l, lock[k].path) BY <2>1, <2>2, <2>6, <3>1 DEF DavIInv, LocksDisjoint
    <3> QED BY <3>2, <2>6, <1>4, <1>10
  <2> QED BY <2>4, <2>5, <2>6, <1>4
<1>13. TestedInv' BY <1>1, AnswerTests DEF DavIInv
<1> QED BY <1>7, <1>9, <1>11, <1>12, <1>13 DEF DavIInv

LEMMA AnswerKeeps ==
    ASSUME DavIInv, NEW t \in Threads, BadHeader(t) \/ Act(t)
    PROVE  DavIInv'
<1>1. /\ step[t] \in {"header", "act"} /\ t \in workers
      /\ Answer(t)
      /\ UNCHANGED <<m_locks, lock, held, refreshes, clock, workers>>
  BY DEF BadHeader, Act, tableVars, DavIInv, DavTypes
<1>2. step'[t] = "idle" /\ Goto(t, "idle", NoReq) BY <1>1, OneGoes DEF DavIInv, DavSteps, Answer
<1>3. DavTypes'
  <2>1. ReqTypes(t)' BY <1>2 DEF ReqTypes
  <2> QED BY <1>1, <1>2, <2>1, TypesStep DEF DavIInv, DavTypes, DavSteps
<1>4. OrderInv'
  <2>1. CASE orderly'
    <3>1. orderly BY <1>1, <2>1 DEF orderly, serial
    <3>2. Ordered(m_locks) /\ Changing = {} BY <3>1, <1>1, NoneChanging DEF DavIInv
    <3>3. Changing' = {} BY <3>2, <1>2, OneGoes DEF DavIInv, DavSteps
    <3>4. Ordered(m_locks)' BY <3>2, <1>1 DEF Ordered, before
    <3>5. ToSet(m_locks)' \subseteq held' BY <3>1, <1>1 DEF DavIInv, OrderInv
    <3> QED BY <1>3, <3>3, <3>4, <3>5, OrderStep
  <2>2. CASE ~ orderly' BY <2>2 DEF OrderInv
  <2> QED BY <2>1, <2>2
<1>5. LocksKept' /\ LocksDisjoint'
  BY <1>1 DEF DavIInv, LocksKept, LocksStay, LocksDisjoint, Live, protects, orderly, serial
<1>6. TestedInv' BY <1>1, AnswerTests DEF DavIInv
<1> QED BY <1>3, <1>4, <1>5, <1>6 DEF DavIInv

(* When time passes, locks expire: fewer of them are live.                 *)
LEMMA PassKeeps ==
    ASSUME DavIInv, Pass
    PROVE  DavIInv'
<1>1. /\ UNCHANGED <<m_locks, lock, held, refreshes, step, req, workers>>
      /\ clock' = clock + 1 /\ clock \in Int
  BY DEF Pass, tableVars, DavIInv, DavTypes
<1>2. ASSUME NEW l \in DOMAIN lock, Live(l)' PROVE Live(l)
  <2>1. lock[l].expire \in Int BY TableTypes DEF DavIInv, Lock_
  <2> QED BY <1>1, <1>2, <2>1 DEF Live
<1>3. /\ \A l, p : protects(l, p)' <=> protects(l, p)
      /\ orderly' <=> orderly
      /\ serial' <=> serial
      /\ Changing' = Changing
      /\ \A l, k : before(l, k)' <=> before(l, k)
  BY <1>1 DEF protects, orderly, serial, Changing, before
<1>4. DavTypes' BY <1>1 DEF DavIInv, DavTypes, ReqTypes
<1>5. OrderInv'
  <2>1. SUFFICES ASSUME orderly
                 PROVE  /\ refreshes = "none" => Changing = {}
                        /\ \A i, j \in DOMAIN m_locks : i < j =>
                              /\ m_locks[i] # m_locks[j]
                              /\ \/ m_locks[i] \in Changing
                                 \/ m_locks[j] \in Changing
                                 \/ before(m_locks[i], m_locks[j])'
                        /\ ToSet(m_locks) \subseteq held
    BY <1>1, <1>3 DEF OrderInv
  <2>2. \A i, j \in DOMAIN m_locks : before(m_locks[i], m_locks[j])' <=> before(m_locks[i], m_locks[j])
    BY <1>1 DEF before
  <2> QED BY <2>1, <2>2 DEF DavIInv, OrderInv
<1>6. LocksKept' BY <1>1, <1>2, <1>3 DEF DavIInv, LocksKept, LocksStay
<1>7. LocksDisjoint'
  <2>1. SUFFICES ASSUME serial, orderly, NEW l \in DOMAIN lock, NEW k \in DOMAIN lock,
                        l # k, Live(l)', Live(k)'
                 PROVE  ~ protects(l, lock[k].path)
    BY <1>1, <1>3 DEF LocksDisjoint
  <2> QED BY <2>1, <1>2 DEF DavIInv, LocksDisjoint
<1>8. TestedInv'
  <2>1. SUFFICES ASSUME serial, orderly, NEW t \in Threads
                 PROVE  (AddInv(t) /\ ExpireInv(t) /\ ActInv(t))'
    BY <1>1, <1>3 DEF TestedInv
  <2>2. AddInv(t) /\ ExpireInv(t) /\ ActInv(t) BY <2>1 DEF DavIInv, TestedInv
  <2>3. AddInv(t)' BY <2>2, <1>1, <1>2, <1>3 DEF AddInv
  <2>4. ExpireInv(t)'
    <3>1. \A l \in DOMAIN lock : \A p : protects(req[t].token, p)' <=> protects(req[t].token, p)
      BY <1>1 DEF protects
    <3> QED BY <2>2, <1>1, <1>2, <1>3, <3>1 DEF ExpireInv, protects
  <2>5. ActInv(t)' BY <2>2, <1>1, <1>2, <1>3 DEF ActInv
  <2> QED BY <2>3, <2>4, <2>5
<1> QED BY <1>4, <1>5, <1>6, <1>7, <1>8 DEF DavIInv

LEMMA DavInitial ==
    ASSUME DavInit, workers \in SUBSET Threads
    PROVE  DavIInv
<1>1. /\ m_locks = <<>> /\ lock = <<>> /\ held = {} /\ refreshes = "none" /\ clock = 0
      /\ \A t \in Threads : step[t] = "idle"
      /\ DOMAIN m_locks = {} /\ DOMAIN lock = {} /\ ToSet(m_locks) = {}
  BY DEF DavInit, ToSet
<1>2. DavTypes
  <2>1. \A t \in Threads : ReqTypes(t) BY <1>1 DEF ReqTypes
  <2>2. step \in [Threads -> DavSteps] /\ DOMAIN req = Threads BY DEF DavInit, DavSteps
  <2> QED BY <1>1, <2>1, <2>2 DEF DavTypes
<1>3. OrderInv
  <2>1. Changing = {} BY <1>1 DEF Changing
  <2> QED BY <1>1, <2>1 DEF OrderInv
<1>4. LocksKept /\ LocksDisjoint BY <1>1 DEF LocksKept, LocksStay, LocksDisjoint
<1>5. TestedInv BY <1>1 DEF TestedInv, AddInv, ExpireInv, ActInv
<1> QED BY <1>2, <1>3, <1>4, <1>5 DEF DavIInv

LEMMA DavStutters ==
    ASSUME DavIInv, UNCHANGED davVars
    PROVE  DavIInv'
<1>1. UNCHANGED <<m_locks, lock, held, refreshes, clock, step, req, workers>>
  BY DEF davVars, tableVars
<1>2. DavTypes' BY <1>1 DEF DavIInv, DavTypes, ReqTypes
<1>3. OrderInv' BY <1>1 DEF DavIInv, OrderInv, Changing, before, orderly, serial
<1>4. LocksKept' /\ LocksDisjoint'
  BY <1>1 DEF DavIInv, LocksKept, LocksStay, LocksDisjoint, Live, protects, orderly, serial
<1>5. TestedInv'
  <2>1. \A t \in Threads : (AddInv(t)' <=> AddInv(t)) /\ (ActInv(t)' <=> ActInv(t))
    BY <1>1 DEF AddInv, ActInv, Live, protects, Guards
  <2>2. \A t \in Threads : ExpireInv(t)' <=> ExpireInv(t)
    BY <1>1 DEF ExpireInv, Live, protects
  <2> QED BY <2>1, <2>2, <1>1 DEF DavIInv, TestedInv, orderly, serial
<1> QED BY <1>2, <1>3, <1>4, <1>5 DEF DavIInv

LEMMA DavKeeps ==
    ASSUME DavIInv, [DavNext]_davVars
    PROVE  DavIInv'
<1>1. CASE Pass BY <1>1, PassKeeps
<1>2. CASE \E t \in Threads : DavStep(t)
  <2>1. PICK t \in Threads : DavStep(t) BY <1>2
  <2>2. CASE LockGet(t) BY <2>2, LockGetKeeps
  <2>3. CASE SetExpire(t) BY <2>3, SetExpireKeeps
  <2>4. CASE Refresh(t) BY <2>4, RefreshKeeps
  <2>5. CASE LockAdd(t) BY <2>5, LockAddKeeps
  <2>6. CASE UnlockGet(t) BY <2>6, UnlockGetKeeps
  <2>7. CASE Cancel(t) BY <2>7, CancelKeeps
  <2>8. CASE PutAction(t) BY <2>8, VerifyKeeps DEF PutAction, Guarded
  <2>9. CASE MkcolAction(t) BY <2>9, VerifyKeeps DEF MkcolAction, Guarded
  <2>10. CASE DeleteAction(t) BY <2>10, VerifyKeeps DEF DeleteAction, Guarded
  <2>11. CASE CopyAction(t) BY <2>11, VerifyKeeps DEF CopyAction, Guarded
  <2>12. CASE MoveAction(t) BY <2>12, VerifyKeeps DEF MoveAction, Guarded
  <2>13. CASE BadHeader(t) \/ Act(t) BY <2>13, AnswerKeeps
  <2>14. CASE VerifyTo(t) BY <2>14, VerifyToKeeps
  <2> QED BY <2>1, <2>2, <2>3, <2>4, <2>5, <2>6, <2>7, <2>8, <2>9, <2>10, <2>11, <2>12, <2>13, <2>14
          DEF DavStep
<1>3. CASE UNCHANGED davVars BY <1>3, DavStutters
<1> QED BY <1>1, <1>2, <1>3 DEF DavNext

(* The invariant is inductive, and holds of every behaviour.               *)
THEOREM DavInvariance == DavSpec => []DavIInv
<1>1. DavInit /\ workers \in SUBSET Threads => DavIInv BY DavInitial
<1>2. DavIInv /\ [DavNext]_davVars => DavIInv' BY DavKeeps
<1> QED BY <1>1, <1>2, PTL DEF DavSpec

(* A granted lock stays in the table until its owner gives it up or it     *)
(* expires, and with one worker no two of them protect the path of one     *)
(* another, as long as each refresh has found its lock: for any paths,     *)
(* requests, timeouts and number of locks.                                 *)
THEOREM LocksHold == DavSpec => []LockTable
<1>1. DavIInv => LockTable BY DEF DavIInv, LockTable
<1> QED BY <1>1, DavInvariance, PTL

(* With one worker, and as long as each refresh has found its lock, no     *)
(* file operation changes what a live lock of someone else protects, at    *)
(* the moment of the change.                                               *)
THEOREM WritesGuarded == DavSpec => GuardedWrites
<1> DEFINE Guarded_ == \A t \in Threads : serial /\ orderly /\ Act(t) =>
              \A l \in DOMAIN lock : Live(l) /\ l # req[t].token =>
                  /\ req[t].method # "COPY" => ~ protects(l, req[t].path)
                  /\ ~ protects(l, req[t].to)
<1>1. ASSUME DavIInv PROVE Guarded_
  <2> SUFFICES ASSUME NEW t \in Threads, serial, orderly, Act(t),
                      NEW l \in DOMAIN lock, Live(l), l # req[t].token
               PROVE  ~ protects(l, req[t].path) /\ ~ protects(l, req[t].to)
    OBVIOUS
  <2>1. step[t] = "act" BY DEF Act
  <2>2. req[t].method # "UNLOCK" BY <1>1, <2>1 DEF DavIInv, DavTypes, ReqTypes, Guarded
  <2>3. ActInv(t) BY <1>1 DEF DavIInv, TestedInv
  <2> QED BY <2>1, <2>2, <2>3 DEF ActInv
<1>2. DavIInv => [Guarded_]_davVars BY <1>1
<1> QED BY <1>2, DavInvariance, PTL DEF GuardedWrites
=============================================================================
