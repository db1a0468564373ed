--------------------------- MODULE ServicesProofs ---------------------------
(***************************************************************************)
(* Proof that a pooled connection has one user at a time, and none that is *)
(* idle is in a transaction somebody else has left open; and that, on one  *)
(* thread, a session that is logged in to the chat room is listed under    *)
(* its name, a name is given back, and frames do not mix while no write    *)
(* waits: for any number of callers and connections, sessions and names.   *)
(***************************************************************************)
EXTENDS ConnPool, ChatRoom, SequenceTheorems, FiniteSetTheorems, WellFoundedInduction, TLAPS

-----------------------------------------------------------------------------
(***************************************************************************)
(* The pool of connections                                                 *)
(***************************************************************************)
Conn == [last : Nat, error : BOOLEAN, alive : BOOLEAN, open : BOOLEAN]
Stages == {"none", "connect", "ping", "reconnect", "has", "tx", "end", "free"}

PoolTypes ==
    /\ conn \in Seq(Conn)
    /\ m_connections \in Seq(DOMAIN conn)
    /\ stage \in [Callers -> Stages]
    /\ mine \in [Callers -> 0 .. Len(conn)]
    /\ tx \in [Callers -> [auto : BOOLEAN, finished : BOOLEAN, error : BOOLEAN]]
    /\ doomed \subseteq DOMAIN conn
    /\ lost \subseteq DOMAIN conn
    /\ seconds \in Nat
    /\ redis \in BOOLEAN

(* A caller has a connection just while it is not asking for a first one.  *)
HasOne == \A u \in Callers : mine[u] = 0 <=> stage[u] \in {"none", "connect"}

(* The server has nothing open once COMMIT or ROLLBACK has succeeded, or   *)
(* BEGIN has failed.                                                       *)
EndedOnServer ==
    \A u \in Callers :
        \/ stage[u] = "end"
        \/ stage[u] = "tx" /\ tx[u].finished
        => ~ conn[mine[u]].open

PoolIInv == PoolTypes /\ HasOne /\ EndedOnServer /\ PoolInv

-----------------------------------------------------------------------------
(***************************************************************************)
(* Lists                                                                   *)
(***************************************************************************)

(* The list after the first n steps of the loop in checkConnection.        *)
ErasedUpTo(list, C, n, kept) ==
    kept = [i \in 0 .. n |->
              IF i = 0 THEN <<>>
              ELSE IF list[i] \in C THEN kept[i - 1] ELSE Append(kept[i - 1], list[i])]

Injective(list) == \A i, j \in DOMAIN list : list[i] = list[j] => i = j

(* A set of numbers that is not empty has a least element.                 *)
LEMMA LeastNumber ==
    ASSUME NEW S \in SUBSET Nat, S # {}
    PROVE  \E n \in S : \A m \in 0 .. n - 1 : m \notin S
<1> DEFINE R == {ss \in Nat \X Nat : ss[1] < ss[2]}
<1>1. IsWellFoundedOn(R, Nat)
  BY NatLessThanWellFounded DEF OpToRel
<1>2. PICK n \in S : \A m \in S : <<m, n>> \notin R
  <2> HIDE DEF R
  <2> QED
    BY <1>1, WFMin
<1>3. ASSUME NEW m \in 0 .. n - 1, m \in S PROVE FALSE
  <2>1. m \in Nat /\ n \in Nat /\ m < n
    BY <1>2, <1>3
  <2>2. <<m, n>> \in Nat \X Nat /\ <<m, n>>[1] = m /\ <<m, n>>[2] = n
    BY <2>1
  <2> QED
    BY <1>2, <1>3, <2>1, <2>2
<1> QED
  BY <1>3

(* The recursion of Erased has a solution, which is what it chooses.       *)
LEMMA ErasedDefined ==
    ASSUME NEW S, NEW list \in Seq(S), NEW C
    PROVE  \E kept : ErasedUpTo(list, C, Len(list), kept) /\ Erased(list, C) = kept[Len(list)]
<1> DEFINE Bad == {n \in Nat : ~ \E kept : ErasedUpTo(list, C, n, kept)}
<1>1. Bad = {}
  <2> SUFFICES ASSUME Bad # {} PROVE FALSE
    OBVIOUS
  <2>1. PICK n \in Bad : \A m \in 0 .. n - 1 : m \notin Bad
    BY LeastNumber
  <2>2. n # 0
    <3>1. ErasedUpTo(list, C, 0, [i \in 0 .. 0 |-> <<>>])
      BY DEF ErasedUpTo
    <3> QED
      BY <2>1, <3>1
  <2>3. PICK kept : ErasedUpTo(list, C, n - 1, kept)
    BY <2>1, <2>2
  <2> DEFINE last == IF list[n] \in C THEN kept[n - 1] ELSE Append(kept[n - 1], list[n])
             more == [i \in 0 .. n |-> IF i = n THEN last ELSE kept[i]]
  <2>4. ErasedUpTo(list, C, n, more)
    <3>1. n \in Nat /\ n # 0
      BY <2>1, <2>2
    <3>2. ASSUME NEW i \in 0 .. n
          PROVE  more[i] = IF i = 0 THEN <<>>
                           ELSE IF list[i] \in C THEN more[i - 1] ELSE Append(more[i - 1], list[i])
      <4>1. CASE i = n
        BY <3>1, <4>1
      <4>2. CASE i # n
        <5>1. i \in 0 .. n - 1 /\ (i # 0 => i - 1 \in 0 .. n - 1 /\ i - 1 \in 0 .. n /\ i - 1 # n)
          BY <3>1, <4>2
        <5>2. more[i] = kept[i] /\ (i # 0 => more[i - 1] = kept[i - 1])
          BY <4>2, <5>1
        <5>3. kept[i] = IF i = 0 THEN <<>>
                        ELSE IF list[i] \in C THEN kept[i - 1] ELSE Append(kept[i - 1], list[i])
          BY <2>3, <5>1 DEF ErasedUpTo
        <5> QED
          BY <5>2, <5>3
      <4> QED
        BY <4>1, <4>2
    <3> QED
      BY <3>2 DEF ErasedUpTo
  <2> QED
    BY <2>1, <2>4
<1>2. Len(list) \in Nat
  OBVIOUS
<1>3. \E kept : ErasedUpTo(list, C, Len(list), kept)
  BY <1>1, <1>2
<1> QED
  BY <1>3 DEF ErasedUpTo, Erased

LEMMA AppendFacts ==
    ASSUME NEW S, NEW list \in Seq(S), NEW e \in S
    PROVE  /\ Append(list, e) \in Seq(S)
           /\ Len(Append(list, e)) = Len(list) + 1
           /\ ToSet(Append(list, e)) = ToSet(list) \cup {e}
           /\ Injective(list) /\ e \notin ToSet(list) => Injective(Append(list, e))
<1>1. /\ Append(list, e) \in Seq(S)
      /\ Len(list) \in Nat /\ DOMAIN list = 1 .. Len(list)
      /\ Len(Append(list, e)) = Len(list) + 1
      /\ DOMAIN Append(list, e) = 1 .. Len(list) + 1
      /\ \A i \in 1 .. Len(list) : Append(list, e)[i] = list[i]
      /\ Append(list, e)[Len(list) + 1] = e
  BY AppendProperties, LenProperties
<1>2. DOMAIN Append(list, e) = DOMAIN list \cup {Len(list) + 1}
  BY <1>1
<1>3. ToSet(Append(list, e)) = ToSet(list) \cup {e}
  BY <1>1, <1>2 DEF ToSet
<1>4. ASSUME Injective(list), e \notin ToSet(list) PROVE Injective(Append(list, e))
  <2>1. \A i \in DOMAIN list : list[i] # e
    BY <1>4 DEF ToSet
  <2> QED
    BY <1>1, <1>2, <1>4, <2>1 DEF Injective
<1> QED
  BY <1>1, <1>3, <1>4

LEMMA TailFacts ==
    ASSUME NEW S, NEW list \in Seq(S), list # <<>>
    PROVE  /\ Tail(list) \in Seq(S)
           /\ Len(Tail(list)) = Len(list) - 1
           /\ ToSet(Tail(list)) \subseteq ToSet(list)
           /\ Head(list) \in ToSet(list)
           /\ Injective(list) => Injective(Tail(list)) /\ Head(list) \notin ToSet(Tail(list))
<1>1. /\ Tail(list) \in Seq(S)
      /\ Len(list) \in Nat /\ DOMAIN list = 1 .. Len(list) /\ Len(list) # 0
      /\ Len(Tail(list)) = Len(list) - 1
      /\ DOMAIN Tail(list) = 1 .. Len(list) - 1
      /\ Head(list) = list[1]
      /\ \A i \in 1 .. Len(list) - 1 : Tail(list)[i] = list[i + 1]
  BY HeadTailProperties, LenProperties, EmptySeq
<1>2. 1 \in DOMAIN list /\ \A i \in DOMAIN Tail(list) : i + 1 \in DOMAIN list /\ i + 1 # 1
  BY <1>1
<1>3. ToSet(Tail(list)) \subseteq ToSet(list) /\ Head(list) \in ToSet(list)
  BY <1>1, <1>2 DEF ToSet
<1>4. ASSUME Injective(list) PROVE Injective(Tail(list)) /\ Head(list) \notin ToSet(Tail(list))
  <2>1. ASSUME NEW i \in DOMAIN Tail(list), NEW j \in DOMAIN Tail(list), Tail(list)[i] = Tail(list)[j]
        PROVE  i = j
    BY <1>1, <1>2, <1>4, <2>1 DEF Injective
  <2>2. \A i \in DOMAIN Tail(list) : Tail(list)[i] # Head(list)
    BY <1>1, <1>2, <1>4 DEF Injective
  <2> QED
    BY <2>1, <2>2 DEF Injective, ToSet
<1> QED
  BY <1>1, <1>3, <1>4

(* What is left of a list is part of it, without the members of C.         *)
LEMMA ErasedFacts ==
    ASSUME NEW S, NEW list \in Seq(S), NEW C
    PROVE  /\ Erased(list, C) \in Seq(S)
           /\ Len(Erased(list, C)) <= Len(list)
           /\ ToSet(Erased(list, C)) \subseteq ToSet(list) \ C
           /\ Injective(list) => Injective(Erased(list, C))
<1>1. PICK kept : ErasedUpTo(list, C, Len(list), kept) /\ Erased(list, C) = kept[Len(list)]
  BY ErasedDefined
<1> DEFINE Good(n) == /\ kept[n] \in Seq(S) /\ Len(kept[n]) <= n
                      /\ \A x \in ToSet(kept[n]) : x \notin C /\ \E j \in 1 .. n : list[j] = x
                      /\ Injective(list) => Injective(kept[n])
           Bad == {n \in 0 .. Len(list) : ~ Good(n)}
<1>2. Len(list) \in Nat /\ DOMAIN list = 1 .. Len(list)
  BY LenProperties
<1>3. Bad = {}
  <2> SUFFICES ASSUME Bad # {} PROVE FALSE
    OBVIOUS
  <2>1. PICK n \in Bad : \A m \in 0 .. n - 1 : m \notin Bad
    <3>1. Bad \subseteq Nat
      BY <1>2
    <3> HIDE DEF Bad
    <3> QED
      BY <3>1, LeastNumber
  <2>2. n \in 0 .. Len(list) /\ ~ Good(n)
    BY <2>1
  <2>3. n # 0
    <3>1. kept[0] = <<>>
      BY <1>1, <1>2 DEF ErasedUpTo
    <3>2. <<>> \in Seq(S) /\ Len(<<>>) = 0 /\ DOMAIN <<>> = {}
      OBVIOUS
    <3>3. Good(0)
      BY <3>1, <3>2 DEF ToSet, Injective
    <3> QED
      BY <2>2, <3>3
  <2>4. n \in 1 .. Len(list) /\ n - 1 \in 0 .. n - 1 /\ n - 1 \in 0 .. Len(list)
    BY <1>2, <2>2, <2>3
  <2>5. Good(n - 1)
    BY <2>1, <2>4
  <2>6. kept[n] = IF list[n] \in C THEN kept[n - 1] ELSE Append(kept[n - 1], list[n])
    BY <1>1, <2>2, <2>3 DEF ErasedUpTo
  <2>7. \A j \in 1 .. n - 1 : j \in 1 .. n /\ j # n
    BY <2>4
  <2>8. CASE list[n] \in C
    BY <2>2, <2>4, <2>5, <2>6, <2>7, <2>8
  <2>9. CASE list[n] \notin C
    <3>1. list[n] \in S /\ kept[n] = Append(kept[n - 1], list[n]) /\ Len(kept[n - 1]) \in Nat
      BY <2>4, <2>5, <2>6, <2>9, ElementOfSeq
    <3>2. /\ kept[n] \in Seq(S) /\ Len(kept[n]) = Len(kept[n - 1]) + 1
          /\ ToSet(kept[n]) = ToSet(kept[n - 1]) \cup {list[n]}
          /\ Injective(kept[n - 1]) /\ list[n] \notin ToSet(kept[n - 1]) => Injective(kept[n])
      BY <2>5, <3>1, AppendFacts
    <3>3. Len(kept[n]) <= n
      BY <2>4, <2>5, <3>1, <3>2
    <3>4. \A x \in ToSet(kept[n]) : x \notin C /\ \E j \in 1 .. n : list[j] = x
      <4>1. n \in 1 .. n
        BY <2>4
      <4> QED
        BY <2>5, <2>7, <2>9, <3>2, <4>1
    <3>5. Injective(list) => list[n] \notin ToSet(kept[n - 1])
      <4>1. \A j \in 1 .. n - 1 : j \in DOMAIN list /\ n \in DOMAIN list /\ j # n
        BY <1>2, <2>4
      <4>2. Injective(list) => \A j \in 1 .. n - 1 : list[j] # list[n]
        BY <4>1 DEF Injective
      <4> QED
        BY <2>5, <4>2
    <3> QED
      BY <2>2, <2>5, <3>2, <3>3, <3>4, <3>5
  <2> QED
    BY <2>8, <2>9
<1>4. Good(Len(list))
  <2>1. Len(list) \in 0 .. Len(list)
    BY <1>2
  <2> HIDE DEF Good
  <2> QED
    BY <1>3, <2>1
<1> QED
  BY <1>1, <1>2, <1>4 DEF ToSet

-----------------------------------------------------------------------------
(***************************************************************************)
(* The connections                                                         *)
(***************************************************************************)

LEMMA ConnFacts ==
    ASSUME PoolTypes
    PROVE  /\ Len(conn) \in Nat /\ DOMAIN conn = 1 .. Len(conn)
           /\ \A c \in DOMAIN conn : conn[c] \in Conn
           /\ \A u \in Callers : mine[u] # 0 => mine[u] \in DOMAIN conn
<1>1. Len(conn) \in Nat /\ DOMAIN conn = 1 .. Len(conn)
  BY LenProperties DEF PoolTypes
<1>2. \A c \in DOMAIN conn : conn[c] \in Conn
  BY <1>1, ElementOfSeq DEF PoolTypes
<1>3. \A u \in Callers : mine[u] # 0 => mine[u] \in DOMAIN conn
  BY <1>1 DEF PoolTypes
<1> QED
  BY <1>1, <1>2, <1>3

LEMMA Updated ==
    ASSUME NEW c \in DOMAIN conn, NEW r \in Conn, conn \in Seq(Conn), conn' = [conn EXCEPT ![c] = r]
    PROVE  /\ conn' \in Seq(Conn) /\ Len(conn') = Len(conn) /\ DOMAIN conn' = DOMAIN conn
           /\ \A d \in DOMAIN conn : conn'[d] = IF d = c THEN r ELSE conn[d]
<1>1. Len(conn) \in Nat /\ DOMAIN conn = 1 .. Len(conn)
  BY LenProperties
<1> QED
  BY <1>1, ExceptSeq

LEMMA DeletedFacts ==
    ASSUME NEW C, conn \in Seq(Conn), conn' = Deleted(C)
    PROVE  /\ conn' \in Seq(Conn) /\ Len(conn') = Len(conn) /\ DOMAIN conn' = DOMAIN conn
           /\ \A d \in DOMAIN conn : conn'[d] = IF d \in C THEN Closed ELSE conn[d]
<1>1. Len(conn) \in Nat /\ DOMAIN conn = 1 .. Len(conn)
  BY LenProperties
<1>2. Closed \in Conn
  BY DEF Closed, Conn
<1>3. \A d \in 1 .. Len(conn) : conn[d] \in Conn
  BY ElementOfSeq
<1>4. conn' \in [1 .. Len(conn) -> Conn]
  BY <1>1, <1>2, <1>3 DEF Deleted
<1>5. conn' \in Seq(Conn)
  BY <1>1, <1>4, SeqDef
<1> QED
  BY <1>1, <1>4, <1>5, LenProperties DEF Deleted

(* No connection goes away, and the server opens a transaction on one only *)
(* for the caller whose it is.                                             *)
LEMMA ConnStep ==
    ASSUME PoolTypes, HasOne, [PoolNext]_poolVars
    PROVE  /\ conn' \in Seq(Conn)
           /\ Len(conn') \in Nat /\ DOMAIN conn' = 1 .. Len(conn') /\ Len(conn) <= Len(conn')
           /\ \A d \in DOMAIN conn : \/ ~ conn'[d].open
                                     \/ conn[d].open
                                     \/ \E u \in Callers : OpenTransaction(u) /\ d = mine[u]
<1> USE ConnFacts
<1> DEFINE Quiet == \A d \in DOMAIN conn : conn'[d].open => conn[d].open
           Fits == conn' \in Seq(Conn) /\ Len(conn) <= Len(conn')
<1>0. conn \in Seq(Conn) /\ redis \in BOOLEAN /\ seconds \in Nat
  BY DEF PoolTypes
<1>1. ASSUME UNCHANGED conn PROVE Fits /\ Quiet
  BY <1>0, <1>1
<1>2. ASSUME NEW c \in DOMAIN conn, NEW r \in Conn, conn' = [conn EXCEPT ![c] = r], r.open => conn[c].open
      PROVE  Fits /\ Quiet
  BY <1>0, <1>2, Updated
<1>3. ASSUME NEW C, conn' = Deleted(C) PROVE Fits /\ Quiet
  BY <1>0, <1>3, DeletedFacts DEF Closed
<1>4. ASSUME NEW u \in Callers, mine[u] # 0, NEW f \in BOOLEAN, conn' = [conn EXCEPT ![mine[u]].error = f]
      PROVE  Fits /\ Quiet
  <2>1. [conn[mine[u]] EXCEPT !.error = f] \in Conn
    BY <1>4 DEF Conn
  <2> QED
    BY <1>2, <1>4, <2>1 DEF Conn
<1>5. ASSUME NEW c \in DOMAIN conn, conn' = [conn EXCEPT ![c].last = seconds] PROVE Fits /\ Quiet
  <2>1. [conn[c] EXCEPT !.last = seconds] \in Conn
    BY <1>0, <1>5 DEF Conn
  <2> QED
    BY <1>2, <1>5, <2>1 DEF Conn
<1>6. ASSUME NEW u \in Callers, mine[u] # 0, Ends(u) PROVE Fits /\ Quiet
  <2> DEFINE r == [[conn[mine[u]] EXCEPT !.open = FALSE] EXCEPT !.error = FALSE]
  <2>1. r \in Conn /\ ~ r.open
    BY <1>6 DEF Conn
  <2>2. conn' = [conn EXCEPT ![mine[u]] = r]
    BY <1>6 DEF Ends
  <2> QED
    BY <1>2, <1>6, <2>1, <2>2
<1>7. ASSUME NEW u \in Callers, mine[u] # 0, commit(u) \/ rollback(u) PROVE Fits /\ Quiet
  BY <1>1, <1>6, <1>7 DEF commit, rollback, EndsNot
<1>8. ASSUME NEW u \in Callers, PoolStep(u), ~ OpenTransaction(u) PROVE Fits /\ Quiet
  <2>1. CASE GetIdle(u)
    <3>1. Head(m_connections) \in DOMAIN conn
      BY <2>1, HeadTailProperties DEF GetIdle, PoolTypes
    <3> QED
      BY <1>1, <1>5, <2>1, <3>1 DEF GetIdle
  <2>2. CASE GetNew(u)
    BY <1>1, <2>2 DEF GetNew
  <2>3. CASE Connect(u)
    <3> DEFINE r == [last |-> seconds, error |-> FALSE, alive |-> TRUE, open |-> FALSE]
    <3>1. r \in Conn
      BY <1>0 DEF Conn
    <3>2. CASE conn' = Append(conn, r)
      BY <1>0, <3>1, <3>2, AppendProperties
    <3> QED
      BY <1>1, <2>3, <3>2 DEF Connect
  <2>4. CASE Ping(u)
    <3>1. mine[u] # 0
      BY <2>4 DEF Ping, HasOne
    <3>2. conn[mine[u]].alive \in BOOLEAN /\ (~ conn[mine[u]].alive) \in BOOLEAN
      BY <3>1 DEF Conn
    <3> QED
      BY <1>1, <1>4, <1>5, <2>4, <3>1, <3>2 DEF Ping
  <2>5. CASE Reconnect(u)
    <3> DEFINE r == [last |-> seconds, error |-> FALSE, alive |-> TRUE, open |-> FALSE]
    <3>1. r \in Conn /\ ~ r.open
      BY <1>0 DEF Conn
    <3>2. mine[u] # 0
      BY <2>5 DEF Reconnect, HasOne
    <3> QED
      BY <1>1, <1>2, <2>5, <3>1, <3>2 DEF Reconnect
  <2>6. CASE Statement(u)
    <3>1. mine[u] # 0
      BY <2>6 DEF Statement, HasOne
    <3>2. PICK kind \in {"execute", "query"}, ok \in {TRUE, FALSE} :
              conn' = [conn EXCEPT ![mine[u]].error = kind = "query" /\ ~ ok]
      BY <2>6 DEF Statement
    <3>3. (kind = "query" /\ ~ ok) \in BOOLEAN
      OBVIOUS
    <3> QED
      BY <1>4, <3>1, <3>2, <3>3
  <2>7. CASE TxExecute(u)
    BY <1>4, <2>7 DEF TxExecute, HasOne
  <2>8. CASE Commit(u)
    BY <1>7, <2>8 DEF Commit, HasOne
  <2>9. CASE Rollback(u)
    BY <1>7, <2>9 DEF Rollback, HasOne
  <2>10. CASE Destroy(u)
    BY <1>7, <2>10 DEF Destroy, HasOne
  <2>11. CASE Free(u)
    BY <1>1, <1>3, <2>11 DEF Free
  <2> QED
    BY <1>8, <2>1, <2>2, <2>3, <2>4, <2>5, <2>6, <2>7, <2>8, <2>9, <2>10, <2>11 DEF PoolStep
<1>9. ASSUME NEW u \in Callers, OpenTransaction(u)
      PROVE  Fits /\ \A d \in DOMAIN conn : d # mine[u] /\ conn'[d].open => conn[d].open
  <2> DEFINE r == [[conn[mine[u]] EXCEPT !.open = conn[mine[u]].alive] EXCEPT !.error = FALSE]
  <2>1. mine[u] # 0
    BY <1>9 DEF OpenTransaction, HasOne
  <2>2. r \in Conn
    BY <2>1 DEF Conn
  <2>3. conn' = [conn EXCEPT ![mine[u]] = r]
    BY <1>9, <2>1 DEF OpenTransaction
  <2> HIDE DEF r
  <2> QED
    BY <1>0, <2>1, <2>2, <2>3, Updated
<1>10. CASE Break
  <2>1. PICK c \in DOMAIN conn : conn' = [conn EXCEPT ![c].alive = FALSE, ![c].open = FALSE]
    BY <1>10 DEF Break
  <2> DEFINE r == [[conn[c] EXCEPT !.alive = FALSE] EXCEPT !.open = FALSE]
  <2>2. r \in Conn /\ ~ r.open
    BY DEF Conn
  <2>3. conn' = [conn EXCEPT ![c] = r]
    BY <2>1
  <2> HIDE DEF r
  <2> QED
    BY <1>0, <2>2, <2>3, Updated
<1> DEFINE Opened == \A d \in DOMAIN conn : \/ ~ conn'[d].open
                                            \/ conn[d].open
                                            \/ \E u \in Callers : OpenTransaction(u) /\ d = mine[u]
<1>11. Fits /\ Opened
  <2>1. CASE UNCHANGED poolVars
    BY <1>1, <2>1 DEF poolVars
  <2>2. CASE CheckConnection
    BY <1>1, <2>2 DEF CheckConnection
  <2>3. CASE DeleteDoomed
    BY <1>3, <2>3 DEF DeleteDoomed
  <2>4. CASE Second
    BY <1>1, <2>4 DEF Second
  <2>5. ASSUME NEW u \in Callers, PoolStep(u) PROVE Fits /\ Opened
    BY <1>8, <1>9, <2>5
  <2> QED
    BY <1>10, <2>1, <2>2, <2>3, <2>4, <2>5 DEF PoolNext
<1> QED
  BY <1>11, LenProperties

LEMMA PoolTypeStep ==
    ASSUME PoolTypes, HasOne, [PoolNext]_poolVars
    PROVE  PoolTypes' /\ HasOne'
<1> DEFINE Places == /\ m_connections' \in Seq(DOMAIN conn')
                     /\ doomed' \subseteq DOMAIN conn'
                     /\ lost' \subseteq DOMAIN conn'
           Rest == Places /\ seconds' \in Nat /\ redis' \in BOOLEAN
           CallersTyped == /\ stage' \in [Callers -> Stages]
                           /\ mine' \in [Callers -> 0 .. Len(conn')]
                           /\ tx' \in [Callers -> [auto : BOOLEAN, finished : BOOLEAN, error : BOOLEAN]]
                           /\ HasOne'
           Grown == 0 .. Len(conn')
<1>1. /\ conn' \in Seq(Conn) /\ DOMAIN conn \subseteq DOMAIN conn' /\ 0 .. Len(conn) \subseteq Grown
      /\ 0 \in Grown /\ DOMAIN conn \subseteq Grown /\ 0 \notin DOMAIN conn
  BY ConnFacts, ConnStep
<1>2. /\ m_connections \in Seq(DOMAIN conn') /\ doomed \subseteq DOMAIN conn' /\ lost \subseteq DOMAIN conn'
      /\ mine \in [Callers -> Grown] /\ stage \in [Callers -> Stages]
      /\ tx \in [Callers -> [auto : BOOLEAN, finished : BOOLEAN, error : BOOLEAN]]
      /\ seconds \in Nat /\ redis \in BOOLEAN
  <2>1. m_connections \in Seq(DOMAIN conn')
    BY <1>1, SeqMonotonic DEF PoolTypes
  <2> QED
    BY <1>1, <2>1 DEF PoolTypes
<1> HIDE DEF Grown
<1>3. Rest
  <2>0. UNCHANGED <<m_connections, doomed, lost, seconds, redis>> => Rest
    BY <1>2
  <2>1. ASSUME NEW u \in Callers, GetIdle(u) PROVE Rest
    BY <1>2, <2>1, TailFacts DEF GetIdle
  <2>2. ASSUME NEW u \in Callers, Reconnect(u) PROVE Rest
    <3>1. mine[u] \in DOMAIN conn'
      BY <1>1, <2>2, ConnFacts DEF Reconnect, HasOne
    <3> QED
      BY <1>2, <2>2, <3>1 DEF Reconnect
  <2>3. ASSUME NEW u \in Callers, Free(u) PROVE Rest
    <3>1. mine[u] \in DOMAIN conn'
      BY <1>1, <2>3, ConnFacts DEF Free, HasOne
    <3>2. Append(m_connections, mine[u]) \in Seq(DOMAIN conn')
      BY <1>2, <3>1, AppendProperties
    <3> QED
      BY <1>2, <2>3, <3>2 DEF Free
  <2>4. ASSUME NEW u \in Callers, PoolStep(u), ~ GetIdle(u), ~ Reconnect(u), ~ Free(u) PROVE Rest
    BY <2>0, <2>4 DEF PoolStep, GetNew, Connect, Ping, Statement, OpenTransaction, TxExecute, Commit, Rollback, Destroy
  <2>5. CASE CheckConnection
    <3>1. PICK sec \in 1 .. MaxSeconds :
              LET old == {c \in DOMAIN conn : seconds - conn[c].last >= sec} IN
              doomed' = ToSet(m_connections) \cap old /\ m_connections' = Erased(m_connections, old)
      BY <2>5 DEF CheckConnection
    <3>2. m_connections' \in Seq(DOMAIN conn') /\ doomed' \subseteq DOMAIN conn
      BY <1>2, <3>1, ErasedFacts
    <3> QED
      BY <1>1, <1>2, <2>5, <3>2 DEF CheckConnection
  <2>6. CASE DeleteDoomed
    BY <1>2, <2>6 DEF DeleteDoomed
  <2>7. CASE Break
    BY <2>0, <2>7 DEF Break
  <2>8. CASE Second
    BY <1>2, <2>8 DEF Second
  <2> QED
    BY <2>0, <2>1, <2>2, <2>3, <2>4, <2>5, <2>6, <2>7, <2>8 DEF PoolNext, poolVars
<1>4. CallersTyped
  <2>0. UNCHANGED <<stage, mine, tx>> => CallersTyped
    BY <1>2 DEF HasOne, Grown
  <2>1. ASSUME NEW u \in Callers, PoolStep(u) PROVE CallersTyped
    <3>1. CASE GetIdle(u)
      <4>1. Head(m_connections) \in DOMAIN conn
        BY <3>1, HeadTailProperties DEF GetIdle, PoolTypes
      <4>2. mine' \in [Callers -> Grown] /\ tx' = tx
        BY <1>1, <1>2, <3>1, <4>1 DEF GetIdle, Takes
      <4>3. stage' \in [Callers -> Stages] /\ \E s \in {"ping", "has"} : stage' = [stage EXCEPT ![u] = s]
        BY <1>2, <3>1 DEF GetIdle, Moves, Stages
      <4>4. HasOne'
        BY <1>1, <1>2, <3>1, <4>1, <4>3 DEF HasOne, GetIdle, Takes
      <4> QED
        BY <1>2, <4>2, <4>3, <4>4 DEF Grown
    <3>2. CASE GetNew(u)
      BY <1>2, <3>2 DEF GetNew, Moves, Stages, HasOne, Grown
    <3>3. CASE Connect(u)
      <4>1. CASE Takes(u, Len(conn) + 1) /\ Moves(u, "has") /\ Len(conn') = Len(conn) + 1
        BY <1>2, <3>3, <4>1, ConnFacts DEF Connect, Takes, Moves, Stages, HasOne, Grown
      <4>2. CASE Drops(u)
        BY <1>1, <1>2, <3>3, <4>2 DEF Connect, Drops, Takes, Moves, Stages, HasOne, Grown
      <4>3. conn \in Seq(Conn)
        BY DEF PoolTypes
      <4> QED
        BY <3>3, <4>1, <4>2, <4>3, LenProperties DEF Connect
    <3>4. CASE Ping(u)
      <4>1. \E s \in {"has", "reconnect"} : stage' = [stage EXCEPT ![u] = s]
        BY <3>4 DEF Ping, Moves
      <4> QED
        BY <1>2, <3>4, <4>1 DEF Ping, Stages, HasOne, Grown
    <3>5. CASE Reconnect(u)
      <4>1. CASE Moves(u, "has") /\ UNCHANGED mine
        BY <1>2, <3>5, <4>1 DEF Reconnect, Moves, Stages, HasOne, Grown
      <4>2. CASE Drops(u)
        BY <1>1, <1>2, <3>5, <4>2 DEF Reconnect, Drops, Takes, Moves, Stages, HasOne, Grown
      <4> QED
        BY <3>5, <4>1, <4>2 DEF Reconnect
    <3>6. CASE Statement(u)
      BY <2>0, <3>6 DEF Statement
    <3>7. CASE OpenTransaction(u)
      <4>1. mine[u] \in DOMAIN conn
        BY <3>7, ConnFacts DEF OpenTransaction, HasOne
      <4>2. conn[mine[u]].alive \in BOOLEAN
        BY <4>1, ConnFacts DEF Conn
      <4>3. tx' \in [Callers -> [auto : BOOLEAN, finished : BOOLEAN, error : BOOLEAN]]
        <5>1. PICK auto \in {TRUE, FALSE} :
                  tx' = [tx EXCEPT ![u] = [auto |-> auto, finished |-> FALSE, error |-> ~ conn[mine[u]].alive]]
          BY <3>7 DEF OpenTransaction
        <5>2. [auto |-> auto, finished |-> FALSE, error |-> ~ conn[mine[u]].alive]
                  \in [auto : BOOLEAN, finished : BOOLEAN, error : BOOLEAN]
          BY <4>2
        <5> QED
          BY <1>2, <5>1, <5>2
      <4>4. \E s \in {"tx", "end"} : stage' = [stage EXCEPT ![u] = s]
        BY <3>7 DEF OpenTransaction, Moves
      <4> QED
        BY <1>2, <3>7, <4>3, <4>4 DEF OpenTransaction, Stages, HasOne, Grown
    <3>8. CASE TxExecute(u)
      <4>1. tx' \in [Callers -> [auto : BOOLEAN, finished : BOOLEAN, error : BOOLEAN]]
        <5>1. PICK ok \in {TRUE, FALSE} : tx' = [tx EXCEPT ![u].error = tx[u].error \/ ~ ok]
          BY <3>8 DEF TxExecute
        <5>2. (tx[u].error \/ ~ ok) \in BOOLEAN
          OBVIOUS
        <5> QED
          BY <1>2, <5>1, <5>2
      <4> QED
        BY <1>2, <3>8, <4>1 DEF TxExecute, HasOne, Grown
    <3>9. ASSUME commit(u) \/ rollback(u)
          PROVE  tx' \in [Callers -> [auto : BOOLEAN, finished : BOOLEAN, error : BOOLEAN]]
      <4>1. CASE EndsNot
        BY <1>2, <4>1 DEF EndsNot
      <4>2. CASE Ends(u)
        BY <1>2, <4>2 DEF Ends
      <4> QED
        BY <3>9, <4>1, <4>2 DEF commit, rollback
    <3>10. CASE Commit(u) \/ Rollback(u)
      BY <1>2, <3>9, <3>10 DEF Commit, Rollback, HasOne, Grown
    <3>11. CASE Destroy(u)
      <4>1. tx' \in [Callers -> [auto : BOOLEAN, finished : BOOLEAN, error : BOOLEAN]]
        BY <3>9, <3>11 DEF Destroy
      <4>2. stage[u] \in {"tx", "end"} /\ stage' = [stage EXCEPT ![u] = "free"] /\ mine' = mine
        BY <3>11 DEF Destroy, Moves
      <4>3. HasOne' /\ stage' \in [Callers -> Stages]
        BY <1>2, <4>2 DEF HasOne, Stages
      <4> QED
        BY <1>2, <4>1, <4>2, <4>3 DEF Grown
    <3>12. CASE Free(u)
      <4>1. tx' \in [Callers -> [auto : BOOLEAN, finished : BOOLEAN, error : BOOLEAN]]
        BY <1>2, <3>12 DEF Free, NoTx
      <4>2. stage' = [stage EXCEPT ![u] = "none"] /\ mine' = [mine EXCEPT ![u] = 0]
        BY <3>12 DEF Free, Drops, Moves, Takes
      <4>3. HasOne' /\ stage' \in [Callers -> Stages] /\ mine' \in [Callers -> Grown]
        BY <1>1, <1>2, <4>2 DEF HasOne, Stages
      <4> QED
        BY <4>1, <4>3 DEF Grown
    <3> QED
      BY <2>1, <3>1, <3>2, <3>3, <3>4, <3>5, <3>6, <3>7, <3>8, <3>10, <3>11, <3>12 DEF PoolStep
  <2> QED
    BY <2>0, <2>1 DEF PoolNext, poolVars, CheckConnection, DeleteDoomed, Break, Second
<1> QED
  BY <1>1, <1>3, <1>4 DEF PoolTypes

-----------------------------------------------------------------------------
(***************************************************************************)
(* One place for each connection                                           *)
(***************************************************************************)

(* The first two conjuncts of OnePlace are of functions with distinct      *)
(* values; the places are the callers', the list, doomed and lost.         *)
LEMMA PlaceStep ==
    ASSUME PoolTypes, HasOne, OnePlace, [PoolNext]_poolVars
    PROVE  OnePlace'
<1> DEFINE Own == \A u, v \in Callers : u # v /\ mine[u] # 0 => mine[u] # mine[v]
           Away == \A u \in Callers : mine[u] \notin ToSet(m_connections) \cup doomed \cup lost
           Apart == ToSet(m_connections) \cap (doomed \cup lost) = {}
           Short == Len(m_connections) <= PoolSize
<1>1. /\ Own /\ Injective(m_connections) /\ Away /\ Apart /\ Short
      /\ Own' /\ Injective(m_connections)' /\ Away' /\ Apart' /\ Short' => OnePlace'
  BY DEF OnePlace, Injective
<1>2. /\ m_connections \in Seq(DOMAIN conn) /\ mine \in [Callers -> 0 .. Len(conn)]
      /\ doomed \subseteq DOMAIN conn /\ lost \subseteq DOMAIN conn
      /\ PoolSize \in Nat /\ Len(m_connections) \in Nat
  BY LenProperties, ConnPoolAssumption DEF PoolTypes
<1>3. Len(conn) \in Nat /\ DOMAIN conn = 1 .. Len(conn) /\ 0 \notin DOMAIN conn
  BY ConnFacts
<1>4. ToSet(m_connections) \subseteq DOMAIN conn
  BY <1>2, LenProperties, ElementOfSeq DEF ToSet
<1> DEFINE Goal == Own' /\ Injective(m_connections)' /\ Away' /\ Apart' /\ Short'
<1>5. UNCHANGED <<m_connections, mine, doomed, lost>> => Goal
  BY <1>1 DEF Injective
<1>6. ASSUME NEW u \in Callers, GetIdle(u) PROVE Goal
  <2>1. /\ m_connections' = Tail(m_connections) /\ m_connections # <<>>
        /\ mine' = [mine EXCEPT ![u] = Head(m_connections)]
        /\ doomed' = doomed /\ lost' = lost
    BY <1>6 DEF GetIdle, Takes
  <2>2. /\ Len(m_connections') = Len(m_connections) - 1
        /\ ToSet(m_connections') \subseteq ToSet(m_connections) \ {Head(m_connections)}
        /\ Head(m_connections) \in ToSet(m_connections) /\ Injective(m_connections')
    BY <1>1, <1>2, <2>1, TailFacts
  <2>3. \A v \in Callers : mine'[v] = IF v = u THEN Head(m_connections) ELSE mine[v]
    BY <1>2, <2>1
  <2>4. Own'
    BY <1>1, <2>2, <2>3
  <2>5. Away'
    BY <1>1, <2>1, <2>2, <2>3
  <2>6. Apart' /\ Short'
    BY <1>1, <1>2, <2>1, <2>2
  <2> QED
    BY <2>2, <2>4, <2>5, <2>6 DEF Injective
<1>7. ASSUME NEW u \in Callers, Connect(u) PROVE Goal
  <2>1. UNCHANGED <<m_connections, doomed, lost>>
    BY <1>7 DEF Connect
  <2>2. CASE Takes(u, Len(conn) + 1)
    <3>1. \A v \in Callers : mine'[v] = IF v = u THEN Len(conn) + 1 ELSE mine[v]
      BY <1>2, <2>2 DEF Takes
    <3>2. Len(conn) + 1 \notin DOMAIN conn /\ \A v \in Callers : mine[v] # Len(conn) + 1
      BY <1>2, <1>3
    <3>3. Own' /\ Away'
      BY <1>1, <1>2, <1>4, <2>1, <3>1, <3>2
    <3> QED
      BY <1>1, <2>1, <3>3 DEF Injective
  <2>3. CASE Takes(u, 0)
    <3>1. \A v \in Callers : mine'[v] = IF v = u THEN 0 ELSE mine[v]
      BY <1>2, <2>3 DEF Takes
    <3>2. Own' /\ Away'
      BY <1>1, <1>2, <1>3, <1>4, <2>1, <3>1
    <3> QED
      BY <1>1, <2>1, <3>2 DEF Injective
  <2> QED
    BY <1>7, <2>2, <2>3 DEF Connect, Drops
<1>8. ASSUME NEW u \in Callers, Reconnect(u) PROVE Goal
  <2>1. UNCHANGED <<m_connections, doomed>> /\ mine[u] # 0
    BY <1>8 DEF Reconnect, HasOne
  <2>2. CASE lost' = lost \cup {mine[u]} /\ Takes(u, 0)
    <3>1. \A v \in Callers : mine'[v] = IF v = u THEN 0 ELSE mine[v]
      BY <1>2, <2>2 DEF Takes
    <3>2. Own' /\ Away' /\ Apart'
      BY <1>1, <1>2, <1>3, <1>4, <2>1, <2>2, <3>1
    <3> QED
      BY <1>1, <2>1, <3>2 DEF Injective
  <2> QED
    BY <1>5, <1>8, <2>2 DEF Reconnect, Drops
<1>9. ASSUME NEW u \in Callers, Free(u) PROVE Goal
  <2>1. UNCHANGED <<doomed, lost>> /\ mine[u] # 0 /\ mine' = [mine EXCEPT ![u] = 0]
    BY <1>9 DEF Free, HasOne, Drops, Takes
  <2>2. \A v \in Callers : mine'[v] = IF v = u THEN 0 ELSE mine[v]
    BY <1>2, <2>1
  <2>3. CASE UNCHANGED m_connections
    <3>1. Own' /\ Away'
      BY <1>1, <1>2, <1>3, <1>4, <2>1, <2>2, <2>3
    <3> QED
      BY <1>1, <2>1, <2>3, <3>1 DEF Injective
  <2>4. CASE Len(m_connections) < PoolSize /\ m_connections' = Append(m_connections, mine[u])
    <3>1. mine[u] \in DOMAIN conn /\ mine[u] \notin ToSet(m_connections)
      BY <1>1, <2>1, ConnFacts
    <3>2. /\ Len(m_connections') = Len(m_connections) + 1
          /\ ToSet(m_connections') = ToSet(m_connections) \cup {mine[u]}
          /\ Injective(m_connections')
      BY <1>1, <1>2, <2>4, <3>1, AppendFacts
    <3>3. Own' /\ Away' /\ Apart'
      BY <1>1, <1>2, <1>3, <1>4, <2>1, <2>2, <3>2
    <3>4. Short'
      BY <1>2, <2>4, <3>2
    <3> QED
      BY <3>2, <3>3, <3>4 DEF Injective
  <2> QED
    BY <1>9, <2>3, <2>4 DEF Free
<1>10. ASSUME CheckConnection PROVE Goal
  <2>1. PICK sec \in 1 .. MaxSeconds :
            LET old == {c \in DOMAIN conn : seconds - conn[c].last >= sec} IN
            doomed' = ToSet(m_connections) \cap old /\ m_connections' = Erased(m_connections, old)
    BY <1>10 DEF CheckConnection
  <2> DEFINE old == {c \in DOMAIN conn : seconds - conn[c].last >= sec}
  <2>2. doomed' = ToSet(m_connections) \cap old /\ m_connections' = Erased(m_connections, old)
    BY <2>1
  <2> HIDE DEF old
  <2>3. /\ m_connections' \in Seq(DOMAIN conn) /\ Len(m_connections') <= Len(m_connections)
        /\ ToSet(m_connections') \subseteq ToSet(m_connections) \ old /\ Injective(m_connections')
    BY <1>1, <1>2, <2>2, ErasedFacts
  <2>4. mine' = mine /\ lost' = lost
    BY <1>10 DEF CheckConnection
  <2>5. Len(m_connections') \in Nat
    BY <2>3, LenProperties
  <2>6. Own' /\ Away' /\ Apart' /\ Short'
    BY <1>1, <1>2, <2>2, <2>3, <2>4, <2>5
  <2>7. Injective(m_connections)'
    BY <2>3 DEF Injective
  <2> QED
    BY <2>6, <2>7
<1>11. ASSUME DeleteDoomed PROVE Goal
  BY <1>1, <1>11 DEF DeleteDoomed, Injective
<1>12. ASSUME NEW u \in Callers, PoolStep(u) PROVE Goal
  BY <1>5, <1>6, <1>7, <1>8, <1>9, <1>12
     DEF PoolStep, GetNew, Ping, Statement, OpenTransaction, TxExecute, Commit, Rollback, Destroy
<1> HIDE DEF Goal
<1>13. Goal
  <2>1. CASE Break \/ Second \/ UNCHANGED poolVars
    BY <1>5, <2>1 DEF Break, Second, poolVars
  <2> QED
    BY <1>10, <1>11, <1>12, <2>1 DEF PoolNext
<1> QED
  BY <1>1, <1>13 DEF Goal

-----------------------------------------------------------------------------
(***************************************************************************)
(* Transactions                                                            *)
(***************************************************************************)

(* Other callers' transactions: what they have open on the server is not   *)
(* touched, except by the server itself, which ends it.                    *)
LEMMA EndStep ==
    ASSUME PoolTypes, HasOne, OnePlace, EndedOnServer, Ended, [PoolNext]_poolVars
    PROVE  EndedOnServer' /\ Ended'
<1> DEFINE Over(u) == \/ stage[u] = "end"
                      \/ stage[u] = "tx" /\ tx[u].finished
                      \/ stage[u] = "free" /\ ~ Kept(u)
<1>1. \A u \in Callers : Over(u) => mine[u] # 0 /\ mine[u] \in DOMAIN conn /\ ~ conn[mine[u]].open
  <2>1. \A u \in Callers : Over(u) => mine[u] # 0
    BY DEF HasOne
  <2>2. \A u \in Callers : Over(u) => ~ conn[mine[u]].open
    BY DEF EndedOnServer, Ended
  <2> QED
    BY <2>1, <2>2, ConnFacts
<1> DEFINE Good(u) == Over(u)' => ~ conn'[mine'[u]].open
<1>2. SUFFICES \A u \in Callers : Good(u)
  BY DEF EndedOnServer, Ended
<1>3. ASSUME NEW u \in Callers, stage'[u] = stage[u], mine'[u] = mine[u], tx'[u] = tx[u],
             \A v \in Callers : OpenTransaction(v) => v # u
      PROVE  Good(u)
  <2>1. SUFFICES ASSUME Over(u)' PROVE ~ conn'[mine[u]].open
    BY <1>3
  <2>2. Over(u)
    BY <1>3, <2>1 DEF Kept
  <2>3. \A v \in Callers : OpenTransaction(v) => mine[v] # mine[u]
    BY <1>1, <1>3, <2>2 DEF OnePlace
  <2> QED
    BY <1>1, <2>2, <2>3, ConnStep
<1>4. ASSUME NEW u \in Callers, PoolStep(u) PROVE Good(u)
  <2>0. tx \in [Callers -> [auto : BOOLEAN, finished : BOOLEAN, error : BOOLEAN]] /\ stage \in [Callers -> Stages]
    BY DEF PoolTypes
  <2>1. stage'[u] \notin {"tx", "end", "free"} => Good(u)
    OBVIOUS
  <2>2. ASSUME stage[u] \in {"tx", "end"}, mine' = mine, commit(u) \/ rollback(u)
        PROVE  /\ tx'[u].finished => ~ conn'[mine[u]].open
               /\ stage[u] = "end" => ~ conn'[mine[u]].open
               /\ commit(u) => ~ conn'[mine[u]].open \/ tx'[u].error
               /\ rollback(u) => ~ conn'[mine[u]].open
               /\ tx'[u].auto = tx[u].auto
    <3>1. mine[u] # 0 /\ mine[u] \in DOMAIN conn
      BY <2>2, ConnFacts DEF HasOne
    <3>2. ASSUME Ends(u) PROVE ~ conn'[mine[u]].open /\ tx'[u].auto = tx[u].auto
      <4>1. conn[mine[u]] \in Conn
        BY <3>1, ConnFacts
      <4> QED
        BY <2>0, <3>1, <3>2, <4>1 DEF Ends, Conn
    <3>3. CASE EndsNot
      BY <1>1, <2>0, <2>2, <3>2, <3>3 DEF EndsNot, commit, rollback
    <3> QED
      BY <2>2, <3>2, <3>3 DEF commit, rollback
  <2>3. CASE GetIdle(u)
    BY <2>0, <2>1, <2>3 DEF GetIdle, Moves
  <2>4. CASE GetNew(u) \/ Connect(u) \/ Ping(u) \/ Reconnect(u)
    BY <2>0, <2>1, <2>4 DEF GetNew, Connect, Ping, Reconnect, Moves, Drops
  <2>5. CASE Statement(u) \/ Free(u)
    BY <2>0, <2>1, <2>5 DEF Statement, Free, Drops, Moves
  <2>6. CASE OpenTransaction(u)
    <3>1. mine[u] \in DOMAIN conn /\ mine' = mine
      BY <2>6, ConnFacts DEF OpenTransaction, HasOne
    <3>2. CASE conn[mine[u]].alive
      <4>1. stage'[u] = "tx" /\ ~ tx'[u].finished
        BY <2>0, <2>6, <3>2 DEF OpenTransaction, Moves
      <4> QED
        BY <4>1
    <3>3. CASE ~ conn[mine[u]].alive
      <4>1. conn[mine[u]] \in Conn
        BY <3>1, ConnFacts
      <4>2. ~ conn'[mine[u]].open
        BY <2>6, <3>1, <3>3, <4>1 DEF OpenTransaction, Conn
      <4> QED
        BY <3>1, <4>2
    <3> QED
      BY <3>2, <3>3
  <2>7. CASE TxExecute(u)
    <3>1. stage'[u] = "tx" /\ ~ tx'[u].finished
      BY <2>0, <2>7 DEF TxExecute
    <3> QED
      BY <3>1
  <2>8. CASE Commit(u) \/ Rollback(u)
    <3>1. stage'[u] = "tx" /\ mine' = mine
      BY <2>8 DEF Commit, Rollback
    <3> QED
      BY <2>2, <2>8, <3>1 DEF Commit, Rollback
  <2>9. CASE Destroy(u)
    <3>1. stage'[u] = "free" /\ mine' = mine
      BY <2>0, <2>9 DEF Destroy, Moves
    <3>2. ~ conn'[mine[u]].open \/ (tx'[u].auto /\ tx'[u].error)
      BY <2>2, <2>9 DEF Destroy
    <3> QED
      BY <3>1, <3>2 DEF Kept
  <2> QED
    BY <1>4, <2>3, <2>4, <2>5, <2>6, <2>7, <2>8, <2>9 DEF PoolStep
<1>5. ASSUME NEW u \in Callers, NEW v \in Callers, PoolStep(u), v # u PROVE Good(v)
  <2>1. stage'[v] = stage[v]
    BY <1>5 DEF PoolStep, PoolTypes, Moves, Drops, GetIdle, GetNew, Connect, Ping, Reconnect, Statement,
                OpenTransaction, TxExecute, Commit, Rollback, Destroy, Free
  <2>2. mine'[v] = mine[v]
    BY <1>5 DEF PoolStep, PoolTypes, Takes, Drops, GetIdle, GetNew, Connect, Ping, Reconnect, Statement,
                OpenTransaction, TxExecute, Commit, Rollback, Destroy, Free
  <2>3. tx'[v] = tx[v]
    BY <1>5 DEF PoolStep, PoolTypes, GetIdle, GetNew, Connect, Ping, Reconnect, Statement, OpenTransaction,
                TxExecute, Commit, Rollback, Destroy, Free, commit, rollback, Ends, EndsNot
  <2>4. OpenTransaction(v) => stage'[v] # stage[v]
    BY DEF OpenTransaction, Moves, PoolTypes
  <2> QED
    BY <1>3, <2>1, <2>2, <2>3, <2>4
<1>6. ASSUME NEW v \in Callers, UNCHANGED <<stage, mine, tx>>, ~ \E u \in Callers : PoolStep(u) PROVE Good(v)
  BY <1>3, <1>6 DEF PoolStep
<1> HIDE DEF Good
<1>7. CASE \E u \in Callers : PoolStep(u)
  BY <1>4, <1>5, <1>7
<1>8. CASE ~ \E u \in Callers : PoolStep(u)
  BY <1>6, <1>8 DEF PoolNext, poolVars, CheckConnection, DeleteDoomed, Break, Second
<1> QED
  BY <1>7, <1>8

-----------------------------------------------------------------------------
(***************************************************************************)
(* The theorem                                                             *)
(***************************************************************************)

LEMMA PoolInitInv == PoolInit /\ redis \in BOOLEAN => PoolIInv
<1> SUFFICES ASSUME PoolInit, redis \in BOOLEAN PROVE PoolIInv
  OBVIOUS
<1>1. conn = <<>> /\ m_connections = <<>> /\ DOMAIN <<>> = {} /\ Len(<<>>) = 0 /\ 0 \in 0 .. 0
  BY DEF PoolInit
<1>2. PoolTypes
  BY <1>1 DEF PoolInit, PoolTypes, Stages, NoTx
<1>3. HasOne /\ EndedOnServer /\ Ended
  BY DEF PoolInit, HasOne, EndedOnServer, Ended
<1>4. ToSet(m_connections) = {}
  BY <1>1 DEF ToSet
<1>5. OnePlace
  BY <1>1, <1>4, ConnPoolAssumption DEF PoolInit, OnePlace
<1> QED
  BY <1>2, <1>3, <1>5 DEF PoolIInv, PoolInv

(* For any number of callers, of connections and whatever the size of the  *)
(* pool: nobody gets a connection of MySQLManager or RedisManager that     *)
(* somebody else uses or that is being deleted, and without auto_commit a  *)
(* MySQLTransaction leaves nothing open on the connection it gives back.   *)
THEOREM PoolSafe == PoolSpec => []PoolInv
<1>1. PoolInit /\ redis \in BOOLEAN => PoolIInv
  BY PoolInitInv
<1>2. PoolIInv /\ [PoolNext]_poolVars => PoolIInv'
  BY PoolTypeStep, PlaceStep, EndStep DEF PoolIInv, PoolInv
<1>3. PoolIInv => PoolInv
  BY DEF PoolIInv
<1> QED
  BY <1>1, <1>2, <1>3, PTL DEF PoolSpec

-----------------------------------------------------------------------------
(***************************************************************************)
(* The chat room                                                           *)
(***************************************************************************)
FiberPlaces == {"read", "add", "del", "notify", "head", "data", "gone"}

TableTypes ==
    /\ s_sessions \in [DOMAIN s_sessions -> Users]
    /\ DOMAIN s_sessions \subseteq Names

FiberTypes ==
    /\ name \in [Users -> Names \cup {Nobody}]
    /\ at \in [Users -> FiberPlaces]
    /\ todo \in [Users -> SUBSET Users]
    /\ peer \in [Users -> Users \cup Names \cup {Nobody}]
    /\ after \in [Users -> {"reply", "gone"}]
    /\ inFrame \in [Users -> SUBSET Users]
    /\ running \in Users \cup {Nobody}

(* The only thread does not leave a fiber between exists() and add(),      *)
(* before del(), or before the table is copied; nor, if no write waits,    *)
(* anywhere but at a read.                                                 *)
RunInv ==
    oneThread => \A u \in Users :
        \/ at[u] \in {"add", "del", "notify"}
        \/ roomy /\ at[u] \notin {"read", "gone"}
        => running = u

(* The name that is about to be added is still free.                       *)
AddInv ==
    \A u \in Users : at[u] = "add" =>
        /\ peer[u] \in Names
        /\ after[u] = "reply"
        /\ oneThread => ~ exists(peer[u])

(* A fiber has a name to delete; the message goes to the sender too, or    *)
(* the session is on its way out and no longer in the table.               *)
LeaveInv ==
    \A u \in Users :
        /\ at[u] = "del" => name[u] # Nobody
        /\ at[u] \in {"add", "notify"} /\ after[u] = "reply" => u \in todo[u]
        /\ Leaving(u) /\ exists(name[u]) => s_sessions[name[u]] # u

(* Who is in the middle of a frame to a session is writing to it.          *)
FrameInv == \A v \in Users : \A u \in inFrame[v] : at[u] = "data" /\ peer[u] = v

ChatIInv == TableTypes /\ FiberTypes /\ RunInv /\ AddInv /\ LeaveInv /\ FrameInv /\ Room

-----------------------------------------------------------------------------
(***************************************************************************)
(* A step of one fiber                                                     *)
(***************************************************************************)

(* It changes what is its own, and the table only if it adds or deletes.   *)
LEMMA StepOf ==
    ASSUME FiberTypes, NEW u \in Users, ChatStep(u)
    PROVE  /\ Runs(u) /\ UNCHANGED <<oneThread, roomy>>
           /\ \A w \in Users \ {u} : /\ at'[w] = at[w] /\ name'[w] = name[w] /\ todo'[w] = todo[w]
                                     /\ peer'[w] = peer[w] /\ after'[w] = after[w]
           /\ UNCHANGED s_sessions \/ Add(u) \/ Del(u)
           /\ running' \in {u, Nobody}
           /\ running' = u \/ at'[u] \in {"read", "gone"} \/ (~ roomy /\ at'[u] \in {"head", "data"})
<1>1. /\ Runs(u) /\ UNCHANGED <<oneThread, roomy>>
      /\ UNCHANGED s_sessions \/ Add(u) \/ Del(u)
  BY DEF ChatStep, Login, Say, Hangup, Notify, Add, Del, SendHead, SendData
<1>2. \E s : at' = [at EXCEPT ![u] = s]
  BY DEF ChatStep, Proceed, Login, Say, Hangup, Notify, Add, Del, SendHead, SendData
<1>3. \E s : name' = name \/ name' = [name EXCEPT ![u] = s]
  BY DEF ChatStep, Login, Say, Hangup, Notify, Add, Del, SendHead, SendData
<1>4. \E s : todo' = todo \/ todo' = [todo EXCEPT ![u] = s]
  BY DEF ChatStep, Login, Say, Hangup, Notify, Add, Del, SendHead, SendData
<1>5. \E s : peer' = peer \/ peer' = [peer EXCEPT ![u] = s]
  BY DEF ChatStep, Login, Say, Hangup, Notify, Add, Del, SendHead, SendData
<1>6. \E s : after' = after \/ after' = [after EXCEPT ![u] = s]
  BY DEF ChatStep, Login, Say, Hangup, Notify, Add, Del, SendHead, SendData
<1>7. \A w \in Users \ {u} : /\ at'[w] = at[w] /\ name'[w] = name[w] /\ todo'[w] = todo[w]
                             /\ peer'[w] = peer[w] /\ after'[w] = after[w]
  BY <1>2, <1>3, <1>4, <1>5, <1>6 DEF FiberTypes
<1>8. /\ running' \in {u, Nobody}
      /\ running' = u \/ at'[u] \in {"read", "gone"} \/ (~ roomy /\ at'[u] \in {"head", "data"})
  <2>1. ASSUME NEW s, at' = [at EXCEPT ![u] = s], running' = IF s \in {"read", "gone"} THEN Nobody ELSE u
        PROVE  running' \in {u, Nobody} /\ (running' = u \/ at'[u] \in {"read", "gone"})
    <3>1. at'[u] = s
      BY <2>1 DEF FiberTypes
    <3> QED
      BY <2>1, <3>1
  <2>2. ASSUME NEW s \in {"head", "data"}, at' = [at EXCEPT ![u] = s], Suspends(u)
        PROVE  running' \in {u, Nobody} /\ (running' = u \/ (~ roomy /\ at'[u] \in {"head", "data"}))
    BY <2>2 DEF FiberTypes, Suspends
  <2>3. CASE SendHead(u)
    BY <2>2, <2>3 DEF SendHead
  <2>4. CASE SendData(u)
    <3>1. CASE at' = [at EXCEPT ![u] = "head"] /\ Suspends(u)
      BY <2>2, <3>1
    <3>2. ASSUME NEW s, Proceed(u, s) PROVE running' \in {u, Nobody} /\ (running' = u \/ at'[u] \in {"read", "gone"})
      BY <2>1, <3>2 DEF Proceed
    <3> QED
      BY <2>4, <3>1, <3>2 DEF SendData
  <2>5. CASE ~ SendHead(u) /\ ~ SendData(u)
    <3>1. PICK s : at' = [at EXCEPT ![u] = s] /\ running' = IF s \in {"read", "gone"} THEN Nobody ELSE u
      BY <2>5 DEF ChatStep, Login, Say, Hangup, Notify, Add, Del, Proceed
    <3> QED
      BY <2>1, <3>1
  <2> QED
    BY <2>3, <2>4, <2>5
<1> QED
  BY <1>1, <1>7, <1>8

(* Where it goes, and what it has to send then.                            *)
LEMMA OwnMove ==
    ASSUME FiberTypes, NEW u \in Users, ChatStep(u)
    PROVE  \/ /\ at[u] = "read" /\ at'[u] \in {"head", "add", "notify"}
              /\ todo'[u] = {u} /\ after'[u] = "reply" /\ name' = name
              /\ at'[u] = "add" => peer'[u] \in Names /\ ~ exists(peer'[u])
           \/ at[u] = "read" /\ at'[u] = Closing(u) /\ UNCHANGED <<todo, after, name>>
           \/ Add(u) /\ at[u] = "add" /\ at'[u] = "notify" /\ UNCHANGED <<todo, after>>
           \/ Del(u) /\ at[u] = "del" /\ at'[u] = "notify" /\ after'[u] = "gone" /\ name' = name
           \/ /\ at[u] = "notify" /\ todo[u] \subseteq todo'[u] /\ UNCHANGED <<after, name>>
              /\ at'[u] = "head" \/ (at'[u] = "gone" /\ todo'[u] = {})
           \/ /\ at[u] \in {"head", "data"} /\ UNCHANGED <<after, name>>
              /\ \/ at'[u] \in {"head", "data"}
                 \/ at'[u] = IF after[u] = "gone" THEN "gone" ELSE "read"
                 \/ after[u] = "reply" /\ at'[u] = Closing(u)
<1>0. \A s : Proceed(u, s) => at'[u] = s
  BY DEF FiberTypes, Proceed
<1>1. CASE Login(u)
  BY <1>0, <1>1 DEF Login, FiberTypes, exists
<1>2. CASE Say(u)
  BY <1>0, <1>2 DEF Say, FiberTypes
<1>3. CASE Hangup(u)
  BY <1>0, <1>3 DEF Hangup
<1>4. CASE Add(u)
  BY <1>0, <1>4 DEF Add
<1>5. CASE Del(u)
  BY <1>0, <1>5 DEF Del, FiberTypes
<1>6. CASE Notify(u)
  <2>1. todo[u] \subseteq todo'[u] /\ at[u] = "notify" /\ UNCHANGED <<after, name>>
    BY <1>6 DEF Notify, FiberTypes
  <2>2. PICK s : at' = [at EXCEPT ![u] = s] /\ (s = "head" \/ (s = "gone" /\ todo'[u] = {}))
    BY <1>6 DEF Notify, Proceed
  <2>3. at'[u] = s
    BY <2>2 DEF FiberTypes
  <2> QED
    BY <2>1, <2>2, <2>3
<1>7. CASE SendHead(u)
  BY <1>7 DEF SendHead, FiberTypes
<1>8. CASE SendData(u)
  BY <1>0, <1>8 DEF SendData, FiberTypes
<1> QED
  BY <1>1, <1>2, <1>3, <1>4, <1>5, <1>6, <1>7, <1>8 DEF ChatStep

LEMMA AddFacts ==
    ASSUME FiberTypes, NEW u \in Users, Add(u)
    PROVE  /\ DOMAIN s_sessions' = DOMAIN s_sessions \cup {peer[u]}
           /\ \A n \in DOMAIN s_sessions' : s_sessions'[n] = IF n = peer[u] THEN u ELSE s_sessions[n]
           /\ name'[u] = peer[u] /\ at'[u] = "notify"
           /\ todo' = todo /\ after' = after /\ inFrame' = inFrame
<1>1. s_sessions' = [m \in DOMAIN s_sessions \cup {peer[u]} |-> IF m = peer[u] THEN u ELSE s_sessions[m]]
  BY DEF Add
<1>2. /\ name'[u] = peer[u] /\ at'[u] = "notify"
      /\ todo' = todo /\ after' = after /\ inFrame' = inFrame
  BY DEF FiberTypes, Add, Proceed
<1> QED
  BY <1>1, <1>2

LEMMA DelFacts ==
    ASSUME FiberTypes, NEW u \in Users, Del(u)
    PROVE  /\ DOMAIN s_sessions' = DOMAIN s_sessions \ {name[u]}
           /\ \A n \in DOMAIN s_sessions' : s_sessions'[n] = s_sessions[n]
           /\ name' = name /\ at'[u] = "notify" /\ after'[u] = "gone" /\ inFrame' = inFrame
<1>1. s_sessions' = [n \in DOMAIN s_sessions \ {name[u]} |-> s_sessions[n]]
  BY DEF Del, Restrict
<1>2. name' = name /\ at'[u] = "notify" /\ after'[u] = "gone" /\ inFrame' = inFrame
  BY DEF FiberTypes, Del, Proceed
<1> QED
  BY <1>1, <1>2

LEMMA TableStep ==
    ASSUME TableTypes, FiberTypes, AddInv, NEW u \in Users, ChatStep(u)
    PROVE  TableTypes'
<1>1. CASE Add(u)
  <2>1. peer[u] \in Names
    BY <1>1 DEF Add, AddInv
  <2>2. s_sessions' = [m \in DOMAIN s_sessions \cup {peer[u]} |-> IF m = peer[u] THEN u ELSE s_sessions[m]]
    BY <1>1 DEF Add
  <2> QED
    BY <2>1, <2>2 DEF TableTypes
<1>2. CASE Del(u)
  <2>1. s_sessions' = [n \in DOMAIN s_sessions \ {name[u]} |-> s_sessions[n]]
    BY <1>2 DEF Del, Restrict
  <2> QED
    BY <2>1 DEF TableTypes
<1>3. CASE UNCHANGED s_sessions
  BY <1>3 DEF TableTypes
<1> QED
  BY <1>1, <1>2, <1>3, StepOf

LEMMA FiberStep ==
    ASSUME TableTypes, FiberTypes, AddInv, NEW u \in Users, ChatStep(u)
    PROVE  FiberTypes'
<1>0. Range(s_sessions) \subseteq Users
  BY DEF TableTypes, Range
<1>1. name' \in [Users -> Names \cup {Nobody}]
  BY DEF FiberTypes, AddInv, ChatStep, Login, Say, Hangup, Add, Del, Notify, SendHead, SendData
<1>2. at' \in [Users -> FiberPlaces] /\ running' \in Users \cup {Nobody}
  <2>1. \E s : at' = [at EXCEPT ![u] = s]
    BY DEF ChatStep, Proceed, Login, Say, Hangup, Notify, Add, Del, SendHead, SendData
  <2>2. at'[u] \in FiberPlaces
    BY OwnMove DEF FiberPlaces, Closing
  <2> QED
    BY <2>1, <2>2, StepOf DEF FiberTypes
<1>3. todo' \in [Users -> SUBSET Users]
  <2>1. \E s \in SUBSET Users : todo' = todo \/ todo' = [todo EXCEPT ![u] = s]
    <3>1. {u} \in SUBSET Users /\ {} \in SUBSET Users /\ todo[u] \cup Range(s_sessions) \in SUBSET Users
          /\ todo[u] \ {peer[u]} \in SUBSET Users
      BY <1>0 DEF FiberTypes
    <3> QED
      BY <3>1 DEF ChatStep, Login, Say, Hangup, Add, Del, Notify, SendHead, SendData
  <2> QED
    BY <2>1 DEF FiberTypes
<1>4. after' \in [Users -> {"reply", "gone"}]
  BY DEF FiberTypes, ChatStep, Login, Say, Hangup, Add, Del, Notify, SendHead, SendData
<1>5. peer' \in [Users -> Users \cup Names \cup {Nobody}]
  <2>1. \E s \in Users \cup Names \cup {Nobody} : peer' = peer \/ peer' = [peer EXCEPT ![u] = s]
    BY DEF FiberTypes, ChatStep, Login, Say, Hangup, Add, Del, Notify, SendHead, SendData
  <2> QED
    BY <2>1 DEF FiberTypes
<1>6. inFrame' \in [Users -> SUBSET Users]
  <2>1. CASE SendHead(u)
    BY <2>1 DEF SendHead, FiberTypes
  <2>2. CASE SendData(u)
    BY <2>2 DEF SendData, FiberTypes
  <2>3. CASE inFrame' = inFrame
    BY <2>3 DEF FiberTypes
  <2> QED
    BY <2>1, <2>2, <2>3 DEF ChatStep, Login, Say, Hangup, Add, Del, Notify
<1> QED
  BY <1>1, <1>2, <1>3, <1>4, <1>5, <1>6 DEF FiberTypes

LEMMA RunStep ==
    ASSUME TableTypes, FiberTypes, RunInv, NEW u \in Users, ChatStep(u)
    PROVE  RunInv'
<1>1. SUFFICES ASSUME oneThread, NEW w \in Users,
                      at'[w] \in {"add", "del", "notify"} \/ (roomy /\ at'[w] \notin {"read", "gone"})
               PROVE  running' = w
  BY StepOf DEF RunInv
<1>2. running \in {u, Nobody} /\ u # Nobody
  BY <1>1, StepOf, ChatAssumption DEF Runs
<1>3. ASSUME w # u PROVE FALSE
  <2>1. at[w] = at'[w] /\ w # Nobody
    BY <1>3, StepOf, ChatAssumption
  <2>2. running = w
    BY <1>1, <2>1, StepOf DEF RunInv
  <2> QED
    BY <1>2, <1>3, <2>1, <2>2
<1>4. w = u
  BY <1>3
<1> QED
  BY <1>1, <1>4, StepOf

(* Nobody else runs while a fiber is between exists() and add().           *)
LEMMA AddStep ==
    ASSUME TableTypes, FiberTypes, RunInv, AddInv, NEW u \in Users, ChatStep(u)
    PROVE  AddInv'
<1>1. SUFFICES ASSUME NEW w \in Users, at'[w] = "add"
               PROVE  /\ peer'[w] \in Names
                      /\ after'[w] = "reply"
                      /\ oneThread => peer'[w] \notin DOMAIN s_sessions'
  BY StepOf DEF AddInv, exists
<1>2. CASE w = u
  <2>1. at[u] = "read" /\ after'[u] = "reply" /\ peer'[u] \in Names /\ peer'[u] \notin DOMAIN s_sessions
    BY <1>1, <1>2, OwnMove DEF Closing, exists
  <2>2. UNCHANGED s_sessions
    BY <2>1, StepOf DEF Add, Del
  <2> QED
    BY <1>2, <2>1, <2>2
<1>3. CASE w # u
  <2>1. peer[w] \in Names /\ after[w] = "reply" /\ peer'[w] = peer[w] /\ after'[w] = after[w] /\ at[w] = "add"
    BY <1>1, <1>3, StepOf DEF AddInv
  <2>2. ~ oneThread
    BY <1>3, <2>1, StepOf, ChatAssumption DEF RunInv, Runs
  <2> QED
    BY <2>1, <2>2
<1> QED
  BY <1>2, <1>3

LEMMA LeaveStep ==
    ASSUME TableTypes, FiberTypes, AddInv, LeaveInv, NEW u \in Users, ChatStep(u)
    PROVE  LeaveInv'
<1>1. ASSUME NEW w \in Users PROVE at'[w] = "del" => name'[w] # Nobody
  <2>1. CASE w = u
    BY <2>1, OwnMove DEF Closing
  <2>2. CASE w # u
    <3>1. /\ at'[w] = at[w] /\ name'[w] = name[w]
          /\ todo'[w] = todo[w] /\ after'[w] = after[w]
      BY <2>2, StepOf
    <3> QED
      BY <3>1 DEF LeaveInv
  <2> QED
    BY <2>1, <2>2
<1>2. ASSUME NEW w \in Users
      PROVE  at'[w] \in {"add", "notify"} /\ after'[w] = "reply" => w \in todo'[w]
  <2>1. CASE w = u
    BY <2>1, OwnMove DEF LeaveInv, AddInv, Closing
  <2>2. CASE w # u
    <3>1. /\ at'[w] = at[w] /\ name'[w] = name[w]
          /\ todo'[w] = todo[w] /\ after'[w] = after[w]
      BY <2>2, StepOf
    <3> QED
      BY <3>1 DEF LeaveInv
  <2> QED
    BY <2>1, <2>2
<1>3. ASSUME NEW w \in Users, Leaving(w)', exists(name[w])' PROVE (s_sessions[name[w]] # w)'
  <2>1. CASE Add(u)
    <3>1. peer[u] \in Names /\ after[u] = "reply"
      BY <2>1 DEF Add, AddInv
    <3>2. w # u
      BY <1>3, <2>1, <3>1, AddFacts DEF Leaving
    <3>3. Leaving(w) /\ name'[w] = name[w]
      BY <1>3, <3>2, StepOf DEF Leaving
    <3> QED
      <4>1. s_sessions'[name[w]] = IF name[w] = peer[u] THEN u ELSE s_sessions[name[w]]
        BY <1>3, <2>1, <3>3, AddFacts DEF exists
      <4>0. name[w] \in DOMAIN s_sessions \cup {peer[u]}
        BY <1>3, <2>1, <3>3, AddFacts DEF exists
      <4>2. name[w] # peer[u] => exists(name[w])
        BY <4>0 DEF exists
      <4>3. name[w] # peer[u] => s_sessions[name[w]] # w
        BY <3>3, <4>2 DEF LeaveInv
      <4> QED
        BY <3>2, <3>3, <4>1, <4>3
  <2>2. CASE Del(u)
    <3>1. CASE w = u
      BY <1>3, <2>2, <3>1, DelFacts DEF exists
    <3>2. CASE w # u
      <4>1. Leaving(w) /\ name'[w] = name[w]
        BY <1>3, <3>2, StepOf DEF Leaving
      <4> QED
        BY <1>3, <2>2, <4>1, DelFacts DEF LeaveInv, exists
    <3> QED
      BY <3>1, <3>2
  <2>3. CASE UNCHANGED s_sessions /\ ~ Add(u) /\ ~ Del(u)
    <3>1. Leaving(w) /\ name'[w] = name[w]
      <4>1. CASE w = u
        BY <1>3, <2>3, <4>1, OwnMove DEF Leaving, Closing
      <4>2. CASE w # u
        BY <1>3, <4>2, StepOf DEF Leaving
      <4> QED
        BY <4>1, <4>2
    <3> QED
      BY <1>3, <2>3, <3>1 DEF LeaveInv, exists
  <2> QED
    BY <2>1, <2>2, <2>3, StepOf
<1> QED
  BY <1>1, <1>2, <1>3 DEF LeaveInv

LEMMA FrameStep ==
    ASSUME TableTypes, FiberTypes, FrameInv, NEW u \in Users, ChatStep(u)
    PROVE  FrameInv'
<1>1. SUFFICES ASSUME NEW v \in Users, NEW w \in inFrame'[v] PROVE at'[w] = "data" /\ peer'[w] = v
  BY DEF FrameInv
<1>2. CASE SendHead(u)
  <2>1. PICK x \in todo[u] : peer' = [peer EXCEPT ![u] = x] /\ inFrame' = [inFrame EXCEPT ![x] = @ \cup {u}]
    BY <1>2 DEF SendHead
  <2>2. x \in Users /\ at[u] = "head" /\ at' = [at EXCEPT ![u] = "data"]
    BY <1>2 DEF SendHead, FiberTypes
  <2>3. CASE w = u
    <3>1. u \notin inFrame[v]
      BY <2>2 DEF FrameInv
    <3>2. v = x
      BY <1>1, <2>1, <2>2, <2>3, <3>1 DEF FiberTypes
    <3> QED
      BY <2>1, <2>2, <2>3, <3>2 DEF FiberTypes
  <2>4. CASE w # u
    <3>1. w \in inFrame[v] /\ w \in Users
      BY <1>1, <2>1, <2>2, <2>4 DEF FiberTypes
    <3> QED
      BY <2>1, <2>2, <2>4, <3>1 DEF FrameInv, FiberTypes
  <2> QED
    BY <2>3, <2>4
<1>3. CASE SendData(u)
  <2>1. peer[u] \in Users => inFrame'[peer[u]] = inFrame[peer[u]] \ {u}
    BY <1>3 DEF SendData, FiberTypes
  <2>2. \A x \in Users : x # peer[u] => inFrame'[x] = inFrame[x]
    BY <1>3 DEF SendData, FiberTypes
  <2>3. w \in inFrame[v] /\ w \in Users
    BY <1>1, <2>1, <2>2 DEF FiberTypes
  <2>4. w # u
    BY <1>1, <2>1, <2>3 DEF FrameInv
  <2> QED
    BY <2>3, <2>4, StepOf DEF FrameInv
<1>4. CASE ~ SendHead(u) /\ ~ SendData(u)
  <2>1. inFrame' = inFrame /\ w \in Users
    BY <1>1, <1>4 DEF ChatStep, FiberTypes, Login, Say, Hangup, Add, Del, Notify
  <2>2. at[w] = "data" /\ peer[w] = v
    BY <1>1, <2>1 DEF FrameInv
  <2>3. w # u
    BY <1>4, <2>2 DEF ChatStep, Login, Say, Hangup, Add, Del, Notify
  <2> QED
    BY <2>1, <2>2, <2>3, StepOf
<1> QED
  BY <1>2, <1>3, <1>4

-----------------------------------------------------------------------------
(***************************************************************************)
(* The room                                                                *)
(***************************************************************************)

LEMMA ListedStep ==
    ASSUME TableTypes, FiberTypes, AddInv, LeaveInv, LoggedInListed, NEW u \in Users, ChatStep(u)
    PROVE  LoggedInListed'
<1> DEFINE Listed(w) == exists(name[w]) /\ s_sessions[name[w]] = w
           In(w) == name[w] # Nobody /\ at[w] # "gone" /\ ~ Leaving(w)
<1>1. SUFFICES ASSUME oneThread, NEW w \in Users, In(w)' PROVE Listed(w)'
  BY StepOf DEF LoggedInListed
<1>2. \A x \in Users : In(x) => Listed(x)
  BY <1>1 DEF LoggedInListed
<1>3. CASE Add(u)
  <2>1. peer[u] \in Names /\ peer[u] \notin DOMAIN s_sessions
    BY <1>1, <1>3 DEF Add, AddInv, exists
  <2>2. CASE w = u
    BY <1>3, <2>1, <2>2, AddFacts DEF exists
  <2>3. CASE w # u
    <3>1. In(w) /\ name'[w] = name[w]
      BY <1>1, <2>3, StepOf DEF Leaving
    <3>2. Listed(w)
      BY <1>2, <3>1
    <3> QED
      BY <1>3, <2>1, <3>1, <3>2, AddFacts DEF exists
  <2> QED
    BY <2>2, <2>3
<1>4. CASE Del(u)
  <2>1. w # u
    BY <1>1, <1>4, DelFacts DEF Leaving
  <2>2. In(w) /\ name'[w] = name[w]
    BY <1>1, <2>1, StepOf DEF Leaving
  <2>3. Listed(w)
    BY <1>2, <2>2
  <2>4. Listed(u)
    BY <1>2, <1>4 DEF Del, LeaveInv, Leaving
  <2> QED
    BY <1>4, <2>1, <2>2, <2>3, <2>4, DelFacts DEF exists
<1>5. CASE UNCHANGED s_sessions /\ ~ Add(u) /\ ~ Del(u)
  <2>1. In(w) /\ name'[w] = name[w]
    <3>1. CASE w = u
      BY <1>1, <1>5, <3>1, OwnMove DEF Leaving, Closing
    <3>2. CASE w # u
      BY <1>1, <3>2, StepOf DEF Leaving
    <3> QED
      BY <3>1, <3>2
  <2>2. Listed(w)
    BY <1>2, <2>1
  <2> QED
    BY <1>5, <2>1, <2>2 DEF exists
<1> QED
  BY <1>3, <1>4, <1>5, StepOf

LEMMA GivenBackStep ==
    ASSUME TableTypes, FiberTypes, AddInv, LeaveInv, NameGivenBack, NEW u \in Users, ChatStep(u)
    PROVE  NameGivenBack'
<1>1. SUFFICES ASSUME NEW w \in Users, at'[w] = "gone", name'[w] \in DOMAIN s_sessions'
               PROVE  s_sessions'[name'[w]] # w
  BY DEF NameGivenBack, exists
<1>2. CASE Add(u)
  <2>1. peer[u] \in Names
    BY <1>2 DEF Add, AddInv
  <2>2. w # u
    BY <1>1, <1>2, <2>1, AddFacts
  <2>3. at[w] = "gone" /\ name'[w] = name[w]
    BY <1>1, <2>2, StepOf
  <2> QED
    <3>1. s_sessions'[name[w]] = IF name[w] = peer[u] THEN u ELSE s_sessions[name[w]]
      BY <1>1, <1>2, <2>3, AddFacts
    <3>2. name[w] # peer[u] => name[w] \in DOMAIN s_sessions
      BY <1>1, <1>2, <2>3, AddFacts
    <3>3. name[w] # peer[u] => s_sessions[name[w]] # w
      BY <2>3, <3>2 DEF NameGivenBack, exists
    <3> QED
      BY <2>2, <2>3, <3>1, <3>3
<1>3. CASE Del(u)
  <2>1. w # u
    BY <1>1, <1>3, DelFacts
  <2>2. at[w] = "gone" /\ name'[w] = name[w]
    BY <1>1, <2>1, StepOf
  <2> QED
    BY <1>1, <1>3, <2>2, DelFacts DEF NameGivenBack, exists
<1>4. CASE UNCHANGED s_sessions /\ ~ Add(u) /\ ~ Del(u)
  <2>1. name'[w] = name[w]
    BY <1>4, StepOf DEF ChatStep, Login, Say, Hangup, Notify, SendHead, SendData
  <2>2. CASE w # u
    BY <1>1, <1>4, <2>1, <2>2, StepOf DEF NameGivenBack, exists
  <2>3. CASE w = u
    <3>1. name[u] # Nobody
      BY <1>1, <1>4, <2>1, <2>3, ChatAssumption DEF TableTypes
    <3>2. Leaving(u)
      BY <1>1, <1>4, <2>3, <3>1, OwnMove DEF FiberTypes, LeaveInv, Leaving, Closing
    <3> QED
      BY <1>1, <1>4, <2>1, <2>3, <3>2 DEF LeaveInv, exists
  <2> QED
    BY <2>2, <2>3
<1> QED
  BY <1>2, <1>3, <1>4, StepOf

(* All that write a frame are the one fiber that runs.                     *)
LEMMA OneWriter ==
    ASSUME TableTypes, FiberTypes, RunInv, FrameInv
    PROVE  FramesWhole
<1>1. SUFFICES ASSUME oneThread, roomy, NEW v \in Users PROVE Cardinality(inFrame[v]) <= 1
  BY DEF FramesWhole
<1>2. inFrame[v] \subseteq {running}
  BY <1>1 DEF FiberTypes, RunInv, FrameInv
<1>3. CASE inFrame[v] = {}
  BY <1>3, FS_EmptySet
<1>4. CASE inFrame[v] = {running}
  <2>1. Cardinality(inFrame[v]) = 1
    BY <1>4, FS_Singleton
  <2> QED
    BY <2>1
<1> QED
  BY <1>2, <1>3, <1>4

LEMMA ChatInitInv == ChatInit => ChatIInv
<1> SUFFICES ASSUME ChatInit PROVE ChatIInv
  OBVIOUS
<1>1. TableTypes /\ FiberTypes
  BY DEF ChatInit, TableTypes, FiberTypes, FiberPlaces
<1>2. RunInv /\ AddInv /\ LeaveInv /\ FrameInv
  BY DEF ChatInit, RunInv, AddInv, LeaveInv, FrameInv, Leaving
<1>3. LoggedInListed /\ NameGivenBack
  BY DEF ChatInit, LoggedInListed, NameGivenBack
<1> QED
  BY <1>1, <1>2, <1>3, OneWriter DEF ChatIInv, Room

(* For any number of sessions and names: while the chat worker has one     *)
(* thread a session that is logged in is the one in s_sessions under its   *)
(* name, a session that has gone is not, and if no write waits either, one *)
(* frame at a time is written to a session.                                *)
THEOREM RoomSafe == ChatSpec => []Room
<1>1. ChatInit => ChatIInv
  BY ChatInitInv
<1>2. ASSUME ChatIInv, [ChatNext]_chatVars PROVE ChatIInv'
  <2>1. CASE UNCHANGED chatVars
    BY <1>2, <2>1 DEF chatVars, ChatIInv, TableTypes, FiberTypes, RunInv, AddInv, LeaveInv, FrameInv, Room, LoggedInListed,
                      NameGivenBack, FramesWhole, Leaving, exists
  <2>2. CASE ChatNext
    <3>1. PICK u \in Users : ChatStep(u)
      BY <2>2 DEF ChatNext
    <3>2. TableTypes' /\ FiberTypes' /\ RunInv' /\ AddInv' /\ LeaveInv' /\ FrameInv'
      BY <1>2, <3>1, TableStep, FiberStep, RunStep, AddStep, LeaveStep, FrameStep DEF ChatIInv
    <3>3. LoggedInListed' /\ NameGivenBack'
      BY <1>2, <3>1, ListedStep, GivenBackStep DEF ChatIInv, Room
    <3>4. FramesWhole'
      BY <3>2, OneWriter, PTL
    <3> QED
      BY <3>2, <3>3, <3>4 DEF ChatIInv, Room
  <2> QED
    BY <1>2, <2>1, <2>2
<1>3. ChatIInv => Room
  BY DEF ChatIInv
<1> QED
  BY <1>1, <1>2, <1>3, PTL DEF ChatSpec
=============================================================================
