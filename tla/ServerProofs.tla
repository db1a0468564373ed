---------------------------- MODULE ServerProofs ----------------------------
(***************************************************************************)
(* Proofs about a server and its process: the accept loop keeps its hold   *)
(* on the listening sockets through start(), stop() and the clients; a     *)
(* Socket, on one thread, holds the descriptor it thinks it does; the      *)
(* invocations with -s and -r reach the server's process; and every event  *)
(* given to the asynchronous log is accounted for, in order.  They hold    *)
(* for any number of sockets, clients and starts, of fibers and            *)
(* descriptors, of invocations, processes, signals and crashes, of events  *)
(* and their lengths.                                                      *)
(***************************************************************************)
EXTENDS TcpServer, Sockets, Daemon, AsyncLog, SequenceTheorems, WellFoundedInduction, TLAPS

-----------------------------------------------------------------------------
(***************************************************************************)
(* The TCP server: start(), stop() and the accept loop                     *)
(***************************************************************************)
Steps == {"none", "queued", "top", "try", "wait", "woken", "ended"}

(* A client waits at one place; so it is in no backlog once it is handled. *)
OnePlace ==
    \A s, r \in Socks : \A i \in DOMAIN backlog[s], j \in DOMAIN backlog[r] :
        backlog[s][i] = backlog[r][j] => s = r /\ i = j

(* start() schedules fibers that have not been before.                     *)
StartsInv ==
    /\ starts \in 0 .. MaxStarts
    /\ \A f \in Fibers : f[2] > starts => fiber[f] = "none"

(* A fiber that has accepted after stop() is at the test that ends its     *)
(* loop, or has ended.                                                     *)
LastOne ==
    \A f \in Fibers :
        /\ late[f] <= 1
        /\ late[f] = 1 => m_isStop /\ fiber[f] \in {"top", "ended"}

WaiterTypes == waiter \in [Socks -> SUBSET Fibers]

TcpIInv == ServerTypeOK /\ WaiterTypes /\ OnePlace /\ StartsInv /\ AcceptorWaits /\ LastOne

(* What a step of the loop does to the fibers and the waits.               *)
LEMMA GoFacts ==
    ASSUME TcpIInv, NEW f \in Fibers, NEW step \in Steps, Go(f, step)
    PROVE  /\ fiber' \in [Fibers -> Steps]
           /\ fiber'[f] = step /\ \A g \in Fibers : g # f => fiber'[g] = fiber[g]
BY DEF TcpIInv, ServerTypeOK, Go, Steps

(* A fiber that is not waiting goes on, and is not registered.             *)
LEMMA StillListens ==
    ASSUME TcpIInv, NEW f \in Fibers, NEW step \in Steps \ {"none", "wait"}, Go(f, step),
           fiber[f] \notin {"none", "wait"},
           UNCHANGED <<serverVars, waiter, late>>,
           m_isStop /\ late[f] = 1 => step \in {"top", "ended"}
    PROVE  /\ fiber' \in [Fibers -> Steps]
           /\ \A s \in Socks : waiter'[s] \subseteq {g \in Fibers : g[1] = s /\ fiber'[g] = "wait"}
           /\ WaiterTypes' /\ StartsInv' /\ AcceptorWaits' /\ LastOne'
<1>1. /\ fiber' \in [Fibers -> Steps]
      /\ fiber'[f] = step /\ \A g \in Fibers : g # f => fiber'[g] = fiber[g]
  BY GoFacts
<1>2. \A s \in Socks : waiter'[s] \subseteq {g \in Fibers : g[1] = s /\ fiber'[g] = "wait"}
  <2> SUFFICES ASSUME NEW s \in Socks, NEW g \in waiter'[s] PROVE g \in Fibers /\ g[1] = s /\ fiber'[g] = "wait"
    OBVIOUS
  <2>1. g \in Fibers /\ g[1] = s /\ fiber[g] = "wait"
    BY DEF TcpIInv, ServerTypeOK
  <2> QED
    BY <1>1, <2>1
<1>3. StartsInv'
  BY <1>1 DEF TcpIInv, StartsInv, serverVars
<1>4. AcceptorWaits'
  BY <1>1 DEF TcpIInv, AcceptorWaits
<1>5. LastOne'
  BY <1>1 DEF TcpIInv, LastOne, serverVars
<1> QED
  BY <1>1, <1>2, <1>3, <1>4, <1>5 DEF TcpIInv, WaiterTypes

LEMMA WaitingMeans ==
    ASSUME NEW c
    PROVE  Waiting(c) <=> \E s \in Socks : \E i \in DOMAIN backlog[s] : backlog[s][i] = c
BY DEF Waiting, ToSet

LEMMA WaitingMeansNext ==
    ASSUME NEW c
    PROVE  Waiting(c)' <=> \E s \in Socks : \E i \in DOMAIN backlog'[s] : backlog'[s][i] = c
BY DEF Waiting, ToSet

(* The clients of closed sockets are turned away: nobody waits who did not.*)
LEMMA TurnAwayFacts ==
    ASSUME TcpIInv, NEW closed, TurnAway(closed), handled' = handled
    PROVE  /\ backlog' \in [Socks -> Seq(Clients)] /\ OnePlace'
           /\ handled' \subseteq {c \in Clients : ~ Waiting(c)'}
<1>1. backlog \in [Socks -> Seq(Clients)] /\ OnePlace /\ handled \subseteq {c \in Clients : ~ Waiting(c)}
  BY DEF TcpIInv, ServerTypeOK
<1>2. \A s \in Socks : backlog'[s] = backlog[s] \/ backlog'[s] = << >>
  BY DEF TurnAway
<1>3. backlog' \in [Socks -> Seq(Clients)]
  BY <1>1, <1>2 DEF TurnAway
<1>4. \A s \in Socks : \A i \in DOMAIN backlog'[s] : i \in DOMAIN backlog[s] /\ backlog'[s][i] = backlog[s][i]
  BY <1>2
<1>5. OnePlace'
  BY <1>1, <1>4 DEF OnePlace
<1>6. handled' \subseteq {c \in Clients : ~ Waiting(c)'}
  BY <1>1, <1>4, WaitingMeans, WaitingMeansNext
<1> QED
  BY <1>3, <1>5, <1>6

(* The first client of a socket is accepted: it waits nowhere any more.    *)
LEMMA AcceptFacts ==
    ASSUME TcpIInv, NEW s \in Socks, backlog[s] # << >>,
           backlog' = [backlog EXCEPT ![s] = Tail(@)],
           handled' = handled \cup {Head(backlog[s])}
    PROVE  /\ backlog' \in [Socks -> Seq(Clients)] /\ OnePlace'
           /\ handled' \subseteq {c \in Clients : ~ Waiting(c)'}
<1>1. backlog \in [Socks -> Seq(Clients)] /\ OnePlace /\ handled \subseteq {c \in Clients : ~ Waiting(c)}
  BY DEF TcpIInv, ServerTypeOK
<1>2. /\ backlog[s] \in Seq(Clients) /\ Tail(backlog[s]) \in Seq(Clients)
      /\ Head(backlog[s]) = backlog[s][1] /\ Head(backlog[s]) \in Clients /\ 1 \in DOMAIN backlog[s]
      /\ \A i \in DOMAIN Tail(backlog[s]) : /\ i + 1 \in DOMAIN backlog[s] /\ Tail(backlog[s])[i] = backlog[s][i + 1]
                                            /\ i \in Nat \ {0}
  BY <1>1
<1>3. backlog'[s] = Tail(backlog[s]) /\ \A r \in Socks : r # s => backlog'[r] = backlog[r]
  BY <1>1
<1>4. backlog' \in [Socks -> Seq(Clients)]
  BY <1>1, <1>2
<1> DEFINE From(r, i) == IF r = s THEN i + 1 ELSE i
<1>5. \A r \in Socks : \A i \in DOMAIN backlog'[r] :
          /\ From(r, i) \in DOMAIN backlog[r] /\ backlog'[r][i] = backlog[r][From(r, i)]
          /\ i \in Nat \ {0}
  <2> SUFFICES ASSUME NEW r \in Socks, NEW i \in DOMAIN backlog'[r]
               PROVE  /\ From(r, i) \in DOMAIN backlog[r] /\ backlog'[r][i] = backlog[r][From(r, i)]
                      /\ i \in Nat \ {0}
    OBVIOUS
  <2>1. CASE r = s
    BY <1>2, <1>3, <2>1
  <2>2. CASE r # s
    <3>1. backlog[r] \in Seq(Clients) /\ backlog'[r] = backlog[r]
      BY <1>1, <1>3, <2>2
    <3> QED
      BY <2>2, <3>1
  <2> QED
    BY <2>1, <2>2
<1>6. OnePlace'
  <2> SUFFICES ASSUME NEW r \in Socks, NEW q \in Socks, NEW i \in DOMAIN backlog'[r], NEW j \in DOMAIN backlog'[q],
                      backlog'[r][i] = backlog'[q][j]
               PROVE  r = q /\ i = j
    BY DEF OnePlace
  <2>1. r = q /\ From(r, i) = From(q, j) /\ i \in Nat /\ j \in Nat
    BY <1>1, <1>5 DEF OnePlace
  <2> QED
    BY <2>1
<1>7. ASSUME NEW c, c = Head(backlog[s]), Waiting(c)' PROVE FALSE
  <2>0. PICK r \in Socks : \E i \in DOMAIN backlog'[r] : backlog'[r][i] = backlog[s][1]
    BY <1>2, <1>7, WaitingMeansNext
  <2> PICK i \in DOMAIN backlog'[r] : backlog'[r][i] = backlog[s][1]
    BY <2>0
  <2>1. r = s /\ From(r, i) = 1 /\ i \in Nat \ {0}
    BY <1>1, <1>2, <1>5 DEF OnePlace
  <2> QED
    BY <2>1
<1>8. \A c : Waiting(c)' => Waiting(c)
  BY <1>5, WaitingMeans, WaitingMeansNext
<1>9. \A c \in handled' : c \in Clients /\ ~ Waiting(c)'
  <2> TAKE c \in handled'
  <2>1. c \in handled \/ c = Head(backlog[s])
    OBVIOUS
  <2>2. CASE c = Head(backlog[s])
    BY <1>2, <1>7, <2>2
  <2>3. CASE c \in handled
    BY <1>1, <1>8, <2>3
  <2> QED
    BY <2>1, <2>2, <2>3
<1> QED
  BY <1>4, <1>6, <1>9

(* A client that waits nowhere comes to a socket.                          *)
LEMMA ConnectFacts ==
    ASSUME TcpIInv, NEW c \in Clients, NEW s \in Socks, Connect(c, s)
    PROVE  /\ backlog' \in [Socks -> Seq(Clients)] /\ OnePlace'
           /\ handled' \subseteq {d \in Clients : ~ Waiting(d)'}
<1>1. backlog \in [Socks -> Seq(Clients)] /\ OnePlace /\ handled \subseteq {d \in Clients : ~ Waiting(d)}
  BY DEF TcpIInv, ServerTypeOK
<1>2. ~ Waiting(c) /\ c \notin handled /\ handled' = handled /\ backlog' = [backlog EXCEPT ![s] = Append(@, c)]
  BY DEF Connect
<1>3. backlog[s] \in Seq(Clients) /\ backlog'[s] = Append(backlog[s], c) /\ \A r \in Socks : r # s => backlog'[r] = backlog[r]
  BY <1>1, <1>2
<1>4. backlog' \in [Socks -> Seq(Clients)]
  BY <1>1, <1>2, <1>3
<1>5. \A i \in DOMAIN backlog'[s] : \/ (i \in DOMAIN backlog[s] /\ backlog'[s][i] = backlog[s][i])
                                    \/ (i = Len(backlog[s]) + 1 /\ backlog'[s][i] = c)
  BY <1>3
<1>6. \A r \in Socks : \A i \in DOMAIN backlog'[r] : \/ (i \in DOMAIN backlog[r] /\ backlog'[r][i] = backlog[r][i])
                                                    \/ (r = s /\ i = Len(backlog[s]) + 1 /\ backlog'[r][i] = c)
  BY <1>3, <1>5
<1>7. \A r \in Socks : \A i \in DOMAIN backlog[r] : backlog[r][i] # c
  BY <1>2, WaitingMeans
<1>8. OnePlace'
  BY <1>1, <1>6, <1>7 DEF OnePlace
<1>9. \A d : Waiting(d)' => d = c \/ Waiting(d)
  BY <1>6, WaitingMeans, WaitingMeansNext
<1> QED
  BY <1>1, <1>2, <1>4, <1>8, <1>9

(* cancelAll(), or the report of a client: all who are registered for the  *)
(* socket are woken, and nobody else.                                      *)
LEMMA WakeFacts ==
    ASSUME TcpIInv, NEW s \in Socks, UNCHANGED <<m_isStop, starts, late>>,
           waiter' = [waiter EXCEPT ![s] = {}],
           fiber' = [f \in Fibers |-> IF f \in waiter[s] THEN "woken" ELSE fiber[f]]
    PROVE  /\ fiber' \in [Fibers -> Steps]
           /\ \A r \in Socks : waiter'[r] \subseteq {g \in Fibers : g[1] = r /\ fiber'[g] = "wait"}
           /\ WaiterTypes' /\ StartsInv' /\ AcceptorWaits' /\ LastOne'
<1>1. /\ fiber \in [Fibers -> Steps]
      /\ \A r \in Socks : waiter[r] \subseteq {g \in Fibers : g[1] = r /\ fiber[g] = "wait"}
  BY DEF TcpIInv, ServerTypeOK, Steps
<1>2. fiber' \in [Fibers -> Steps]
  BY <1>1 DEF Steps
<1>3. \A f \in Fibers : fiber'[f] = IF f \in waiter[s] THEN "woken" ELSE fiber[f]
  OBVIOUS
<1>4. waiter'[s] = {} /\ \A r \in Socks : r # s => waiter'[r] = waiter[r]
  BY <1>1 DEF TcpIInv, WaiterTypes
<1>5. \A r \in Socks : waiter'[r] \subseteq {g \in Fibers : g[1] = r /\ fiber'[g] = "wait"}
  BY <1>1, <1>3, <1>4
<1>6. \A f \in Fibers : fiber'[f] # fiber[f] => fiber[f] = "wait"
  BY <1>1, <1>3
<1>7. StartsInv'
  BY <1>6 DEF TcpIInv, StartsInv
<1>8. AcceptorWaits'
  <2> SUFFICES ASSUME NEW f \in Fibers, fiber'[f] = "wait" PROVE f \in waiter'[f[1]]
    BY DEF AcceptorWaits
  <2>1. fiber[f] = "wait" /\ f \notin waiter[s] /\ f[1] \in Socks
    BY <1>3 DEF Fibers
  <2> QED
    BY <1>4, <2>1 DEF TcpIInv, AcceptorWaits
<1>9. LastOne'
  BY <1>6 DEF TcpIInv, LastOne
<1> QED
  BY <1>2, <1>5, <1>7, <1>8, <1>9 DEF TcpIInv, WaiterTypes

(* The fibers that start() schedules are new.                              *)
LEMMA StartFacts ==
    ASSUME TcpIInv, start
    PROVE  /\ fiber' \in [Fibers -> Steps]
           /\ \A r \in Socks : waiter'[r] \subseteq {g \in Fibers : g[1] = r /\ fiber'[g] = "wait"}
           /\ WaiterTypes' /\ StartsInv' /\ AcceptorWaits' /\ LastOne'
<1>1. /\ fiber \in [Fibers -> Steps] /\ starts \in Nat /\ starts' = starts + 1 /\ starts < MaxStarts
      /\ waiter' = waiter /\ late' = [f \in Fibers |-> 0]
      /\ \A r \in Socks : waiter[r] \subseteq {g \in Fibers : g[1] = r /\ fiber[g] = "wait"}
  BY ServerAssumption DEF TcpIInv, ServerTypeOK, StartsInv, Steps, start
<1>2. \A f \in Fibers : fiber'[f] = IF f[2] = starts' /\ f[1] \in m_socks THEN "queued" ELSE fiber[f]
  BY DEF start
<1>3. fiber' \in [Fibers -> Steps]
  BY <1>1 DEF start, Steps
<1>4. \A f \in Fibers : f[2] \in Nat
  BY ServerAssumption DEF Fibers
<1>5. \A f \in Fibers : fiber'[f] # fiber[f] => fiber[f] = "none" /\ fiber'[f] = "queued" /\ f[2] = starts'
  BY <1>1, <1>2, <1>4 DEF TcpIInv, StartsInv
<1>6. \A r \in Socks : waiter'[r] \subseteq {g \in Fibers : g[1] = r /\ fiber'[g] = "wait"}
  BY <1>1, <1>5
<1>7. StartsInv'
  <2>1. starts' \in 0 .. MaxStarts
    BY <1>1, ServerAssumption
  <2>2. \A f \in Fibers : f[2] > starts' => fiber'[f] = "none"
    BY <1>1, <1>4, <1>5 DEF TcpIInv, StartsInv
  <2> QED
    BY <2>1, <2>2 DEF StartsInv
<1>8. AcceptorWaits'
  BY <1>1, <1>5 DEF TcpIInv, AcceptorWaits
<1>9. LastOne'
  BY <1>1 DEF LastOne
<1> QED
  BY <1>1, <1>3, <1>6, <1>7, <1>8, <1>9 DEF TcpIInv, WaiterTypes

(* The fiber that finds no client is registered, unless another one is.    *)
LEMMA WaitFacts ==
    ASSUME TcpIInv, NEW f \in Fibers, Wait(f)
    PROVE  /\ fiber' \in [Fibers -> Steps] /\ aborted' \in BOOLEAN
           /\ \A r \in Socks : waiter'[r] \subseteq {g \in Fibers : g[1] = r /\ fiber'[g] = "wait"}
           /\ WaiterTypes' /\ StartsInv' /\ AcceptorWaits' /\ LastOne'
<1>1. /\ fiber \in [Fibers -> Steps] /\ aborted \in BOOLEAN
      /\ \A r \in Socks : waiter[r] \subseteq {g \in Fibers : g[1] = r /\ fiber[g] = "wait"}
      /\ f[1] \in Socks /\ fiber[f] = "try"
      /\ UNCHANGED <<m_isStop, starts, late>>
  BY DEF TcpIInv, ServerTypeOK, Steps, Wait, Fibers, serverVars, clientVars
<1>2. CASE waiter[f[1]] # {}
  <2>1. aborted' = TRUE /\ fiber' = fiber /\ waiter' = waiter
    BY <1>2 DEF Wait
  <2> QED
    BY <1>1, <2>1 DEF TcpIInv, WaiterTypes, StartsInv, AcceptorWaits, LastOne
<1>3. CASE waiter[f[1]] = {}
  <2>1. waiter' = [waiter EXCEPT ![f[1]] = {f}] /\ Go(f, "wait") /\ aborted' = aborted
    BY <1>3 DEF Wait
  <2>2. /\ fiber' \in [Fibers -> Steps]
        /\ fiber'[f] = "wait" /\ \A g \in Fibers : g # f => fiber'[g] = fiber[g]
    BY <2>1, GoFacts DEF Steps
  <2>3. \A r \in Socks : waiter'[r] = waiter[r] \/ (r = f[1] /\ waiter'[r] = {f})
    BY <2>1
  <2>4. \A r \in Socks : waiter'[r] \subseteq {g \in Fibers : g[1] = r /\ fiber'[g] = "wait"}
    <3> SUFFICES ASSUME NEW r \in Socks, NEW g \in waiter'[r] PROVE g \in Fibers /\ g[1] = r /\ fiber'[g] = "wait"
      OBVIOUS
    <3> QED
      BY <1>1, <2>2, <2>3
  <2>5. StartsInv'
    BY <1>1, <2>2 DEF TcpIInv, StartsInv
  <2>6. AcceptorWaits'
    <3> SUFFICES ASSUME NEW g \in Fibers, fiber'[g] = "wait" PROVE g \in waiter'[g[1]]
      BY DEF AcceptorWaits
    <3>0. g[1] \in Socks /\ DOMAIN waiter' = DOMAIN waiter
      BY <2>1 DEF Fibers
    <3>1. CASE g = f
      BY <1>1, <2>1, <3>1 DEF TcpIInv, WaiterTypes
    <3>2. CASE g # f
      <4>1. g \in waiter[g[1]]
        BY <2>2, <3>2 DEF TcpIInv, AcceptorWaits
      <4> QED
        BY <1>3, <2>1, <3>0, <4>1
    <3> QED
      BY <3>1, <3>2
  <2>7. LastOne'
    BY <1>1, <2>2 DEF TcpIInv, LastOne
  <2>8. WaiterTypes'
    BY <1>1, <2>1 DEF TcpIInv, WaiterTypes
  <2> QED
    BY <1>1, <2>1, <2>2, <2>4, <2>5, <2>6, <2>7, <2>8
<1> QED
  BY <1>2, <1>3

(* Every step of the server keeps TcpIInv.                                 *)
LEMMA TcpInvStep ==
    ASSUME TcpIInv, [Next]_vars
    PROVE  TcpIInv'
<1> DEFINE Waits == /\ fiber' \in [Fibers -> Steps]
                    /\ \A s \in Socks : waiter'[s] \subseteq {f \in Fibers : f[1] = s /\ fiber'[f] = "wait"}
                    /\ WaiterTypes' /\ StartsInv' /\ AcceptorWaits' /\ LastOne'
           Came == /\ backlog' \in [Socks -> Seq(Clients)] /\ OnePlace'
                   /\ handled' \subseteq {c \in Clients : ~ Waiting(c)'}
           Flags == /\ m_isStop' \in BOOLEAN /\ aborted' \in BOOLEAN
                    /\ m_socks' \subseteq Socks /\ todo' \subseteq m_socks'
                    /\ late' \in [Fibers -> 0 .. 2]
<1>1. Waits /\ Came /\ Flags => TcpIInv'
  BY DEF TcpIInv, ServerTypeOK, Steps
<1>2. /\ m_isStop \in BOOLEAN /\ aborted \in BOOLEAN
      /\ m_socks \subseteq Socks /\ todo \subseteq m_socks
      /\ late \in [Fibers -> 0 .. 2]
      /\ fiber \in [Fibers -> Steps]
      /\ \A s \in Socks : waiter[s] \subseteq {f \in Fibers : f[1] = s /\ fiber[f] = "wait"}
      /\ backlog \in [Socks -> Seq(Clients)] /\ handled \subseteq {c \in Clients : ~ Waiting(c)}
      /\ starts \in Nat
      /\ \A f \in Fibers : f[1] \in Socks
  BY ServerAssumption DEF TcpIInv, ServerTypeOK, StartsInv, Steps, Fibers
<1>3. UNCHANGED <<fiber, waiter, m_isStop, starts, late>> => Waits
  BY <1>2 DEF TcpIInv, WaiterTypes, StartsInv, AcceptorWaits, LastOne
<1>4. UNCHANGED <<backlog, handled>> => Came
  BY <1>2 DEF TcpIInv, OnePlace, Waiting
<1>5. UNCHANGED <<m_isStop, m_socks, todo, late, aborted>> => Flags
  BY <1>2
<1>6. CASE UNCHANGED vars
  BY <1>1, <1>3, <1>4, <1>5, <1>6 DEF vars, serverVars, clientVars
<1>7. CASE start
  <2>1. Waits
    BY <1>7, StartFacts
  <2>3. late' \in [Fibers -> 0 .. 2]
    <3>1. late' = [f \in Fibers |-> 0]
      BY <1>7 DEF start
    <3> QED
      BY <3>1
  <2>2. Flags
    <3>1. m_isStop' = FALSE /\ aborted' = aborted /\ m_socks' = m_socks /\ todo' = todo
      BY <1>7 DEF start
    <3> QED
      BY <1>2, <2>3, <3>1
  <2> QED
    BY <1>1, <1>4, <1>7, <2>1, <2>2 DEF start
<1>8. CASE stop
  <2>1. Waits
    BY <1>2, <1>8 DEF stop, clientVars, TcpIInv, WaiterTypes, StartsInv, AcceptorWaits, LastOne
  <2> QED
    BY <1>1, <1>2, <1>4, <1>8, <2>1 DEF stop, clientVars
<1>9. CASE StopRuns
  BY <1>1, <1>2, <1>3, <1>4, <1>9 DEF StopRuns, clientVars
<1>10. CASE Clear
  BY <1>1, <1>2, <1>3, <1>10, TurnAwayFacts DEF Clear
<1>11. ASSUME NEW s \in Socks, CancelAll(s) PROVE TcpIInv'
  BY <1>1, <1>2, <1>4, <1>11, WakeFacts DEF CancelAll, clientVars
<1>12. ASSUME NEW s \in Socks, Report(s) PROVE TcpIInv'
  <2>1. UNCHANGED <<m_isStop, m_socks, starts, todo, late, backlog, handled, aborted>>
    BY <1>12 DEF Report, serverVars, clientVars
  <2>2. Waits
    BY <1>12, <2>1, WakeFacts DEF Report
  <2> QED
    BY <1>1, <1>4, <1>5, <2>1, <2>2
<1>13. ASSUME NEW s \in Socks, NEW c \in Clients, Connect(c, s) PROVE TcpIInv'
  BY <1>1, <1>3, <1>5, <1>13, ConnectFacts DEF Connect, serverVars
<1>14. ASSUME NEW c \in Clients, Handled(c) PROVE TcpIInv'
  <2>1. Came
    BY <1>2, <1>14 DEF Handled, TcpIInv, OnePlace, Waiting
  <2> QED
    BY <1>1, <1>3, <1>5, <1>14, <2>1 DEF Handled, serverVars
<1>15. ASSUME NEW f \in Fibers, Loop(f) PROVE TcpIInv'
  <2>1. CASE Begin(f) \/ Again(f) \/ AcceptFails(f) \/ Retry(f)
    <3>1. UNCHANGED <<serverVars, waiter, clientVars, aborted>>
      BY <2>1 DEF Begin, Again, AcceptFails, Retry
    <3>2. Waits
      <4>1. CASE Begin(f)
        BY <3>1, <4>1, StillListens DEF Begin, Steps, clientVars
      <4>2. CASE Again(f)
        BY <3>1, <4>2, StillListens DEF Again, Steps, clientVars
      <4>3. CASE AcceptFails(f)
        BY <3>1, <4>3, StillListens DEF AcceptFails, Steps, clientVars
      <4>4. CASE Retry(f)
        <5>1. late[f] # 1
          BY <1>2, <4>4 DEF Retry, TcpIInv, LastOne
        <5> QED
          BY <3>1, <4>4, <5>1, StillListens DEF Retry, Steps, clientVars
      <4> QED
        BY <2>1, <4>1, <4>2, <4>3, <4>4
    <3> QED
      BY <1>1, <1>4, <1>5, <3>1, <3>2 DEF serverVars, clientVars
  <2>2. CASE Leave(f)
    <3>1. Waits
      BY <2>2, StillListens DEF Leave, Steps
    <3>2. Came
      BY <2>2, TurnAwayFacts DEF Leave
    <3> QED
      BY <1>1, <1>5, <2>2, <3>1, <3>2 DEF Leave, serverVars
  <2>3. CASE Accept(f)
    <3>1. Came
      BY <1>2, <2>3, AcceptFacts DEF Accept
    <3>2. /\ fiber' \in [Fibers -> Steps]
          /\ fiber'[f] = "top" /\ \A g \in Fibers : g # f => fiber'[g] = fiber[g]
          /\ fiber[f] = "try" /\ waiter' = waiter /\ UNCHANGED <<m_isStop, m_socks, starts, todo, aborted>>
      BY <2>3, GoFacts DEF Accept, Steps, serverVars
    <3>3. \A s \in Socks : waiter'[s] \subseteq {g \in Fibers : g[1] = s /\ fiber'[g] = "wait"}
      BY <1>2, <3>2
    <3>4. WaiterTypes' /\ StartsInv' /\ AcceptorWaits'
      BY <3>2 DEF TcpIInv, WaiterTypes, StartsInv, AcceptorWaits
    <3>5. late' \in [Fibers -> 0 .. 2]
      BY <1>2, <2>3 DEF Accept
    <3>6. LastOne'
      <4>1. late[f] \in 0 .. 2 /\ late[f] <= 1 /\ late[f] # 1
        BY <1>2, <3>2 DEF TcpIInv, LastOne
      <4>2. /\ late'[f] = IF ~ m_isStop THEN 0 ELSE IF late[f] < 2 THEN late[f] + 1 ELSE 2
            /\ \A g \in Fibers : g # f => late'[g] = late[g]
        BY <1>2, <2>3 DEF Accept
      <4>3. late'[f] = IF m_isStop THEN 1 ELSE 0
        BY <4>1, <4>2
      <4> QED
        BY <1>2, <3>2, <4>2, <4>3 DEF TcpIInv, LastOne
    <3> QED
      BY <1>1, <1>2, <3>1, <3>2, <3>3, <3>4, <3>5, <3>6
  <2>4. CASE Wait(f)
    BY <1>1, <1>2, <1>4, <2>4, WaitFacts DEF Wait, serverVars, clientVars
  <2> QED
    BY <1>15, <2>1, <2>2, <2>3, <2>4 DEF Loop
<1> QED
  BY <1>6, <1>7, <1>8, <1>9, <1>10, <1>11, <1>12, <1>13, <1>14, <1>15 DEF Next, Running, StopStep

LEMMA TcpInvInit == Init => TcpIInv
<1> SUFFICES ASSUME Init PROVE TcpIInv
  OBVIOUS
<1>1. ServerTypeOK
  <2>1. backlog \in [Socks -> Seq(Clients)] /\ handled = {}
    BY DEF Init
  <2>2. fiber \in [Fibers -> Steps] /\ late \in [Fibers -> 0 .. 2]
    BY DEF Init, Steps
  <2>3. m_isStop \in BOOLEAN /\ aborted \in BOOLEAN /\ m_socks \subseteq Socks /\ todo \subseteq m_socks
    BY DEF Init
  <2>4. \A s \in Socks : waiter[s] \subseteq {f \in Fibers : f[1] = s /\ fiber[f] = "wait"}
    BY DEF Init
  <2> QED
    BY <2>1, <2>2, <2>3, <2>4 DEF ServerTypeOK, Steps
<1>2. WaiterTypes /\ OnePlace /\ StartsInv /\ AcceptorWaits /\ LastOne
  BY ServerAssumption DEF Init, WaiterTypes, OnePlace, StartsInv, AcceptorWaits, LastOne
<1> QED
  BY <1>1, <1>2 DEF TcpIInv

(* AcceptorInv: whoever waits in accept() is registered, so that a client  *)
(* or stop() wakes it; and after stop() each accepting fiber takes one     *)
(* client more at the most, for any number of sockets, clients and starts. *)
THEOREM AcceptorSafe == Spec => []AcceptorInv
<1>1. TcpIInv => AcceptorInv
  BY DEF TcpIInv, AcceptorInv, LastOne, AtMostOneMore
<1> QED
  BY <1>1, TcpInvInit, TcpInvStep, PTL DEF Spec

-----------------------------------------------------------------------------
(***************************************************************************)
(* A Socket whose descriptors come and go, on one thread                   *)
(***************************************************************************)
Calls == {"connecting", "connected", "late", "reading", "read"}
Spots == Calls \cup {"out", "close", "closed"}

SocketTypes ==
    /\ m_sock \in Fds \cup {-1}
    /\ m_isConnected \in BOOLEAN /\ m_remoteAddress \in BOOLEAN
    /\ fds \in [Fds -> Own \cup {"free", "else"}]
    /\ spot \in [Holders -> Spots]
    /\ fd_ \in [Holders -> Fds \cup {0}]
    /\ gone \in [Holders -> BOOLEAN]
    /\ \A f \in Holders : spot[f] \in Calls => fd_[f] \in Fds

(* One fiber closes at a time; what it closes is the one descriptor of the *)
(* Socket, and the Socket does not say meanwhile that it is connected.     *)
CloserInv ==
    /\ \A f, g \in Between : f = g
    /\ Between # {} => m_sock # -1 /\ ~ m_isConnected
    /\ \A f \in Holders : spot[f] = "closed" => State = "free"

(* The one descriptor that the Socket has open is the one it holds.        *)
OneDescriptor ==
    /\ ~ harmed
    /\ \A n \in Fds : fds[n] \in Own => n = m_sock
    /\ m_sock # -1 /\ (\A f \in Holders : spot[f] # "closed") => State \in Own

(* The number of a call stands for that descriptor until it is closed, and *)
(* a connect() is woken when that has an answer.                           *)
CallInv ==
    \A f \in Holders : spot[f] \in Calls /\ ~ gone[f] =>
        /\ fd_[f] = m_sock /\ State \in Own
        /\ spot[f] = "connecting" => State = "pending"
        /\ spot[f] = "connected" => State \in {"up", "refused"}

SocketIInv == SocketTypes /\ CloserInv /\ OneDescriptor /\ CallInv /\ ConnectedIsUp

(* The kernel gives the lowest number that is free.                        *)
LEMMA LowestFree ==
    ASSUME NEW n \in Fds, fds[n] = "free"
    PROVE  Lowest \in Fds /\ fds[Lowest] = "free"
<1> DEFINE R == {ss \in Nat \X Nat : ss[1] < ss[2]}
           Free == {k \in Fds : fds[k] = "free"}
<1>1. IsWellFoundedOn(R, Nat)
  BY NatLessThanWellFounded DEF OpToRel
<1>2. Free \subseteq Nat /\ Free # {}
  BY SocketAssumption
<1>3. PICK k \in Free : \A j \in Free : <<j, k>> \notin R
  <2> HIDE DEF R
  <2> QED
    BY <1>1, <1>2, WFMin
<1>4. \A j \in Free : k <= j
  <2> TAKE j \in Free
  <2>1. k \in Nat /\ j \in Nat /\ (j < k => <<j, k>> \in Nat \X Nat)
    BY <1>2, <1>3
  <2> QED
    BY <1>3, <2>1
<1> QED
  BY <1>3, <1>4 DEF Lowest

(* A descriptor that is nobody's is opened for the Socket.                 *)
LEMMA OpensFacts ==
    ASSUME SocketIInv, NEW s \in Own, m_sock = -1, OpensAs(s)
    PROVE  /\ m_sock' \in Fds /\ fds[m_sock'] = "free"
           /\ fds' \in [Fds -> Own \cup {"free", "else"}] /\ State' = s
           /\ \A n \in Fds : n # m_sock' => fds'[n] = fds[n]
           /\ \A n \in Fds : fds'[n] \in Own => n = m_sock'
           /\ \A f \in Holders : spot[f] \in Calls => gone[f]
<1>1. m_sock' \in Fds /\ fds[m_sock'] = "free" /\ fds' = [fds EXCEPT ![m_sock'] = s]
  BY LowestFree DEF OpensAs
<1>2. fds \in [Fds -> Own \cup {"free", "else"}] /\ -1 \notin Fds
  BY SocketAssumption DEF SocketIInv, SocketTypes
<1>3. \A n \in Fds : fds[n] \notin Own
  BY <1>2 DEF SocketIInv, OneDescriptor
<1>4. \A f \in Holders : spot[f] \in Calls => gone[f]
  BY <1>2 DEF SocketIInv, SocketTypes, CallInv
<1>5. m_sock' # -1 /\ fds'[m_sock'] = s
  BY <1>1, <1>2
<1> QED
  BY <1>1, <1>2, <1>3, <1>4, <1>5 DEF State

-----------------------------------------------------------------------------
(* The rest of the program and the peers come and go.                      *)
LEMMA OthersOpenKeeps ==
    ASSUME SocketIInv, singleThread, OthersOpen
    PROVE  SocketIInv'
<1>1. Lowest \in Fds /\ fds[Lowest] = "free" /\ fds' = [fds EXCEPT ![Lowest] = "else"] /\ Between = {}
  BY LowestFree DEF OthersOpen
<1>2. fds \in [Fds -> Own \cup {"free", "else"}] /\ -1 \notin Fds
  BY SocketAssumption DEF SocketIInv, SocketTypes
<1>3. UNCHANGED <<m_sock, m_isConnected, m_remoteAddress, m_localAddress, spot, fd_, gone, harmed, swapped>>
  BY DEF OthersOpen, objectVars, callsVars
<1>4. fds' \in [Fds -> Own \cup {"free", "else"}] /\ \A n \in Fds : fds[n] # "free" => fds'[n] = fds[n]
  BY <1>1, <1>2
<1>5. \A n \in Fds : fds'[n] \in Own => fds'[n] = fds[n]
  BY <1>1, <1>2 DEF Own
<1>6. \A f \in Holders : spot[f] \notin {"close", "closed"}
  BY <1>1 DEF Between
<1>7. State # "free" => State' = State
  BY <1>3, <1>4 DEF State, SocketIInv, SocketTypes
<1>8. SocketTypes'
  BY <1>3, <1>4 DEF SocketIInv, SocketTypes
<1>9. CloserInv' /\ OneDescriptor'
  BY <1>3, <1>5, <1>6, <1>7 DEF SocketIInv, CloserInv, OneDescriptor, Between, Own
<1>10. CallInv'
  BY <1>3, <1>7 DEF SocketIInv, CallInv, Own
<1>11. ConnectedIsUp'
  BY <1>3, <1>7 DEF SocketIInv, ConnectedIsUp
<1> QED
  BY <1>8, <1>9, <1>10, <1>11 DEF SocketIInv

(* A descriptor is closed: who waits for its number is woken and knows.    *)
LEMMA ClosedFacts ==
    ASSUME SocketIInv, NEW n \in Fds, Closed(n)
    PROVE  /\ fds' \in [Fds -> Own \cup {"free", "else"}] /\ fds'[n] = "free"
           /\ \A k \in Fds : k # n => fds'[k] = fds[k]
           /\ gone' \in [Holders -> BOOLEAN]
           /\ \A f \in Holders : ~ gone'[f] => ~ gone[f] /\ fd_[f] # n
           /\ Woken(n) \in [Holders -> Spots]
           /\ \A f \in Holders : /\ fd_[f] # n => Woken(n)[f] = spot[f]
                                 /\ Woken(n)[f] \in Calls <=> spot[f] \in Calls
                                 /\ spot[f] \notin Calls => Woken(n)[f] = spot[f]
<1>1. /\ fds \in [Fds -> Own \cup {"free", "else"}] /\ spot \in [Holders -> Spots]
      /\ gone \in [Holders -> BOOLEAN]
  BY DEF SocketIInv, SocketTypes
<1>2. /\ fds' \in [Fds -> Own \cup {"free", "else"}] /\ fds'[n] = "free"
      /\ \A k \in Fds : k # n => fds'[k] = fds[k]
  BY <1>1 DEF Closed
<1>3. gone' \in [Holders -> BOOLEAN] /\ \A f \in Holders : gone'[f] = (gone[f] \/ fd_[f] = n)
  BY <1>1 DEF Closed
<1>4. \A f \in Holders : Woken(n)[f] = IF ~ WaitsFor(f, n) THEN spot[f] ELSE IF spot[f] = "connecting" THEN "connected" ELSE "read"
  BY DEF Woken
<1>5. Woken(n) \in [Holders -> Spots]
  BY <1>1 DEF Woken, Spots, Calls
<1> QED
  BY <1>2, <1>3, <1>4, <1>5 DEF WaitsFor, Calls

LEMMA OthersCloseKeeps ==
    ASSUME SocketIInv, singleThread, NEW n \in Fds, OthersClose(n)
    PROVE  SocketIInv'
<1>1. /\ Between = {} /\ fds[n] = "else" /\ Closed(n) /\ spot' = Woken(n)
      /\ UNCHANGED <<m_sock, m_isConnected, m_remoteAddress, m_localAddress, fd_, harmed, swapped>>
  BY DEF OthersClose, objectVars
<1>2. fds \in [Fds -> Own \cup {"free", "else"}] /\ -1 \notin Fds
  BY SocketAssumption DEF SocketIInv, SocketTypes
<1>3. State \in Own => State' = State
  BY <1>1, ClosedFacts DEF State, SocketIInv, SocketTypes, Own
<1>4. \A f \in Holders : spot'[f] \notin {"close", "closed"}
  BY <1>1, ClosedFacts DEF Between, SocketIInv, SocketTypes, Calls
<1>5. SocketTypes'
  BY <1>1, ClosedFacts DEF SocketIInv, SocketTypes
<1>6. CloserInv'
  BY <1>4 DEF CloserInv, Between
<1>7. OneDescriptor'
  BY <1>1, <1>3, ClosedFacts DEF SocketIInv, OneDescriptor, Between, Own
<1>8. CallInv'
  BY <1>1, <1>3, ClosedFacts DEF SocketIInv, CallInv, Calls
<1>9. ConnectedIsUp'
  BY <1>1, <1>3 DEF SocketIInv, ConnectedIsUp, Own
<1> QED
  BY <1>5, <1>6, <1>7, <1>8, <1>9 DEF SocketIInv

LEMMA AnsweredKeeps ==
    ASSUME SocketIInv, NEW n \in Fds, Answered(n)
    PROVE  SocketIInv'
<1>1. PICK s \in {"up", "refused"} : fds' = [fds EXCEPT ![n] = s]
  BY DEF Answered
<1>2. /\ fds[n] = "pending"
      /\ spot' = [f \in Holders |-> IF spot[f] = "connecting" /\ fd_[f] = n THEN "connected" ELSE spot[f]]
      /\ UNCHANGED <<m_sock, m_isConnected, m_remoteAddress, m_localAddress, fd_, gone, harmed, swapped>>
  BY DEF Answered, objectVars
<1>3. fds \in [Fds -> Own \cup {"free", "else"}] /\ -1 \notin Fds /\ spot \in [Holders -> Spots]
  BY SocketAssumption DEF SocketIInv, SocketTypes
<1>4. n = m_sock /\ State = "pending" /\ State' = s
  BY <1>1, <1>2, <1>3 DEF SocketIInv, OneDescriptor, Own, State
<1>5. /\ fds' \in [Fds -> Own \cup {"free", "else"}] /\ \A k \in Fds : fds'[k] \in Own <=> fds[k] \in Own
  BY <1>1, <1>2, <1>3 DEF Own
<1>6. \A f \in Holders : spot'[f] = IF spot[f] = "connecting" /\ fd_[f] = n THEN "connected" ELSE spot[f]
  BY <1>2
<1>7. spot' \in [Holders -> Spots]
  BY <1>2, <1>3 DEF Spots, Calls
<1>8. \A f \in Holders : spot'[f] \in Calls <=> spot[f] \in Calls
  BY <1>6 DEF Calls
<1>9. SocketTypes'
  BY <1>2, <1>5, <1>7, <1>8 DEF SocketIInv, SocketTypes
<1>10. Between' = Between /\ \A f \in Holders : spot'[f] = "closed" <=> spot[f] = "closed"
  BY <1>6 DEF Between
<1>11. CloserInv' /\ OneDescriptor'
  BY <1>2, <1>4, <1>5, <1>10 DEF SocketIInv, CloserInv, OneDescriptor, Own
<1>12. CallInv'
  BY <1>2, <1>4, <1>6, <1>8 DEF SocketIInv, CallInv, Calls, Own
<1>13. ConnectedIsUp'
  BY <1>2, <1>4 DEF SocketIInv, ConnectedIsUp
<1> QED
  BY <1>9, <1>11, <1>12, <1>13 DEF SocketIInv

-----------------------------------------------------------------------------
(* One fiber goes on with its call, and nothing else changes.              *)
LEMMA MoveFacts ==
    ASSUME SocketIInv, NEW f \in Holders, NEW to \in Spots, Goes(f, to)
    PROVE  /\ spot' \in [Holders -> Spots]
           /\ spot'[f] = to /\ \A g \in Holders : g # f => spot'[g] = spot[g]
           /\ Between' = (Between \ {f}) \cup (IF to \in {"close", "closed"} THEN {f} ELSE {})
<1>1. spot \in [Holders -> Spots]
  BY DEF SocketIInv, SocketTypes
<1>2. spot' \in [Holders -> Spots] /\ spot'[f] = to /\ \A g \in Holders : g # f => spot'[g] = spot[g]
  BY <1>1 DEF Goes
<1>3. Between' = {g \in Holders : spot'[g] \in {"close", "closed"}}
  BY DEF Between
<1>4. CASE to \in {"close", "closed"}
  BY <1>2, <1>3, <1>4 DEF Between
<1>5. CASE to \notin {"close", "closed"}
  BY <1>2, <1>3, <1>5 DEF Between
<1> QED
  BY <1>2, <1>4, <1>5

LEMMA DoneFacts ==
    ASSUME SocketIInv, NEW f \in Holders, Done(f)
    PROVE  /\ fd_' \in [Holders -> Fds \cup {0}] /\ gone' \in [Holders -> BOOLEAN]
           /\ \A g \in Holders : g # f => fd_'[g] = fd_[g] /\ gone'[g] = gone[g]
BY DEF SocketIInv, SocketTypes, Done

LEMMA AloneFacts ==
    ASSUME SocketIInv, singleThread, NEW f \in Holders, MayGo(f), spot[f] \notin {"close", "closed"}
    PROVE  Between = {}
BY DEF MayGo, Between

LEMMA WaiterKeeps ==
    ASSUME SocketIInv, NEW f \in Holders, Readable(f) \/ TimesOut(f)
    PROVE  SocketIInv'
<1>1. PICK to \in {"read", "late"} : Goes(f, to) /\ spot[f] \in {"reading", "connecting"}
  BY DEF Readable, TimesOut, Goes
<1>2. UNCHANGED <<m_sock, m_isConnected, m_remoteAddress, m_localAddress, fds, fd_, gone, harmed, swapped>>
  BY DEF Readable, TimesOut, objectVars
<1>3. /\ spot' \in [Holders -> Spots]
      /\ spot'[f] = to /\ \A g \in Holders : g # f => spot'[g] = spot[g]
      /\ Between' = Between \ {f}
  BY <1>1, MoveFacts DEF Spots, Calls
<1>4. State' = State
  BY <1>2 DEF State
<1>5. SocketTypes'
  BY <1>1, <1>2, <1>3 DEF SocketIInv, SocketTypes, Calls
<1>6. CloserInv'
  BY <1>1, <1>2, <1>3, <1>4 DEF SocketIInv, CloserInv
<1>7. OneDescriptor'
  BY <1>1, <1>2, <1>3, <1>4 DEF SocketIInv, OneDescriptor
<1>8. CallInv'
  BY <1>1, <1>2, <1>3, <1>4 DEF SocketIInv, CallInv, Calls
<1>9. ConnectedIsUp'
  BY <1>2, <1>4 DEF SocketIInv, ConnectedIsUp
<1> QED
  BY <1>5, <1>6, <1>7, <1>8, <1>9 DEF SocketIInv

(* close() begins, by itself or in a connect() that has failed.            *)
LEMMA CloseBeginsKeeps ==
    ASSUME SocketIInv, Between = {}, NEW f \in Holders, CloseBegins(f),
           UNCHANGED <<m_sock, m_localAddress, m_remoteAddress, fds, harmed>>,
           Done(f) \/ UNCHANGED <<fd_, gone>>
    PROVE  SocketIInv'
<1> DEFINE to == IF m_sock = -1 THEN "out" ELSE "close"
<1>1. /\ spot' \in [Holders -> Spots]
      /\ spot'[f] = to /\ \A g \in Holders : g # f => spot'[g] = spot[g]
      /\ Between' = IF m_sock = -1 THEN {} ELSE {f}
  BY MoveFacts DEF CloseBegins, Spots
<1>2. /\ fd_' \in [Holders -> Fds \cup {0}] /\ gone' \in [Holders -> BOOLEAN]
      /\ \A g \in Holders : g # f => fd_'[g] = fd_[g] /\ gone'[g] = gone[g]
  BY DoneFacts DEF SocketIInv, SocketTypes
<1>3. m_isConnected' = FALSE /\ State' = State
  BY DEF CloseBegins, State
<1>4. \A g \in Holders : spot[g] # "closed" /\ spot'[g] # "closed"
  BY <1>1 DEF Between
<1>5. SocketTypes'
  BY <1>1, <1>2, <1>3 DEF SocketIInv, SocketTypes, Calls
<1>6. CloserInv'
  BY <1>1, <1>3, <1>4 DEF CloserInv
<1>7. OneDescriptor'
  BY <1>3, <1>4 DEF SocketIInv, OneDescriptor
<1>8. CallInv'
  BY <1>1, <1>2, <1>3 DEF SocketIInv, CallInv, Calls
<1>9. ConnectedIsUp'
  BY <1>3 DEF SocketIInv, ConnectedIsUp
<1> QED
  BY <1>5, <1>6, <1>7, <1>8, <1>9 DEF SocketIInv

LEMMA CloseKeeps ==
    ASSUME SocketIInv, singleThread, NEW f \in Holders, close(f)
    PROVE  SocketIInv'
BY AloneFacts, CloseBeginsKeeps DEF close

LEMMA BindKeeps ==
    ASSUME SocketIInv, singleThread, NEW f \in Holders, bind(f)
    PROVE  SocketIInv'
<1>1. UNCHANGED <<m_isConnected, m_remoteAddress, spot, fd_, gone, harmed, swapped>>
  BY DEF bind, callsVars
<1>2. Between = {}
  BY AloneFacts DEF bind
<1>3. \A g \in Holders : spot[g] \notin {"close", "closed"}
  BY <1>2 DEF Between
<1>4. CloserInv'
  BY <1>1, <1>3 DEF CloserInv, Between
<1>5. CASE m_sock = -1 /\ OpensAs("new") /\ m_localAddress' \in {Earlier, "present"}
  <2>1. /\ m_sock' \in Fds /\ fds' \in [Fds -> Own \cup {"free", "else"}] /\ State' = "new"
        /\ \A n \in Fds : fds'[n] \in Own => n = m_sock'
        /\ \A g \in Holders : spot[g] \in Calls => gone[g]
    BY <1>5, OpensFacts DEF Own
  <2>2. SocketTypes'
    BY <1>1, <2>1 DEF SocketIInv, SocketTypes
  <2>3. OneDescriptor'
    BY <1>1, <2>1 DEF SocketIInv, OneDescriptor, Own
  <2>4. CallInv'
    BY <1>1, <2>1 DEF CallInv
  <2>5. ConnectedIsUp'
    BY <1>1, <1>5 DEF SocketIInv, ConnectedIsUp, State, Earlier
  <2> QED
    BY <1>4, <2>2, <2>3, <2>4, <2>5 DEF SocketIInv
<1>6. CASE m_localAddress' \in {m_localAddress, "present"} /\ UNCHANGED <<m_sock, fds>>
  <2>1. State' = State
    BY <1>6 DEF State
  <2>2. SocketTypes' /\ OneDescriptor' /\ CallInv'
    BY <1>1, <1>6, <2>1 DEF SocketIInv, SocketTypes, OneDescriptor, CallInv
  <2>3. ConnectedIsUp'
    BY <1>1, <1>6, <2>1 DEF SocketIInv, ConnectedIsUp
  <2> QED
    BY <1>4, <2>2, <2>3 DEF SocketIInv
<1> QED
  BY <1>5, <1>6 DEF bind

(* connect(): the descriptor it has, or opens, is being connected, or is.  *)
LEMMA ConnectKeeps ==
    ASSUME SocketIInv, singleThread, NEW f \in Holders, connect(f)
    PROVE  SocketIInv'
<1>1. Between = {} /\ UNCHANGED harmed /\ spot[f] = "out"
  BY AloneFacts DEF connect
<1>2. ASSUME CloseBegins(f), UNCHANGED <<m_sock, m_localAddress, m_remoteAddress, fds, fd_, gone>>
      PROVE  SocketIInv'
  BY <1>1, <1>2, CloseBeginsKeeps
<1> DEFINE known == IF m_sock = -1 THEN Earlier ELSE m_localAddress
           Opens(state) == \/ m_sock = -1 /\ OpensAs(state)
                           \/ State = "new" /\ fds' = [fds EXCEPT ![m_sock] = state] /\ UNCHANGED m_sock
           Waits == /\ Goes(f, "connecting")
                    /\ fd_' = [fd_ EXCEPT ![f] = m_sock']
                    /\ m_localAddress' = known
                    /\ UNCHANGED <<gone, m_isConnected, m_remoteAddress, swapped>>
<1>3. ASSUME NEW state \in {"pending", "up"}, Opens(state), state = "up" => Succeeds(f, known), state # "up" => Waits
      PROVE  SocketIInv'
  <2>1. /\ m_sock' \in Fds /\ fds' \in [Fds -> Own \cup {"free", "else"}] /\ State' = state
        /\ \A n \in Fds : fds'[n] \in Own => n = m_sock'
    <3>1. CASE m_sock = -1 /\ OpensAs(state)
      BY <3>1, OpensFacts DEF Own
    <3>2. CASE State = "new" /\ fds' = [fds EXCEPT ![m_sock] = state] /\ UNCHANGED m_sock
      <4>1. m_sock \in Fds /\ fds \in [Fds -> Own \cup {"free", "else"}] /\ -1 \notin Fds
        BY <3>2, SocketAssumption DEF SocketIInv, SocketTypes, State
      <4>2. fds' \in [Fds -> Own \cup {"free", "else"}] /\ fds'[m_sock] = state
        BY <3>2, <4>1 DEF Own
      <4>3. \A n \in Fds : n # m_sock => fds'[n] = fds[n]
        BY <3>2, <4>1
      <4> QED
        BY <3>2, <4>1, <4>2, <4>3 DEF State, SocketIInv, OneDescriptor
    <3> QED
      BY <1>3, <3>1, <3>2
  <2>2. \A g \in Holders : g # f /\ spot[g] \in Calls /\ ~ gone[g] => spot[g] \in {"late", "reading", "read"} /\ fd_[g] = m_sock'
    <3>1. CASE m_sock = -1 /\ OpensAs(state)
      BY <3>1, OpensFacts DEF Own
    <3>2. CASE State = "new" /\ UNCHANGED m_sock
      BY <3>2 DEF SocketIInv, CallInv, Calls
    <3> QED
      BY <1>3, <3>1, <3>2
  <2>3. m_sock' # -1 /\ (known = "none" <=> m_localAddress = "none")
    BY <2>1, SocketAssumption DEF Earlier
  <2>4. CASE state = "up"
    <3>1. /\ Goes(f, "out") /\ Done(f) /\ m_isConnected' = TRUE /\ m_remoteAddress' = TRUE
          /\ m_localAddress' # "none"
      BY <1>3, <2>3, <2>4 DEF Succeeds
    <3>2. /\ spot' \in [Holders -> Spots]
          /\ spot'[f] = "out" /\ \A g \in Holders : g # f => spot'[g] = spot[g]
          /\ Between' = {}
      BY <1>1, <3>1, MoveFacts DEF Spots
    <3>3. /\ fd_' \in [Holders -> Fds \cup {0}] /\ gone' \in [Holders -> BOOLEAN]
          /\ \A g \in Holders : g # f => fd_'[g] = fd_[g] /\ gone'[g] = gone[g]
      BY <3>1, DoneFacts
    <3>4. SocketTypes'
      BY <2>1, <3>1, <3>2, <3>3 DEF SocketIInv, SocketTypes, Calls
    <3>5. CloserInv'
      BY <3>2 DEF CloserInv, Between
    <3>6. OneDescriptor'
      BY <1>1, <2>1, <2>4 DEF SocketIInv, OneDescriptor, Own
    <3>7. CallInv'
      BY <2>1, <2>2, <2>4, <3>2, <3>3 DEF CallInv, Calls, Own
    <3>8. ConnectedIsUp'
      BY <2>1, <2>4, <3>1 DEF ConnectedIsUp
    <3> QED
      BY <3>4, <3>5, <3>6, <3>7, <3>8 DEF SocketIInv
  <2>5. CASE state = "pending"
    <3>1. Waits
      BY <1>3, <2>5
    <3>2. /\ spot' \in [Holders -> Spots]
          /\ spot'[f] = "connecting" /\ \A g \in Holders : g # f => spot'[g] = spot[g]
          /\ Between' = {}
      BY <1>1, <3>1, MoveFacts DEF Spots, Calls
    <3>3. /\ fd_' \in [Holders -> Fds \cup {0}] /\ fd_'[f] = m_sock'
          /\ \A g \in Holders : g # f => fd_'[g] = fd_[g]
      BY <2>1, <3>1 DEF SocketIInv, SocketTypes
    <3>4. SocketTypes'
      BY <2>1, <3>1, <3>2, <3>3 DEF SocketIInv, SocketTypes, Calls
    <3>5. CloserInv'
      BY <3>2 DEF CloserInv, Between
    <3>6. OneDescriptor'
      BY <1>1, <2>1, <2>5 DEF SocketIInv, OneDescriptor, Own
    <3>7. CallInv'
      BY <2>1, <2>2, <2>5, <3>1, <3>2, <3>3 DEF CallInv, Calls, Own
    <3>8. ConnectedIsUp'
      <4>1. State \in {"free", "new"}
        BY <1>3 DEF State
      <4> QED
        BY <1>1, <2>3, <3>1, <4>1 DEF SocketIInv, ConnectedIsUp
    <3> QED
      BY <3>4, <3>5, <3>6, <3>7, <3>8 DEF SocketIInv
  <2> QED
    BY <2>4, <2>5
<1>4. ASSUME State = "up", UNCHANGED <<m_sock, fds>>, Succeeds(f, m_localAddress)
      PROVE  SocketIInv'
  <2>1. m_sock # -1 /\ State' = State /\ \A g \in Holders : spot[g] \notin {"close", "closed"}
    BY <1>1, <1>4 DEF State, Between
  <2>2. /\ Goes(f, "out") /\ Done(f) /\ m_isConnected' = TRUE /\ m_remoteAddress' = TRUE
        /\ m_localAddress' # "none"
    BY <1>4, <2>1 DEF Succeeds
  <2>3. /\ spot' \in [Holders -> Spots]
        /\ spot'[f] = "out" /\ \A g \in Holders : g # f => spot'[g] = spot[g]
        /\ Between' = {}
    BY <1>1, <2>2, MoveFacts DEF Spots
  <2>4. /\ fd_' \in [Holders -> Fds \cup {0}] /\ gone' \in [Holders -> BOOLEAN]
        /\ \A g \in Holders : g # f => fd_'[g] = fd_[g] /\ gone'[g] = gone[g]
    BY <2>2, DoneFacts
  <2>5. SocketTypes'
    BY <1>4, <2>2, <2>3, <2>4 DEF SocketIInv, SocketTypes, Calls
  <2>6. CloserInv'
    BY <2>3 DEF CloserInv, Between
  <2>7. OneDescriptor'
    BY <1>1, <1>4, <2>1 DEF SocketIInv, OneDescriptor
  <2>8. CallInv'
    BY <1>4, <2>1, <2>3, <2>4 DEF SocketIInv, CallInv, Calls
  <2>9. ConnectedIsUp'
    BY <1>4, <2>1, <2>2 DEF ConnectedIsUp
  <2> QED
    BY <2>5, <2>6, <2>7, <2>8, <2>9 DEF SocketIInv
<1> QED
  BY <1>2, <1>3, <1>4 DEF connect

(* The waiting connect() ends.  Unless the number has become another's,    *)
(* what it asks is the descriptor it was called for.                       *)
LEMMA ConnectEndsKeeps ==
    ASSUME SocketIInv, singleThread, NEW f \in Holders, ConnectEnds(f)
    PROVE  SocketIInv'
<1>1. /\ Between = {} /\ spot[f] \in {"connected", "late"}
      /\ UNCHANGED <<m_sock, fds, harmed>>
  BY AloneFacts DEF ConnectEnds
<1>2. CASE CloseBegins(f) /\ Done(f) /\ UNCHANGED <<m_localAddress, m_remoteAddress>>
  BY <1>1, <1>2, CloseBeginsKeeps
<1>3. CASE ~ Fails(f) /\ Succeeds(f, m_localAddress) /\ swapped' = gone[f]
  <2>1. /\ Goes(f, "out") /\ Done(f) /\ m_isConnected' = TRUE /\ m_remoteAddress' = TRUE
        /\ m_localAddress' = IF m_localAddress # "none" \/ m_sock' = -1 THEN m_localAddress ELSE "present"
    BY <1>3 DEF ConnectEnds, Succeeds
  <2>2. /\ spot' \in [Holders -> Spots]
        /\ spot'[f] = "out" /\ \A g \in Holders : g # f => spot'[g] = spot[g]
        /\ Between' = {}
    BY <1>1, <2>1, MoveFacts DEF Spots
  <2>3. /\ fd_' \in [Holders -> Fds \cup {0}] /\ gone' \in [Holders -> BOOLEAN]
        /\ \A g \in Holders : g # f => fd_'[g] = fd_[g] /\ gone'[g] = gone[g]
    BY <2>1, DoneFacts
  <2>4. State' = State
    BY <1>1 DEF State
  <2>5. SocketTypes'
    BY <1>1, <2>1, <2>2, <2>3 DEF SocketIInv, SocketTypes, Calls
  <2>6. CloserInv'
    BY <2>2 DEF CloserInv, Between
  <2>7. OneDescriptor'
    <3>1. \A g \in Holders : spot[g] # "closed"
      BY <1>1 DEF Between
    <3> QED
      BY <1>1, <2>4, <3>1 DEF SocketIInv, OneDescriptor
  <2>8. CallInv'
    BY <1>1, <2>2, <2>3, <2>4 DEF SocketIInv, CallInv, Calls
  <2>9. ConnectedIsUp'
    <3>1. ASSUME ~ swapped' PROVE State = "up" /\ m_sock # -1
      <4>1. spot[f] = "connected" /\ fds[fd_[f]] \notin {"free", "refused"} /\ ~ gone[f]
        BY <1>1, <1>3, <3>1 DEF Fails
      <4>2. fd_[f] = m_sock /\ State \in {"up", "refused"}
        BY <4>1 DEF SocketIInv, CallInv, Calls
      <4> QED
        BY <4>1, <4>2 DEF State
    <3> QED
      BY <1>1, <2>1, <2>4, <3>1 DEF ConnectedIsUp
  <2> QED
    BY <2>5, <2>6, <2>7, <2>8, <2>9 DEF SocketIInv
<1> QED
  BY <1>2, <1>3 DEF ConnectEnds

(* ::close(): the descriptor is the Socket's own, and who waits learns it. *)
LEMMA SysCloseKeeps ==
    ASSUME SocketIInv, NEW f \in Holders, SysClose(f)
    PROVE  SocketIInv'
<1>1. /\ spot[f] = "close" /\ f \in Between /\ m_sock # -1 /\ ~ m_isConnected
      /\ UNCHANGED <<m_sock, m_isConnected, m_remoteAddress, m_localAddress, fd_, swapped>>
  BY DEF SysClose, objectVars, Between, SocketIInv, CloserInv
<1>2. \A g \in Holders : g # f => spot[g] \notin {"close", "closed"}
  BY <1>1 DEF SocketIInv, CloserInv, Between
<1>3. m_sock \in Fds /\ State = fds[m_sock] /\ State \in Own
  BY <1>1, <1>2 DEF SocketIInv, SocketTypes, OneDescriptor, State
<1>4. Closed(m_sock) /\ spot' = [Woken(m_sock) EXCEPT ![f] = "closed"] /\ ~ harmed'
  BY <1>3 DEF SysClose, Own, SocketIInv, OneDescriptor
<1>5. /\ fds' \in [Fds -> Own \cup {"free", "else"}] /\ fds'[m_sock] = "free"
      /\ \A k \in Fds : k # m_sock => fds'[k] = fds[k]
      /\ gone' \in [Holders -> BOOLEAN]
      /\ \A g \in Holders : ~ gone'[g] => ~ gone[g] /\ fd_[g] # m_sock
      /\ Woken(m_sock) \in [Holders -> Spots]
      /\ \A g \in Holders : /\ Woken(m_sock)[g] \in Calls <=> spot[g] \in Calls
                            /\ spot[g] \notin Calls => Woken(m_sock)[g] = spot[g]
  BY <1>3, <1>4, ClosedFacts
<1>6. spot' \in [Holders -> Spots] /\ spot'[f] = "closed" /\ \A g \in Holders : g # f => spot'[g] = Woken(m_sock)[g]
  BY <1>4, <1>5 DEF Spots
<1>7. \A g \in Holders : g # f => (spot'[g] \in Calls <=> spot[g] \in Calls)
  BY <1>5, <1>6
<1>8. State' = "free"
  BY <1>1, <1>5 DEF State
<1>9. SocketTypes'
  BY <1>1, <1>5, <1>6, <1>7 DEF SocketIInv, SocketTypes, Calls
<1>10. \A g \in Holders : g # f => spot'[g] \notin {"close", "closed"}
  BY <1>2, <1>5, <1>6, <1>7 DEF Calls
<1>11. CloserInv'
  BY <1>1, <1>8, <1>10 DEF CloserInv, Between
<1>12. OneDescriptor'
  BY <1>1, <1>4, <1>5, <1>6, <1>8 DEF SocketIInv, OneDescriptor, Own
<1>13. CallInv'
  BY <1>1, <1>5, <1>6, <1>7 DEF SocketIInv, CallInv, Calls
<1>14. ConnectedIsUp'
  BY <1>1 DEF SocketIInv, ConnectedIsUp
<1> QED
  BY <1>9, <1>11, <1>12, <1>13, <1>14 DEF SocketIInv

LEMMA ForgetsKeeps ==
    ASSUME SocketIInv, NEW f \in Holders, Forgets(f)
    PROVE  SocketIInv'
<1>1. /\ spot[f] = "closed" /\ f \in Between /\ ~ m_isConnected /\ State = "free" /\ m_sock' = -1
      /\ UNCHANGED <<m_isConnected, m_remoteAddress, m_localAddress, fds, fd_, gone, harmed, swapped>>
  BY DEF Forgets, objectVars, Between, SocketIInv, CloserInv
<1>2. /\ spot' \in [Holders -> Spots]
      /\ spot'[f] = "out" /\ \A g \in Holders : g # f => spot'[g] = spot[g]
      /\ Between' = Between \ {f}
  BY MoveFacts DEF Forgets, Spots
<1>3. Between' = {}
  BY <1>1, <1>2 DEF SocketIInv, CloserInv
<1>4. m_sock # -1 /\ \A n \in Fds : fds[n] \notin Own
  BY <1>1 DEF SocketIInv, CloserInv, OneDescriptor, State, Own
<1>5. SocketTypes'
  BY <1>1, <1>2 DEF SocketIInv, SocketTypes, Calls
<1>6. CloserInv'
  BY <1>3 DEF CloserInv, Between
<1>7. OneDescriptor'
  BY <1>1, <1>4 DEF SocketIInv, OneDescriptor
<1>8. CallInv'
  <2>1. \A g \in Holders : spot[g] \in Calls => gone[g]
    BY <1>1 DEF SocketIInv, CallInv, Own
  <2> QED
    BY <1>1, <1>2, <2>1 DEF CallInv, Calls
<1>9. ConnectedIsUp'
  BY <1>1 DEF SocketIInv, ConnectedIsUp
<1> QED
  BY <1>5, <1>6, <1>7, <1>8, <1>9 DEF SocketIInv

(* recv() begins with the number the Socket holds; made again, it ends or  *)
(* waits once more.                                                        *)
LEMMA RecvKeeps ==
    ASSUME SocketIInv, singleThread, NEW f \in Holders, recv(f) \/ RecvAgain(f)
    PROVE  SocketIInv'
<1>1. /\ Between = {} /\ spot[f] \in {"out", "read"}
      /\ UNCHANGED <<m_sock, m_isConnected, m_remoteAddress, m_localAddress, fds, harmed, swapped>>
  BY AloneFacts DEF recv, RecvAgain, objectVars
<1>2. \A g \in Holders : spot[g] # "closed"
  BY <1>1 DEF Between
<1>3. PICK to \in {"out", "reading"} : Goes(f, to)
  BY DEF recv, RecvAgain
<1>4. /\ spot' \in [Holders -> Spots]
      /\ spot'[f] = to /\ \A g \in Holders : g # f => spot'[g] = spot[g]
      /\ Between' = {}
  BY <1>1, <1>3, MoveFacts DEF Spots, Calls
<1>5. State' = State
  BY <1>1 DEF State
<1>6. CloserInv'
  BY <1>4 DEF CloserInv, Between
<1>7. OneDescriptor'
  BY <1>1, <1>2, <1>5 DEF SocketIInv, OneDescriptor
<1>8. ConnectedIsUp'
  BY <1>1, <1>5 DEF SocketIInv, ConnectedIsUp
<1>9. SocketTypes' /\ CallInv'
  <2>1. CASE recv(f)
    <3>1. m_sock \in Fds /\ State \in Own
      BY <1>2, <2>1 DEF recv, SocketIInv, SocketTypes, OneDescriptor, State
    <3>2. /\ fd_' \in [Holders -> Fds \cup {0}] /\ fd_'[f] = m_sock
          /\ \A g \in Holders : g # f => fd_'[g] = fd_[g]
          /\ gone' = gone
      BY <2>1, <3>1 DEF recv, SocketIInv, SocketTypes
    <3>3. spot'[f] = "reading"
      BY <2>1 DEF recv, Goes, SocketIInv, SocketTypes
    <3>4. SocketTypes'
      BY <1>1, <1>4, <3>1, <3>2 DEF SocketIInv, SocketTypes, Calls
    <3>5. CallInv'
      BY <1>1, <1>4, <1>5, <3>1, <3>2, <3>3 DEF SocketIInv, CallInv, Calls
    <3> QED
      BY <3>4, <3>5
  <2>2. CASE spot[f] = "read" /\ Goes(f, "out") /\ Done(f)
    <3>1. /\ fd_' \in [Holders -> Fds \cup {0}] /\ gone' \in [Holders -> BOOLEAN]
          /\ \A g \in Holders : g # f => fd_'[g] = fd_[g] /\ gone'[g] = gone[g]
      BY <2>2, DoneFacts
    <3>2. spot'[f] = "out"
      BY <2>2 DEF Goes, SocketIInv, SocketTypes
    <3> QED
      BY <1>1, <1>4, <1>5, <3>1, <3>2 DEF SocketIInv, SocketTypes, CallInv, Calls
  <2>3. CASE spot[f] = "read" /\ Goes(f, "reading") /\ UNCHANGED <<fd_, gone>>
    <3>1. spot'[f] = "reading"
      BY <2>3 DEF Goes, SocketIInv, SocketTypes
    <3> QED
      BY <1>1, <1>4, <1>5, <2>3, <3>1 DEF SocketIInv, SocketTypes, CallInv, Calls
  <2> QED
    BY <2>1, <2>2, <2>3 DEF RecvAgain
<1> QED
  BY <1>6, <1>7, <1>8, <1>9 DEF SocketIInv

LEMMA SocketInvStep ==
    ASSUME singleThread => SocketIInv, [SocketNext]_sockVars
    PROVE  (singleThread => SocketIInv)'
<1>1. CASE UNCHANGED sockVars
  BY <1>1 DEF sockVars, SocketIInv, SocketTypes, CloserInv, OneDescriptor, CallInv, ConnectedIsUp, Between, State
<1>2. CASE SocketNext
  <2> SUFFICES ASSUME singleThread PROVE SocketIInv'
    BY <1>2 DEF SocketNext
  <2> QED
    BY <1>2, OthersOpenKeeps, OthersCloseKeeps, AnsweredKeeps, WaiterKeeps, BindKeeps, ConnectKeeps,
       ConnectEndsKeeps, CloseKeeps, SysCloseKeeps, ForgetsKeeps, RecvKeeps DEF SocketNext, reconnect
<1> QED
  BY <1>1, <1>2

LEMMA SocketInvInit == SocketInit => SocketIInv
<1> SUFFICES ASSUME SocketInit PROVE SocketIInv
  OBVIOUS
<1>1. -1 \notin Fds /\ 1 \in Fds
  BY SocketAssumption
<1>2. /\ \A n \in Fds : fds[n] = IF n = m_sock THEN "up" ELSE "free"
      /\ fds \in [Fds -> Own \cup {"free", "else"}]
  BY DEF SocketInit, Own
<1>3. /\ spot = [f \in Holders |-> "out"]
      /\ fd_ = [f \in Holders |-> 0] /\ gone = [f \in Holders |-> FALSE]
  BY DEF SocketInit
<1>4. State = IF m_sock = -1 THEN "free" ELSE "up"
  BY <1>1, <1>2 DEF SocketInit, State
<1>5. SocketTypes
  <2>1. m_sock \in Fds \cup {-1} /\ m_isConnected \in BOOLEAN /\ m_remoteAddress \in BOOLEAN
    BY <1>1 DEF SocketInit
  <2>2. /\ spot \in [Holders -> Spots] /\ \A f \in Holders : spot[f] \notin Calls
        /\ fd_ \in [Holders -> Fds \cup {0}] /\ gone \in [Holders -> BOOLEAN]
    BY <1>3 DEF Spots, Calls
  <2> QED
    BY <1>2, <2>1, <2>2 DEF SocketTypes
<1>6. CloserInv /\ CallInv
  BY <1>3 DEF CloserInv, CallInv, Between, Calls
<1>7. OneDescriptor
  BY <1>2, <1>4 DEF SocketInit, OneDescriptor, Own
<1>8. ConnectedIsUp
  BY <1>4 DEF SocketInit, ConnectedIsUp
<1> QED
  BY <1>5, <1>6, <1>7, <1>8 DEF SocketIInv

(* SocketInv: on one thread a Socket holds the one descriptor it has open  *)
(* and closes none but its own, and wakes by its close() whoever waits in  *)
(* a call on a descriptor of it that is still open.  It says it is         *)
(* connected only if it is, unless the connect() that said so had its      *)
(* descriptor closed under it and found another under the number.  For any *)
(* number of fibers, of which any may connect at once, and of descriptors. *)
THEOREM SocketSafe == SocketSpec => []SocketInv
<1>1. (singleThread => SocketIInv) => SocketInv
  <2> SUFFICES ASSUME SocketIInv PROVE HoldsItsOwn /\ ConnectedIsUp /\ CloseReaches
    BY DEF SocketInv
  <2>1. ASSUME Between = {} PROVE {n \in Fds : fds[n] \in Own} = {m_sock} \ {-1}
    <3>1. \A f \in Holders : spot[f] # "closed"
      BY <2>1 DEF Between
    <3>2. CASE m_sock = -1
      <4>1. \A n \in Fds : fds[n] \notin Own
        BY <3>2, SocketAssumption DEF SocketIInv, OneDescriptor
      <4> QED
        BY <3>2, <4>1
    <3>3. CASE m_sock # -1
      <4>1. m_sock \in Fds /\ fds[m_sock] \in Own
        BY <3>1, <3>3 DEF SocketIInv, SocketTypes, OneDescriptor, State
      <4>2. \A n \in Fds : fds[n] \in Own <=> n = m_sock
        BY <4>1 DEF SocketIInv, OneDescriptor
      <4> QED
        BY <3>3, <4>1, <4>2
    <3> QED
      BY <3>2, <3>3
  <2>2. HoldsItsOwn
    BY <2>1 DEF HoldsItsOwn, SocketIInv, OneDescriptor
  <2>3. CloseReaches
    BY DEF CloseReaches, WaitsFor, SocketIInv, CallInv, Calls
  <2> QED
    BY <2>2, <2>3 DEF SocketIInv
<1>2. SocketInit => (singleThread => SocketIInv)
  BY SocketInvInit
<1>3. (singleThread => SocketIInv) /\ [SocketNext]_sockVars => (singleThread => SocketIInv)'
  BY SocketInvStep
<1> QED
  BY <1>1, <1>2, <1>3, PTL DEF SocketSpec

-----------------------------------------------------------------------------
(***************************************************************************)
(* The process under its daemon                                            *)
(***************************************************************************)
InvocationPlaces == {"none", "refused", "forking", "waiting", "sleeping", "ended"}
ProcessPlaces == {"unused", "forked", "named", "ready", "serving", "zombie", "gone"}

DaemonTypes ==
    /\ at \in [Invocations -> InvocationPlaces]
    /\ child \in [Invocations -> Pids \cup {NoPid}]
    /\ \A i \in Invocations : at[i] = "waiting" => child[i] \in Pids
    /\ place \in [Pids -> ProcessPlaces]
    /\ pidfile \in Pids \cup {NoPid} /\ port \in Pids \cup {NoPid}

(* A process that has not been waited for.                                 *)
There(p) == p \in Living \/ place[p] = "zombie"

(* The address is bound by a process that serves it.                       *)
BoundInv == port # NoPid => place[port] = "serving"

(* While invocations come one after the other: one of them is at work, it  *)
(* waits for each process that is there, and the file names a process that *)
(* has come past the writing of it.                                        *)
OneAtWork == \A i, j \in Active : i = j
Awaited == \A p \in Pids : There(p) => \E i \in Invocations : child[i] = p /\ at[i] = "waiting"
NamedInv == \A p \in Living : place[p] # "forked" => pidfile = p

DaemonIInv == DaemonTypes /\ BoundInv /\ (raced \/ (OneAtWork /\ Awaited /\ NamedInv))

-----------------------------------------------------------------------------
(***************************************************************************)
(* The steps of the processes                                              *)
(***************************************************************************)

LEMMA PlaceFacts ==
    ASSUME DaemonTypes, NEW p \in Pids, NEW to \in ProcessPlaces, place' = [place EXCEPT ![p] = to]
    PROVE  /\ place' \in [Pids -> ProcessPlaces]
           /\ place'[p] = to /\ \A q \in Pids : q # p => place'[q] = place[q]
BY DEF DaemonTypes

(* A process that is there goes on: it is awaited as before.               *)
LEMMA StillAwaited ==
    ASSUME DaemonTypes, NEW p \in Pids, NEW to \in ProcessPlaces, place[p] # "unused", place[p] # "gone",
           place' = [place EXCEPT ![p] = to], UNCHANGED <<at, child>>
    PROVE  (OneAtWork => OneAtWork') /\ (Awaited => Awaited')
<1>1. \A q \in Pids : q # p => place'[q] = place[q]
  BY PlaceFacts
<1>2. There(p)
  BY DEF There, Living, DaemonTypes, ProcessPlaces
<1>3. \A q \in Pids : There(q)' => There(q)
  BY <1>1, <1>2 DEF There, Living
<1> QED
  BY <1>3 DEF OneAtWork, Active, Awaited

(* It comes to the next place of its start.                                *)
LEMMA GoesOn ==
    ASSUME DaemonIInv, NEW p \in Pids, NEW to \in {"named", "ready", "serving"},
           p \in Living, place' = [place EXCEPT ![p] = to], UNCHANGED <<at, child, raced>>,
           pidfile' \in Pids \cup {NoPid}, port' \in Pids \cup {NoPid}, BoundInv',
           \/ pidfile' = p
           \/ pidfile' = pidfile /\ place[p] # "forked"
    PROVE  DaemonIInv'
<1> USE DEF DaemonIInv
<1>1. to \in ProcessPlaces /\ place[p] # "unused" /\ place[p] # "gone"
  BY DEF ProcessPlaces, Living
<1>2. /\ place' \in [Pids -> ProcessPlaces]
      /\ place'[p] = to /\ \A q \in Pids : q # p => place'[q] = place[q]
  BY <1>1, PlaceFacts
<1>3. DaemonTypes'
  BY <1>2 DEF DaemonTypes
<1>4. ASSUME ~ raced PROVE OneAtWork' /\ Awaited' /\ NamedInv'
  <2>1. OneAtWork' /\ Awaited'
    BY <1>1, <1>4, StillAwaited
  <2>2. \A q \in Living : q = p
    BY <1>4 DEF Awaited, OneAtWork, There, Active, Living
  <2>3. \A q \in Living' : q = p
    BY <1>2, <2>2 DEF Living
  <2> QED
    BY <1>4, <2>1, <2>3 DEF NamedInv
<1> QED
  BY <1>3, <1>4

(* It ends, and its parent has not waited for it yet.                      *)
LEMMA ProcessEnds ==
    ASSUME DaemonIInv, NEW p \in Pids, NEW status, p \in Living, Exit(p, status), UNCHANGED <<at, child, raced, pidfile>>
    PROVE  DaemonIInv'
<1> USE DEF DaemonIInv
<1>1. place' = [place EXCEPT ![p] = "zombie"] /\ port' = IF port = p THEN NoPid ELSE port
  BY DEF Exit
<1>2. "zombie" \in ProcessPlaces /\ place[p] # "unused" /\ place[p] # "gone"
  BY DEF ProcessPlaces, Living
<1>3. /\ place' \in [Pids -> ProcessPlaces]
      /\ place'[p] = "zombie" /\ \A q \in Pids : q # p => place'[q] = place[q]
  BY <1>1, <1>2, PlaceFacts
<1>4. DaemonTypes' /\ BoundInv'
  BY <1>1, <1>3 DEF DaemonTypes, BoundInv, NoPid
<1>5. NamedInv => NamedInv'
  BY <1>3 DEF NamedInv, Living
<1> QED
  BY <1>1, <1>2, <1>4, <1>5, StillAwaited

LEMMA ProcessStep ==
    ASSUME DaemonIInv, NEW p \in Pids,
           \/ WritePid(p) \/ WritePidFails(p) \/ SetHandler(p)
           \/ Bind(p) \/ MainFails(p) \/ Crash(p)
    PROVE  DaemonIInv'
<1> USE DEF DaemonIInv
<1>0. p # NoPid /\ place \in [Pids -> ProcessPlaces] /\ port \in Pids \cup {NoPid} /\ pidfile \in Pids \cup {NoPid}
  BY DEF NoPid, Pids, DaemonTypes
<1>1. CASE WritePid(p)
  <2>1. /\ place[p] = "forked" /\ place' = [place EXCEPT ![p] = "named"] /\ pidfile' = p
        /\ UNCHANGED <<at, child, port, raced>>
    BY <1>1 DEF WritePid, Names
  <2>2. p \in Living
    BY <2>1 DEF Living
  <2>3. BoundInv'
    BY <1>0, <2>1 DEF BoundInv
  <2> QED
    BY <1>0, <2>1, <2>2, <2>3, GoesOn
<1>2. CASE WritePidFails(p) \/ MainFails(p) \/ Crash(p)
  <2>1. /\ p \in Living /\ UNCHANGED <<at, child, raced, pidfile>>
        /\ \E status \in {"0", "error"} : Exit(p, status)
    BY <1>2 DEF WritePidFails, MainFails, Crash, Living
  <2> QED
    BY <2>1, ProcessEnds
<1>3. CASE SetHandler(p)
  <2>1. /\ place[p] = "named" /\ place' = [place EXCEPT ![p] = "ready"]
        /\ UNCHANGED <<at, child, port, pidfile, raced>>
    BY <1>3 DEF SetHandler
  <2>2. p \in Living
    BY <2>1 DEF Living
  <2>3. BoundInv'
    BY <1>0, <2>1 DEF BoundInv
  <2> QED
    BY <1>0, <2>1, <2>2, <2>3, GoesOn
<1>4. CASE Bind(p)
  <2>1. /\ place[p] = "ready" /\ place' = [place EXCEPT ![p] = "serving"] /\ port' = p
        /\ UNCHANGED <<at, child, pidfile, raced>>
    BY <1>4 DEF Bind
  <2>2. p \in Living
    BY <2>1 DEF Living
  <2>3. BoundInv'
    BY <1>0, <2>1 DEF BoundInv
  <2> QED
    BY <1>0, <2>1, <2>2, <2>3, GoesOn
<1> QED
  BY <1>1, <1>2, <1>3, <1>4

LEMMA SignalStep ==
    ASSUME DaemonIInv, SendStop \/ SendReopen
    PROVE  DaemonIInv'
<1>1. CASE UNCHANGED <<place, port>>
  <2>1. UNCHANGED <<at, child, place, port, pidfile, raced>>
    BY <1>1 DEF SendStop, SendReopen
  <2> QED
    BY <2>1 DEF DaemonIInv, DaemonTypes, BoundInv, OneAtWork, Active, Awaited, There, NamedInv, Living
<1>2. CASE ~ UNCHANGED <<place, port>>
  <2>1. /\ pidfile \in Living /\ UNCHANGED <<at, child, raced, pidfile>>
        /\ \E status \in {"SIGUSR1", "SIGUSR2"} : Exit(pidfile, status)
    BY <1>2 DEF SendStop, SendReopen
  <2>2. pidfile \in Pids
    BY <2>1 DEF Living
  <2> QED
    BY <2>1, <2>2, ProcessEnds
<1> QED
  BY <1>1, <1>2

-----------------------------------------------------------------------------
(***************************************************************************)
(* The steps of the invocations                                            *)
(***************************************************************************)

(* An invocation that goes on while nobody is at work, and no process is   *)
(* there, is the only one; otherwise it is counted as a race.              *)
LEMMA InvokeStep ==
    ASSUME DaemonIInv, NEW i \in Invocations, Invoke(i)
    PROVE  DaemonIInv'
<1> USE DEF DaemonIInv
<1>1. /\ at[i] = "none" /\ at' = [at EXCEPT ![i] = IF Found(pidfile) THEN "refused" ELSE "forking"]
      /\ raced' = (raced \/ (~ Found(pidfile) /\ (Active # {} \/ Living # {})))
      /\ UNCHANGED <<child, place, pidfile, port>>
  BY DEF Invoke
<1>2. at \in [Invocations -> InvocationPlaces]
  BY DEF DaemonTypes
<1>3. /\ at' \in [Invocations -> InvocationPlaces]
      /\ at'[i] = IF Found(pidfile) THEN "refused" ELSE "forking"
      /\ \A j \in Invocations : j # i => at'[j] = at[j]
  BY <1>1, <1>2 DEF InvocationPlaces
<1>4. DaemonTypes' /\ BoundInv' /\ (NamedInv => NamedInv')
  BY <1>1, <1>3 DEF DaemonTypes, BoundInv, NamedInv, Living
<1>5. ASSUME ~ raced' PROVE ~ raced /\ (Found(pidfile) \/ (Active = {} /\ Living = {}))
  BY <1>1, <1>5
<1>6. Awaited => Awaited'
  BY <1>1, <1>3 DEF Awaited, There, Living
<1>7. ASSUME ~ raced' PROVE OneAtWork'
  <2>1. CASE Found(pidfile)
    BY <1>1, <1>3, <1>5, <1>7, <2>1 DEF OneAtWork, Active
  <2>2. CASE ~ Found(pidfile)
    <3>1. Active = {}
      BY <1>5, <1>7, <2>2
    <3>2. \A j \in Invocations : j # i => at'[j] \notin {"forking", "waiting", "sleeping"}
      BY <1>3, <3>1 DEF Active
    <3> QED
      BY <3>2 DEF OneAtWork, Active
  <2> QED
    BY <2>1, <2>2
<1> QED
  BY <1>4, <1>5, <1>6, <1>7

LEMMA AtFacts ==
    ASSUME DaemonTypes, NEW i \in Active, NEW where \in InvocationPlaces, at' = [at EXCEPT ![i] = where]
    PROVE  /\ at' \in [Invocations -> InvocationPlaces]
           /\ at'[i] = where /\ \A j \in Invocations : j # i => at'[j] = at[j]
           /\ OneAtWork => OneAtWork'
<1>1. at \in [Invocations -> InvocationPlaces] /\ i \in Invocations
  BY DEF DaemonTypes, Active
<1>2. /\ at' \in [Invocations -> InvocationPlaces]
      /\ at'[i] = where /\ \A j \in Invocations : j # i => at'[j] = at[j]
  BY <1>1
<1>3. \A j \in Active' : j \in Active
  BY <1>1, <1>2 DEF Active
<1> QED
  BY <1>2, <1>3 DEF OneAtWork

LEMMA ForkStep ==
    ASSUME DaemonIInv, NEW i \in Invocations, Fork(i)
    PROVE  DaemonIInv'
<1> USE DEF DaemonIInv
<1>1. PICK p \in Pids : place[p] = "unused" /\ place' = [place EXCEPT ![p] = "forked"] /\ child' = [child EXCEPT ![i] = p]
  BY DEF Fork
<1>2. at[i] = "forking" /\ at' = [at EXCEPT ![i] = "waiting"] /\ UNCHANGED <<pidfile, port, raced>>
  BY DEF Fork
<1>3. i \in Active /\ "waiting" \in InvocationPlaces /\ "forked" \in ProcessPlaces
  BY <1>2 DEF Active, InvocationPlaces, ProcessPlaces
<1>4. /\ place' \in [Pids -> ProcessPlaces]
      /\ place'[p] = "forked" /\ \A q \in Pids : q # p => place'[q] = place[q]
  BY <1>1, <1>3, PlaceFacts
<1>5. /\ at' \in [Invocations -> InvocationPlaces]
      /\ at'[i] = "waiting" /\ \A j \in Invocations : j # i => at'[j] = at[j]
      /\ OneAtWork => OneAtWork'
  BY <1>2, <1>3, AtFacts
<1>6. child' \in [Invocations -> Pids \cup {NoPid}] /\ child'[i] = p /\ \A j \in Invocations : j # i => child'[j] = child[j]
  BY <1>1 DEF DaemonTypes
<1>7. DaemonTypes'
  BY <1>2, <1>4, <1>5, <1>6 DEF DaemonTypes
<1>8. BoundInv' /\ (NamedInv => NamedInv')
  BY <1>1, <1>2, <1>4 DEF BoundInv, NamedInv, Living, DaemonTypes
<1>9. Awaited => Awaited'
  <2> SUFFICES ASSUME Awaited, NEW q \in Pids, There(q)'
               PROVE  \E j \in Invocations : child'[j] = q /\ at'[j] = "waiting"
    BY DEF Awaited
  <2>1. CASE q = p
    BY <1>5, <1>6, <2>1
  <2>2. CASE q # p
    <3>1. There(q)
      BY <1>4, <2>2 DEF There, Living
    <3>2. PICK j \in Invocations : child[j] = q /\ at[j] = "waiting"
      BY <3>1 DEF Awaited
    <3> QED
      BY <1>2, <1>5, <1>6, <3>2
  <2> QED
    BY <2>1, <2>2
<1> QED
  BY <1>2, <1>5, <1>7, <1>8, <1>9

(* The process that waitpid() takes away was the only one.                 *)
LEMMA WaitChildStep ==
    ASSUME DaemonIInv, NEW i \in Invocations, WaitChild(i)
    PROVE  DaemonIInv'
<1> USE DEF DaemonIInv
<1> DEFINE p == child[i]
           where == IF Ends(exited[p]) \/ ~ has_d[i] THEN "ended" ELSE "sleeping"
<1>1. /\ at[i] = "waiting" /\ place[p] = "zombie" /\ place' = [place EXCEPT ![p] = "gone"]
      /\ at' = [at EXCEPT ![i] = where]
      /\ pidfile' \in {NoPid, pidfile} /\ UNCHANGED <<child, port, raced>>
  BY DEF WaitChild
<1>2. i \in Active /\ where \in InvocationPlaces /\ "gone" \in ProcessPlaces
  BY <1>1 DEF Active, InvocationPlaces, ProcessPlaces
<1>3. p \in Pids
  BY <1>1 DEF DaemonTypes
<1>4. /\ place' \in [Pids -> ProcessPlaces]
      /\ place'[p] = "gone" /\ \A q \in Pids : q # p => place'[q] = place[q]
  BY <1>1, <1>2, <1>3, PlaceFacts
<1>5. where # "waiting"
  OBVIOUS
<1> HIDE DEF where
<1>6. /\ at' \in [Invocations -> InvocationPlaces]
      /\ at'[i] = where /\ \A j \in Invocations : j # i => at'[j] = at[j]
      /\ OneAtWork => OneAtWork'
  BY <1>1, <1>2, AtFacts
<1>7. DaemonTypes' /\ BoundInv'
  BY <1>1, <1>4, <1>5, <1>6 DEF DaemonTypes, BoundInv
<1>8. ASSUME OneAtWork, Awaited PROVE Awaited' /\ NamedInv'
  <2>1. \A q \in Pids : There(q) => q = p
    BY <1>1, <1>8 DEF Awaited, OneAtWork, Active
  <2>2. \A q \in Pids : ~ There(q)'
    BY <1>4, <2>1 DEF There, Living
  <2> QED
    BY <2>2 DEF Awaited, NamedInv, There, Living
<1> QED
  BY <1>1, <1>6, <1>7, <1>8

(* fork() fails, or the daemon has slept enough.                           *)
LEMMA RestartStep ==
    ASSUME DaemonIInv, NEW i \in Invocations, ForkFails(i) \/ Restart(i)
    PROVE  DaemonIInv'
<1> USE DEF DaemonIInv
<1>1. PICK where \in {"ended", "forking"} : at' = [at EXCEPT ![i] = where]
  BY DEF ForkFails, Restart
<1>2. at[i] \in {"forking", "sleeping"} /\ UNCHANGED <<child, place, pidfile, port, raced>>
  BY DEF ForkFails, Restart
<1>3. i \in Active /\ where \in InvocationPlaces
  BY <1>2 DEF Active, InvocationPlaces
<1>4. /\ at' \in [Invocations -> InvocationPlaces]
      /\ at'[i] = where /\ \A j \in Invocations : j # i => at'[j] = at[j]
      /\ OneAtWork => OneAtWork'
  BY <1>1, <1>3, AtFacts
<1>5. DaemonTypes' /\ BoundInv' /\ (NamedInv => NamedInv')
  BY <1>2, <1>4 DEF DaemonTypes, BoundInv, NamedInv, Living
<1>6. Awaited => Awaited'
  BY <1>2, <1>4 DEF Awaited, There, Living
<1> QED
  BY <1>2, <1>4, <1>5, <1>6

-----------------------------------------------------------------------------
LEMMA DaemonIInvInit == DaemonInit => DaemonIInv
<1> SUFFICES ASSUME DaemonInit PROVE DaemonIInv
  OBVIOUS
<1>1. /\ at = [i \in Invocations |-> "none"] /\ child = [i \in Invocations |-> NoPid]
      /\ place = [p \in Pids |-> "unused"] /\ pidfile = NoPid /\ port = NoPid /\ raced = FALSE
  BY DEF DaemonInit
<1>2. DaemonTypes /\ BoundInv
  BY <1>1 DEF DaemonTypes, InvocationPlaces, ProcessPlaces, BoundInv
<1>3. OneAtWork /\ Awaited /\ NamedInv
  BY <1>1 DEF OneAtWork, Active, Awaited, There, NamedInv, Living
<1> QED
  BY <1>2, <1>3 DEF DaemonIInv

LEMMA DaemonIInvNext == DaemonIInv /\ [DaemonNext]_daemonVars => DaemonIInv'
<1> SUFFICES ASSUME DaemonIInv, [DaemonNext]_daemonVars PROVE DaemonIInv'
  OBVIOUS
<1>1. CASE UNCHANGED daemonVars
  <2>1. UNCHANGED <<at, child, place, port, pidfile, raced>>
    BY <1>1 DEF daemonVars
  <2> QED
    BY <2>1 DEF DaemonIInv, DaemonTypes, BoundInv, OneAtWork, Active, Awaited, There, NamedInv, Living
<1>2. ASSUME NEW i \in Invocations, Invoke(i) \/ DaemonStep(i) PROVE DaemonIInv'
  BY <1>2, InvokeStep, ForkStep, WaitChildStep, RestartStep DEF DaemonStep
<1>3. ASSUME NEW p \in Pids,
             \/ WritePid(p) \/ WritePidFails(p) \/ SetHandler(p)
             \/ Bind(p) \/ MainFails(p) \/ Crash(p)
      PROVE  DaemonIInv'
  BY <1>3, ProcessStep
<1>4. CASE SendStop \/ SendReopen
  BY <1>4, SignalStep
<1> QED
  BY <1>1, <1>2, <1>3, <1>4 DEF DaemonNext

-----------------------------------------------------------------------------
(* Invocations with -s and -r find the server that runs, and its number is *)
(* its own, as long as no two invocations have started it at a time: there *)
(* is one process, which its daemon waits for, which system.pid_file names *)
(* from the writing on, and no other has bound the address (daemonStart,   *)
(* Server::init and Server::main).                                         *)
THEOREM ServerReached == DaemonSpec => []Reachable
<1>1. DaemonInit => DaemonIInv
  BY DaemonIInvInit
<1>2. DaemonIInv /\ [DaemonNext]_daemonVars => DaemonIInv'
  BY DaemonIInvNext
<1>3. DaemonIInv => Reachable
  <2> SUFFICES ASSUME DaemonIInv, ~ raced, NEW p \in Living
               PROVE  /\ \E i \in Invocations : child[i] = p /\ at[i] = "waiting"
                      /\ Living = {p}
                      /\ place[p] # "forked" => pidfile = p
                      /\ port \in {NoPid, p}
    BY DEF Reachable
  <2>1. OneAtWork /\ Awaited /\ NamedInv /\ BoundInv /\ port \in Pids \cup {NoPid}
    BY DEF DaemonIInv, DaemonTypes
  <2>2. \A q \in Living : \E i \in Invocations : child[i] = q /\ at[i] = "waiting"
    BY <2>1 DEF Awaited, There, Living
  <2>3. \A q \in Living : q = p
    BY <2>1, <2>2 DEF OneAtWork, Active
  <2>4. port # NoPid => port \in Living
    BY <2>1 DEF BoundInv, Living
  <2> QED
    BY <2>1, <2>2, <2>3, <2>4 DEF NamedInv
<1> QED
  BY <1>1, <1>2, <1>3, PTL DEF DaemonSpec
-----------------------------------------------------------------------------
(***************************************************************************)
(* The asynchronous log                                                    *)
(***************************************************************************)
LogBuffers == [events : Seq(Nat), m_cur : Nat]
LogTypes ==
    /\ logged \in Seq([size : Nat, total : Nat])
    /\ m_buffers \in Seq(LogBuffers) /\ buffers \in Seq(LogBuffers)
    /\ run_pc \in {"test", "swap", "write", "put", "ended"}
    /\ built \in {"thread", "members", "ready", "joining", "gone"}
    /\ m_running \in BOOLEAN /\ is_open \in BOOLEAN /\ bad \in BOOLEAN /\ busy \in BOOLEAN
    /\ overlapped \in BOOLEAN
    /\ file \in Seq(Nat)

(* The thread has buffers only while it writes, and there is nothing to    *)
(* write before the file has been opened.                                  *)
WritingInv ==
    /\ run_pc \notin {"write", "put"} => buffers = <<>>
    /\ run_pc = "put" => buffers # <<>>
    /\ built \in {"thread", "members"} => m_buffers = <<>> /\ run_pc \in {"test", "ended"}
    /\ busy => built = "ready"

(* Between close and open the thread writes only what it has begun to; a   *)
(* stream that is good is closed before it is opened.                      *)
StreamInv ==
    /\ busy /\ run_pc \in {"write", "put"} => overlapped
    /\ ~ busy /\ built \notin {"thread", "members"} => is_open
    /\ busy /\ ~ bad => ~ is_open
    /\ bad \/ lost # {} => overlapped

PlacesInv == DOMAIN logged = ToSet(file) \cup Pending \cup lost \cup dropped

(* m_cur is what the events since some moment take.                        *)
CurInv ==
    m_buffers # <<>> =>
        \E d \in 0 .. Len(logged) : Last(m_buffers).m_cur = Total(Len(logged)) - Total(d)
DropInv ==
    \A e \in dropped : logged[e].size < BufferLen =>
        \E d \in 0 .. e - 1 : Total(e - 1) - Total(d) + logged[e].size = BufferLen

LogInv == LogTypes /\ WritingInv /\ StreamInv /\ InOrder /\ PlacesInv /\ CurInv /\ DropInv

-----------------------------------------------------------------------------
(* Order and Pending, of any buffers.                                      *)
Waits(w) == UNION {ToSet(b.events) : b \in ToSet(w)}
Ordered(w) ==
    /\ \A p \in DOMAIN w : Increasing(w[p].events)
    /\ \A p, q \in DOMAIN w : p < q =>
          \A e \in ToSet(w[p].events), next \in ToSet(w[q].events) : e < next

LEMMA OfBuffers ==
    /\ Pending = Waits(Unwritten)
    /\ InOrder <=> /\ Increasing(file) /\ Ordered(Unwritten)
                   /\ \A e \in ToSet(file), next \in Waits(Unwritten) : e < next
BY DEF Pending, Waits, InOrder, Ordered

(* A buffer at the end.                                                    *)
LEMMA AtTheEnd ==
    ASSUME NEW w \in Seq(LogBuffers), NEW b \in LogBuffers
    PROVE  /\ Append(w, b) \in Seq(LogBuffers)
           /\ Waits(Append(w, b)) = Waits(w) \cup ToSet(b.events)
           /\ Ordered(Append(w, b)) <=>
                 /\ Ordered(w) /\ Increasing(b.events)
                 /\ \A e \in Waits(w), next \in ToSet(b.events) : e < next
<1> DEFINE v == Append(w, b)
           n == Len(w)
<1>1. n \in Nat /\ DOMAIN w = 1 .. n
  BY LenProperties
<1>2. /\ v \in Seq(LogBuffers) /\ Len(v) = n + 1 /\ v[n + 1] = b
      /\ \A i \in 1 .. n : v[i] = w[i]
  BY AppendProperties
<1>3. DOMAIN v = 1 .. n + 1
  BY <1>2, LenProperties
<1> HIDE DEF v, n
<1>4. \A i \in 1 .. n + 1 : i \in 1 .. n \/ i = n + 1
  BY <1>1
<1>5. n + 1 \in 1 .. n + 1 /\ \A i \in 1 .. n : i \in 1 .. n + 1 /\ i < n + 1
  BY <1>1
<1>6. ToSet(v) = ToSet(w) \cup {b}
  BY <1>1, <1>2, <1>3, <1>4, <1>5 DEF ToSet
<1>7. Waits(v) = Waits(w) \cup ToSet(b.events)
  BY <1>6 DEF Waits
<1>8. \A x : x \in Waits(w) <=> \E i \in 1 .. n : x \in ToSet(w[i].events)
  BY <1>1 DEF Waits, ToSet
<1>9. ASSUME Ordered(v)
      PROVE  Ordered(w) /\ Increasing(b.events) /\ \A e \in Waits(w), next \in ToSet(b.events) : e < next
  <2>1. Ordered(w)
    BY <1>1, <1>2, <1>3, <1>5, <1>9 DEF Ordered
  <2>2. Increasing(b.events)
    BY <1>2, <1>3, <1>5, <1>9 DEF Ordered
  <2>3. ASSUME NEW e \in Waits(w), NEW next \in ToSet(b.events) PROVE e < next
    <3>1. PICK i \in 1 .. n : e \in ToSet(w[i].events)
      BY <1>8
    <3>2. i \in DOMAIN v /\ n + 1 \in DOMAIN v /\ i < n + 1 /\ v[i] = w[i] /\ v[n + 1] = b
      BY <1>2, <1>3, <1>5
    <3> QED BY <1>9, <3>1, <3>2 DEF Ordered
  <2> QED BY <2>1, <2>2, <2>3
<1>10. ASSUME Ordered(w), Increasing(b.events), \A e \in Waits(w), next \in ToSet(b.events) : e < next
       PROVE  Ordered(v)
  <2>1. ASSUME NEW p \in DOMAIN v PROVE Increasing(v[p].events)
    BY <1>1, <1>2, <1>3, <1>4, <1>10 DEF Ordered
  <2>2. ASSUME NEW p \in DOMAIN v, NEW q \in DOMAIN v, p < q,
               NEW e \in ToSet(v[p].events), NEW next \in ToSet(v[q].events)
        PROVE  e < next
    <3>1. p \in 1 .. n /\ v[p] = w[p]
      BY <1>1, <1>2, <1>3, <2>2
    <3>2. CASE q \in 1 .. n
      BY <1>1, <1>2, <1>10, <2>2, <3>1, <3>2 DEF Ordered
    <3>3. CASE q = n + 1
      BY <1>2, <1>8, <1>10, <2>2, <3>1, <3>3
    <3> QED BY <1>3, <1>4, <3>2, <3>3
  <2> QED BY <2>1, <2>2 DEF Ordered
<1> QED BY <1>2, <1>7, <1>9, <1>10 DEF v

(* The buffer at the beginning.                                            *)
LEMMA AtTheBeginning ==
    ASSUME NEW w \in Seq(LogBuffers), w # <<>>
    PROVE  /\ Head(w) \in LogBuffers /\ Tail(w) \in Seq(LogBuffers)
           /\ Waits(w) = ToSet(Head(w).events) \cup Waits(Tail(w))
           /\ Ordered(w) => /\ Ordered(Tail(w)) /\ Increasing(Head(w).events)
                            /\ \A e \in ToSet(Head(w).events), next \in Waits(Tail(w)) : e < next
<1> DEFINE t == Tail(w)
           n == Len(w)
<1>1. n \in Nat \ {0} /\ DOMAIN w = 1 .. n /\ Head(w) = w[1] /\ w[1] \in LogBuffers
  BY EmptySeq, LenProperties, ElementOfSeq
<1>2. t \in Seq(LogBuffers) /\ Len(t) = n - 1 /\ \A i \in 1 .. n - 1 : t[i] = w[i + 1]
  BY HeadTailProperties
<1>3. DOMAIN t = 1 .. n - 1
  BY <1>2, LenProperties
<1> HIDE DEF t, n
<1>4. /\ 1 \in 1 .. n /\ \A i \in 1 .. n - 1 : i + 1 \in 1 .. n /\ 1 < i + 1
      /\ \A i \in 1 .. n : i = 1 \/ \E k \in 1 .. n - 1 : i = k + 1
  <2>1. \A i \in 1 .. n : i = 1 \/ (i - 1 \in 1 .. n - 1 /\ i = (i - 1) + 1)
    BY <1>1
  <2> QED BY <1>1, <2>1
<1>5. ToSet(w) = {w[1]} \cup ToSet(t)
  <2>1. ASSUME NEW i \in 1 .. n PROVE w[i] \in {w[1]} \cup ToSet(t)
    <3>1. CASE i = 1
      BY <3>1
    <3>2. CASE \E k \in 1 .. n - 1 : i = k + 1
      BY <1>2, <1>3, <3>2 DEF ToSet
    <3> QED BY <1>4, <3>1, <3>2
  <2>2. ASSUME NEW i \in 1 .. n - 1 PROVE t[i] \in ToSet(w)
    BY <1>1, <1>2, <1>4 DEF ToSet
  <2>3. w[1] \in ToSet(w)
    BY <1>1, <1>4 DEF ToSet
  <2>4. ToSet(w) \subseteq {w[1]} \cup ToSet(t)
    BY <1>1, <2>1 DEF ToSet
  <2>5. ToSet(t) \subseteq ToSet(w)
    BY <1>3, <2>2 DEF ToSet
  <2> QED BY <2>3, <2>4, <2>5
<1>6. Waits(w) = ToSet(w[1].events) \cup Waits(t)
  BY <1>5 DEF Waits
<1>7. \A x : x \in Waits(t) <=> \E i \in 1 .. n - 1 : x \in ToSet(t[i].events)
  BY <1>3 DEF Waits, ToSet
<1>8. ASSUME Ordered(w)
      PROVE  Ordered(t) /\ Increasing(w[1].events) /\ \A e \in ToSet(w[1].events), next \in Waits(t) : e < next
  <2>1. ASSUME NEW p \in DOMAIN t PROVE Increasing(t[p].events)
    BY <1>1, <1>2, <1>3, <1>4, <1>8 DEF Ordered
  <2>2. ASSUME NEW p \in DOMAIN t, NEW q \in DOMAIN t, p < q,
               NEW e \in ToSet(t[p].events), NEW next \in ToSet(t[q].events)
        PROVE  e < next
    <3>1. p + 1 \in DOMAIN w /\ q + 1 \in DOMAIN w /\ p + 1 < q + 1 /\ t[p] = w[p + 1] /\ t[q] = w[q + 1]
      BY <1>1, <1>2, <1>3, <1>4, <2>2
    <3> QED BY <1>8, <2>2, <3>1 DEF Ordered
  <2>3. Increasing(w[1].events)
    BY <1>1, <1>4, <1>8 DEF Ordered
  <2>4. ASSUME NEW e \in ToSet(w[1].events), NEW next \in Waits(t) PROVE e < next
    <3>1. PICK i \in 1 .. n - 1 : next \in ToSet(t[i].events)
      BY <1>7
    <3>2. i + 1 \in DOMAIN w /\ 1 \in DOMAIN w /\ 1 < i + 1 /\ t[i] = w[i + 1]
      BY <1>1, <1>2, <1>4
    <3> QED BY <1>8, <2>4, <3>1, <3>2 DEF Ordered
  <2> QED BY <2>1, <2>2, <2>3, <2>4 DEF Ordered
<1> QED BY <1>1, <1>2, <1>6, <1>8 DEF t

(* Events put together.                                                    *)
LEMMA Together ==
    ASSUME NEW s \in Seq(Nat), NEW u \in Seq(Nat)
    PROVE  /\ s \o u \in Seq(Nat) /\ ToSet(s \o u) = ToSet(s) \cup ToSet(u)
           /\ Increasing(s) /\ Increasing(u) /\ (\A e \in ToSet(s), next \in ToSet(u) : e < next)
                 => Increasing(s \o u)
<1> DEFINE v == s \o u
           m == Len(s)
           n == Len(u)
<1>1. m \in Nat /\ n \in Nat /\ DOMAIN s = 1 .. m /\ DOMAIN u = 1 .. n
  BY LenProperties
<1>2. /\ v \in Seq(Nat) /\ Len(v) = m + n
      /\ \A i \in 1 .. m + n : v[i] = IF i <= m THEN s[i] ELSE u[i - m]
  BY ConcatProperties
<1>3. DOMAIN v = 1 .. m + n
  BY <1>2, LenProperties
<1> HIDE DEF v, m, n
<1>4. /\ \A i \in 1 .. m : i \in 1 .. m + n /\ v[i] = s[i]
      /\ \A i \in 1 .. m + n : i \in 1 .. m \/ (i - m \in 1 .. n /\ v[i] = u[i - m] /\ i > m)
  BY <1>1, <1>2
<1>5. ASSUME NEW i \in 1 .. n PROVE i + m \in 1 .. m + n /\ v[i + m] = u[i]
  <2>1. i + m \in 1 .. m + n /\ ~ (i + m <= m) /\ (i + m) - m = i
    BY <1>1
  <2>2. v[i + m] = u[(i + m) - m]
    BY <1>2, <2>1
  <2> QED BY <2>1, <2>2
<1>6. ToSet(v) = ToSet(s) \cup ToSet(u)
  <2>1. ToSet(v) \subseteq ToSet(s) \cup ToSet(u)
    BY <1>1, <1>3, <1>4 DEF ToSet
  <2>2. ToSet(s) \subseteq ToSet(v)
    BY <1>1, <1>3, <1>4 DEF ToSet
  <2>3. ToSet(u) \subseteq ToSet(v)
    <3>1. ASSUME NEW i \in 1 .. n PROVE u[i] \in ToSet(v)
      <4>1. i + m \in DOMAIN v /\ v[i + m] = u[i]
        BY <1>3, <1>5
      <4> QED BY <4>1 DEF ToSet
    <3> QED BY <1>1, <3>1 DEF ToSet
  <2> QED BY <2>1, <2>2, <2>3
<1>7. ASSUME Increasing(s), Increasing(u), \A e \in ToSet(s), next \in ToSet(u) : e < next
      PROVE  Increasing(v)
  <2> SUFFICES ASSUME NEW i \in 1 .. m + n, NEW j \in 1 .. m + n, i < j PROVE v[i] < v[j]
    BY <1>3 DEF Increasing
  <2>1. CASE i \in 1 .. m /\ j \in 1 .. m
    BY <1>1, <1>4, <1>7, <2>1 DEF Increasing
  <2>2. CASE i \in 1 .. m /\ ~ (j \in 1 .. m)
    <3>1. s[i] \in ToSet(s) /\ u[j - m] \in ToSet(u)
      BY <1>1, <1>4, <2>2 DEF ToSet
    <3> QED BY <1>4, <1>7, <2>2, <3>1
  <2>3. CASE ~ (i \in 1 .. m)
    <3>1. ~ (j \in 1 .. m)
      BY <1>1, <2>3
    <3>2. i - m \in 1 .. n /\ j - m \in 1 .. n /\ i - m < j - m /\ v[i] = u[i - m] /\ v[j] = u[j - m]
      BY <1>1, <1>4, <2>3, <3>1
    <3> QED BY <1>1, <1>7, <3>2 DEF Increasing
  <2> QED BY <2>1, <2>2, <2>3
<1> QED BY <1>2, <1>6, <1>7 DEF v

(* An event more, later than those there are.                              *)
LEMMA OneMore ==
    ASSUME NEW s \in Seq(Nat), NEW e \in Nat
    PROVE  /\ Append(s, e) \in Seq(Nat) /\ ToSet(Append(s, e)) = ToSet(s) \cup {e}
           /\ Increasing(s) /\ (\A x \in ToSet(s) : x < e) => Increasing(Append(s, e))
<1>1. <<e>> \in Seq(Nat) /\ DOMAIN <<e>> = {1} /\ <<e>>[1] = e
  BY LenProperties
<1>2. ToSet(<<e>>) = {e}
  BY <1>1 DEF ToSet
<1>3. Increasing(<<e>>)
  BY <1>1 DEF Increasing
<1>4. Append(s, e) = s \o <<e>>
  BY AppendIsConcat
<1> QED BY <1>1, <1>2, <1>3, <1>4, Together

-----------------------------------------------------------------------------
LEMMA TotalTypes ==
    ASSUME LogTypes, NEW e \in 0 .. Len(logged)
    PROVE  Total(e) \in Nat
<1>1. CASE e = 0
  BY <1>1 DEF Total
<1>2. CASE e # 0
  <2>1. e \in 1 .. Len(logged)
    BY <1>2, LenProperties DEF LogTypes
  <2>2. logged[e] \in [size : Nat, total : Nat]
    BY <2>1, ElementOfSeq DEF LogTypes
  <2> QED BY <1>2, <2>2 DEF Total
<1> QED BY <1>1, <1>2

(* Sequences, of any elements.                                             *)
LEMMA AppendLater ==
    ASSUME NEW S, NEW s \in Seq(S), NEW t \in Seq(S), NEW b \in S
    PROVE  s \o t \in Seq(S) /\ s \o Append(t, b) = Append(s \o t, b)
<1>1. s \o t \in Seq(S)
  BY ConcatProperties
<1>2. Append(t, b) = t \o <<b>> /\ Append(s \o t, b) = (s \o t) \o <<b>>
  BY <1>1, AppendIsConcat
<1>3. <<b>> \in Seq(S)
  OBVIOUS
<1>4. (s \o t) \o <<b>> = s \o (t \o <<b>>)
  BY <1>3, ConcatAssociative
<1> QED BY <1>1, <1>2, <1>4

LEMMA FrontAndLast ==
    ASSUME NEW S, NEW s \in Seq(S), s # <<>>
    PROVE  Front(s) \in Seq(S) /\ Last(s) \in S /\ s = Append(Front(s), Last(s))
<1>1. PICK n : n = Len(s)
  OBVIOUS
<1>2. n \in Nat \ {0} /\ n \in 1 .. n /\ 1 \in 1 .. n /\ n - 1 \in Int
  BY <1>1, EmptySeq, LenProperties
<1>3. \A i \in 1 .. n : s[i] \in S
  BY <1>1, ElementOfSeq
<1>4. \A i \in 1 .. n - 1 : s[i] \in S
  BY <1>2, <1>3
<1>5. SubSeq(s, 1, n - 1) \in Seq(S)
  BY <1>2, <1>4, SubSeqProperties
<1>6. Front(s) = SubSeq(s, 1, n - 1) /\ Last(s) = s[n]
  BY <1>1 DEF Front, Last
<1>7. SubSeq(s, 1, n) = SubSeq(s, 1, n - 1) \o <<s[n]>>
  BY <1>1, <1>2, SubSeqRecursiveSecond
<1>8. SubSeq(s, 1, n) = s
  BY <1>1, SubSeqFull
<1>9. Append(SubSeq(s, 1, n - 1), s[n]) = SubSeq(s, 1, n - 1) \o <<s[n]>>
  BY <1>2, <1>3, <1>5, AppendIsConcat
<1> QED BY <1>2, <1>3, <1>5, <1>6, <1>7, <1>8, <1>9

LEMMA TailLater ==
    ASSUME NEW S, NEW s \in Seq(S), NEW t \in Seq(S), s # <<>>
    PROVE  s \o t # <<>> /\ Head(s \o t) = Head(s) /\ Tail(s \o t) = Tail(s) \o t
<1>1. PICK m, n, c, v : m = Len(s) /\ n = Len(t) /\ c = s \o t /\ v = Tail(s)
  OBVIOUS
<1>2. m \in Nat \ {0} /\ n \in Nat /\ Head(s) = s[1]
  BY <1>1, EmptySeq, LenProperties
<1>3. /\ c \in Seq(S) /\ Len(c) = m + n
      /\ \A i \in 1 .. m + n : c[i] = IF i <= m THEN s[i] ELSE t[i - m]
  BY <1>1, ConcatProperties
<1>4. c # <<>> /\ Head(c) = c[1] /\ 1 \in 1 .. m + n /\ 1 <= m
  BY <1>2, <1>3, EmptySeq
<1>5. v \in Seq(S) /\ Len(v) = m - 1 /\ \A i \in 1 .. m - 1 : v[i] = s[i + 1]
  BY <1>1, HeadTailProperties
<1>6. /\ Tail(c) \in Seq(S) /\ Len(Tail(c)) = m + n - 1
      /\ \A i \in 1 .. m + n - 1 : Tail(c)[i] = c[i + 1]
  <2>1. /\ Tail(c) \in Seq(S) /\ Len(Tail(c)) = Len(c) - 1
        /\ \A i \in 1 .. Len(Tail(c)) : Tail(c)[i] = c[i + 1]
    BY <1>3, <1>4, HeadTailProperties
  <2>2. PICK u, k : u = Tail(c) /\ k = m + n - 1
    OBVIOUS
  <2>3. Len(u) = k
    <3>1. Len(c) = m + n
      BY <1>3
    <3>2. Len(Tail(c)) = Len(c) - 1
      BY <2>1
    <3>3. m + n - 1 = (m + n) - 1
      BY <1>2
    <3> QED BY <2>2, <3>1, <3>2, <3>3, Zenon
  <2>4. \A i \in 1 .. k : u[i] = c[i + 1]
    BY <2>1, <2>2, <2>3
  <2> QED BY <2>1, <2>2, <2>3, <2>4
<1>7. /\ v \o t \in Seq(S) /\ Len(v \o t) = (m - 1) + n
      /\ \A i \in 1 .. (m - 1) + n : (v \o t)[i] = IF i <= m - 1 THEN v[i] ELSE t[i - (m - 1)]
  BY <1>1, <1>5, ConcatProperties
<1>8. ASSUME NEW i \in 1 .. m + n - 1 PROVE Tail(c)[i] = (v \o t)[i]
  <2>1. i \in 1 .. (m - 1) + n /\ i + 1 \in 1 .. m + n /\ (i + 1) - m = i - (m - 1)
        /\ (i <= m - 1 <=> i + 1 <= m)
    BY <1>2
  <2>2. Tail(c)[i] = IF i + 1 <= m THEN s[i + 1] ELSE t[(i + 1) - m]
    BY <1>3, <1>6, <2>1
  <2>3. (v \o t)[i] = IF i <= m - 1 THEN v[i] ELSE t[i - (m - 1)]
    BY <1>7, <2>1
  <2>4. i <= m - 1 => v[i] = s[i + 1]
    BY <1>2, <1>5
  <2> QED BY <2>1, <2>2, <2>3, <2>4
<1>9. m + n - 1 = (m - 1) + n
  BY <1>2
<1>10. Tail(c) = v \o t
  BY <1>6, <1>7, <1>8, <1>9, SeqEqual
<1> QED BY <1>1, <1>2, <1>3, <1>4, <1>10

-----------------------------------------------------------------------------
(* The buffer log() writes to is the last of those that wait, or after     *)
(* them.                                                                   *)
To(size) == IF NewBuffer(size) THEN LogBuffer ELSE Last(m_buffers)
Others(size) == IF NewBuffer(size) THEN m_buffers ELSE Front(m_buffers)
Before(size) == buffers \o Others(size)

LEMMA Target ==
    ASSUME LogInv, NEW size \in Nat
    PROVE  /\ To(size) \in LogBuffers /\ Others(size) \in Seq(LogBuffers) /\ Before(size) \in Seq(LogBuffers)
           /\ Waits(Unwritten) = Waits(Before(size)) \cup ToSet(To(size).events)
           /\ Ordered(Before(size)) /\ Increasing(To(size).events)
           /\ \A e \in Waits(Before(size)), next \in ToSet(To(size).events) : e < next
           /\ \E d \in 0 .. Len(logged) : To(size).m_cur = Total(Len(logged)) - Total(d)
           /\ NewBuffer(size) => To(size).m_cur = 0
           /\ ~ NewBuffer(size) => ~ (avail(To(size)) < size)
<1>1. /\ m_buffers \in Seq(LogBuffers) /\ buffers \in Seq(LogBuffers)
      /\ Len(logged) \in Nat /\ Ordered(Unwritten) /\ Unwritten = buffers \o m_buffers
  BY LenProperties, OfBuffers DEF LogInv, LogTypes, Unwritten
<1>2. CASE NewBuffer(size)
  <2>1. LogBuffer \in LogBuffers /\ LogBuffer.events = <<>> /\ LogBuffer.m_cur = 0
    BY EmptySeq DEF LogBuffer, LogBuffers
  <2>2. To(size) = LogBuffer /\ Others(size) = m_buffers /\ Before(size) = Unwritten
    BY <1>1, <1>2 DEF To, Others, Before
  <2>3. DOMAIN <<>> = {}
    OBVIOUS
  <2>4. ToSet(<<>>) = {} /\ Increasing(<<>>)
    BY <2>3 DEF ToSet, Increasing
  <2>5. Total(Len(logged)) \in Nat
    BY <1>1, TotalTypes DEF LogInv
  <2>6. \E d \in 0 .. Len(logged) : LogBuffer.m_cur = Total(Len(logged)) - Total(d)
    <3>1. Len(logged) \in 0 .. Len(logged) /\ 0 = Total(Len(logged)) - Total(Len(logged))
      BY <1>1, <2>5
    <3> QED BY <2>1, <3>1
  <2>7. Unwritten \in Seq(LogBuffers)
    BY <1>1, ConcatProperties
  <2> QED BY <1>1, <1>2, <2>1, <2>2, <2>4, <2>6, <2>7
<1>3. CASE ~ NewBuffer(size)
  <2>1. m_buffers # <<>> /\ ~ (avail(Last(m_buffers)) < size)
    BY <1>3 DEF NewBuffer
  <2>2. To(size) = Last(m_buffers) /\ Others(size) = Front(m_buffers)
    BY <1>3 DEF To, Others
  <2>3. To(size) \in LogBuffers /\ Others(size) \in Seq(LogBuffers) /\ m_buffers = Append(Others(size), To(size))
    BY <1>1, <2>1, <2>2, FrontAndLast
  <2>4. Before(size) \in Seq(LogBuffers) /\ Unwritten = Append(Before(size), To(size))
    BY <1>1, <2>3, AppendLater DEF Before
  <2>5. /\ Waits(Unwritten) = Waits(Before(size)) \cup ToSet(To(size).events)
        /\ Ordered(Before(size)) /\ Increasing(To(size).events)
        /\ \A e \in Waits(Before(size)), next \in ToSet(To(size).events) : e < next
    BY <1>1, <2>3, <2>4, AtTheEnd
  <2>6. \E d \in 0 .. Len(logged) : To(size).m_cur = Total(Len(logged)) - Total(d)
    BY <2>1, <2>2 DEF LogInv, CurInv
  <2> QED BY <1>3, <2>1, <2>2, <2>3, <2>4, <2>5, <2>6
<1> QED BY <1>2, <1>3

LEMMA LogKeeps ==
    ASSUME LogInv, Log
    PROVE  LogInv'
<1>1. PICK size \in Lengths :
        LET e == Len(logged) + 1
            buffer == IF NewBuffer(size) THEN LogBuffer ELSE Last(m_buffers)
            others == IF NewBuffer(size) THEN m_buffers ELSE Front(m_buffers)
            fits == avail(buffer) > size
        IN
        /\ built = "ready" /\ ~ busy /\ e <= MaxEvents
        /\ logged' = Append(logged, [size |-> size, total |-> Total(e - 1) + (IF fits THEN size ELSE 0)])
        /\ m_buffers' = Append(others, IF fits THEN Write(buffer, e, size) ELSE buffer)
        /\ dropped' = IF fits THEN dropped ELSE dropped \cup {e}
        /\ UNCHANGED <<buffers, run_pc, built, m_running, is_open, bad, busy, file, lost, overlapped>>
  BY DEF Log
<1>2. PICK n, buffer, others, g :
         /\ n = Len(logged) /\ buffer = To(size) /\ others = Others(size) /\ g = Before(size)
  OBVIOUS
<1>3. PICK fits, nb, more :
         /\ fits = (avail(buffer) > size)
         /\ nb = (IF fits THEN Write(buffer, n + 1, size) ELSE buffer)
         /\ more = (IF fits THEN size ELSE 0)
  OBVIOUS
<1>4. size \in Nat /\ BufferLen \in Nat /\ n \in Nat /\ (n + 1) - 1 = n
  BY <1>2, LogAssumption, LenProperties DEF LogInv, LogTypes
<1>5. /\ buffer \in LogBuffers /\ others \in Seq(LogBuffers) /\ g \in Seq(LogBuffers)
      /\ Waits(Unwritten) = Waits(g) \cup ToSet(buffer.events)
      /\ Ordered(g) /\ Increasing(buffer.events)
      /\ \A e \in Waits(g), next \in ToSet(buffer.events) : e < next
      /\ \E d \in 0 .. n : buffer.m_cur = Total(n) - Total(d)
      /\ NewBuffer(size) => buffer.m_cur = 0
      /\ ~ NewBuffer(size) => ~ (avail(buffer) < size)
  BY <1>2, <1>4, Target
<1>6. /\ logged' = Append(logged, [size |-> size, total |-> Total(n) + more])
      /\ m_buffers' = Append(others, nb) /\ dropped' = IF fits THEN dropped ELSE dropped \cup {n + 1}
      /\ built = "ready" /\ ~ busy
      /\ UNCHANGED <<buffers, run_pc, built, m_running, is_open, bad, busy, file, lost, overlapped>>
  <2>1. Total((n + 1) - 1) = Total(n)
    BY <1>4
  <2> QED BY <1>1, <1>2, <1>3, <2>1 DEF To, Others
<1>7. /\ LogTypes /\ WritingInv /\ StreamInv /\ PlacesInv /\ DropInv
      /\ Increasing(file) /\ Ordered(Unwritten) /\ Pending = Waits(Unwritten)
      /\ \A e \in ToSet(file), next \in Waits(Unwritten) : e < next
  BY OfBuffers DEF LogInv
<1>8. /\ more \in Nat /\ Total(n) \in Nat /\ logged \in Seq([size : Nat, total : Nat])
  BY <1>2, <1>3, <1>4, <1>7, TotalTypes DEF LogTypes
<1>9. /\ logged' \in Seq([size : Nat, total : Nat]) /\ Len(logged') = n + 1
      /\ logged'[n + 1] = [size |-> size, total |-> Total(n) + more]
      /\ \A k \in 1 .. n : logged'[k] = logged[k]
  <2> DEFINE r == [size |-> size, total |-> Total(n) + more]
  <2>1. r \in [size : Nat, total : Nat]
    BY <1>4, <1>8
  <2>2. logged' = Append(logged, r)
    BY <1>6
  <2> HIDE DEF r
  <2>3. /\ Append(logged, r) \in Seq([size : Nat, total : Nat])
        /\ Len(Append(logged, r)) = Len(logged) + 1 /\ Append(logged, r)[Len(logged) + 1] = r
        /\ \A k \in 1 .. Len(logged) : Append(logged, r)[k] = logged[k]
    BY <1>8, <2>1, AppendProperties
  <2> QED BY <1>2, <2>2, <2>3 DEF r
<1>10. /\ \A k \in 0 .. n : Total(k)' = Total(k) /\ Total(k) \in Nat
       /\ \A k : k = n + 1 => Total(k)' = Total(n) + more
  <2>1. ASSUME NEW k \in 0 .. n PROVE Total(k)' = Total(k) /\ Total(k) \in Nat
    <3>1. k = 0 \/ k \in 1 .. n
      BY <1>4
    <3> QED BY <1>2, <1>7, <1>9, <3>1, TotalTypes DEF Total
  <2>2. ASSUME NEW k, k = n + 1 PROVE Total(k)' = Total(n) + more
    BY <1>4, <1>9, <2>2 DEF Total
  <2> QED BY <2>1, <2>2
<1>11. DOMAIN logged = 1 .. n /\ DOMAIN logged' = 1 .. n + 1
  BY <1>2, <1>8, <1>9, LenProperties
<1>12. \A e : e \in ToSet(file) \cup Waits(g) \cup ToSet(buffer.events) => e < n + 1
  BY <1>4, <1>5, <1>7, <1>11 DEF PlacesInv
<1>13. /\ nb \in LogBuffers /\ Increasing(nb.events)
       /\ nb.m_cur = buffer.m_cur + more
       /\ ToSet(nb.events) = IF fits THEN ToSet(buffer.events) \cup {n + 1} ELSE ToSet(buffer.events)
  <2>1. buffer.events \in Seq(Nat) /\ buffer.m_cur \in Nat
    BY <1>5 DEF LogBuffers
  <2>2. CASE fits
    <3>1. nb = [events |-> Append(buffer.events, n + 1), m_cur |-> buffer.m_cur + size] /\ more = size
      BY <1>3, <2>2 DEF Write
    <3>2. n + 1 \in Nat
      BY <1>4
    <3>3. /\ Append(buffer.events, n + 1) \in Seq(Nat) /\ Increasing(Append(buffer.events, n + 1))
          /\ ToSet(Append(buffer.events, n + 1)) = ToSet(buffer.events) \cup {n + 1}
      BY <1>5, <1>12, <2>1, <3>2, OneMore
    <3>4. buffer.m_cur + size \in Nat
      BY <1>4, <2>1
    <3>5. nb \in LogBuffers
      BY <3>1, <3>3, <3>4 DEF LogBuffers
    <3>6. nb.events = Append(buffer.events, n + 1) /\ nb.m_cur = buffer.m_cur + size
      BY <3>1
    <3> QED BY <2>2, <3>1, <3>3, <3>5, <3>6
  <2>3. CASE ~ fits
    BY <1>3, <1>5, <2>1, <2>3
  <2> QED BY <2>2, <2>3
<1>14. Unwritten' = Append(g, nb)
  <2>1. buffers \o Append(others, nb) = Append(buffers \o others, nb)
    BY <1>5, <1>7, <1>13, AppendLater DEF LogTypes
  <2>2. g = buffers \o others
    BY <1>2 DEF Before
  <2> QED BY <1>6, <2>1, <2>2 DEF Unwritten
<1>15. /\ m_buffers' \in Seq(LogBuffers) /\ m_buffers' # <<>> /\ Last(m_buffers)' = nb
  <2>1. /\ Append(others, nb) \in Seq(LogBuffers) /\ Append(others, nb) # <<>>
        /\ Len(Append(others, nb)) = Len(others) + 1
        /\ Append(others, nb)[Len(others) + 1] = nb
    BY <1>5, <1>13, AppendProperties
  <2> QED BY <1>6, <2>1 DEF Last
<1>16. LogTypes'
  BY <1>6, <1>7, <1>9, <1>15 DEF LogTypes
<1>17. WritingInv' /\ StreamInv'
  BY <1>6, <1>7 DEF WritingInv, StreamInv
<1>18. Waits(Append(g, nb)) = Waits(g) \cup ToSet(nb.events)
  BY <1>5, <1>13, AtTheEnd
<1>19. InOrder'
  <2>1. ASSUME NEW e \in Waits(g), NEW next \in ToSet(nb.events) PROVE e < next
    BY <1>5, <1>12, <1>13
  <2>2. Ordered(Append(g, nb))
    BY <1>5, <1>13, <2>1, AtTheEnd
  <2>3. ASSUME NEW e \in ToSet(file), NEW next \in Waits(Append(g, nb)) PROVE e < next
    <3>1. next \in Waits(g) \/ next \in ToSet(buffer.events) \/ next = n + 1
      BY <1>13, <1>18
    <3> QED BY <1>5, <1>7, <1>12, <3>1
  <2>4. Increasing(file') /\ Ordered(Unwritten') /\ \A e \in ToSet(file'), next \in Waits(Unwritten') : e < next
    BY <1>6, <1>7, <1>14, <2>2, <2>3
  <2> QED BY <2>4 DEF InOrder, Ordered, Waits, Pending
<1>20. PlacesInv'
  <2>1. Pending' = Waits(Append(g, nb))
    BY <1>14 DEF Pending, Waits
  <2>2. 1 .. n + 1 = (1 .. n) \cup {n + 1}
    BY <1>4
  <2>3. 1 .. n = ToSet(file) \cup Waits(g) \cup ToSet(buffer.events) \cup lost \cup dropped
    BY <1>5, <1>7, <1>11 DEF PlacesInv
  <2>4. /\ ToSet(file') = ToSet(file) /\ lost' = lost
    BY <1>6
  <2>5. CASE fits
    <3>1. Pending' = Waits(g) \cup ToSet(buffer.events) \cup {n + 1} /\ dropped' = dropped
      BY <1>6, <1>13, <1>18, <2>1, <2>5
    <3>2. DOMAIN logged' = ToSet(file') \cup Pending' \cup lost' \cup dropped'
      BY <1>11, <2>2, <2>3, <2>4, <3>1
    <3> QED BY <3>2 DEF PlacesInv
  <2>6. CASE ~ fits
    <3>1. Pending' = Waits(g) \cup ToSet(buffer.events) /\ dropped' = dropped \cup {n + 1}
      BY <1>6, <1>13, <1>18, <2>1, <2>6
    <3>2. DOMAIN logged' = ToSet(file') \cup Pending' \cup lost' \cup dropped'
      BY <1>11, <2>2, <2>3, <2>4, <3>1
    <3> QED BY <3>2 DEF PlacesInv
  <2> QED BY <2>5, <2>6
<1>21. CurInv'
  <2>1. PICK d \in 0 .. n : buffer.m_cur = Total(n) - Total(d)
    BY <1>5
  <2>2. PICK k : k = n + 1
    OBVIOUS
  <2>3. Total(d)' = Total(d) /\ Total(d) \in Nat /\ Total(k)' = Total(n) + more /\ d \in 0 .. n + 1
    BY <1>4, <1>10, <2>2
  <2>4. nb.m_cur = Total(k)' - Total(d)'
    BY <1>8, <1>13, <2>1, <2>3
  <2>5. d \in 0 .. Len(logged') /\ Last(m_buffers)'.m_cur = Total(k)' - Total(d)'
    BY <1>9, <1>15, <2>3, <2>4
  <2>6. Len(logged)' = k
    BY <1>9, <2>2
  <2> QED BY <2>5, <2>6 DEF CurInv, Total
<1>22. DropInv'
  <2> SUFFICES ASSUME NEW e \in dropped', logged'[e].size < BufferLen
               PROVE  \E d \in 0 .. e - 1 : Total(e - 1)' - Total(d)' + logged'[e].size = BufferLen
    BY DEF DropInv
  <2>1. CASE e \in dropped
    <3>1. e \in 1 .. n
      BY <1>7, <1>11, <2>1 DEF PlacesInv
    <3>2. logged'[e] = logged[e] /\ e - 1 \in 0 .. n
      BY <1>4, <1>9, <3>1
    <3>3. PICK d \in 0 .. e - 1 : Total(e - 1) - Total(d) + logged[e].size = BufferLen
      BY <1>7, <2>1, <3>2 DEF DropInv
    <3>4. d \in 0 .. n
      BY <1>4, <3>1
    <3> QED BY <1>10, <3>2, <3>3, <3>4
  <2>2. CASE e \notin dropped
    <3>1. ~ fits /\ e = n + 1
      BY <1>6, <2>2
    <3>2. logged'[e].size = size
      BY <1>9, <3>1
    <3>3. buffer.m_cur \in Nat /\ avail(buffer) = BufferLen - buffer.m_cur
      BY <1>5 DEF LogBuffers, avail
    <3>4. PICK a, c : a = avail(buffer) /\ c = buffer.m_cur
      OBVIOUS
    <3>5. BufferLen - c = size
      <4>1. size < BufferLen
        BY <3>2, logged'[e].size < BufferLen
      <4>2. ~ (a > size) /\ c \in Nat /\ a = BufferLen - c
        BY <1>3, <3>1, <3>3, <3>4
      <4>3. ~ NewBuffer(size)
        BY <1>4, <1>5, <3>4, <4>1, <4>2
      <4>4. ~ (a < size)
        BY <1>5, <3>4, <4>3
      <4> QED BY <1>4, <4>2, <4>4
    <3>6. PICK d \in 0 .. n : c = Total(n) - Total(d)
      BY <1>5, <3>4
    <3>7. e - 1 = n
      BY <1>4, <3>1
    <3>8. PICK k : k = e - 1
      OBVIOUS
    <3>9. Total(k)' = Total(n) /\ Total(d)' = Total(d) /\ Total(n) \in Nat /\ Total(d) \in Nat
      <4>1. k = n /\ n \in 0 .. n
        BY <1>4, <3>7, <3>8
      <4> QED BY <1>10, <4>1
    <3>10. Total(k)' - Total(d)' + size = BufferLen
      BY <1>4, <3>5, <3>6, <3>9
    <3> QED BY <3>2, <3>7, <3>8, <3>10
  <2> QED BY <2>1, <2>2
<1> QED BY <1>16, <1>17, <1>19, <1>20, <1>21, <1>22 DEF LogInv

-----------------------------------------------------------------------------
LEMMA LogInvInit == LogInit => LogInv
<1> SUFFICES ASSUME LogInit PROVE LogInv
  OBVIOUS
<1>1. <<>> \o <<>> = <<>> /\ DOMAIN <<>> = {}
  BY ConcatEmptySeq, EmptySeq
<1>2. /\ Unwritten = <<>> /\ file = <<>> /\ m_buffers = <<>> /\ buffers = <<>>
      /\ logged = <<>> /\ dropped = {} /\ lost = {} /\ DOMAIN <<>> = {}
  BY <1>1 DEF LogInit, Unwritten
<1>3. ToSet(<<>>) = {} /\ Increasing(<<>>)
  BY <1>1 DEF ToSet, Increasing
<1>4. Pending = {}
  BY <1>2, <1>3 DEF Pending
<1>5. InOrder
  BY <1>2, <1>3, <1>4 DEF InOrder
<1>6. LogTypes
  <2>1. /\ run_pc = "test" /\ built = "thread" /\ m_running \in BOOLEAN /\ is_open = FALSE /\ bad = FALSE
        /\ busy = FALSE /\ overlapped = FALSE
    BY DEF LogInit
  <2>2. <<>> \in Seq([size : Nat, total : Nat]) /\ <<>> \in Seq(LogBuffers) /\ <<>> \in Seq(Nat)
    BY EmptySeq
  <2> QED BY <1>2, <2>1, <2>2 DEF LogTypes
<1> QED BY <1>2, <1>3, <1>4, <1>5, <1>6 DEF LogInv, LogInit, WritingInv, StreamInv, PlacesInv, CurInv, DropInv

(* What the steps that leave the events where they are keep.               *)
LEMMA InPlace ==
    ASSUME LogInv, UNCHANGED <<logged, file, lost, dropped>>, Unwritten' = Unwritten
    PROVE  InOrder' /\ PlacesInv' /\ DropInv' /\ (m_buffers' = m_buffers => CurInv')
<1>1. Pending' = Pending
  BY DEF Pending
<1>2. InOrder' /\ PlacesInv'
  BY <1>1 DEF LogInv, InOrder, Increasing, PlacesInv
<1>3. DropInv'
  BY DEF LogInv, DropInv, Total
<1>4. m_buffers' = m_buffers => CurInv'
  BY DEF LogInv, CurInv, Total
<1> QED BY <1>2, <1>3, <1>4

LEMMA OtherKeeps ==
    ASSUME LogInv,
           Initialise \/ OpenFirst \/ Turn \/ WriteDone \/ Reopen \/ Rolling \/ OpenAgain \/ Stop \/ Joined
           \/ UNCHANGED logVars
    PROVE  LogInv'
<1>1. UNCHANGED <<logged, m_buffers, buffers, file, lost, dropped>>
  BY DEF Initialise, OpenFirst, Turn, WriteDone, Reopen, Rolling, OpenAgain, Stop, Joined, logVars
<1>2. InOrder' /\ PlacesInv' /\ DropInv' /\ CurInv'
  BY <1>1, InPlace DEF Unwritten
<1>3. LogTypes' /\ WritingInv' /\ StreamInv'
  <2>1. LogTypes /\ WritingInv /\ StreamInv
    BY DEF LogInv
  <2>2. CASE Initialise
    BY <1>1, <2>1, <2>2 DEF Initialise, LogTypes, WritingInv, StreamInv
  <2>6. CASE OpenFirst
    BY <1>1, <2>1, <2>6 DEF OpenFirst, LogTypes, WritingInv, StreamInv
  <2>7. CASE Stop
    BY <1>1, <2>1, <2>7 DEF Stop, LogTypes, WritingInv, StreamInv
  <2>8. CASE Joined
    BY <1>1, <2>1, <2>8 DEF Joined, LogTypes, WritingInv, StreamInv
  <2>3. CASE Turn \/ WriteDone
    BY <1>1, <2>1, <2>3 DEF Turn, WriteDone, LogTypes, WritingInv, StreamInv
  <2>4. CASE Reopen
    BY <1>1, <2>1, <2>4 DEF Reopen, Closing, LogTypes, WritingInv, StreamInv
  <2>9. CASE Rolling
    BY <1>1, <2>1, <2>9 DEF Rolling, Closing, LogTypes, WritingInv, StreamInv
  <2>10. CASE OpenAgain
    BY <1>1, <2>1, <2>10 DEF OpenAgain, Closing, LogTypes, WritingInv, StreamInv
  <2>5. CASE UNCHANGED logVars
    BY <1>1, <2>1, <2>5 DEF logVars, LogTypes, WritingInv, StreamInv
  <2> QED BY <2>2, <2>3, <2>4, <2>5, <2>6, <2>7, <2>8, <2>9, <2>10
<1> QED BY <1>2, <1>3 DEF LogInv

LEMMA SwapKeeps ==
    ASSUME LogInv, Swap
    PROVE  LogInv'
<1>1. /\ run_pc = "swap" /\ buffers' = m_buffers /\ m_buffers' = buffers /\ run_pc' = "write" /\ ~ busy
      /\ UNCHANGED <<logged, built, m_running, is_open, bad, busy, file, lost, dropped, overlapped>>
  BY DEF Swap
<1>2. LogTypes /\ WritingInv /\ StreamInv /\ buffers = <<>>
  BY <1>1 DEF LogInv, WritingInv
<1>3. Unwritten' = Unwritten
  <2>1. m_buffers \o <<>> = m_buffers /\ <<>> \o m_buffers = m_buffers
    BY <1>2, ConcatEmptySeq DEF LogTypes
  <2> QED BY <1>1, <1>2, <2>1 DEF Unwritten
<1>4. InOrder' /\ PlacesInv' /\ DropInv'
  BY <1>1, <1>3, InPlace
<1>5. LogTypes' /\ WritingInv' /\ StreamInv' /\ CurInv'
  BY <1>1, <1>2 DEF LogTypes, WritingInv, StreamInv, CurInv
<1> QED BY <1>4, <1>5 DEF LogInv

LEMMA WrittenKeeps ==
    ASSUME LogInv, Sentry \/ PutBytes
    PROVE  LogInv'
<1>1. CASE run_pc' = "put"
  <2>1. Sentry /\ ~ bad
    <3>1. ~ PutBytes
      BY <1>1 DEF PutBytes
    <3> QED BY <1>1, <3>1 DEF Sentry
  <2>2. /\ run_pc = "write" /\ buffers # <<>>
        /\ UNCHANGED <<logged, m_buffers, buffers, built, m_running, is_open, bad, busy, file, lost, dropped, overlapped>>
    BY <2>1 DEF Sentry
  <2>3. InOrder' /\ PlacesInv' /\ DropInv' /\ CurInv'
    BY <2>2, InPlace DEF Unwritten
  <2>4. LogTypes' /\ WritingInv' /\ StreamInv'
    BY <1>1, <2>2 DEF LogInv, LogTypes, WritingInv, StreamInv
  <2> QED BY <2>3, <2>4 DEF LogInv
<1>2. CASE run_pc' # "put"
  <2>1. LogTypes /\ WritingInv /\ StreamInv /\ InOrder /\ PlacesInv /\ CurInv /\ DropInv
    BY DEF LogInv
  <2>2. PICK h : h = Head(buffers).events
    OBVIOUS
  <2>3. /\ run_pc \in {"write", "put"} /\ run_pc' = "write" /\ buffers # <<>> /\ buffers' = Tail(buffers)
        /\ UNCHANGED <<logged, m_buffers, built, m_running, is_open, busy, dropped, overlapped>>
        /\ \/ file' = file \o h /\ UNCHANGED <<lost, bad>>
           \/ lost' = lost \cup ToSet(h) /\ UNCHANGED file /\ overlapped /\ bad' = TRUE
    <3>1. CASE Sentry
      <4>1. bad /\ overlapped
        BY <1>2, <2>1, <3>1 DEF Sentry, StreamInv
      <4> QED BY <2>1, <2>2, <3>1, <4>1 DEF Sentry, LogTypes
    <3>2. CASE PutBytes
      <4>1. ~ is_open => overlapped
        BY <2>1, <3>2 DEF PutBytes, StreamInv, WritingInv
      <4>2. run_pc = "put" /\ buffers # <<>>
        BY <2>1, <3>2 DEF PutBytes, WritingInv
      <4> QED BY <2>1, <2>2, <3>2, <4>1, <4>2 DEF PutBytes
    <3> QED BY <3>1, <3>2
  <2>4. PICK w, t : w = Unwritten /\ t = Tail(w)
    OBVIOUS
  <2>5. w \in Seq(LogBuffers) /\ w # <<>> /\ Head(w).events = h /\ Unwritten' = t
    <3>1. w = buffers \o m_buffers /\ w \in Seq(LogBuffers)
      BY <2>1, <2>4, ConcatProperties DEF Unwritten, LogTypes
    <3>2. w # <<>> /\ Head(w) = Head(buffers) /\ Tail(w) = Tail(buffers) \o m_buffers
      BY <2>1, <2>3, <3>1, TailLater DEF LogTypes
    <3> QED BY <2>2, <2>3, <2>4, <3>1, <3>2 DEF Unwritten
  <2>6. /\ h \in Seq(Nat) /\ t \in Seq(LogBuffers) /\ Waits(w) = ToSet(h) \cup Waits(t)
        /\ Ordered(t) /\ Increasing(h)
        /\ \A e \in ToSet(h), next \in Waits(t) : e < next
    <3>1. Ordered(w)
      BY <2>1, <2>4, OfBuffers
    <3> QED BY <2>4, <2>5, <3>1, AtTheBeginning DEF LogBuffers
  <2>7. Increasing(file) /\ \A e \in ToSet(file), next \in Waits(w) : e < next
    BY <2>1, <2>4, OfBuffers
  <2>8. Pending = Waits(w) /\ Pending' = Waits(t)
    BY <2>4, <2>5 DEF Pending, Waits
  <2>9. /\ file' \in Seq(Nat) /\ Increasing(file') /\ \A e \in ToSet(file'), next \in Waits(t) : e < next
        /\ ToSet(file') \cup lost' = ToSet(file) \cup lost \cup ToSet(h)
    <3>1. file \in Seq(Nat)
      BY <2>1 DEF LogTypes
    <3>2. CASE file' = file \o h /\ UNCHANGED <<lost, bad>>
      <4>1. /\ file \o h \in Seq(Nat) /\ ToSet(file \o h) = ToSet(file) \cup ToSet(h)
            /\ Increasing(file \o h)
        BY <2>6, <2>7, <3>1, Together
      <4> QED BY <2>6, <2>7, <3>2, <4>1
    <3>3. CASE lost' = lost \cup ToSet(h) /\ UNCHANGED file
      BY <2>6, <2>7, <3>1, <3>3
    <3> QED BY <2>3, <3>2, <3>3
  <2>10. InOrder'
    <3>1. Increasing(file') /\ Ordered(Unwritten') /\ \A e \in ToSet(file'), next \in Waits(Unwritten') : e < next
      BY <2>5, <2>6, <2>9
    <3> QED BY <3>1 DEF InOrder, Ordered, Waits, Pending
  <2>11. PlacesInv'
    BY <2>1, <2>3, <2>6, <2>8, <2>9 DEF PlacesInv
  <2>12. CurInv' /\ DropInv'
    BY <2>1, <2>3 DEF CurInv, DropInv, Total
  <2>13. LogTypes'
    <3>1. buffers' \in Seq(LogBuffers) /\ bad' \in BOOLEAN
      BY <2>1, <2>3, HeadTailProperties DEF LogTypes
    <3> QED BY <2>1, <2>3, <2>9, <3>1 DEF LogTypes
  <2>14. WritingInv' /\ StreamInv'
    BY <2>1, <2>3 DEF WritingInv, StreamInv
  <2> QED BY <2>10, <2>11, <2>12, <2>13, <2>14 DEF LogInv
<1> QED BY <1>1, <1>2

LEMMA LogInvNext == LogInv /\ [LogNext]_logVars => LogInv'
BY LogKeeps, OtherKeeps, SwapKeeps, WrittenKeeps DEF LogNext, RunStep

(* Every event that log() was given is in the file, in a buffer, lost or   *)
(* dropped, in order; log.cpp's AsyncLogAppender.                          *)
THEOREM EventsKept == LogSpec => []LogKept
<1>1. LogInv => LogKept
  BY DEF LogInv, LogKept, PlacesInv, DropInv, StreamInv
<1> QED BY LogInvInit, LogInvNext, <1>1, PTL DEF LogSpec
=============================================================================
