------------------------------ MODULE Sockets ------------------------------
(***************************************************************************)
(* Socket of src/src/socket.cpp: an object that outlives the descriptors   *)
(* it holds one after the other.  Fibers bind, connect, read, close and    *)
(* connect it again, and meanwhile the rest of the program opens and       *)
(* closes descriptors of its own, of which the kernel always gives the     *)
(* lowest free number.  A hooked call waits with the number it was called  *)
(* with (HookIO): what that number stands for when it goes on is the       *)
(* question.                                                               *)
(*                                                                         *)
(* m_sock has no lock: fibers of one thread take turns, fibers of several  *)
(* threads come between the steps of close().  Any of them may connect it  *)
(* while others do.  No two wait at once to read from one number: there    *)
(* IOManager::add asserts.                                                 *)
(***************************************************************************)
EXTENDS Integers, FiniteSets

CONSTANTS
    Holders,    \* fibers that use the Socket
    Fds         \* numbers of descriptors

ASSUME SocketAssumption == Fds \subseteq Nat \ {0} /\ 1 \in Fds

VARIABLES
    singleThread,
    m_sock, m_isConnected,
    m_localAddress,     \* "none", that of the "present" descriptor, of an "earlier" one
    m_remoteAddress,    \* whether it is known
    fds,        \* what each number stands for: nothing, a descriptor of the
                \* Socket in one of its states, or somebody "else"'s
    spot,       \* where each fiber is
    fd_,        \* the number its call was made with ...
    gone,       \* ... and whether the descriptor of then has been closed
    harmed,     \* the Socket has closed what was somebody else's
    swapped     \* the flag was set by a connect() whose number was another's by then

sockVars == <<singleThread, m_sock, m_isConnected, m_localAddress, m_remoteAddress, fds,
              spot, fd_, gone, harmed, swapped>>
objectVars == <<m_isConnected, m_localAddress, m_remoteAddress>>
callsVars == <<spot, fd_, gone>>

Own == {"new", "pending", "up", "refused"}
Lowest == CHOOSE n \in Fds : fds[n] = "free" /\ \A k \in Fds : fds[k] = "free" => n <= k
State == IF m_sock = -1 THEN "free" ELSE fds[m_sock]

(* Sockets that have been made by createTCP(), by accept(), which gives    *)
(* init() its new descriptor, and by createUDP().                          *)
SocketInit ==
    /\ singleThread \in BOOLEAN
    /\ spot = [f \in Holders |-> "out"]
    /\ fd_ = [f \in Holders |-> 0] /\ gone = [f \in Holders |-> FALSE]
    /\ m_remoteAddress = FALSE /\ harmed = FALSE /\ swapped = FALSE
    /\ \/ m_sock = -1 /\ m_isConnected = FALSE /\ m_localAddress = "none"
       \/ m_sock = 1 /\ m_isConnected = TRUE /\ m_localAddress \in {"none", "present"}
    /\ fds = [n \in Fds |-> IF n = m_sock THEN "up" ELSE "free"]

(* On one thread nobody comes between the steps of close().                *)
Between == {f \in Holders : spot[f] \in {"close", "closed"}}
MayGo(f) == singleThread => Between \subseteq {f}

-----------------------------------------------------------------------------
(***************************************************************************)
(* The rest of the program, and the peers                                  *)
(***************************************************************************)
OthersOpen ==
    /\ singleThread => Between = {}
    /\ \E n \in Fds : fds[n] = "free"
    /\ fds' = [fds EXCEPT ![Lowest] = "else"]
    /\ UNCHANGED <<m_sock, objectVars, callsVars, harmed, swapped>>

(* The hooked close() wakes whoever waits for the number.                  *)
WaitsFor(f, n) == fd_[f] = n /\ spot[f] \in {"connecting", "reading"}
Closed(n) ==
    /\ fds' = [fds EXCEPT ![n] = "free"]
    /\ gone' = [f \in Holders |-> gone[f] \/ fd_[f] = n]
Woken(n) == [f \in Holders |->
    IF ~ WaitsFor(f, n) THEN spot[f] ELSE IF spot[f] = "connecting" THEN "connected" ELSE "read"]

OthersClose(n) ==
    /\ singleThread => Between = {}
    /\ fds[n] = "else"
    /\ Closed(n) /\ spot' = Woken(n)
    /\ UNCHANGED <<m_sock, objectVars, fd_, harmed, swapped>>

(* A connection is made or refused, and whoever waits for that is woken.   *)
Answered(n) ==
    /\ fds[n] = "pending"
    /\ \E s \in {"up", "refused"} : fds' = [fds EXCEPT ![n] = s]
    /\ spot' = [f \in Holders |-> IF spot[f] = "connecting" /\ fd_[f] = n THEN "connected" ELSE spot[f]]
    /\ UNCHANGED <<m_sock, objectVars, fd_, gone, harmed, swapped>>

(* Bytes come in for the number a fiber waits for.                         *)
Readable(f) ==
    /\ spot[f] = "reading"
    /\ spot' = [spot EXCEPT ![f] = "read"]
    /\ UNCHANGED <<m_sock, objectVars, fds, fd_, gone, harmed, swapped>>

(* The timer of a connect().                                               *)
TimesOut(f) ==
    /\ spot[f] = "connecting"
    /\ spot' = [spot EXCEPT ![f] = "late"]
    /\ UNCHANGED <<m_sock, objectVars, fds, fd_, gone, harmed, swapped>>

-----------------------------------------------------------------------------
(***************************************************************************)
(* bind, connect and reconnect                                             *)
(***************************************************************************)
Goes(f, to) == spot' = [spot EXCEPT ![f] = to]
Done(f) == fd_' = [fd_ EXCEPT ![f] = 0] /\ gone' = [gone EXCEPT ![f] = FALSE]

(* close(): the flag, then, if there is a descriptor, the rest of it.      *)
CloseBegins(f) ==
    /\ m_isConnected' = FALSE /\ swapped' = FALSE
    /\ Goes(f, IF m_sock = -1 THEN "out" ELSE "close")

(* newSock() where there is no descriptor.  An address that is known stays *)
(* known.                                                                  *)
Earlier == IF m_localAddress = "present" THEN "earlier" ELSE m_localAddress
OpensAs(state) ==
    /\ \E n \in Fds : fds[n] = "free"
    /\ fds' = [fds EXCEPT ![Lowest] = state]
    /\ m_sock' = Lowest

(* bind(): when ::bind fails the descriptor is kept.                       *)
bind(f) ==
    /\ MayGo(f) /\ spot[f] = "out"
    /\ \/ m_sock = -1 /\ OpensAs("new") /\ m_localAddress' \in {Earlier, "present"}
       \/ State = "new" /\ m_localAddress' \in {m_localAddress, "present"} /\ UNCHANGED <<m_sock, fds>>
    /\ UNCHANGED <<m_isConnected, m_remoteAddress, callsVars, harmed, swapped>>

(* ::connect has succeeded; getLocalAddress() asks only when none is known.*)
Succeeds(f, known) ==
    /\ Goes(f, "out") /\ Done(f)
    /\ m_isConnected' = TRUE /\ m_remoteAddress' = TRUE
    /\ m_localAddress' = IF known # "none" \/ m_sock' = -1 THEN known ELSE "present"

(* connect(): a descriptor unless there is one, and ::connect on it, which *)
(* is waited for or is done.  On a descriptor that is being connected, for *)
(* this fiber or another, it fails, and connect() closes it; on one that is*)
(* connected it fails too, or finds that it is.                            *)
connect(f) ==
    /\ MayGo(f) /\ spot[f] = "out"
    /\ UNCHANGED harmed
    /\ \/ \E state \in {"pending", "up"} :
             LET known == IF m_sock = -1 THEN Earlier ELSE m_localAddress
             IN  /\ \/ m_sock = -1 /\ OpensAs(state)
                    \/ State = "new" /\ fds' = [fds EXCEPT ![m_sock] = state] /\ UNCHANGED m_sock
                 /\ IF state = "up" THEN Succeeds(f, known) /\ swapped' = FALSE
                    ELSE /\ Goes(f, "connecting")
                         /\ fd_' = [fd_ EXCEPT ![f] = m_sock']
                         /\ m_localAddress' = known
                         /\ UNCHANGED <<gone, m_isConnected, m_remoteAddress, swapped>>
       \/ /\ State = "up"
          /\ UNCHANGED <<m_sock, fds>>
          /\ Succeeds(f, m_localAddress) /\ swapped' = FALSE
       \/ /\ m_sock # -1 /\ State # "new"
          /\ CloseBegins(f)
          /\ UNCHANGED <<m_sock, m_localAddress, m_remoteAddress, fds, fd_, gone>>
reconnect(f) == m_remoteAddress /\ connect(f)

(* Mutant: the error of the descriptor is not asked for.                   *)
FailsLate(f) == spot[f] = "late"

(* The waiting connect() goes on: an expired timer, the error of what the  *)
(* number stands for now (which need not be a socket), or success.         *)
Fails(f) == spot[f] = "late" \/ fds[fd_[f]] \in {"free", "refused"}
ConnectEnds(f) ==
    /\ MayGo(f) /\ spot[f] \in {"connected", "late"}
    /\ UNCHANGED <<m_sock, fds, harmed>>
    /\ \/ /\ Fails(f) \/ fds[fd_[f]] = "else"
          /\ CloseBegins(f) /\ Done(f) /\ UNCHANGED <<m_localAddress, m_remoteAddress>>
       \/ ~ Fails(f) /\ Succeeds(f, m_localAddress) /\ swapped' = gone[f]

-----------------------------------------------------------------------------
(***************************************************************************)
(* close, and the calls that transfer bytes                                *)
(***************************************************************************)
close(f) ==
    /\ MayGo(f) /\ spot[f] = "out"
    /\ CloseBegins(f)
    /\ UNCHANGED <<m_sock, m_localAddress, m_remoteAddress, fds, fd_, gone, harmed>>

(* ::close(m_sock), whatever m_sock stands for by now; the fibers that     *)
(* wait for it are woken.                                                  *)
SysClose(f) ==
    /\ spot[f] = "close"
    /\ IF State = "free"
       THEN Goes(f, "closed") /\ UNCHANGED <<fds, gone, harmed>>
       ELSE /\ Closed(m_sock) /\ spot' = [Woken(m_sock) EXCEPT ![f] = "closed"]
            /\ harmed' = (harmed \/ State = "else")
    /\ UNCHANGED <<m_sock, objectVars, fd_, swapped>>

(* ... and the object forgets it.                                          *)
Forgets(f) ==
    /\ spot[f] = "closed"
    /\ m_sock' = -1
    /\ Goes(f, "out")
    /\ UNCHANGED <<objectVars, fds, fd_, gone, harmed, swapped>>

ReadBy(n) == \E g \in Holders : spot[g] = "reading" /\ fd_[g] = n

(* recv() and its like, send() likewise: the flag is tested, the rest is   *)
(* do_io on the number.  (Without a descriptor the call fails at once.)    *)
recv(f) ==
    /\ MayGo(f) /\ spot[f] = "out" /\ m_isConnected /\ State # "free"
    /\ ~ ReadBy(m_sock)
    /\ Goes(f, "reading") /\ fd_' = [fd_ EXCEPT ![f] = m_sock]
    /\ UNCHANGED <<m_sock, objectVars, fds, gone, harmed, swapped>>

(* The call is made again with the same number: it returns, with bytes or  *)
(* because the number stands for nothing, or waits again.                  *)
RecvAgain(f) ==
    /\ MayGo(f) /\ spot[f] = "read"
    /\ \/ Goes(f, "out") /\ Done(f)
       \/ /\ fds[fd_[f]] # "free" /\ ~ ReadBy(fd_[f])
          /\ Goes(f, "reading") /\ UNCHANGED <<fd_, gone>>
    /\ UNCHANGED <<m_sock, objectVars, fds, harmed, swapped>>

SocketNext ==
    /\ UNCHANGED singleThread
    /\ \/ OthersOpen
       \/ \E n \in Fds : OthersClose(n) \/ Answered(n)
       \/ \E f \in Holders :
             \/ Readable(f) \/ TimesOut(f)
             \/ bind(f) \/ connect(f) \/ reconnect(f) \/ ConnectEnds(f)
             \/ close(f) \/ SysClose(f) \/ Forgets(f)
             \/ recv(f) \/ RecvAgain(f)

SocketSpec == SocketInit /\ [][SocketNext]_sockVars

-----------------------------------------------------------------------------
(* The Socket holds the one descriptor it has open, and has closed none    *)
(* but its own.                                                            *)
HoldsItsOwn ==
    ~ harmed /\ (Between = {} => {n \in Fds : fds[n] \in Own} = {m_sock} \ {-1})

(* A Socket that says it is connected is, and one that has called connect()*)
(* knows an address of its own: unless the flag was set by a connect()     *)
(* whose descriptor had been closed, and whose number was another's by     *)
(* then, until the next close().                                           *)
ConnectedIsUp ==
    m_isConnected /\ ~ swapped =>
        State = "up" /\ (m_remoteAddress => m_localAddress # "none")

(* Whoever waits in a call of the Socket is woken by its close(), unless   *)
(* its descriptor has been closed before and the number is another's.      *)
CloseReaches == \A f \in Holders, n \in Fds : WaitsFor(f, n) /\ ~ gone[f] => m_sock = n

(* On one thread.                                                          *)
SocketInv == singleThread => HoldsItsOwn /\ ConnectedIsUp /\ CloseReaches

(* "Whether it is connected" (socket.h:294): the flag, on one thread and   *)
(* without the exception.                                                  *)
FlagIsTrue == singleThread /\ m_isConnected => State = "up"
=============================================================================
