----------------------------- MODULE TcpServer -----------------------------
(***************************************************************************)
(* The TCP server of bifang: start, stop and the accept loop of            *)
(* src/src/tcpserver.cpp, over the hooked accept (do_io of                 *)
(* src/src/hook.cpp) and IOManager::add and cancel.                        *)
(*                                                                         *)
(* Each start() schedules one accepting fiber per listening socket on the  *)
(* accept worker.  stop() sets m_isStop and schedules a task that cancels  *)
(* the waits and drops the sockets.  A fiber keeps its socket alive until  *)
(* it ends; a socket nobody refers to is closed.  One thread calls start() *)
(* and stop(); the accept worker may have any number of threads.           *)
(***************************************************************************)
EXTENDS Naturals, SequencesExt

CONSTANTS
    Socks,      \* the sockets bind() has made
    Clients,
    MaxStarts   \* how often start() is called after a stop() (a bound)

ASSUME ServerAssumption == MaxStarts \in Nat

VARIABLES
    m_isStop,
    m_socks,
    starts,     \* how often start() has scheduled accepting fibers
    fiber,      \* where each accepting fiber is in startAccept and accept
    waiter,     \* the fibers registered in the IOContext of each socket
    stopTask,   \* stop()'s task: none, queued or running ...
    todo,       \* ... and the sockets it has not cancelled yet
    backlog,    \* the clients each socket has not accepted yet
    handled,    \* the clients handleClient is busy with
    late,       \* history: how many each fiber has accepted since stop() (2: or more)
    aborted     \* the ASSERT of IOManager::add has failed

serverVars == <<m_isStop, m_socks, starts, stopTask, todo>>
clientVars == <<backlog, handled, late>>
vars       == <<serverVars, fiber, waiter, clientVars, aborted>>

Fibers == Socks \X (1 .. MaxStarts)
Live   == {f \in Fibers : fiber[f] \notin {"none", "ended"}}
Open(s) == s \in m_socks \/ \E f \in Live : f[1] = s
Waiting(c) == \E s \in Socks : c \in ToSet(backlog[s])

Init ==
    /\ m_isStop = TRUE
    /\ m_socks = Socks
    /\ starts = 0
    /\ fiber = [f \in Fibers |-> "none"]
    /\ waiter = [s \in Socks |-> {}]
    /\ stopTask = "none" /\ todo = {}
    /\ backlog = [s \in Socks |-> <<>>]
    /\ handled = {}
    /\ late = [f \in Fibers |-> 0]
    /\ aborted = FALSE

-----------------------------------------------------------------------------
(***************************************************************************)
(* start() and stop()                                                      *)
(***************************************************************************)
start ==
    /\ m_isStop
    /\ starts < MaxStarts
    /\ m_isStop' = FALSE
    /\ starts' = starts + 1
    /\ fiber' = [f \in Fibers |->
                    IF f[2] = starts' /\ f[1] \in m_socks THEN "queued" ELSE fiber[f]]
    /\ late' = [f \in Fibers |-> 0]
    /\ UNCHANGED <<m_socks, stopTask, todo, waiter, backlog, handled, aborted>>

(* The tasks of two calls do not overlap here: they would race on m_socks. *)
stop ==
    /\ ~ m_isStop
    /\ stopTask = "none"
    /\ m_isStop' = TRUE
    /\ stopTask' = "queued"
    /\ UNCHANGED <<m_socks, starts, todo, fiber, waiter, clientVars, aborted>>

StopRuns ==
    /\ stopTask = "queued"
    /\ stopTask' = "running"
    /\ todo' = m_socks
    /\ UNCHANGED <<m_isStop, m_socks, starts, fiber, waiter, clientVars, aborted>>

(* Mutant: the waits are dropped, and nobody is woken.                     *)
CancelForget(s) ==
    /\ stopTask = "running" /\ s \in todo
    /\ todo' = todo \ {s}
    /\ waiter' = [waiter EXCEPT ![s] = {}]
    /\ UNCHANGED <<m_isStop, m_socks, starts, stopTask, fiber, clientVars, aborted>>

(* sock->cancelAll()                                                       *)
CancelAll(s) ==
    /\ stopTask = "running" /\ s \in todo
    /\ todo' = todo \ {s}
    /\ waiter' = [waiter EXCEPT ![s] = {}]
    /\ fiber' = [f \in Fibers |-> IF f \in waiter[s] THEN "woken" ELSE fiber[f]]
    /\ UNCHANGED <<m_isStop, m_socks, starts, stopTask, clientVars, aborted>>

(* The clients of a socket that is closed are turned away.                 *)
TurnAway(closed) ==
    backlog' = [s \in Socks |-> IF s \in closed THEN <<>> ELSE backlog[s]]

(* m_socks.clear() closes the sockets no fiber holds.                      *)
Clear ==
    /\ stopTask = "running" /\ todo = {}
    /\ stopTask' = "none"
    /\ m_socks' = {}
    /\ TurnAway({s \in Socks : ~ \E f \in Live : f[1] = s})
    /\ UNCHANGED <<m_isStop, starts, todo, fiber, waiter, handled, late, aborted>>

-----------------------------------------------------------------------------
(***************************************************************************)
(* startAccept: while (!m_isStop) accept                                   *)
(***************************************************************************)
Go(f, step) == fiber' = [fiber EXCEPT ![f] = step]

Begin(f) ==
    /\ fiber[f] = "queued"
    /\ Go(f, "top")
    /\ UNCHANGED <<serverVars, waiter, clientVars, aborted>>

(* Mutant: m_isStop is tested before the first client only.                *)
AgainAlways(f) ==
    /\ fiber[f] = "top"
    /\ Go(f, "try")
    /\ UNCHANGED <<serverVars, waiter, clientVars, aborted>>

Again(f) ==
    /\ fiber[f] = "top" /\ ~ m_isStop
    /\ Go(f, "try")
    /\ UNCHANGED <<serverVars, waiter, clientVars, aborted>>

(* The loop ends, and the fiber with its reference to the socket.          *)
Leave(f) ==
    /\ fiber[f] = "top" /\ m_isStop
    /\ Go(f, "ended")
    /\ TurnAway({s \in Socks : s \notin m_socks /\ ~ \E g \in Live \ {f} : g[1] = s})
    /\ UNCHANGED <<serverVars, waiter, handled, late, aborted>>

(* accept() has a client: handleClient is scheduled on the process worker. *)
Accept(f) ==
    /\ fiber[f] = "try"
    /\ backlog[f[1]] # <<>>
    /\ handled' = handled \cup {Head(backlog[f[1]])}
    /\ backlog' = [backlog EXCEPT ![f[1]] = Tail(@)]
    /\ late' = [late EXCEPT ![f] = IF ~ m_isStop THEN 0 ELSE IF @ < 2 THEN @ + 1 ELSE 2]
    /\ Go(f, "top")
    /\ UNCHANGED <<serverVars, waiter, aborted>>

(* Mutant: the loop is left when accept() fails.                           *)
AcceptFailsEnd(f) ==
    /\ fiber[f] = "try"
    /\ backlog[f[1]] # <<>>
    /\ Go(f, "ended")
    /\ UNCHANGED <<serverVars, waiter, clientVars, aborted>>

(* accept() fails (EMFILE ...): the client stays, the loop goes on.        *)
AcceptFails(f) ==
    /\ fiber[f] = "try"
    /\ backlog[f[1]] # <<>>
    /\ Go(f, "top")
    /\ UNCHANGED <<serverVars, waiter, clientVars, aborted>>

(* EAGAIN: do_io registers the event, without a timer, and yields.         *)
Wait(f) ==
    /\ fiber[f] = "try"
    /\ backlog[f[1]] = <<>>
    /\ IF waiter[f[1]] # {}
       THEN aborted' = TRUE /\ UNCHANGED <<fiber, waiter>>
       ELSE /\ waiter' = [waiter EXCEPT ![f[1]] = {f}]
            /\ Go(f, "wait")
            /\ UNCHANGED aborted
    /\ UNCHANGED <<serverVars, clientVars>>

(* Resumed by a client or by cancelAll(), do_io calls accept() once more.  *)
Retry(f) ==
    /\ fiber[f] = "woken"
    /\ Go(f, "try")
    /\ UNCHANGED <<serverVars, waiter, clientVars, aborted>>

-----------------------------------------------------------------------------
(***************************************************************************)
(* The clients, and an idle thread of the accept worker                    *)
(***************************************************************************)
Connect(c, s) ==
    /\ ~ Waiting(c) /\ c \notin handled
    /\ Open(s)
    /\ backlog' = [backlog EXCEPT ![s] = Append(@, c)]
    /\ UNCHANGED <<serverVars, fiber, waiter, handled, late, aborted>>

Report(s) ==
    /\ waiter[s] # {} /\ backlog[s] # <<>>
    /\ waiter' = [waiter EXCEPT ![s] = {}]
    /\ fiber' = [f \in Fibers |-> IF f \in waiter[s] THEN "woken" ELSE fiber[f]]
    /\ UNCHANGED <<serverVars, clientVars, aborted>>

(* handleClient ends; the client may come again.                           *)
Handled(c) ==
    /\ c \in handled
    /\ handled' = handled \ {c}
    /\ UNCHANGED <<serverVars, fiber, waiter, backlog, late, aborted>>

-----------------------------------------------------------------------------
StopStep == StopRuns \/ Clear \/ \E s \in Socks : CancelAll(s)
Loop(f) ==
    Begin(f) \/ Again(f) \/ Leave(f) \/ Accept(f) \/ AcceptFails(f) \/ Wait(f) \/ Retry(f)

Running ==
    \/ start \/ stop \/ StopStep
    \/ \E f \in Fibers : Loop(f)
    \/ \E s \in Socks : Report(s) \/ \E c \in Clients : Connect(c, s)
    \/ \E c \in Clients : Handled(c)

Next == ~ aborted /\ Running

Spec == Init /\ [][Next]_vars

(* Workers run what is scheduled, and accept() does not fail for ever.     *)
FairSpec ==
    /\ Spec
    /\ WF_vars(~ aborted /\ StopStep)
    /\ \A f \in Fibers : WF_vars(~ aborted /\ Loop(f)) /\ SF_vars(~ aborted /\ Accept(f))
    /\ \A s \in Socks : WF_vars(~ aborted /\ Report(s))
    /\ \A c \in Clients : WF_vars(~ aborted /\ Handled(c))

(* Besides, clients keep coming to every socket that is open.              *)
BusySpec == FairSpec /\ \A s \in Socks : SF_vars(~ aborted /\ \E c \in Clients : Connect(c, s))

-----------------------------------------------------------------------------
(***************************************************************************)
(* Properties                                                              *)
(***************************************************************************)
ServerTypeOK ==
    /\ m_isStop \in BOOLEAN /\ aborted \in BOOLEAN
    /\ m_socks \subseteq Socks /\ todo \subseteq m_socks
    /\ fiber \in [Fibers -> {"none", "queued", "top", "try", "wait", "woken", "ended"}]
    /\ \A s \in Socks : waiter[s] \subseteq {f \in Fibers : f[1] = s /\ fiber[f] = "wait"}
    /\ backlog \in [Socks -> Seq(Clients)]
    /\ handled \subseteq {c \in Clients : ~ Waiting(c)}
    /\ late \in [Fibers -> 0 .. 2]

(* After stop() has been called each accepting fiber takes one client more *)
(* at the most, the one it was trying or waiting for; also after a restart,*)
(* when a socket may have several fibers.                                  *)
AtMostOneMore == \A f \in Fibers : late[f] <= 1

(* A fiber that waits in accept() is the one that is registered: it is not *)
(* left behind by stop(), by a client or by another fiber.                 *)
AcceptorWaits == \A f \in Fibers : fiber[f] = "wait" => f \in waiter[f[1]]

AcceptorInv == ServerTypeOK /\ AcceptorWaits /\ AtMostOneMore

(* No client waits for ever: its connection is accepted, or turned away    *)
(* when the socket is closed, though accept() may fail now and then.  The  *)
(* sockets listen from bind() on, so one that comes early waits for        *)
(* start().                                                                *)
ClientServed ==
    \A c \in Clients :
        (starts > 0 /\ Waiting(c)) ~> (~ Waiting(c) \/ aborted)

(* stop() takes effect as soon as another client has come: the accepting   *)
(* fibers end, and every socket is closed, unless start() is called again. *)
Stopped == starts > 0 /\ m_isStop /\ stopTask = "none"
StopsWhenBusy == Stopped ~> (~ m_isStop \/ aborted \/ \A s \in Socks : ~ Open(s))

(* Nobody waits for ever, client or fiber: both of these.                  *)
BusyServerEnds == ClientServed /\ StopsWhenBusy

(* "Stop the service" (tcpserver.h:106): the same, whether clients come or *)
(* not.                                                                    *)
StopEnds == StopsWhenBusy

(* "What exists already cannot be replaced", the assertion in              *)
(* IOManager::add (iomanager_epoll.cpp:128): no fiber waits for a client   *)
(* where another one does, however often the server is started.            *)
OneAcceptor == ~ aborted
=============================================================================
