------------------------------ MODULE MCServer ------------------------------
(***************************************************************************)
(* What has to end, or to come back, when a server is stopped or crashes:  *)
(* the accept loop and the sockets of its connections, the thread of the   *)
(* asynchronous log, the process under its daemon; on small instances, one *)
(* of them at a time.  What SocketInv says it says of fibers of one        *)
(* thread.                                                                 *)
(***************************************************************************)
EXTENDS TcpServer, Sockets, AsyncLog, Daemon

VARIABLE part

allVars == <<part, vars, sockVars, logVars, daemonVars>>
Tcp    == part = "tcp" /\ ~ aborted
InLog  == part = "log"
Parent == part = "daemon"

PartsInit ==
    /\ part \in {"tcp", "socket", "log", "daemon"}
    /\ Init
    /\ SocketInit /\ singleThread /\ (part # "socket" => m_sock = -1)
    /\ LogInit /\ (~ InLog => m_running)
    /\ has_d \in [Invocations -> BOOLEAN] /\ (~ Parent => \A i \in Invocations : has_d[i]) /\ DaemonInit

PartsNext ==
    /\ UNCHANGED part
    /\ \/ part = "tcp" /\ Next /\ UNCHANGED <<sockVars, logVars, daemonVars>>
       \/ part = "socket" /\ SocketNext /\ UNCHANGED <<vars, logVars, daemonVars>>
       \/ part = "log" /\ LogNext /\ UNCHANGED <<vars, sockVars, daemonVars>>
       \/ part = "daemon" /\ DaemonNext /\ UNCHANGED <<vars, sockVars, logVars>>

(* BusySpec of TcpServer.                                                  *)
TcpFair ==
    /\ WF_vars(Tcp /\ StopStep)
    /\ \A f \in Fibers : WF_vars(Tcp /\ Loop(f)) /\ SF_vars(Tcp /\ Accept(f))
    /\ \A s \in Socks : WF_vars(Tcp /\ Report(s)) /\ SF_vars(Tcp /\ \E c \in Clients : Connect(c, s))
    /\ \A c \in Clients : WF_vars(Tcp /\ Handled(c))

(* The thread runs; reopen() and rolling(), which come seconds apart, do   *)
(* not keep it from its lock for ever; the destructor waits for it.        *)
LogFair ==
    /\ SF_logVars(InLog /\ RunStep)
    /\ WF_logVars(InLog /\ OpenAgain) /\ WF_logVars(InLog /\ Joined)

(* A parent is not stopped by anybody.                                     *)
DaemonFair == \A i \in Invocations : WF_daemonVars(Parent /\ DaemonStep(i))

PartsSpec == PartsInit /\ [][PartsNext]_allVars /\ TcpFair /\ LogFair /\ DaemonFair

=============================================================================
