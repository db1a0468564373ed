------------------------------ MODULE ConnPool ------------------------------
(***************************************************************************)
(* The pool of connections to one MySQL or Redis server (MySQLManager,     *)
(* RedisManager) and the transactions on a connection (MySQLTransaction).  *)
(* The manager's lock covers the list only: a connection is pinged,        *)
(* connected, used and deleted outside it.  A statement fails if the       *)
(* connection is lost, or because the server says so.                      *)
(***************************************************************************)
EXTENDS Integers, SequencesExt

CONSTANTS
    Callers,    \* the fibers that use connections, one each at a time
    PoolSize,   \* "poolSize": how many idle connections are kept
    CheckAfter, \* the 30 seconds of needToCheck
    MaxConns,   \* bound: connections made
    MaxSeconds  \* bound: the clock

(* m_poolSize is a uint32_t.                                               *)
ASSUME ConnPoolAssumption == PoolSize \in Nat

VARIABLES
    m_connections,  \* the idle connections
    conn,           \* the objects: m_lastUsedTime, m_hasError; the server's side: alive, open
    stage, mine,    \* per caller: where it is, its connection (0: none)
    tx,             \* per caller: its MySQLTransaction
    doomed,         \* taken out by checkConnection, not deleted yet
    lost,           \* neither returned nor deleted
    seconds,        \* time(0)
    redis           \* the server is Redis

poolVars == <<m_connections, conn, stage, mine, tx, doomed, lost, seconds, redis>>

(* A deleted connection: closed, so that the server ends what it had open.  *)
Closed == [last |-> 0, error |-> FALSE, alive |-> FALSE, open |-> FALSE]
Deleted(C) == [c \in DOMAIN conn |-> IF c \in C THEN Closed ELSE conn[c]]

NoTx == [auto |-> FALSE, finished |-> FALSE, error |-> FALSE]

PoolInit ==
    /\ m_connections = <<>> /\ conn = <<>>
    /\ stage = [u \in Callers |-> "none"]
    /\ mine = [u \in Callers |-> 0]
    /\ tx = [u \in Callers |-> NoTx]
    /\ doomed = {} /\ lost = {}
    /\ seconds = 0

Moves(u, s) == stage' = [stage EXCEPT ![u] = s]
Takes(u, c) == mine' = [mine EXCEPT ![u] = c]
Drops(u) == Moves(u, "none") /\ Takes(u, 0)

needToCheck(c) ==
    LET age == seconds - conn[c].last IN
    IF redis THEN age > CheckAfter ELSE age >= CheckAfter \/ conn[c].error

-----------------------------------------------------------------------------
(* Mutant: the first connection is left in the list.                       *)
GetIdleShared(u) ==
    LET c == Head(m_connections) IN
    /\ stage[u] = "none" /\ m_connections # <<>>
    /\ Takes(u, c)
    /\ IF needToCheck(c) THEN Moves(u, "ping") /\ UNCHANGED conn
       ELSE /\ Moves(u, "has")
            /\ conn' = IF redis THEN [conn EXCEPT ![c].last = seconds] ELSE conn
    /\ UNCHANGED <<m_connections, tx, doomed, lost, seconds, redis>>

(* get(): the first idle connection, which Redis marks as used.            *)
GetIdle(u) ==
    LET c == Head(m_connections) IN
    /\ stage[u] = "none" /\ m_connections # <<>>
    /\ m_connections' = Tail(m_connections)
    /\ Takes(u, c)
    /\ IF needToCheck(c) THEN Moves(u, "ping") /\ UNCHANGED conn
       ELSE /\ Moves(u, "has")
            /\ conn' = IF redis THEN [conn EXCEPT ![c].last = seconds] ELSE conn
    /\ UNCHANGED <<tx, doomed, lost, seconds, redis>>

GetNew(u) ==
    /\ stage[u] = "none" /\ m_connections = <<>>
    /\ Moves(u, "connect")
    /\ UNCHANGED <<m_connections, conn, mine, tx, doomed, lost, seconds, redis>>

(* A connection that fails is deleted on the spot.                         *)
Connect(u) ==
    /\ stage[u] = "connect"
    /\ \/ /\ Len(conn) < MaxConns
          /\ conn' = Append(conn, [last |-> seconds, error |-> FALSE, alive |-> TRUE, open |-> FALSE])
          /\ Takes(u, Len(conn) + 1)
          /\ Moves(u, "has")
       \/ Drops(u) /\ UNCHANGED conn
    /\ UNCHANGED <<m_connections, tx, doomed, lost, seconds, redis>>

Ping(u) ==
    LET c == mine[u] IN
    /\ stage[u] = "ping"
    /\ Moves(u, IF conn[c].alive THEN "has" ELSE "reconnect")
    /\ conn' = IF redis
               THEN IF conn[c].alive THEN [conn EXCEPT ![c].last = seconds] ELSE conn
               ELSE [conn EXCEPT ![c].error = ~ conn[c].alive]
    /\ UNCHANGED <<m_connections, mine, tx, doomed, lost, seconds, redis>>

(* If that fails too, get() returns nullptr and forgets the connection.    *)
Reconnect(u) ==
    LET c == mine[u] IN
    /\ stage[u] = "reconnect"
    /\ \/ /\ conn' = [conn EXCEPT ![c] = [last |-> seconds, error |-> FALSE, alive |-> TRUE, open |-> FALSE]]
          /\ Moves(u, "has")
          /\ UNCHANGED <<mine, lost>>
       \/ lost' = lost \cup {c} /\ Drops(u) /\ UNCHANGED conn
    /\ UNCHANGED <<m_connections, tx, doomed, seconds, redis>>

(* execute() ends with m_hasError = false whatever has happened; query()   *)
(* records it.  Redis has no such flag.                                    *)
Statement(u) ==
    LET c == mine[u] IN
    /\ stage[u] = "has" /\ ~ redis
    /\ \E kind \in {"execute", "query"}, ok \in {TRUE, FALSE} :
        /\ ok => conn[c].alive
        /\ conn' = [conn EXCEPT ![c].error = kind = "query" /\ ~ ok]
    /\ UNCHANGED <<m_connections, stage, mine, tx, doomed, lost, seconds, redis>>

-----------------------------------------------------------------------------
(* MySQLManager::openTransaction: the transaction owns the connection.  If *)
(* BEGIN fails it is destroyed at once.                                    *)
OpenTransaction(u) ==
    LET c == mine[u] IN
    /\ stage[u] = "has" /\ ~ redis
    /\ \E auto \in {TRUE, FALSE} :
        tx' = [tx EXCEPT ![u] = [auto |-> auto, finished |-> FALSE, error |-> ~ conn[c].alive]]
    /\ conn' = [conn EXCEPT ![c].open = conn[c].alive, ![c].error = FALSE]
    /\ Moves(u, IF conn[c].alive THEN "tx" ELSE "end")
    /\ UNCHANGED <<m_connections, mine, doomed, lost, seconds, redis>>

(* A statement that fails is counted in m_hasError; the transaction stays  *)
(* open on the server.                                                     *)
TxExecute(u) ==
    LET c == mine[u] IN
    /\ stage[u] = "tx" /\ ~ tx[u].finished
    /\ \E ok \in {TRUE, FALSE} :
        /\ ok => conn[c].alive
        /\ tx' = [tx EXCEPT ![u].error = @ \/ ~ ok]
    /\ conn' = [conn EXCEPT ![c].error = FALSE]
    /\ UNCHANGED <<m_connections, stage, mine, doomed, lost, seconds, redis>>

(* COMMIT or ROLLBACK: it fails if the connection is lost.                 *)
Ends(u) ==
    LET c == mine[u] IN
    /\ tx' = [tx EXCEPT ![u] = IF conn[c].alive THEN [@ EXCEPT !.finished = TRUE] ELSE [@ EXCEPT !.error = TRUE]]
    /\ conn' = [conn EXCEPT ![c].open = FALSE, ![c].error = FALSE]
EndsNot == UNCHANGED <<tx, conn>>

commit(u) == IF tx[u].finished \/ tx[u].error THEN EndsNot ELSE Ends(u)
rollback(u) == IF tx[u].finished THEN EndsNot ELSE Ends(u)

Commit(u) ==
    /\ stage[u] = "tx" /\ commit(u)
    /\ UNCHANGED <<m_connections, stage, mine, doomed, lost, seconds, redis>>

Rollback(u) ==
    /\ stage[u] = "tx" /\ rollback(u)
    /\ UNCHANGED <<m_connections, stage, mine, doomed, lost, seconds, redis>>

(* ~MySQLTransaction.                                                      *)
Destroy(u) ==
    /\ stage[u] \in {"tx", "end"}
    /\ IF tx[u].auto THEN commit(u) ELSE rollback(u)
    /\ Moves(u, "free")
    /\ UNCHANGED <<m_connections, mine, doomed, lost, seconds, redis>>

(* freeMySQL, freeRedis: the deleter of the shared pointer.                *)
Free(u) ==
    /\ stage[u] \in {"has", "free"}
    /\ IF Len(m_connections) < PoolSize
       THEN m_connections' = Append(m_connections, mine[u]) /\ UNCHANGED conn
       ELSE conn' = Deleted({mine[u]}) /\ UNCHANGED m_connections
    /\ Drops(u)
    /\ tx' = [tx EXCEPT ![u] = NoTx]
    /\ UNCHANGED <<doomed, lost, seconds, redis>>

-----------------------------------------------------------------------------
(* The list after the loop that erases the members of C.                   *)
Erased(list, C) ==
    LET kept[n \in 0 .. Len(list)] ==
            IF n = 0 THEN <<>>
            ELSE IF list[n] \in C THEN kept[n - 1] ELSE Append(kept[n - 1], list[n])
    IN kept[Len(list)]

(* checkConnection(sec).                                                   *)
CheckConnection ==
    \E sec \in 1 .. MaxSeconds :
        LET old == {c \in DOMAIN conn : seconds - conn[c].last >= sec} IN
        /\ doomed = {}
        /\ doomed' = ToSet(m_connections) \cap old
        /\ m_connections' = Erased(m_connections, old)
        /\ UNCHANGED <<conn, stage, mine, tx, lost, seconds, redis>>

DeleteDoomed ==
    /\ doomed # {} /\ doomed' = {}
    /\ conn' = Deleted(doomed)
    /\ UNCHANGED <<m_connections, stage, mine, tx, lost, seconds, redis>>

(* The server closes a connection, and rolls back what it had open.        *)
Break ==
    /\ \E c \in DOMAIN conn :
        /\ conn[c].alive
        /\ conn' = [conn EXCEPT ![c].alive = FALSE, ![c].open = FALSE]
    /\ UNCHANGED <<m_connections, stage, mine, tx, doomed, lost, seconds, redis>>

Second ==
    /\ seconds < MaxSeconds
    /\ seconds' = seconds + 1
    /\ UNCHANGED <<m_connections, conn, stage, mine, tx, doomed, lost, redis>>

PoolStep(u) ==
    \/ GetIdle(u) \/ GetNew(u) \/ Connect(u) \/ Ping(u) \/ Reconnect(u)
    \/ Statement(u)
    \/ OpenTransaction(u) \/ TxExecute(u) \/ Commit(u) \/ Rollback(u) \/ Destroy(u)
    \/ Free(u)

PoolNext == \/ CheckConnection \/ DeleteDoomed \/ Break \/ Second
            \/ \E u \in Callers : PoolStep(u)

PoolSpec == PoolInit /\ redis \in BOOLEAN /\ [][PoolNext]_poolVars

-----------------------------------------------------------------------------
(* A connection has one user or is idle, once, or is being deleted: nobody *)
(* talks on a connection that another uses, or that is deleted.            *)
OnePlace ==
    /\ \A u, v \in Callers : u # v /\ mine[u] # 0 => mine[u] # mine[v]
    /\ \A i, j \in DOMAIN m_connections : m_connections[i] = m_connections[j] => i = j
    /\ \A u \in Callers : mine[u] \notin ToSet(m_connections) \cup doomed \cup lost
    /\ ToSet(m_connections) \cap (doomed \cup lost) = {}
    /\ Len(m_connections) <= PoolSize

(* A caller that gets a connection is not in a transaction somebody else   *)
(* has left open: without auto_commit the destructor always ends it.  With *)
(* auto_commit, a statement that has failed keeps it open, see Kept.       *)
Kept(u) == tx[u].auto /\ tx[u].error
Ended == \A u \in Callers : stage[u] = "free" /\ conn[mine[u]].open => Kept(u)

PoolInv == OnePlace /\ Ended
=============================================================================
