------------------------------ MODULE ChatRoom ------------------------------
(***************************************************************************)
(* The chat room (chat_ws_servlet.cpp) on the WebSocket server: one fiber  *)
(* per session reads messages (ws_server.cpp), handles them, and sends to  *)
(* its own and to other sessions, a frame in two writes or more            *)
(* (ws_session.cpp).  On one thread a fiber runs until it waits for a      *)
(* message or for room in a socket that is full.                           *)
(***************************************************************************)
EXTENDS Integers, FiniteSets, Functions

CONSTANTS
    Users,      \* the sessions
    Names,      \* what they call themselves
    Nobody      \* no session, no name

(* An empty name is refused: Nobody is nullptr, and the empty string.      *)
ASSUME ChatAssumption == Nobody \notin Users \cup Names

VARIABLES
    s_sessions, \* name -> session
    name,       \* per session: "$name" in its header
    at,         \* per session: where its fiber is
    todo,       \* per session: whom it still has to send to
    peer,       \* per session: the session in whose stream it is writing
    after,      \* per session: what follows when todo is empty
    inFrame,    \* per session: the fibers in the middle of a frame to it
    running,    \* the fiber the only thread executes
    oneThread,  \* the ws_process worker has one thread (configs/server.json)
    roomy       \* no client is so slow that a write has to wait

chatVars == <<s_sessions, name, at, todo, peer, after, inFrame, running, oneThread, roomy>>

ChatInit ==
    /\ s_sessions = [n \in {} |-> Nobody]
    /\ name = [u \in Users |-> Nobody]
    /\ at = [u \in Users |-> "read"]
    /\ todo = [u \in Users |-> {}]
    /\ peer = [u \in Users |-> Nobody]
    /\ after = [u \in Users |-> "reply"]
    /\ inFrame = [u \in Users |-> {}]
    /\ running = Nobody

Runs(u) == oneThread => running \in {u, Nobody}
Proceed(u, where) ==
    /\ at' = [at EXCEPT ![u] = where]
    /\ running' = IF where \in {"read", "gone"} THEN Nobody ELSE u

(* onClose: a session that has logged in gives its name back.              *)
Closing(u) == IF name[u] = Nobody THEN "gone" ELSE "del"

exists(n) == n \in DOMAIN s_sessions

(* recvMessage and the tests of handle(); `after` is what is sent to the   *)
(* session itself, in the end.                                             *)
Login(u) ==
    \E n \in Names :
        /\ at[u] = "read" /\ Runs(u)
        /\ IF exists(n) THEN Proceed(u, "head") /\ UNCHANGED peer     \* 402
           ELSE Proceed(u, "add") /\ peer' = [peer EXCEPT ![u] = n]
        /\ todo' = [todo EXCEPT ![u] = {u}]
        /\ after' = [after EXCEPT ![u] = "reply"]
        /\ UNCHANGED <<s_sessions, name, inFrame, oneThread, roomy>>

(* Mutant: the table is written only if the session is new to it.          *)
AddOnce(u) ==
    LET n == peer[u] IN
    /\ at[u] = "add" /\ Runs(u)
    /\ name' = [name EXCEPT ![u] = n]
    /\ s_sessions' = IF u \in Range(s_sessions) THEN s_sessions
                     ELSE [m \in DOMAIN s_sessions \cup {n} |-> IF m = n THEN u ELSE s_sessions[m]]
    /\ peer' = [peer EXCEPT ![u] = Nobody]
    /\ Proceed(u, "notify")
    /\ UNCHANGED <<todo, after, inFrame, oneThread, roomy>>

(* setHeader and add().                                                    *)
Add(u) ==
    LET n == peer[u] IN
    /\ at[u] = "add" /\ Runs(u)
    /\ name' = [name EXCEPT ![u] = n]
    /\ s_sessions' = [m \in DOMAIN s_sessions \cup {n} |-> IF m = n THEN u ELSE s_sessions[m]]
    /\ peer' = [peer EXCEPT ![u] = Nobody]
    /\ Proceed(u, "notify")
    /\ UNCHANGED <<todo, after, inFrame, oneThread, roomy>>

Say(u) ==
    /\ at[u] = "read" /\ Runs(u)
    /\ Proceed(u, IF name[u] = Nobody THEN "head" ELSE "notify")      \* 501
    /\ todo' = [todo EXCEPT ![u] = {u}]
    /\ after' = [after EXCEPT ![u] = "reply"]
    /\ UNCHANGED <<s_sessions, name, peer, inFrame, oneThread, roomy>>

(* CLOSE, an unreadable frame, or a message that is not JSON.              *)
Hangup(u) ==
    /\ at[u] = "read" /\ Runs(u)
    /\ Proceed(u, Closing(u))
    /\ UNCHANGED <<s_sessions, name, todo, peer, after, inFrame, oneThread, roomy>>

Del(u) ==
    /\ at[u] = "del" /\ Runs(u)
    /\ s_sessions' = Restrict(s_sessions, DOMAIN s_sessions \ {name[u]})
    /\ Proceed(u, "notify")
    /\ todo' = [todo EXCEPT ![u] = {}]
    /\ after' = [after EXCEPT ![u] = "gone"]
    /\ UNCHANGED <<name, peer, inFrame, oneThread, roomy>>

(* notify(): the table is copied under the read lock.                      *)
Notify(u) ==
    /\ at[u] = "notify" /\ Runs(u)
    /\ todo' = [todo EXCEPT ![u] = @ \cup Range(s_sessions)]
    /\ Proceed(u, IF todo'[u] = {} THEN "gone" ELSE "head")
    /\ UNCHANGED <<s_sessions, name, peer, after, inFrame, oneThread, roomy>>

(* WSSendMessage: the head, then the length and the data.  A write to a    *)
(* full socket suspends the fiber.                                         *)
Suspends(u) == running' = u \/ (~ roomy /\ running' = Nobody)
SendHead(u) ==
    /\ at[u] = "head" /\ Runs(u)
    /\ \E v \in todo[u] :
        /\ v = u /\ after[u] = "reply" => todo[u] = {u}
        /\ peer' = [peer EXCEPT ![u] = v]
        /\ inFrame' = [inFrame EXCEPT ![v] = @ \cup {u}]
    /\ at' = [at EXCEPT ![u] = "data"]
    /\ Suspends(u)
    /\ UNCHANGED <<s_sessions, name, todo, after, oneThread, roomy>>

SendData(u) ==
    LET left == todo[u] \ {peer[u]} IN
    /\ at[u] = "data" /\ Runs(u)
    /\ inFrame' = [inFrame EXCEPT ![peer[u]] = @ \ {u}]
    /\ todo' = [todo EXCEPT ![u] = left]
    /\ peer' = [peer EXCEPT ![u] = Nobody]
    /\ IF left # {} THEN at' = [at EXCEPT ![u] = "head"] /\ Suspends(u)
       ELSE IF after[u] = "gone" THEN Proceed(u, "gone")
       ELSE Proceed(u, "read") \/ Proceed(u, Closing(u))                 \* not sent
    /\ UNCHANGED <<s_sessions, name, after, oneThread, roomy>>

ChatStep(u) ==
    \/ Login(u) \/ Say(u) \/ Hangup(u)
    \/ Add(u) \/ Del(u) \/ Notify(u) \/ SendHead(u) \/ SendData(u)

ChatNext == \E u \in Users : ChatStep(u)

ChatSpec == ChatInit /\ oneThread \in BOOLEAN /\ roomy \in BOOLEAN /\ [][ChatNext]_chatVars

-----------------------------------------------------------------------------
(* A session that is logged in is in the table under its name, so that     *)
(* every message reaches it and nobody else gets the name: exists() and    *)
(* add() are two critical sections, but on one thread nothing that waits   *)
(* comes between them.  With more threads two logins may both succeed.     *)
Leaving(u) == at[u] \in {"notify", "head", "data"} /\ after[u] = "gone"
LoggedInListed ==
    oneThread => \A u \in Users :
        name[u] # Nobody /\ at[u] # "gone" /\ ~ Leaving(u) => exists(name[u]) /\ s_sessions[name[u]] = u

(* A session that has gone does not keep the name it was last known by     *)
(* from the next one.  (A name it had before is kept for ever.)            *)
NameGivenBack == \A u \in Users : at[u] = "gone" /\ exists(name[u]) => s_sessions[name[u]] # u

(* Frames do not mix, as long as one thread sends and no write waits: two  *)
(* fibers write to one stream without a lock.                              *)
FramesWhole == oneThread /\ roomy => \A u \in Users : Cardinality(inFrame[u]) <= 1

Room == LoggedInListed /\ NameGivenBack /\ FramesWhole
=============================================================================
