------------------------------- MODULE HookIO -------------------------------
(***************************************************************************)
(* The hooked system calls of src/src/hook.cpp: a fiber that would block   *)
(* in read, accept, send ... (do_io) or in connect waits in IOManager, and *)
(* a condition timer ends the wait.  close() wakes whoever waits, drops    *)
(* the FdData (src/src/fdregister.cpp) and closes the descriptor, whose    *)
(* number the next socket gets.                                            *)
(*                                                                         *)
(* One descriptor number and one event of it.  The fiber, the callback of  *)
(* its timer and whoever closes the descriptor run on the threads of one   *)
(* IOManager: on one thread each runs until it yields, on several threads  *)
(* they interleave anywhere.                                               *)
(***************************************************************************)
EXTENDS Integers, FiniteSets

CONSTANTS
    Calls,          \* fibers that make hooked calls, one after the other
    Timed,          \* those with a timeout
    MaxConn,        \* how often the descriptor number is opened (a bound)
    NoCall

ASSUME HookAssumption ==
    /\ Timed \subseteq Calls /\ NoCall \notin Calls
    /\ MaxConn \in Nat \ {0}

VARIABLES
    kind,       \* "io": do_io, "connect": connect_with_timeout
    oneThread,  \* the IOManager has one thread
    ownerCloses,\* a descriptor is closed by the fiber that uses it
    conn,       \* how often the number has been opened
    open,
    fdData,     \* FdManager has an entry
    level,      \* the call would succeed now (data, room, established)
    waiting,    \* the call registered in the IOContext
    watched,    \* epoll watches the descriptor
    rdy,        \* epoll will report it
    stage,         \* where each call is
    owner,      \* the opening each call was made for
    timerSet,   \* timers in m_timers
    listed,     \* timers whose callback is scheduled
    expired,    \* tinfo->cancelled
    cancelling, \* callbacks between setting tinfo->cancelled and cancel()
    result,
    closer,        \* where close() is
    asserted    \* the ASSERT of add() has failed

deployment  == <<kind, oneThread, ownerCloses>>
socketVars  == <<conn, open, fdData, level>>
epollVars   == <<waiting, watched, rdy>>
timeoutVars == <<timerSet, listed, expired, cancelling>>
callVars    == <<stage, owner, result>>
hookVars    == <<deployment, socketVars, epollVars, timeoutVars, callVars, closer, asserted>>

HookInit ==
    /\ kind \in {"io", "connect"} /\ oneThread \in BOOLEAN /\ ownerCloses \in BOOLEAN
    /\ conn = 1 /\ open = TRUE /\ fdData = TRUE /\ level = FALSE
    /\ waiting = NoCall /\ watched = FALSE /\ rdy = FALSE
    /\ stage = [c \in Calls |-> "out"]
    /\ owner = [c \in Calls |-> 0]
    /\ result = [c \in Calls |-> "none"]
    /\ timerSet = {} /\ listed = {} /\ expired = {} /\ cancelling = {}
    /\ closer = "out"
    /\ asserted = FALSE

(* On one thread nobody else runs before the running fiber yields or ends. *)
AllYielded ==
    /\ closer = "out" /\ cancelling = {}
    /\ \A c \in Calls : stage[c] \in {"out", "wait", "woken"}
MayRun == oneThread => AllYielded
NobodyElse == oneThread => closer = "out" /\ cancelling = {}

-----------------------------------------------------------------------------
(***************************************************************************)
(* The peer, and epoll                                                     *)
(***************************************************************************)
Arrive ==
    /\ open /\ ~ level
    /\ level' = TRUE
    /\ rdy' = (rdy \/ watched)
    /\ UNCHANGED <<conn, open, fdData, waiting, watched, timeoutVars, callVars, closer, asserted>>

(* Mutant: the IOContext keeps the event.                                  *)
WakeKept ==
    /\ UNCHANGED waiting
    /\ stage' = IF waiting = NoCall THEN stage ELSE [stage EXCEPT ![waiting] = "woken"]

(* trigger(): the registered call, if any, is scheduled.                   *)
Wake ==
    /\ waiting' = NoCall
    /\ stage' = IF waiting = NoCall THEN stage ELSE [stage EXCEPT ![waiting] = "woken"]

(* cancel(fd, event) and cancel(fd); nothing happens if nobody waits, or   *)
(* if epoll_ctl fails because the descriptor has been closed.              *)
CancelWait ==
    IF waiting = NoCall \/ ~ watched
    THEN UNCHANGED <<epollVars, stage>>
    ELSE Wake /\ watched' = FALSE /\ rdy' = FALSE

(* An idle thread handles the event.                                       *)
IdleReport ==
    /\ MayRun
    /\ rdy /\ waiting # NoCall
    /\ Wake /\ watched' = FALSE /\ rdy' = FALSE
    /\ UNCHANGED <<socketVars, timeoutVars, owner, result, closer, asserted>>

-----------------------------------------------------------------------------
(***************************************************************************)
(* do_io and connect_with_timeout                                          *)
(***************************************************************************)

(* The call returns; its tinfo dies, and with it its timer's callback.     *)
Return(c, r) ==
    /\ stage' = [stage EXCEPT ![c] = "out"]
    /\ result' = [result EXCEPT ![c] = r]
    /\ timerSet' = timerSet \ {c}
    /\ listed' = listed \ {c}
    /\ UNCHANGED <<owner, expired, cancelling>>

(* A fiber uses the descriptor while it is open, one fiber at a time.      *)
Call(c) ==
    /\ MayRun
    /\ stage[c] = "out"
    /\ open /\ fdData /\ closer = "out"
    /\ \A d \in Calls : stage[d] # "out" => owner[d] # conn
    /\ stage' = [stage EXCEPT ![c] = "try"]
    /\ owner' = [owner EXCEPT ![c] = conn]
    /\ result' = [result EXCEPT ![c] = "none"]
    /\ expired' = expired \ {c}
    /\ UNCHANGED <<socketVars, epollVars, timerSet, listed, cancelling, closer, asserted>>

(* The system call: done, an error, or EAGAIN (EINPROGRESS).               *)
Try(c) ==
    /\ stage[c] = "try" /\ NobodyElse
    /\ \/ /\ open /\ level
          /\ level' = (kind = "connect")
          /\ Return(c, "done")
       \/ /\ ~ open
          /\ Return(c, "error")
          /\ UNCHANGED level
       \/ /\ open /\ ~ level
          /\ stage' = [stage EXCEPT ![c] = "arm"]
          /\ UNCHANGED <<level, owner, result, timeoutVars>>
    /\ UNCHANGED <<conn, open, fdData, epollVars, closer, asserted>>

(* addConditionTimer, before the event is registered.                      *)
ArmTimer(c) ==
    /\ stage[c] = "arm" /\ NobodyElse
    /\ timerSet' = IF c \in Timed THEN timerSet \cup {c} ELSE timerSet
    /\ stage' = [stage EXCEPT ![c] = "add"]
    /\ UNCHANGED <<socketVars, epollVars, listed, expired, cancelling, owner, result,
                   closer, asserted>>

(* iom->add: it asserts that nobody waits for the event, and fails if the  *)
(* descriptor has been closed.  Then the fiber yields.                     *)
Add(c) ==
    /\ stage[c] = "add" /\ NobodyElse
    /\ \/ /\ waiting # NoCall
          /\ asserted' = TRUE
          /\ UNCHANGED <<epollVars, timeoutVars, callVars>>
       \/ /\ waiting = NoCall /\ ~ open
          /\ Return(c, "error")
          /\ UNCHANGED <<epollVars, asserted>>
       \/ /\ waiting = NoCall /\ open
          /\ waiting' = c
          /\ watched' = TRUE
          /\ rdy' = level
          /\ stage' = [stage EXCEPT ![c] = "wait"]
          /\ UNCHANGED <<timeoutVars, owner, result, asserted>>
    /\ UNCHANGED <<socketVars, closer>>

(* getsockopt(SO_ERROR): no error, whether the connection is established   *)
(* or still being made.                                                    *)
Connected == IF ~ open THEN "error" ELSE IF level THEN "done" ELSE "early"

(* Mutant: the wait that has timed out is started again.                   *)
ResumeAgain(c) ==
    /\ MayRun
    /\ stage[c] = "woken"
    /\ timerSet' = timerSet \ {c}
    /\ stage' = [stage EXCEPT ![c] = "try"]
    /\ UNCHANGED <<socketVars, epollVars, listed, expired, cancelling, owner, result,
                   closer, asserted>>

(* Mutant: a connect() that has timed out is not told from another.        *)
ResumeUnchecked(c) ==
    /\ MayRun
    /\ stage[c] = "woken"
    /\ \/ kind = "connect" /\ Return(c, Connected)
       \/ kind = "io" /\ c \in expired /\ Return(c, "timeout")
    /\ UNCHANGED <<socketVars, epollVars, closer, asserted>>

(* Awake: cancel the timer; ETIMEDOUT, or again, or the state of connect.  *)
Resume(c) ==
    /\ MayRun
    /\ stage[c] = "woken"
    /\ \/ c \in expired /\ Return(c, "timeout")
       \/ c \notin expired /\ kind = "connect" /\ Return(c, Connected)
       \/ /\ c \notin expired /\ kind = "io"
          /\ timerSet' = timerSet \ {c}
          /\ stage' = [stage EXCEPT ![c] = "try"]
          /\ UNCHANGED <<owner, result, listed, expired, cancelling>>
    /\ UNCHANGED <<socketVars, epollVars, closer, asserted>>

-----------------------------------------------------------------------------
(***************************************************************************)
(* The timer                                                               *)
(***************************************************************************)
Expire(c) ==
    /\ MayRun
    /\ c \in timerSet
    /\ timerSet' = timerSet \ {c}
    /\ listed' = listed \cup {c}
    /\ UNCHANGED <<socketVars, epollVars, expired, cancelling, callVars, closer, asserted>>

(* winfo.lock(), then t->cancelled = ETIMEDOUT.  A stalled callback of an  *)
(* earlier call of the same fiber is not joined by a second one.           *)
Callback(c) ==
    /\ MayRun
    /\ c \in listed \ cancelling
    /\ listed' = listed \ {c}
    /\ IF c \in expired
       THEN UNCHANGED <<expired, cancelling>>
       ELSE expired' = expired \cup {c} /\ cancelling' = cancelling \cup {c}
    /\ UNCHANGED <<socketVars, epollVars, timerSet, callVars, closer, asserted>>

(* iom->cancel(fd, event)                                                  *)
Cancel(c) ==
    /\ c \in cancelling
    /\ cancelling' = cancelling \ {c}
    /\ CancelWait
    /\ UNCHANGED <<socketVars, timerSet, listed, expired, owner, result, closer, asserted>>

-----------------------------------------------------------------------------
(***************************************************************************)
(* close(), and the next socket() with the same number                     *)
(***************************************************************************)

(* Mutant: close() wakes nobody.                                           *)
CloseCancelNot ==
    /\ MayRun
    /\ closer = "out" /\ open
    /\ ownerCloses => \A c \in Calls : stage[c] = "out"
    /\ closer' = "del"
    /\ UNCHANGED <<socketVars, epollVars, timeoutVars, callVars, asserted>>

CloseCancel ==
    /\ MayRun
    /\ closer = "out" /\ open
    /\ ownerCloses => \A c \in Calls : stage[c] = "out"
    /\ CancelWait
    /\ closer' = "del"
    /\ UNCHANGED <<socketVars, timeoutVars, owner, result, asserted>>

CloseDel ==
    /\ closer = "del"
    /\ fdData' = FALSE
    /\ closer' = "close"
    /\ UNCHANGED <<conn, open, level, epollVars, timeoutVars, callVars, asserted>>

(* The kernel forgets the descriptor; the IOContext does not.              *)
CloseSys ==
    /\ closer = "close"
    /\ open' = FALSE /\ level' = FALSE
    /\ watched' = FALSE /\ rdy' = FALSE
    /\ closer' = "out"
    /\ UNCHANGED <<conn, fdData, waiting, timeoutVars, callVars, asserted>>

NewSocket ==
    /\ MayRun
    /\ ~ open /\ closer = "out"
    /\ conn < MaxConn
    /\ conn' = conn + 1
    /\ open' = TRUE /\ fdData' = TRUE /\ level' = FALSE
    /\ UNCHANGED <<epollVars, timeoutVars, callVars, closer, asserted>>

-----------------------------------------------------------------------------
CallStep(c) == Try(c) \/ ArmTimer(c) \/ Add(c) \/ Resume(c)
TimerStep(c) == Expire(c) \/ Callback(c) \/ Cancel(c)
CloseStep == CloseDel \/ CloseSys

HookSteps ==
    \/ Arrive \/ IdleReport
    \/ \E c \in Calls : Call(c) \/ CallStep(c) \/ TimerStep(c)
    \/ CloseCancel \/ CloseStep \/ NewSocket

Step(A) == ~ asserted /\ A /\ UNCHANGED deployment

HookNext == Step(HookSteps)

HookSpec == HookInit /\ [][HookNext]_hookVars

(* Fibers, idle threads and callbacks run, timers expire, and close() goes *)
(* on.  Strong fairness where one thread has other fibers to run too: its  *)
(* queue is first come, first served.  No peer has to answer.              *)
HookFairSpec ==
    /\ HookSpec
    /\ WF_hookVars(Step(IdleReport)) /\ WF_hookVars(Step(CloseStep))
    /\ \A c \in Calls :
        /\ SF_hookVars(Step(CallStep(c)))
        /\ SF_hookVars(Step(Expire(c))) /\ SF_hookVars(Step(Callback(c)))
        /\ WF_hookVars(Step(Cancel(c)))

-----------------------------------------------------------------------------
(***************************************************************************)
(* Properties                                                              *)
(***************************************************************************)
HookTypeOK ==
    /\ conn \in 1 .. MaxConn
    /\ waiting \in Calls \cup {NoCall}
    /\ stage \in [Calls -> {"out", "try", "arm", "add", "wait", "woken"}]
    /\ timerSet \subseteq Timed /\ listed \subseteq Timed
    /\ expired \subseteq Timed /\ cancelling \subseteq Timed
    /\ \A c \in Calls : c \in timerSet => stage[c] \in {"add", "wait", "woken"}

(* The call that waits is the one that is registered, and epoll watches    *)
(* the descriptor for it: no call is left to wait for a descriptor that    *)
(* was closed under it.  On several threads this takes the discipline that *)
(* a descriptor is closed by the fiber that uses it.                       *)
WaiterWatched ==
    oneThread \/ ownerCloses =>
        /\ \A c \in Calls : stage[c] = "wait" <=> waiting = c
        /\ waiting # NoCall => open /\ watched

HookInv == HookTypeOK /\ WaiterWatched

(* "What exists already cannot be replaced", the assertion in              *)
(* IOManager::add (iomanager_epoll.cpp:128): under that discipline, on any *)
(* number of threads, no registration is left for the next socket.         *)
AddAssert == ownerCloses => ~ asserted

(* Nothing of a registration is left behind, in epoll or in the IOContext. *)
NothingLeftBehind == HookInv /\ AddAssert

(* connect() reports success only for a connection that has been made,     *)
(* although the timer of an earlier connect() may go off at any time.  It  *)
(* takes one thread, and nobody who closes the descriptor under the call   *)
(* and lets another socket have the number before the fiber resumes.       *)
NoFalseConnect == oneThread /\ ownerCloses => \A c \in Calls : result[c] # "early"

(* A call with a timeout does not block for ever, whatever the peer does.  *)
Blocked(c)   == stage[c] = "wait"
CallEnds(c)  == stage[c] = "out" \/ asserted
TimeoutReturns == \A c \in Timed : (oneThread /\ Blocked(c)) ~> CallEnds(c)

(* The same for any number of threads.                                     *)
TimeoutAlwaysReturns == \A c \in Timed : Blocked(c) ~> CallEnds(c)

(* close() releases whoever is in a call on the descriptor, wherever it is *)
(* in it: the calls return, unless the number stands for another socket by *)
(* then.  (Then they go on with that one, and may wait for it; and on      *)
(* several threads they may wait for what add() registers between the      *)
(* cancel of close() and the end of the descriptor.)                       *)
CloseReleases ==
    (oneThread /\ ~ open /\ \E c \in Calls : stage[c] # "out") ~> (open \/ \A c \in Calls : CallEnds(c))

(* On one thread every call comes back: with a timeout, whatever the peer  *)
(* does; without one, when the descriptor is closed under it.              *)
CallsEnd == TimeoutReturns /\ CloseReleases

(* "What exists already cannot be replaced" for whoever closes: the same   *)
(* assertion, without the discipline.                                      *)
NeverReplaced == ~ asserted
=============================================================================
