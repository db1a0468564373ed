------------------------------ MODULE AsyncLog ------------------------------
(***************************************************************************)
(* AsyncLogAppender (log.cpp): log() collects events in buffers under the  *)
(* appender's lock, the appender's thread swaps the buffers under it and   *)
(* writes them without it, while reopen() and rolling() close and open the *)
(* stream under it.  UDPLogAppender is the same with a socket for a file.  *)
(*                                                                         *)
(* An event is its number in the order of the calls of log(), a LogBuffer  *)
(* the events in it and the bytes they take, m_cur.  A stream is           *)
(* open or not; once bad it ignores writes, and an open that fails, since  *)
(* it is open already, makes it bad, one that succeeds makes it good.      *)
(* The file is all that was written, under whatever names.                 *)
(***************************************************************************)
EXTENDS Integers, SequencesExt

CONSTANTS
    Lengths,    \* how long events are
    BufferLen,  \* 40960, the size of a LogBuffer
    MaxEvents   \* bound: events logged

ASSUME LogAssumption == Lengths \subseteq Nat /\ BufferLen \in Nat

VARIABLES
    logged,         \* history: how long each event is, and the bytes in all that were put in buffers
    m_buffers,      \* LogBuffers being filled
    buffers,        \* those the thread has taken
    run_pc,         \* where the thread is
    built,          \* how far the constructor has come, or the destructor
    m_running,      \* before its initialiser: what the memory holds
    is_open, bad,   \* the stream
    busy,           \* reopen() or rolling() is between close and open
    file,           \* the events written
    lost, dropped,  \* those not written by the thread, those not put in a buffer
    overlapped      \* the stream was closed or opened in the middle of a write

logVars == <<logged, m_buffers, buffers, run_pc, built, m_running, is_open, bad, busy, file, lost,
             dropped, overlapped>>

LogInit ==
    /\ logged = <<>> /\ m_buffers = <<>> /\ buffers = <<>>
    /\ run_pc = "test"
    /\ built = "thread" /\ m_running \in BOOLEAN
    /\ is_open = FALSE /\ bad = FALSE /\ busy = FALSE
    /\ file = <<>> /\ lost = {} /\ dropped = {}
    /\ overlapped = FALSE

LogBuffer == [events |-> <<>>, m_cur |-> 0]
avail(buffer) == BufferLen - buffer.m_cur

-----------------------------------------------------------------------------
(* The members after m_thread are initialised when the thread runs already *)
(* (Thread's constructor waits for it); then the file is opened.           *)
Initialise ==
    /\ built = "thread" /\ built' = "members" /\ m_running' = TRUE
    /\ UNCHANGED <<logged, m_buffers, buffers, run_pc, is_open, bad, busy, file, lost, dropped, overlapped>>

OpenFirst ==
    /\ built = "members" /\ built' = "ready" /\ is_open' = TRUE
    /\ UNCHANGED <<logged, m_buffers, buffers, run_pc, m_running, bad, busy, file, lost, dropped, overlapped>>

(* Mutant: the room that is left is not looked at.                         *)
NewBufferFirst(size) == m_buffers = <<>>

NewBuffer(size) == m_buffers = <<>> \/ avail(Last(m_buffers)) < size

(* LogBuffer::write takes an event only if it leaves room.                 *)
Write(buffer, e, size) == [events |-> Append(buffer.events, e), m_cur |-> buffer.m_cur + size]
Total(e) == IF e = 0 THEN 0 ELSE logged[e].total

Log ==
    \E size \in Lengths :
        LET e == Len(logged) + 1
            buffer == IF NewBuffer(size) THEN LogBuffer ELSE Last(m_buffers)
            others == IF NewBuffer(size) THEN m_buffers ELSE Front(m_buffers)
            fits == avail(buffer) > size
        IN
        /\ built = "ready" /\ ~ busy /\ e <= MaxEvents
        /\ logged' = Append(logged, [size |-> size, total |-> Total(e - 1) + (IF fits THEN size ELSE 0)])
        /\ m_buffers' = Append(others, IF fits THEN Write(buffer, e, size) ELSE buffer)
        /\ dropped' = IF fits THEN dropped ELSE dropped \cup {e}
        /\ UNCHANGED <<buffers, run_pc, built, m_running, is_open, bad, busy, file, lost, overlapped>>

-----------------------------------------------------------------------------
(* Mutant: the loop is left without a last look at the buffers.            *)
TurnWhileRunning ==
    /\ run_pc = "test"
    /\ run_pc' = IF ~ m_running THEN "ended" ELSE IF m_buffers # <<>> THEN "swap" ELSE "test"
    /\ UNCHANGED <<logged, m_buffers, buffers, built, m_running, is_open, bad, busy, file, lost, dropped, overlapped>>

(* run()                                                                   *)
Turn ==
    /\ run_pc = "test"
    /\ run_pc' = IF m_buffers # <<>> THEN "swap" ELSE IF m_running THEN "test" ELSE "ended"
    /\ UNCHANGED <<logged, m_buffers, buffers, built, m_running, is_open, bad, busy, file, lost, dropped, overlapped>>

Swap ==
    /\ run_pc = "swap" /\ ~ busy
    /\ buffers' = m_buffers /\ m_buffers' = buffers
    /\ run_pc' = "write"
    /\ UNCHANGED <<logged, built, m_running, is_open, bad, busy, file, lost, dropped, overlapped>>

(* ostream::write: nothing if the stream is bad; then the bytes go to the  *)
(* file, or, if that is closed, the stream becomes bad.                    *)
Sentry ==
    /\ run_pc = "write" /\ buffers # <<>>
    /\ IF bad THEN /\ lost' = lost \cup ToSet(Head(buffers).events)
                   /\ buffers' = Tail(buffers) /\ UNCHANGED run_pc
       ELSE run_pc' = "put" /\ UNCHANGED <<lost, buffers>>
    /\ UNCHANGED <<logged, m_buffers, built, m_running, is_open, bad, busy, file, dropped, overlapped>>

PutBytes ==
    /\ run_pc = "put"
    /\ IF is_open THEN file' = file \o Head(buffers).events /\ UNCHANGED <<lost, bad>>
       ELSE lost' = lost \cup ToSet(Head(buffers).events) /\ bad' = TRUE /\ UNCHANGED file
    /\ buffers' = Tail(buffers)
    /\ run_pc' = "write"
    /\ UNCHANGED <<logged, m_buffers, built, m_running, is_open, busy, dropped, overlapped>>

WriteDone ==
    /\ run_pc = "write" /\ buffers = <<>>
    /\ run_pc' = "test"
    /\ UNCHANGED <<logged, m_buffers, buffers, built, m_running, is_open, bad, busy, file, lost, dropped, overlapped>>

-----------------------------------------------------------------------------
Closing == overlapped' = (overlapped \/ run_pc \in {"write", "put"})

(* reopen() closes a stream that is good only.                             *)
Reopen ==
    /\ built = "ready" /\ ~ busy /\ busy' = TRUE
    /\ is_open' = (is_open /\ bad)
    /\ Closing
    /\ UNCHANGED <<logged, m_buffers, buffers, run_pc, built, m_running, bad, file, lost, dropped>>

(* rolling(), from the timer: close, then the file is renamed.             *)
Rolling ==
    /\ built = "ready" /\ ~ busy /\ busy' = TRUE
    /\ is_open' = FALSE
    /\ Closing
    /\ UNCHANGED <<logged, m_buffers, buffers, run_pc, built, m_running, bad, file, lost, dropped>>

OpenAgain ==
    /\ busy /\ busy' = FALSE
    /\ is_open' = TRUE /\ bad' = is_open
    /\ Closing
    /\ UNCHANGED <<logged, m_buffers, buffers, run_pc, built, m_running, file, lost, dropped>>

(* ~AsyncLogAppender, when the last logger has let go of it.               *)
Stop ==
    /\ built = "ready" /\ ~ busy /\ built' = "joining" /\ m_running' = FALSE
    /\ UNCHANGED <<logged, m_buffers, buffers, run_pc, is_open, bad, busy, file, lost, dropped, overlapped>>

Joined ==
    /\ built = "joining" /\ run_pc = "ended" /\ built' = "gone"
    /\ UNCHANGED <<logged, m_buffers, buffers, run_pc, m_running, is_open, bad, busy, file, lost, dropped, overlapped>>

RunStep == Turn \/ Swap \/ Sentry \/ PutBytes \/ WriteDone
LogNext == \/ Initialise \/ OpenFirst \/ Log
           \/ RunStep
           \/ Reopen \/ Rolling \/ OpenAgain \/ Stop \/ Joined

-----------------------------------------------------------------------------
LogSpec == LogInit /\ [][LogNext]_logVars

-----------------------------------------------------------------------------
(* The events that wait in a buffer.                                       *)
Unwritten == buffers \o m_buffers
Pending == UNION {ToSet(b.events) : b \in ToSet(Unwritten)}

(* An event is in one place, and the file has them in the order of log().  *)
(* One shorter than a buffer is dropped only when it would fill it to the  *)
(* last byte, and none is lost by the thread, nor does the stream go bad,  *)
(* unless reopen() or rolling() came between the steps of a write.  (Then  *)
(* a stream can be open and bad, and reopen() does not cure it.)           *)
Increasing(events) == \A i, j \in DOMAIN events : i < j => events[i] < events[j]
InOrder ==
    /\ Increasing(file)
    /\ \A e \in ToSet(file), next \in Pending : e < next
    /\ \A p \in DOMAIN Unwritten : Increasing(Unwritten[p].events)
    /\ \A p, q \in DOMAIN Unwritten : p < q =>
          \A e \in ToSet(Unwritten[p].events), next \in ToSet(Unwritten[q].events) : e < next
LogKept ==
    /\ InOrder
    /\ DOMAIN logged = ToSet(file) \cup Pending \cup lost \cup dropped
    /\ \A e \in dropped : logged[e].size < BufferLen =>
          \E d \in 0 .. e - 1 : Total(e - 1) - Total(d) + logged[e].size = BufferLen
    /\ bad \/ lost # {} => overlapped

(* What is logged is written or given up in the end, and the destructor    *)
(* returns: if the thread did not end before it began, reading m_running   *)
(* before it was set.                                                      *)
LogFlushed ==
    /\ \A e \in 1 .. MaxEvents :
          e \in Pending /\ run_pc # "ended" ~> e \notin Pending
    /\ built = "joining" ~> built = "gone"
=============================================================================
