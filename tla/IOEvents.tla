------------------------------ MODULE IOEvents ------------------------------
(***************************************************************************)
(* The descriptor table of IOManager (src/src/iomanager_epoll.cpp and      *)
(* src/src/iocontext.cpp): who waits for which event of which descriptor,  *)
(* what epoll has been told, and what the idle threads have been told by   *)
(* epoll but have not handled yet.                                         *)
(*                                                                         *)
(* A slot <<fd, event>> stands for the event and for the party that waits  *)
(* for it: the reader or the writer of fd.  One action is one critical     *)
(* section of the IOContext's m_mutex; the growth of the table itself is   *)
(* not modelled.  A failing ASSERT aborts the program.                     *)
(***************************************************************************)
EXTENDS Integers, FiniteSets

CONSTANTS
    Fds,
    Threads,    \* the threads in IOManager::idle
    UseDel      \* whether del() is called; nothing in the framework does

ASSUME EventsAssumption == IsFiniteSet(Fds) /\ UseDel \in BOOLEAN

Events == {"READ", "WRITE"}
Slots  == Fds \X Events

VARIABLES
    m_event,        \* the slots registered in their IOContext
    ctx,            \* the slots whose Context holds a fiber or a callback
    m_pendingCount,
    registered,     \* epoll: the descriptors in its set ...
    interest,       \* ... and the events asked for
    level,          \* the events that could be handled without blocking
    hup,            \* descriptors with EPOLLERR or EPOLLHUP
    rdy,            \* descriptors epoll will report
    batch,          \* what each thread has been told and not handled
    phase,          \* what the party of each slot does
    aborted         \* the ASSERT that has failed

userVars   == <<m_event, ctx, m_pendingCount, phase>>
epollVars  == <<registered, interest>>
socketVars == <<level, hup>>
vars       == <<userVars, epollVars, socketVars, rdy, batch, aborted>>

Of(fd, evs) == {fd} \X evs
Held(fd)    == {e \in Events : <<fd, e>> \in m_event}
Wanted(fd)  == {e \in Events : <<fd, e>> \in interest}
Reports     == [fd : Fds, ev : SUBSET Events, err : BOOLEAN]

Report(fd) == [fd |-> fd, ev |-> {e \in Wanted(fd) : <<fd, e>> \in level}, err |-> fd \in hup]
Something(r) == r.ev # {} \/ r.err

Init ==
    /\ m_event = {} /\ ctx = {} /\ m_pendingCount = 0
    /\ registered = {} /\ interest = {}
    /\ level = {} /\ hup = {} /\ rdy = {}
    /\ batch = [th \in Threads |-> {}]
    /\ phase = [s \in Slots |-> "run"]
    /\ aborted = "no"

-----------------------------------------------------------------------------
(***************************************************************************)
(* epoll: edge triggered; adding or modifying a descriptor reports what is *)
(* ready already.                                                          *)
(***************************************************************************)
Ctl(fd, evs) ==
    /\ registered' = IF evs = {} THEN registered \ {fd} ELSE registered \cup {fd}
    /\ interest' = {s \in interest : s[1] # fd} \cup Of(fd, evs)
    /\ rdy' = IF evs = {} THEN rdy \ {fd}
              ELSE IF fd \in hup \/ Of(fd, evs) \cap level # {} THEN rdy \cup {fd}
              ELSE rdy

(* The peer sends, or makes room: an edge, even if the level was up.       *)
Arrive(s) ==
    /\ level' = level \cup {s}
    /\ rdy' = IF s \in interest THEN rdy \cup {s[1]} ELSE rdy
    /\ UNCHANGED <<userVars, epollVars, hup, batch, aborted>>

(* The peer is gone, or the connection is broken.                          *)
HangUp(fd) ==
    /\ fd \notin hup
    /\ hup' = hup \cup {fd}
    /\ rdy' = IF fd \in registered THEN rdy \cup {fd} ELSE rdy
    /\ UNCHANGED <<userVars, epollVars, level, batch, aborted>>

(* The party reads or writes until EAGAIN.                                 *)
Drain(s) ==
    /\ phase[s] = "run"
    /\ s \in level
    /\ level' = level \ {s}
    /\ UNCHANGED <<userVars, epollVars, hup, rdy, batch, aborted>>

(* epoll_wait returns; a thread asks again once it has handled everything. *)
EpollWait(th) ==
    /\ batch[th] = {}
    /\ rdy # {}
    /\ batch' = [batch EXCEPT ![th] = {r \in {Report(fd) : fd \in rdy} : Something(r)}]
    /\ rdy' = {}
    /\ UNCHANGED <<userVars, epollVars, socketVars, aborted>>

-----------------------------------------------------------------------------
(***************************************************************************)
(* IOManager::add, del, cancel                                             *)
(***************************************************************************)
Abort(why) ==
    /\ aborted' = why
    /\ UNCHANGED <<userVars, epollVars, rdy>>

(* add(fd, event): a party waits for one event at a time.                  *)
add(s) ==
    /\ phase[s] = "run"
    /\ IF s \in ctx
       THEN Abort("context")    \* ASSERT(!ctx.scheduler && !ctx.fiber && !ctx.cb)
       ELSE /\ Ctl(s[1], Held(s[1]) \cup {s[2]})
            /\ m_event' = m_event \cup {s}
            /\ ctx' = ctx \cup {s}
            /\ m_pendingCount' = m_pendingCount + 1
            /\ phase' = [phase EXCEPT ![s] = "wait"]
            /\ UNCHANGED aborted
    /\ UNCHANGED <<socketVars, batch>>

(* Mutant: trigger() schedules the party and leaves the event registered.  *)
TriggerKept(fd, evs) ==
    /\ ctx' = ctx \ Of(fd, evs)
    /\ m_pendingCount' = m_pendingCount - Cardinality(evs)
    /\ phase' = [s \in Slots |-> IF s \in Of(fd, evs) THEN "woken" ELSE phase[s]]
    /\ UNCHANGED <<m_event, aborted>>

(* trigger(), for all of the events evs of fd: each party is scheduled.    *)
Trigger(fd, evs) ==
    /\ m_event' = m_event \ Of(fd, evs)
    /\ ctx' = ctx \ Of(fd, evs)
    /\ m_pendingCount' = m_pendingCount - Cardinality(evs)
    /\ phase' = [s \in Slots |-> IF s \in Of(fd, evs) THEN "woken" ELSE phase[s]]
    /\ UNCHANGED aborted

(* cancel(fd, event)                                                       *)
Cancel(s) ==
    /\ s \in m_event
    /\ Ctl(s[1], Held(s[1]) \ {s[2]})
    /\ Trigger(s[1], {s[2]})
    /\ UNCHANGED <<socketVars, batch>>

(* cancel(fd)                                                              *)
CancelAll(fd) ==
    /\ Held(fd) # {}
    /\ Ctl(fd, {})
    /\ Trigger(fd, Held(fd))
    /\ UNCHANGED <<socketVars, batch>>

(* del(fd, event): the party is forgotten.  The call ends in the exception *)
(* of IOContext::reset, after the state has changed.                       *)
Del(s) ==
    /\ UseDel
    /\ s \in m_event
    /\ Ctl(s[1], Held(s[1]) \ {s[2]})
    /\ m_event' = m_event \ {s}
    /\ ctx' = ctx \ {s}
    /\ m_pendingCount' = m_pendingCount - 1
    /\ phase' = [phase EXCEPT ![s] = "run"]
    /\ UNCHANGED <<socketVars, batch, aborted>>

(* Mutant: del(fd) counts one event.                                       *)
DelAllOne(fd) ==
    /\ UseDel
    /\ Held(fd) # {}
    /\ Ctl(fd, {})
    /\ m_event' = m_event \ Of(fd, Events)
    /\ ctx' = ctx \ {<<fd, "READ">>}
    /\ m_pendingCount' = m_pendingCount - 1
    /\ phase' = [s \in Slots |-> IF s[1] = fd /\ phase[s] = "wait" THEN "run" ELSE phase[s]]
    /\ UNCHANGED <<socketVars, batch, aborted>>

(* del(fd): reset() calls reset(READ), whose exception keeps it from the   *)
(* other half.                                                             *)
DelAll(fd) ==
    /\ UseDel
    /\ Held(fd) # {}
    /\ Ctl(fd, {})
    /\ m_event' = m_event \ Of(fd, Events)
    /\ ctx' = ctx \ {<<fd, "READ">>}
    /\ m_pendingCount' = m_pendingCount - Cardinality(Held(fd))
    /\ phase' = [s \in Slots |-> IF s[1] = fd /\ phase[s] = "wait" THEN "run" ELSE phase[s]]
    /\ UNCHANGED <<socketVars, batch, aborted>>

-----------------------------------------------------------------------------
(***************************************************************************)
(* IOManager::idle, one reported descriptor                                *)
(***************************************************************************)

(* Mutant: an error is not taken for the events that are waited for.       *)
RealEventsOnly(r) == r.ev

(* An error or a hang-up counts as all the events that are waited for.     *)
RealEvents(r) == r.ev \cup (IF r.err THEN Held(r.fd) ELSE {})

Done(th, r) == batch' = [batch EXCEPT ![th] = @ \ {r}]

(* Another thread has handled it already.                                  *)
SkipReport(th, r) ==
    /\ r \in batch[th]
    /\ Held(r.fd) \cap RealEvents(r) = {}
    /\ Done(th, r)
    /\ UNCHANGED <<userVars, epollVars, socketVars, rdy, aborted>>

(* Mutant: the events that are left are not registered again.              *)
HandleReportDel(th, r) ==
    /\ r \in batch[th]
    /\ Held(r.fd) \cap RealEvents(r) # {}
    /\ Ctl(r.fd, {})
    /\ IF RealEvents(r) \subseteq Held(r.fd)
       THEN Trigger(r.fd, RealEvents(r))
       ELSE aborted' = "trigger" /\ UNCHANGED userVars
    /\ Done(th, r)
    /\ UNCHANGED socketVars

(* Mutant: a report that is stale in part is handled for all of its events.*)
HandleReportAgain(th, r) ==
    /\ r \in batch[th]
    /\ Held(r.fd) \cap RealEvents(r) # {}
    /\ Ctl(r.fd, Held(r.fd) \ RealEvents(r))
    /\ Trigger(r.fd, RealEvents(r))
    /\ Done(th, r)
    /\ UNCHANGED socketVars

(* trigger() asserts that the event is still waited for: that has been     *)
(* tested for one of the reported events, not for each.                    *)
HandleReport(th, r) ==
    /\ r \in batch[th]
    /\ Held(r.fd) \cap RealEvents(r) # {}
    /\ Ctl(r.fd, Held(r.fd) \ RealEvents(r))
    /\ IF RealEvents(r) \subseteq Held(r.fd)
       THEN Trigger(r.fd, RealEvents(r))
       ELSE aborted' = "trigger" /\ UNCHANGED userVars
    /\ Done(th, r)
    /\ UNCHANGED socketVars

(* A scheduled party runs, tries again, and may wait again.                *)
Resume(s) ==
    /\ phase[s] = "woken"
    /\ phase' = [phase EXCEPT ![s] = "run"]
    /\ UNCHANGED <<m_event, ctx, m_pendingCount, epollVars, socketVars, rdy, batch, aborted>>

-----------------------------------------------------------------------------
Handle(th) == \E r \in Reports : SkipReport(th, r) \/ HandleReport(th, r)

Running ==
    \/ \E s \in Slots : Arrive(s) \/ Drain(s) \/ add(s) \/ Cancel(s) \/ Del(s) \/ Resume(s)
    \/ \E fd \in Fds : HangUp(fd) \/ CancelAll(fd) \/ DelAll(fd)
    \/ \E th \in Threads : EpollWait(th) \/ Handle(th)

Next == aborted = "no" /\ Running

Spec == Init /\ [][Next]_vars

(* Idle threads ask epoll again, and handle what it reports.               *)
FairSpec ==
    /\ Spec
    /\ \A th \in Threads :
        /\ WF_vars(aborted = "no" /\ EpollWait(th))
        /\ WF_vars(aborted = "no" /\ Handle(th))

-----------------------------------------------------------------------------
(***************************************************************************)
(* Properties                                                              *)
(***************************************************************************)
EventsTypeOK ==
    /\ m_event \subseteq Slots /\ ctx \subseteq Slots
    /\ m_pendingCount \in Nat
    /\ registered \subseteq Fds /\ interest \subseteq Slots
    /\ level \subseteq Slots /\ hup \subseteq Fds /\ rdy \subseteq registered
    /\ batch \in [Threads -> SUBSET Reports]
    /\ phase \in [Slots -> {"run", "wait", "woken"}]
    /\ aborted \in {"no", "trigger", "context"}

(* What epoll has been told is what the IOContexts hold, whatever add, del *)
(* cancel and reports have done to the two halves of a descriptor: an      *)
(* event epoll does not watch is never reported, and the next epoll_ctl    *)
(* would fail (EEXIST, ENOENT).                                            *)
KernelInSync ==
    aborted = "no" =>
        /\ interest = m_event
        /\ registered = {s[1] : s \in m_event}

(* m_pendingCount, which stopping() trusts, is the number of events waited *)
(* for, on each of the six paths that change it.                           *)
PendingIsRegistered == m_pendingCount = Cardinality(m_event)

TablesAgree == EventsTypeOK /\ KernelInSync /\ PendingIsRegistered

(* A party is registered exactly while it waits: none is forgotten, and    *)
(* none is left behind to be scheduled for an event it does not wait for.  *)
WaitersRegistered == aborted = "no" => m_event = {s \in Slots : phase[s] = "wait"}

(* The three tables, epoll's, the IOContexts' and the waiting fibers', say  *)
(* the same.                                                               *)
AllTablesAgree == TablesAgree /\ WaitersRegistered

(* Whoever is scheduled was waiting: several threads may hold a report of  *)
(* one event, and a cancel() may come first.                               *)
WokenOnce ==
    [][\A s \in Slots : phase[s] = "run" => phase'[s] # "woken"]_vars

(* No event is missed: if a party waits for what could be handled, epoll   *)
(* will report it, or some thread holds the report already.  The edge may  *)
(* have come before add(), or while another thread held an old report.     *)
NoMissedEvent ==
    aborted = "no" =>
        \A s \in m_event :
            s \in level \/ s[1] \in hup =>
                \/ s[1] \in rdy
                \/ \E th \in Threads : \E r \in batch[th] :
                      r.fd = s[1] /\ (s[2] \in r.ev \/ r.err)

(* A party whose event has come does not wait for ever.                    *)
ReadyIsWoken ==
    \A s \in Slots :
        (s \in m_event /\ (s \in level \/ s[1] \in hup)) ~> (s \notin m_event \/ aborted # "no")

(* ASSERT(m_event & event) of IOContext::trigger (iocontext.cpp:58).       *)
TriggerAssert == aborted # "trigger"

(* "The context of a newly added event is empty" (iomanager_epoll.cpp:153).*)
(* It holds as long as UseDel is FALSE: DelAll leaves one half behind.     *)
ContextAssert == aborted # "context"
=============================================================================
