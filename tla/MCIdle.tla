------------------------------- MODULE MCIdle -------------------------------
(***************************************************************************)
(* What IOManager::idle attends to: the timers and the descriptors that    *)
(* epoll reports, on small instances, one of them at a time.               *)
(***************************************************************************)
EXTENDS Timer, IOEvents

VARIABLE part

idleVars == <<part, timerVars, vars>>
InTimers == part = "timers"
InEvents == part = "events" /\ aborted = "no"

IdleInit == part \in {"timers", "events"} /\ TimerInit /\ Init

IdleNext ==
    /\ UNCHANGED part
    /\ \/ part = "timers" /\ TimerNext /\ UNCHANGED vars
       \/ part = "events" /\ Next /\ UNCHANGED timerVars

(* What TimerFairSpec and FairSpec assume, each while its part runs.       *)
TimersFair ==
    /\ WF_timerVars(InTimers /\ Tick) /\ WF_timerVars(InTimers /\ timerTickle)
    /\ \A t \in Timers : WF_timerVars(InTimers /\ addTimer(t))
    /\ \A th \in IdleThreads : WF_timerVars(InTimers /\ IdleStep(th))

EventsFair ==
    \A th \in Threads : WF_vars(InEvents /\ EpollWait(th)) /\ WF_vars(InEvents /\ Handle(th))

IdleSpec == IdleInit /\ [][IdleNext]_idleVars /\ TimersFair /\ EventsFair
=============================================================================
