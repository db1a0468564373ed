------------------------------- MODULE MCHook -------------------------------
(***************************************************************************)
(* Fibers and who resumes them, on small instances: a Scheduler with two   *)
(* workers and the caller's thread, or hooked calls that wait for a        *)
(* descriptor; one of the two at a time.                                   *)
(***************************************************************************)
EXTENDS Scheduler, HookIO

VARIABLE part

partVars == <<part, vars, hookVars>>
InPool(A) == part = "scheduler" /\ A
Hook(A)   == part = "hook" /\ Step(A)

(* Calls nobody makes any more are the end of them.                        *)
HookStopped == part = "hook" /\ UNCHANGED <<vars, hookVars>>

(* On several threads what HookIO says takes the discipline that the owner *)
(* closes.                                                                 *)
FiberInit ==
    /\ part \in {"scheduler", "hook"}
    /\ Init
    /\ HookInit /\ (oneThread \/ ownerCloses)
    /\ part # "hook" => kind = "io" /\ oneThread /\ ownerCloses

FiberNext ==
    /\ UNCHANGED part
    /\ \/ part = "scheduler" /\ Next /\ UNCHANGED hookVars
       \/ part = "hook" /\ HookNext /\ UNCHANGED vars
       \/ HookStopped

(* Fairness of Scheduler, and HookFairSpec of HookIO.                      *)
PoolFair ==
    /\ \A th \in Threads :
        /\ WF_vars(InPool(RunLoop(th)))
        /\ WF_vars(InPool(Yield(th))) /\ WF_vars(InPool(Finish(th)))
    /\ WF_vars(InPool(StopStep))
HookFair ==
    /\ WF_hookVars(Hook(IdleReport)) /\ WF_hookVars(Hook(CloseStep))
    /\ \A c \in Calls :
        /\ SF_hookVars(Hook(CallStep(c)))
        /\ SF_hookVars(Hook(Expire(c))) /\ SF_hookVars(Hook(Callback(c)))
        /\ WF_hookVars(Hook(Cancel(c)))

FiberSpec == FiberInit /\ [][FiberNext]_partVars /\ PoolFair /\ HookFair
=============================================================================
