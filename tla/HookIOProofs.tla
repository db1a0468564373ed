---------------------------- MODULE HookIOProofs ----------------------------
(***************************************************************************)
(* Proofs that a hooked call leaves no registration behind it, and that a  *)
(* connect() reports no connection that has not been made, for any number  *)
(* of fibers that make calls.                                              *)
(***************************************************************************)
EXTENDS HookIO, TLAPS

(***************************************************************************)
(* The inductive invariant                                                 *)
(***************************************************************************)
HookTypes ==
    /\ HookTypeOK
    /\ kind \in {"io", "connect"} /\ oneThread \in BOOLEAN /\ ownerCloses \in BOOLEAN
    /\ open \in BOOLEAN /\ level \in BOOLEAN /\ watched \in BOOLEAN /\ rdy \in BOOLEAN
    /\ owner \in [Calls -> Nat]
    /\ result \in [Calls -> {"none", "done", "error", "timeout", "early"}]
    /\ closer \in {"out", "del", "close"}

(* A timer, or its callback, belongs to a call that has not returned.      *)
CallTimers == \A c \in timerSet \cup listed : stage[c] # "out"

(* Nobody begins to wait between the steps of close(): on one thread       *)
(* nobody else runs, and a descriptor that its user closes has no user.    *)
ClosingInv ==
    closer # "out" =>
        /\ oneThread => waiting = NoCall
        /\ ownerCloses => \A c \in Calls : stage[c] = "out"

(* A descriptor closed by its user only is open during a call, and is the  *)
(* one the call was made for; there is one call at a time.                 *)
OwnerInv ==
    ownerCloses =>
        \A c \in Calls : stage[c] # "out" =>
            /\ open /\ owner[c] = conn
            /\ \A d \in Calls : stage[d] # "out" => c = d

(* What epoll is about to report has happened; a connection that is made   *)
(* stays so until the descriptor is closed.                                *)
LevelInv ==
    /\ rdy => open
    /\ kind = "connect" /\ rdy => level

(* A fiber is woken by its own timer, or because its call would succeed.   *)
WokenInv ==
    oneThread /\ ownerCloses =>
        /\ \A c \in cancelling : c \in expired /\ stage[c] # "out"
        /\ kind = "connect" => \A c \in Calls : stage[c] = "woken" /\ c \notin expired => level

HookIInv ==
    /\ HookTypes /\ WaiterWatched /\ AddAssert /\ NoFalseConnect
    /\ CallTimers /\ ClosingInv /\ OwnerInv /\ LevelInv /\ WokenInv

-----------------------------------------------------------------------------
(***************************************************************************)
(* The steps                                                               *)
(***************************************************************************)
CallAction(c) == Call(c) \/ Try(c) \/ ArmTimer(c) \/ Add(c) \/ Resume(c)
TimerAction(c) == Expire(c) \/ Callback(c) \/ Cancel(c)
CloseAction == CloseCancel \/ CloseDel \/ CloseSys \/ NewSocket

LEMMA HookCases ==
    ASSUME [HookNext]_hookVars
    PROVE  \/ ~ asserted /\ UNCHANGED deployment
              /\ (Arrive \/ IdleReport \/ CloseAction \/ \E c \in Calls : CallAction(c) \/ TimerAction(c))
           \/ UNCHANGED hookVars
BY DEF HookNext, Step, HookSteps, CallStep, TimerStep, CloseStep, CallAction, TimerAction, CloseAction

(* The registered call is woken, or nobody is.                             *)
LEMMA TriggerFacts ==
    ASSUME HookTypes, Wake
    PROVE  /\ waiting' = NoCall /\ stage' \in [Calls -> {"out", "try", "arm", "add", "wait", "woken"}]
           /\ \A c \in Calls : stage'[c] = IF c = waiting THEN "woken" ELSE stage[c]
BY HookAssumption DEF HookTypes, HookTypeOK, Wake

LEMMA CancelFacts ==
    ASSUME HookTypes, CancelWait
    PROVE  /\ \/ UNCHANGED <<epollVars, stage>> /\ (waiting = NoCall \/ ~ watched)
              \/ /\ waiting # NoCall /\ watched /\ Wake /\ watched' = FALSE /\ rdy' = FALSE
           /\ stage' \in [Calls -> {"out", "try", "arm", "add", "wait", "woken"}]
           /\ waiting' \in {waiting, NoCall}
           /\ watched' \in BOOLEAN /\ rdy' \in BOOLEAN /\ (rdy' => rdy)
BY TriggerFacts DEF CancelWait, epollVars, HookTypes, HookTypeOK

LEMMA HookTypesStep == ASSUME HookIInv, [HookNext]_hookVars PROVE HookTypes' /\ CallTimers'
<1> USE DEF HookIInv, HookTypes, HookTypeOK, CallTimers, deployment, socketVars, epollVars, timeoutVars, callVars
<1>1. CASE UNCHANGED hookVars
  BY <1>1 DEF hookVars
<1>2. ASSUME UNCHANGED deployment, Arrive PROVE HookTypes' /\ CallTimers'
  BY <1>2 DEF Arrive
<1>3. ASSUME UNCHANGED deployment, IdleReport PROVE HookTypes' /\ CallTimers'
  <2>1. UNCHANGED <<timerSet, listed>> /\ \A c \in Calls : stage'[c] # "out" \/ stage'[c] = stage[c]
    BY <1>3, TriggerFacts DEF IdleReport
  <2> QED
    BY <1>3, <2>1, TriggerFacts, HookAssumption DEF IdleReport
<1>4. ASSUME UNCHANGED deployment, CloseAction PROVE HookTypes' /\ CallTimers'
  <2>1. CASE CloseCancel
    <3>1. CancelWait /\ UNCHANGED <<socketVars, timeoutVars, owner, result, asserted>> /\ closer' = "del"
      BY <2>1 DEF CloseCancel
    <3>2. \A c \in Calls : stage'[c] = stage[c] \/ stage'[c] = "woken"
      BY <3>1, CancelFacts, TriggerFacts
    <3> QED
      BY <1>4, <3>1, <3>2, CancelFacts, HookAssumption
  <2>2. CASE CloseDel \/ CloseSys
    BY <1>4, <2>2 DEF CloseDel, CloseSys
  <2>3. CASE NewSocket
    <3>1. conn' \in 1 .. MaxConn
      BY <2>3, HookAssumption DEF NewSocket
    <3> QED
      BY <1>4, <2>3, <3>1 DEF NewSocket
  <2> QED
    BY <1>4, <2>1, <2>2, <2>3 DEF CloseAction
<1>5. ASSUME UNCHANGED deployment, NEW c \in Calls, CallAction(c) PROVE HookTypes' /\ CallTimers'
  <2>1. CASE Call(c)
    BY <1>5, <2>1, HookAssumption DEF Call
  <2>2. CASE Try(c)
    BY <1>5, <2>2, HookAssumption DEF Try, Return
  <2>3. CASE ArmTimer(c)
    BY <1>5, <2>3, HookAssumption DEF ArmTimer
  <2>4. CASE Add(c)
    BY <1>5, <2>4, HookAssumption DEF Add, Return
  <2>5. CASE Resume(c)
    <3>1. Connected \in {"error", "done", "early"}
      BY DEF Connected
    <3> QED
      BY <1>5, <2>5, <3>1, HookAssumption DEF Resume, Return
  <2> QED
    BY <1>5, <2>1, <2>2, <2>3, <2>4, <2>5 DEF CallAction
<1>6. ASSUME UNCHANGED deployment, NEW c \in Calls, TimerAction(c) PROVE HookTypes' /\ CallTimers'
  <2>1. CASE Expire(c)
    BY <1>6, <2>1 DEF Expire
  <2>2. CASE Callback(c)
    BY <1>6, <2>2 DEF Callback
  <2>3. CASE Cancel(c)
    <3>1. CancelWait /\ UNCHANGED <<socketVars, timerSet, listed, expired, owner, result, closer>>
          /\ cancelling' \subseteq cancelling
      BY <2>3 DEF Cancel
    <3>2. \A d \in Calls : stage'[d] = stage[d] \/ stage'[d] = "woken"
      BY <3>1, CancelFacts, TriggerFacts
    <3> QED
      BY <1>6, <3>1, <3>2, CancelFacts, HookAssumption
  <2> QED
    BY <1>6, <2>1, <2>2, <2>3 DEF TimerAction
<1> QED
  BY <1>1, <1>2, <1>3, <1>4, <1>5, <1>6, HookCases

(* Who waits is registered and watched, and close() leaves nobody behind.  *)
LEMMA WaitStep ==
    ASSUME HookIInv, [HookNext]_hookVars
    PROVE  WaiterWatched' /\ ClosingInv' /\ OwnerInv'
<1> DEFINE Kept == WaiterWatched' /\ ClosingInv' /\ OwnerInv'
<1> USE DEF HookIInv, HookTypes, HookTypeOK, WaiterWatched, ClosingInv, OwnerInv, deployment, socketVars,
            epollVars, timeoutVars, callVars
<1>1. CASE UNCHANGED hookVars
  BY <1>1 DEF hookVars
<1>2. ASSUME UNCHANGED deployment, Arrive PROVE Kept
  BY <1>2 DEF Arrive
<1>3. ASSUME UNCHANGED deployment, IdleReport PROVE Kept
  <2>1. /\ waiting \in Calls /\ waiting' = NoCall
        /\ \A c \in Calls : stage'[c] = IF c = waiting THEN "woken" ELSE stage[c]
    BY <1>3, TriggerFacts DEF IdleReport
  <2>2. UNCHANGED <<socketVars, owner, closer>>
    BY <1>3 DEF IdleReport
  <2>3. MayRun
    BY <1>3 DEF IdleReport
  <2>4. WaiterWatched'
    BY <1>3, <2>1, <2>2, HookAssumption
  <2>5. ClosingInv'
    BY <1>3, <2>1, <2>2
  <2>6. OwnerInv'
    <3>1. ownerCloses => stage[waiting] = "wait"
      BY <2>1
    <3> QED
      BY <1>3, <2>1, <2>2, <3>1
  <2> QED
    BY <2>4, <2>5, <2>6
<1>4. ASSUME UNCHANGED deployment, CloseAction PROVE Kept
  <2>1. CASE CloseCancel
    <3>1. /\ CancelWait /\ UNCHANGED <<socketVars, owner>> /\ closer' = "del" /\ open
          /\ ownerCloses => \A c \in Calls : stage[c] = "out"
      BY <2>1 DEF CloseCancel
    <3>2. ASSUME oneThread \/ ownerCloses
          PROVE  /\ waiting' = NoCall
                 /\ \A c \in Calls : stage'[c] = IF c = waiting THEN "woken" ELSE stage[c]
      BY <3>1, <3>2, CancelFacts, TriggerFacts, HookAssumption
    <3>3. ownerCloses => waiting = NoCall
      BY <3>1
    <3>4. WaiterWatched'
      BY <1>4, <3>1, <3>2, HookAssumption
    <3>5. ClosingInv' /\ OwnerInv'
      BY <1>4, <3>1, <3>2, <3>3, HookAssumption
    <3> QED
      BY <3>4, <3>5
  <2>2. CASE CloseDel
    BY <1>4, <2>2 DEF CloseDel
  <2>3. CASE CloseSys
    <3>1. ownerCloses => waiting = NoCall
      BY <2>3 DEF CloseSys
    <3> QED
      BY <1>4, <2>3, <3>1 DEF CloseSys
  <2>4. CASE NewSocket
    <3>1. ownerCloses => \A c \in Calls : stage[c] = "out"
      BY <2>4 DEF NewSocket
    <3> QED
      BY <1>4, <2>4, <3>1 DEF NewSocket
  <2> QED
    BY <1>4, <2>1, <2>2, <2>3, <2>4 DEF CloseAction
<1>5. ASSUME UNCHANGED deployment, NEW c \in Calls, CallAction(c) PROVE Kept
  <2>1. CASE Call(c)
    <3>1. /\ stage[c] = "out" /\ open /\ closer = "out" /\ \A d \in Calls : stage[d] # "out" => owner[d] # conn
          /\ stage' = [stage EXCEPT ![c] = "try"] /\ owner' = [owner EXCEPT ![c] = conn]
          /\ UNCHANGED <<socketVars, epollVars, closer>>
      BY <2>1 DEF Call
    <3>2. waiting # c \/ ~ (oneThread \/ ownerCloses)
      BY <3>1
    <3> QED
      BY <1>5, <3>1, <3>2
  <2>2. CASE Try(c) \/ ArmTimer(c) \/ Resume(c)
    <3>1. /\ stage[c] \in {"try", "arm", "woken"} /\ \E new \in {"out", "arm", "add", "try"} : stage' = [stage EXCEPT ![c] = new]
          /\ UNCHANGED <<owner, conn, open, epollVars, closer>>
      BY <2>2 DEF Try, ArmTimer, Resume, Return
    <3> QED
      BY <1>5, <3>1
  <2>3. CASE Add(c)
    <3>1. /\ stage[c] = "add" /\ UNCHANGED <<owner, conn, open, closer>>
          /\ oneThread => closer = "out"
      BY <2>3 DEF Add, NobodyElse, Return
    <3>2. CASE stage' = stage
      BY <1>5, <2>3, <3>1, <3>2 DEF Add, Return
    <3>3. CASE stage' = [stage EXCEPT ![c] = "out"] /\ UNCHANGED epollVars
      BY <1>5, <3>1, <3>3
    <3>4. CASE stage' = [stage EXCEPT ![c] = "wait"] /\ waiting = NoCall /\ waiting' = c /\ watched' = TRUE /\ open
      <4>1. ClosingInv'
        BY <1>5, <3>1, <3>4
      <4>2. WaiterWatched'
        BY <1>5, <3>1, <3>4, HookAssumption
      <4>3. OwnerInv'
        BY <1>5, <3>1, <3>4
      <4> QED
        BY <4>1, <4>2, <4>3
    <3> QED
      BY <2>3, <3>2, <3>3, <3>4 DEF Add, Return
  <2> QED
    BY <1>5, <2>1, <2>2, <2>3 DEF CallAction
<1>6. ASSUME UNCHANGED deployment, NEW c \in Calls, TimerAction(c) PROVE Kept
  <2>1. CASE Expire(c) \/ Callback(c)
    BY <1>6, <2>1 DEF Expire, Callback
  <2>2. CASE Cancel(c)
    <3>1. CancelWait /\ UNCHANGED <<socketVars, owner, closer>>
      BY <2>2 DEF Cancel
    <3>2. CASE UNCHANGED <<epollVars, stage>>
      BY <1>6, <3>1, <3>2
    <3>3. CASE waiting # NoCall /\ Wake
      <4>1. /\ waiting \in Calls /\ waiting' = NoCall
            /\ \A d \in Calls : stage'[d] = IF d = waiting THEN "woken" ELSE stage[d]
        BY <3>3, TriggerFacts
      <4>2. oneThread \/ ownerCloses => stage[waiting] = "wait"
        BY <4>1
      <4>3. WaiterWatched'
        BY <1>6, <3>1, <4>1, HookAssumption
      <4>4. ClosingInv' /\ OwnerInv'
        BY <1>6, <3>1, <4>1, <4>2
      <4> QED
        BY <4>3, <4>4
    <3> QED
      BY <3>1, <3>2, <3>3, CancelFacts
  <2> QED
    BY <1>6, <2>1, <2>2 DEF TimerAction
<1> QED
  BY <1>1, <1>2, <1>3, <1>4, <1>5, <1>6, HookCases

(* Under the discipline of the callers add() finds nobody registered.      *)
LEMMA AssertStep == ASSUME HookIInv, [HookNext]_hookVars PROVE AddAssert'
<1>1. ASSUME NEW c \in Calls, Add(c), ownerCloses PROVE waiting = NoCall
  <2>1. stage[c] = "add"
    BY <1>1 DEF Add
  <2>2. ASSUME waiting # NoCall PROVE FALSE
    <3>1. waiting \in Calls /\ stage[waiting] = "wait"
      BY <1>1, <2>2 DEF HookIInv, HookTypes, HookTypeOK, WaiterWatched
    <3> QED
      BY <1>1, <2>1, <3>1 DEF HookIInv, OwnerInv
  <2> QED
    BY <2>2
<1>2. CASE \E c \in Calls : Add(c) /\ UNCHANGED deployment
  <2>1. PICK c \in Calls : Add(c) /\ UNCHANGED deployment
    BY <1>2
  <2>2. ownerCloses => asserted' = asserted
    BY <1>1, <2>1 DEF Add
  <2> QED
    BY <2>1, <2>2 DEF AddAssert, HookIInv, deployment
<1>3. ASSUME ~ \E c \in Calls : Add(c) /\ UNCHANGED deployment PROVE asserted' = asserted /\ ownerCloses' = ownerCloses
  BY <1>3, HookCases DEF hookVars, deployment, Arrive, IdleReport, CloseAction, CloseCancel, CloseDel, CloseSys, NewSocket,
        CallAction, Call, Try, ArmTimer, Resume, TimerAction, Expire, Callback, Cancel
<1> QED
  BY <1>2, <1>3 DEF AddAssert, HookIInv

LEMMA LevelStep == ASSUME HookIInv, [HookNext]_hookVars PROVE LevelInv'
<1> USE DEF HookIInv, HookTypes, LevelInv, deployment, socketVars, epollVars
<1>1. CASE UNCHANGED hookVars
  BY <1>1 DEF hookVars
<1>2. ASSUME UNCHANGED deployment, Arrive \/ IdleReport PROVE LevelInv'
  BY <1>2 DEF Arrive, IdleReport
<1>3. ASSUME UNCHANGED deployment, CloseAction PROVE LevelInv'
  <2>1. CASE CloseCancel
    BY <1>3, <2>1, CancelFacts DEF CloseCancel
  <2>2. CASE CloseDel \/ CloseSys \/ NewSocket
    BY <1>3, <2>2 DEF CloseDel, CloseSys, NewSocket
  <2> QED
    BY <1>3, <2>1, <2>2 DEF CloseAction
<1>4. ASSUME UNCHANGED deployment, NEW c \in Calls, CallAction(c) PROVE LevelInv'
  <2>1. CASE Call(c) \/ ArmTimer(c) \/ Resume(c)
    BY <1>4, <2>1 DEF Call, ArmTimer, Resume
  <2>2. CASE Try(c)
    BY <1>4, <2>2 DEF Try
  <2>3. CASE Add(c)
    BY <1>4, <2>3 DEF Add
  <2> QED
    BY <1>4, <2>1, <2>2, <2>3 DEF CallAction
<1>5. ASSUME UNCHANGED deployment, NEW c \in Calls, TimerAction(c) PROVE LevelInv'
  <2>1. CASE Expire(c) \/ Callback(c)
    BY <1>5, <2>1 DEF Expire, Callback
  <2>2. CASE Cancel(c)
    BY <1>5, <2>2, CancelFacts DEF Cancel
  <2> QED
    BY <1>5, <2>1, <2>2 DEF TimerAction
<1> QED
  BY <1>1, <1>2, <1>3, <1>4, <1>5, HookCases

(* On one thread the callback of a timer and the cancel() it makes are not *)
(* parted, so that who is woken by it knows that it has expired.           *)
LEMMA WokenStep == ASSUME HookIInv, [HookNext]_hookVars PROVE WokenInv'
<1> SUFFICES ASSUME oneThread', ownerCloses', ~ UNCHANGED hookVars PROVE WokenInv'
  <2>1. CASE UNCHANGED hookVars
    BY <2>1 DEF HookIInv, WokenInv, hookVars, deployment, socketVars, timeoutVars, callVars
  <2>2. CASE ~ (oneThread' /\ ownerCloses')
    BY <2>2 DEF WokenInv
  <2> QED
    BY <2>1, <2>2
<1> DEFINE Expires == \A c \in cancelling : c \in expired /\ stage[c] # "out"
           Awake == kind = "connect" => \A c \in Calls : stage[c] = "woken" /\ c \notin expired => level
<1>0. UNCHANGED deployment /\ oneThread /\ ownerCloses
  BY HookCases DEF deployment
<1> USE <1>0 DEF HookIInv, HookTypes, HookTypeOK, deployment, socketVars, epollVars, timeoutVars, callVars
<1>a. Expires /\ Awake
  BY DEF WokenInv
<1>b. \A c \in Calls : stage[c] = "wait" <=> waiting = c
  BY DEF WaiterWatched
<1>c. cancelling \subseteq Calls
  BY HookAssumption
<1>1. ASSUME Arrive PROVE Expires' /\ Awake'
  BY <1>1, <1>a DEF Arrive
<1>2. ASSUME IdleReport PROVE Expires' /\ Awake'
  <2>1. /\ waiting \in Calls /\ \A c \in Calls : stage'[c] = IF c = waiting THEN "woken" ELSE stage[c]
        /\ UNCHANGED <<level, expired, cancelling>> /\ (kind = "connect" => level)
    BY <1>2, TriggerFacts DEF IdleReport, LevelInv
  <2> QED
    BY <1>a, <1>c, <2>1
<1>3. ASSUME CloseAction PROVE Expires' /\ Awake'
  <2>1. \A c \in Calls : stage[c] = "out"
    BY <1>3 DEF CloseAction, CloseCancel, CloseDel, CloseSys, NewSocket, ClosingInv, OwnerInv
  <2>2. stage' = stage /\ UNCHANGED <<expired, cancelling>>
    <3>1. CASE CloseCancel
      BY <1>b, <2>1, <3>1, CancelFacts DEF CloseCancel
    <3>2. CASE ~ CloseCancel
      BY <1>3, <3>2 DEF CloseAction, CloseDel, CloseSys, NewSocket
    <3> QED
      BY <3>1, <3>2 DEF CloseCancel
  <2> QED
    BY <1>a, <2>1, <2>2
<1>4. ASSUME NEW c \in Calls, CallAction(c) PROVE Expires' /\ Awake'
  <2>1. CASE Call(c)
    <3>1. cancelling = {}
      BY <2>1 DEF Call, MayRun, AllYielded
    <3> QED
      BY <1>a, <2>1, <3>1 DEF Call
  <2>2. CASE Try(c)
    <3>1. cancelling = {} /\ (kind = "connect" /\ level => level')
      BY <2>2 DEF Try, NobodyElse
    <3> QED
      BY <1>a, <2>2, <3>1 DEF Try, Return
  <2>3. CASE ArmTimer(c)
    BY <1>a, <2>3 DEF ArmTimer
  <2>4. CASE Add(c)
    <3>1. cancelling = {}
      BY <2>4 DEF Add, NobodyElse
    <3> QED
      BY <1>a, <2>4, <3>1 DEF Add, Return
  <2>5. CASE Resume(c)
    <3>1. cancelling = {}
      BY <2>5 DEF Resume, MayRun, AllYielded
    <3> QED
      BY <1>a, <2>5, <3>1 DEF Resume, Return
  <2> QED
    BY <1>4, <2>1, <2>2, <2>3, <2>4, <2>5 DEF CallAction
<1>5. ASSUME NEW c \in Calls, TimerAction(c) PROVE Expires' /\ Awake'
  <2>1. CASE Expire(c)
    BY <1>a, <2>1 DEF Expire
  <2>2. CASE Callback(c)
    BY <1>a, <2>2 DEF Callback, CallTimers
  <2>3. CASE Cancel(c)
    <3>1. /\ c \in cancelling /\ cancelling' = cancelling \ {c} /\ CancelWait
          /\ UNCHANGED <<level, expired>>
      BY <2>3 DEF Cancel
    <3>2. CASE UNCHANGED <<epollVars, stage>>
      BY <1>a, <3>1, <3>2
    <3>3. CASE waiting # NoCall /\ Wake
      <4>1. /\ waiting \in Calls
            /\ \A d \in Calls : stage'[d] = IF d = waiting THEN "woken" ELSE stage[d]
        BY <3>3, TriggerFacts
      <4>2. waiting = c
        BY <1>a, <1>b, <3>1, <4>1 DEF OwnerInv
      <4> QED
        BY <1>a, <1>c, <3>1, <4>1, <4>2
    <3> QED
      BY <3>1, <3>2, <3>3, CancelFacts
  <2> QED
    BY <1>5, <2>1, <2>2, <2>3 DEF TimerAction
<1> QED
  BY <1>1, <1>2, <1>3, <1>4, <1>5, HookCases DEF WokenInv

LEMMA ConnectStep == ASSUME HookIInv, [HookNext]_hookVars PROVE NoFalseConnect'
<1>1. CASE \E c \in Calls : Resume(c) /\ UNCHANGED deployment
  <2>1. PICK c \in Calls : Resume(c) /\ UNCHANGED deployment
    BY <1>1
  <2> SUFFICES ASSUME oneThread, ownerCloses PROVE \A d \in Calls : result'[d] # "early"
    BY <2>1 DEF NoFalseConnect, deployment
  <2>2. \A d \in Calls : result[d] # "early"
    BY DEF HookIInv, NoFalseConnect
  <2>3. c \notin expired /\ kind = "connect" => Connected # "early"
    BY <2>1 DEF Resume, Connected, HookIInv, WokenInv
  <2>4. result' = result \/ \E r \in {"timeout", "done", "error"} : result' = [result EXCEPT ![c] = r]
    BY <2>1, <2>3 DEF Resume, Return, Connected
  <2> QED
    BY <2>2, <2>4 DEF HookIInv, HookTypes
<1>2. ASSUME ~ \E c \in Calls : Resume(c) /\ UNCHANGED deployment
      PROVE  /\ UNCHANGED <<oneThread, ownerCloses>>
             /\ \A c \in Calls : result'[c] = "early" => result[c] = "early"
  <2>1. CASE UNCHANGED hookVars
    BY <2>1 DEF hookVars, deployment, callVars
  <2>2. UNCHANGED hookVars \/ UNCHANGED deployment
    BY HookCases
  <2>3. ASSUME Arrive \/ IdleReport \/ CloseAction PROVE result' = result
    BY <2>3 DEF Arrive, IdleReport, CloseAction, CloseCancel, CloseDel, CloseSys, NewSocket, callVars
  <2>4. ASSUME NEW c \in Calls, TimerAction(c) PROVE result' = result
    BY <2>4 DEF TimerAction, Expire, Callback, Cancel, callVars
  <2>5. ASSUME NEW c \in Calls, CallAction(c), ~ Resume(c)
        PROVE  \/ result' = result
               \/ \E r \in {"none", "done", "error"} : result' = [result EXCEPT ![c] = r]
    BY <2>5 DEF CallAction, Call, Try, ArmTimer, Add, Return, callVars
  <2>6. ASSUME NEW c \in Calls, NEW r \in {"none", "done", "error"}, result' = [result EXCEPT ![c] = r]
        PROVE  \A d \in Calls : result'[d] = "early" => result[d] = "early"
    BY <2>6 DEF HookIInv, HookTypes
  <2> QED
    BY <1>2, <2>1, <2>2, <2>3, <2>4, <2>5, <2>6, HookCases DEF hookVars, deployment
<1> QED
  BY <1>1, <1>2 DEF HookIInv, NoFalseConnect

-----------------------------------------------------------------------------
LEMMA HookBegins == HookInit => HookIInv
<1> SUFFICES ASSUME HookInit PROVE HookIInv
  OBVIOUS
<1>1. 1 \in 1 .. MaxConn
  BY HookAssumption
<1>2. HookTypes
  BY <1>1 DEF HookInit, HookTypes, HookTypeOK
<1>3. WaiterWatched /\ AddAssert /\ NoFalseConnect
  BY HookAssumption DEF HookInit, WaiterWatched, AddAssert, NoFalseConnect
<1>4. CallTimers /\ ClosingInv /\ OwnerInv /\ LevelInv /\ WokenInv
  BY DEF HookInit, CallTimers, ClosingInv, OwnerInv, LevelInv, WokenInv
<1> QED
  BY <1>2, <1>3, <1>4 DEF HookIInv

LEMMA HookStep == HookIInv /\ [HookNext]_hookVars => HookIInv'
BY HookTypesStep, WaitStep, AssertStep, LevelStep, WokenStep, ConnectStep DEF HookIInv

(* Every reachable state of the hooked calls satisfies the invariant.      *)
THEOREM HookInvariance == HookSpec => []HookIInv
BY HookBegins, HookStep, PTL DEF HookSpec

(* A call that waits is the one that is registered and watched, and no     *)
(* registration is left for the next descriptor of the number: the         *)
(* assertion of IOManager::add holds on any number of threads if every     *)
(* descriptor is closed by the fiber that uses it.                         *)
THEOREM NothingLeft == HookSpec => []NothingLeftBehind
<1>1. HookIInv => NothingLeftBehind
  BY DEF HookIInv, HookTypes, NothingLeftBehind, HookInv
<1> QED
  BY <1>1, HookInvariance, PTL

(* On one thread, connect() reports success only for a connection that has *)
(* been made, whenever timers of earlier calls go off.                     *)
THEOREM ConnectTruthful == HookSpec => []NoFalseConnect
<1>1. HookIInv => NoFalseConnect
  BY DEF HookIInv
<1> QED
  BY <1>1, HookInvariance, PTL
=============================================================================
