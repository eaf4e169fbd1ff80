-------------------------- MODULE NodeUplinkProofs --------------------------
(***************************************************************************)
(* Theorems about NodeUplink for every size of the link table.             *)
(*                                                                         *)
(* The argument: STATE_UPLINK_STATUS is set by the timer task only, so a   *)
(* read-modify-write of a callback can bring it back but not lose it       *)
(* (CheckInv); a search is over before there is a parent to send FREEZE    *)
(* (SearchInv); and while no FREEZE has met a callback in progress, the    *)
(* loaded word of a callback agrees with node.flags on STATE_FROZEN        *)
(* (FreezeInv).                                                            *)
(***************************************************************************)
EXTENDS NodeUplink, TLAPS

\* The callback has loaded node.flags and not yet stored it.
Holding == timer.pc \in {"joinStore", "locateStore", "checkStore", "pendingStore"}

\* The status check: flag, timer and history.
CheckInv ==
  /\ "status" \in timers =>
       "UPLINK_STATUS" \in flags \/ timer.pc \in {"checkLoad", "checkStore"}
  /\ Holding /\ "UPLINK_STATUS" \in flags => "UPLINK_STATUS" \in timer.reg
  /\ Checking \/ "status" \in timers \/ At("blackout") => ~ heard

\* The search for a parent: one timer or callback of it at a time, none once
\* the up-stream entry is used.
SearchPc == {"joinStore", "joinSend", "locateStore", "locatePick"}
SearchInv ==
  /\ ~ ("join" \in timers /\ "locate" \in timers)
  /\ timer.pc \in SearchPc => timers \cap {"join", "locate"} = {} /\ ~ usedUp
  /\ usedUp => timers \cap {"join", "locate"} = {}
  /\ idUp => usedUp
  /\ At("formId") => usedUp /\ ~ idUp

\* FREEZE, as long as it has met no callback.
FreezeInv ==
  /\ FreezeIsExact
  /\ ~ raced =>
       /\ Holding => ("FROZEN" \in timer.reg <=> "FROZEN" \in flags)
       /\ "FROZEN" \in flags => idUp /\ ~ Checking /\ ~ At("formTimer")

IInv == TypeOK /\ CheckInv /\ SearchInv /\ ReservedSlot /\ FreezeInv

USE DEF IInv, CheckInv, SearchInv, FreezeInv, ReservedSlot, FreezeIsExact, TypeOK,
        Holding, Checking, SearchPc, At, TimerPc, Flag, Timer, linkVars, timerVars

LEMMA ResetStep == ASSUME IInv, Reset PROVE IInv'
  BY DEF Reset, IdleTimer

LEMMA WifiStep == ASSUME IInv, WifiTask PROVE IInv'
<1>1. ASSUME NEW refused \in BOOLEAN, Propose(refused) PROVE IInv'
  BY <1>1 DEF Propose, WifiReady, FreeDownlinks
<1>2. ASSUME NEW x \in Slot, Confirm(x) PROVE IInv'
  <2>1. TypeOK'
    <3>1. /\ timers' = timers \ {"pending"} /\ flags' = flags \ {"PENDING_LINK"}
          /\ kids' = kids \cup {x} /\ decay' = decay \cup {x} /\ proposal' = FALSE
          /\ UNCHANGED <<usedUp, idUp, responded, check, wifi, timer, sender, heard, raced>>
      BY <1>2 DEF Confirm
    <3>2. timers' \subseteq Timer /\ flags' \subseteq Flag
      BY <3>1
    <3>3. kids' \subseteq Slot /\ decay' \subseteq kids'
      BY <3>1
    <3>4. /\ proposal' = FALSE /\ usedUp' = usedUp /\ idUp' = idUp /\ responded' = responded
          /\ check' = check /\ wifi' = wifi /\ timer' = timer /\ sender' = sender
          /\ heard' = heard /\ raced' = raced
      BY <3>1
    <3>5. TypeOK
      OBVIOUS
    <3> HIDE DEF IInv, CheckInv, SearchInv, FreezeInv, ReservedSlot, Slot, Timer, TimerPc, Flag
    <3> QED
      BY <3>2, <3>3, <3>4, <3>5
  <2>2. CheckInv'
    BY <1>2 DEF Confirm, WifiReady
  <2>3. SearchInv'
    BY <1>2 DEF Confirm, WifiReady
  <2>4. ReservedSlot'
    BY <1>2 DEF Confirm, WifiReady
  <2>5. FreezeInv'
    BY <1>2 DEF Confirm, WifiReady
  <2> QED
    BY <2>1, <2>2, <2>3, <2>4, <2>5
<1>3. ASSUME NEW x \in Slot, ChildChecks(x) PROVE IInv'
  BY <1>3 DEF ChildChecks, WifiReady
<1>4. CASE NoteProposal
  BY <1>4 DEF NoteProposal, WifiReady
<1>5. CASE ParentAnswers
  <2>1. TypeOK'
    BY <1>5 DEF ParentAnswers, WifiReady
  <2>2. CheckInv'
    BY <1>5 DEF ParentAnswers, WifiReady
  <2>3. SearchInv' /\ ReservedSlot'
    BY <1>5 DEF ParentAnswers, WifiReady
  <2>4. FreezeInv'
    BY <1>5 DEF ParentAnswers, WifiReady
  <2> QED
    BY <2>1, <2>2, <2>3, <2>4
<1>6. CASE ObeyBlackout
  BY <1>6 DEF ObeyBlackout, WifiReady
<1>7. CASE Freeze
  <2>1. TypeOK'
    BY <1>7 DEF Freeze, WifiReady, NoteRace, Stopped
  <2>2. CheckInv'
    BY <1>7 DEF Freeze, WifiReady, NoteRace, Stopped
  <2>3. SearchInv' /\ ReservedSlot'
    BY <1>7 DEF Freeze, WifiReady, NoteRace, Stopped
  <2>4. FreezeInv'
    BY <1>7 DEF Freeze, WifiReady, NoteRace, Stopped
  <2> QED
    BY <2>1, <2>2, <2>3, <2>4
<1>8. CASE Unfreeze
  <2>1. TypeOK'
    BY <1>8 DEF Unfreeze, WifiReady, NoteRace, Restarted
  <2>2. CheckInv' /\ SearchInv' /\ ReservedSlot'
    BY <1>8 DEF Unfreeze, WifiReady, NoteRace
  <2>3. ASSUME ~ raced' PROVE decay' = kids /\ timers' = timers \cup {"up"}
    <3>1. decay = {} /\ "up" \notin timers
      BY <1>8, <2>3 DEF Unfreeze, NoteRace
    <3>2. Restarted(kids, decay) = kids
      BY <3>1 DEF Restarted
    <3> QED
      BY <1>8, <3>1, <3>2 DEF Unfreeze
  <2>4. FreezeInv'
    BY <1>8, <2>3 DEF Unfreeze, WifiReady, NoteRace
  <2> QED
    BY <2>1, <2>2, <2>4
<1> QED
  BY <1>1, <1>2, <1>3, <1>4, <1>5, <1>6, <1>7, <1>8 DEF WifiTask

LEMMA TimerStep == ASSUME IInv, TimerTask PROVE IInv'
<1>1. CASE JoinFires
  BY <1>1 DEF JoinFires, FiresLoad
<1>2. CASE JoinStore
  BY <1>2 DEF JoinStore, Store, Goto
<1>3. CASE JoinSend
  <2>1. TypeOK'
    BY <1>3 DEF JoinSend, IdleTimer
  <2>2. CheckInv'
    BY <1>3 DEF JoinSend, IdleTimer
  <2>3. SearchInv' /\ ReservedSlot'
    BY <1>3 DEF JoinSend, IdleTimer
  <2>4. FreezeInv'
    BY <1>3 DEF JoinSend, IdleTimer
  <2> QED
    BY <2>1, <2>2, <2>3, <2>4
<1>4. CASE LocateFires
  BY <1>4 DEF LocateFires, FiresLoad
<1>5. CASE LocateStore
  BY <1>5 DEF LocateStore, Store, Goto
<1>6. CASE LocatePick
  <2>1. CASE responded
    BY <1>6, <2>1 DEF LocatePick, Goto
  <2>2. CASE ~ responded
    <3>1. /\ timer' = IdleTimer /\ timers' = timers \cup {"join"}
          /\ UNCHANGED <<usedUp, flags, idUp, kids, responded, proposal, decay, check,
                        wifi, sender, heard, raced>>
      BY <1>6, <2>2 DEF LocatePick
    <3>2. timer' = [pc |-> "idle", reg |-> {}] /\ timer.pc = "locatePick"
      BY <1>6, <3>1 DEF LocatePick, IdleTimer
    <3>3. TypeOK'
      BY <3>1, <3>2
    <3>4. CheckInv'
      BY <3>1, <3>2
    <3>5. SearchInv' /\ ReservedSlot'
      BY <3>1, <3>2
    <3>6. FreezeInv'
      BY <3>1, <3>2
    <3> QED
      BY <3>3, <3>4, <3>5, <3>6
  <2> QED
    BY <2>1, <2>2
<1>7. CASE FormId
  BY <1>7 DEF FormId, Goto
<1>8. CASE FormTimer
  <2>1. TypeOK'
    BY <1>8 DEF FormTimer, IdleTimer
  <2>2. CheckInv'
    BY <1>8 DEF FormTimer, IdleTimer
  <2>3. SearchInv' /\ ReservedSlot'
    BY <1>8 DEF FormTimer, IdleTimer
  <2>4. FreezeInv'
    BY <1>8 DEF FormTimer, IdleTimer
  <2> QED
    BY <2>1, <2>2, <2>3, <2>4
<1>9. CASE CheckFires
  BY <1>9 DEF CheckFires, Goto
<1>10. CASE CheckTimer
  BY <1>10 DEF CheckTimer, Goto
<1>11. CASE CheckLoad
  BY <1>11 DEF CheckLoad
<1>12. CASE CheckStore
  BY <1>12 DEF CheckStore, Store, Goto
<1>13. CASE CheckAgain
  <2>1. TypeOK'
    BY <1>13 DEF CheckAgain, Again, IdleTimer
  <2>2. CheckInv'
    BY <1>13 DEF CheckAgain, Again, IdleTimer
  <2>3. SearchInv' /\ ReservedSlot'
    BY <1>13 DEF CheckAgain, Again, IdleTimer
  <2>4. FreezeInv'
    BY <1>13 DEF CheckAgain, Again, IdleTimer
  <2> QED
    BY <2>1, <2>2, <2>3, <2>4
<1>14. CASE ParentLost
  BY <1>14 DEF ParentLost, Goto
<1>15. CASE PendingFires
  BY <1>15 DEF PendingFires, FiresLoad
<1>16. CASE PendingStore
  BY <1>16 DEF PendingStore, Store, Goto
<1>17. CASE PendingForget
  <2>1. TypeOK'
    BY <1>17 DEF PendingForget, IdleTimer
  <2>2. CheckInv'
    BY <1>17 DEF PendingForget, IdleTimer
  <2>3. SearchInv' /\ ReservedSlot'
    BY <1>17 DEF PendingForget, IdleTimer
  <2>4. FreezeInv'
    BY <1>17 DEF PendingForget, IdleTimer
  <2> QED
    BY <2>1, <2>2, <2>3, <2>4
<1>18. ASSUME NEW x \in Slot, DecayFires(x) PROVE IInv'
  BY <1>18 DEF DecayFires
<1> QED
  BY <1>1, <1>2, <1>3, <1>4, <1>5, <1>6, <1>7, <1>8, <1>9, <1>10, <1>11, <1>12,
     <1>13, <1>14, <1>15, <1>16, <1>17, <1>18 DEF TimerTask

LEMMA Step == IInv /\ [Next]_vars => IInv'
<1> SUFFICES ASSUME IInv, [Next]_vars PROVE IInv'
  OBVIOUS
<1>1. CASE UNCHANGED vars
  BY <1>1 DEF vars
<1>2. CASE Restart
  BY <1>2, ResetStep DEF Restart
<1>3. CASE TestUplink
  BY <1>3 DEF TestUplink
<1>4. CASE ReadUpId
  BY <1>4 DEF ReadUpId
<1>5. CASE SendUpAborts
  BY <1>5, ResetStep DEF SendUpAborts
<1> QED
  BY <1>1, <1>2, <1>3, <1>4, <1>5, WifiStep, TimerStep DEF Next, SendTask

LEMMA InitInv == Init => IInv
<1>1. Init => ReservedSlot
  BY DEF Init
<1>2. Init => TypeOK
  <2>1. Init => timer \in [pc : TimerPc, reg : SUBSET Flag]
    BY DEF Init, IdleTimer
  <2>2. Init => kids \subseteq Slot /\ decay \subseteq kids /\ timers \subseteq Timer
    BY DEF Init
  <2> QED
    BY <2>1, <2>2 DEF Init
<1>3. Init => CheckInv /\ SearchInv /\ FreezeInv
  BY DEF Init, IdleTimer
<1> QED
  BY <1>1, <1>2, <1>3

LEMMA ParentHeard == IInv => AnswerSaves
  BY DEF AnswerSaves

HIDE DEF IInv, CheckInv, SearchInv, FreezeInv, ReservedSlot, FreezeIsExact, TypeOK,
         Holding, Checking, SearchPc, At, TimerPc, Flag, Timer, linkVars, timerVars

\* Every access of the three tasks keeps what they rely on.
THEOREM Invariance == Spec => []IInv
  BY InitInv, Step, PTL DEF Spec

\* The variables keep their types; a decay timer that runs belongs to a used entry.
THEOREM TypeCorrect == Spec => []TypeOK
<1>1. IInv => TypeOK
  BY DEF IInv
<1> QED
  BY <1>1, Invariance, PTL

\* Once timer_cb_upstream has returned, an answer of the parent prevents the blackout,
\* whatever read-modify-write of node.flags it meets.
THEOREM AnswersSave == Spec => []AnswerSaves
  BY ParentHeard, Invariance, PTL

\* form_downlink finds a free entry for an open proposal in spite of lost flags.
THEOREM ProposalsKeepASlot == Spec => []ReservedSlot
<1>1. IInv => ReservedSlot
  BY DEF IInv
<1> QED
  BY <1>1, Invariance, PTL

\* A FREEZE that meets no callback stops and starts exactly the timers of the links.
THEOREM FreezesAreExact == Spec => []FreezeIsExact
<1>1. IInv => FreezeIsExact
  BY DEF IInv, FreezeInv
<1> QED
  BY <1>1, Invariance, PTL
=============================================================================
