-------------------------- MODULE NodeTasksProofs --------------------------
(***************************************************************************)
(* Theorems about NodeTasks, for any table size, queue capacity and        *)
(* neighbourhood.  The inductive invariant adds to TypeOK and EntryWatched *)
(* what the two tasks that write the table know in the middle of a handler *)
(* or callback (InHandler, InCallback); above all, that the usage word a   *)
(* callback is about to store back sets no bit that is not set.            *)
(***************************************************************************)
EXTENDS NodeTasks, WellFoundedInduction, TLAPS

InHandler ==
  /\ wifi.pc \in {"id", "mac"} => wifi.x \in Slot
  /\ wifi.pc = "propose" => wifi.n \in Child

InCallback ==
  /\ timer.pc \in {"peer", "load", "store", "id", "mac"} => timer.x \in Slot
  /\ timer.pc = "store" => timer.reg \subseteq usage

InCall == caller.pc = "id" => caller.i \in Slot

IInv == TypeOK /\ InHandler /\ InCallback /\ InCall /\ EntryWatched

-----------------------------------------------------------------------------

\* The first of some entries is one of them.
LEMMA FirstOfSlots ==
  ASSUME NEW S, S \subseteq Slot, S # {}
  PROVE  (CHOOSE i \in S : \A j \in S : i <= j) \in S
<1>1. S \subseteq Nat
  BY TableAssumption, SMT DEF Slot
<1>2. PICK i \in S : \A j \in S : <<j, i>> \notin OpToRel(<, Nat)
  BY <1>1, NatLessThanWellFounded, WFMin
<1>3. \A j \in S : i <= j
  <2> TAKE j \in S
  <2>1. i \in Nat /\ j \in Nat
    BY <1>1
  <2>2. ~ (j < i)
    BY <1>2, <2>1 DEF OpToRel
  <2> QED
    BY <2>1, <2>2, SMT
<1> QED
  BY <1>3

LEMMA FreeSlotInSlot ==
  ASSUME FreeSlots # {}
  PROVE  FreeSlot \in Slot /\ FreeSlot \notin usage
<1>1. FreeSlots \subseteq Slot
  BY DEF FreeSlots
<1>2. FreeSlot \in FreeSlots
  BY <1>1, FirstOfSlots DEF FreeSlot
<1> QED
  BY <1>2 DEF FreeSlots

LEMMA EntryOfInSlot ==
  ASSUME TypeOK, NEW c \in Child, Entries(c) # {}
  PROVE  EntryOf(c) \in Slot
<1>1. Entries(c) \subseteq Slot
  BY DEF Entries, TypeOK
<1>2. EntryOf(c) \in Entries(c)
  BY <1>1, FirstOfSlots DEF EntryOf
<1> QED
  BY <1>1, <1>2

\* What net_send_raw puts into the queue.
LEMMA EnqueuedType ==
  ASSUME out \in Seq(Child), NEW d \in Child
  PROVE  Enqueued(d) \in Seq(Child)
  BY DEF Enqueued

LEMMA InitInv ==
  ASSUME Init
  PROVE  IInv
<1>1. TypeOK
  <2>1. usage \subseteq Slot /\ id \in [Slot -> Id] /\ mac \in [Slot -> Id] /\ peers \subseteq Child
    BY DEF Init, Id
  <2>2. pending \in [flag : BOOLEAN, id : Id, mac : Id, timer : BOOLEAN] /\ decay \subseteq Slot
    BY DEF Init, NoProposal, Id
  <2>3. timer \in [pc : TimerPc, x : Slot \cup {0}, reg : SUBSET Slot]
    BY DEF Init, IdleTimer, TimerPc
  <2>4. wifi \in [pc : WifiPc, x : Slot \cup {0}, n : Id] /\ heard \subseteq Child
    BY DEF Init, IdleWifi, WifiPc, Id
  <2>5. caller \in [pc : {"idle", "usage", "id", "send"}, i : Nat, dst : Id]
    BY DEF Init, IdleCaller, Id
  <2>6. out \in Seq(Child) /\ held \in Id
    BY DEF Init, Id
  <2> QED
    BY <2>1, <2>2, <2>3, <2>4, <2>5, <2>6 DEF TypeOK
<1>2. InHandler /\ InCallback /\ InCall /\ EntryWatched
  BY DEF Init, IdleTimer, IdleWifi, IdleCaller, InHandler, InCallback, InCall, EntryWatched
<1> QED
  BY <1>1, <1>2 DEF IInv

\* An abort leads back to the initial state.
LEMMA AbortInv ==
  ASSUME Abort
  PROVE  IInv'
<1>1. TypeOK'
  <2>1. (usage \subseteq Slot /\ id \in [Slot -> Id] /\ mac \in [Slot -> Id] /\ peers \subseteq Child)'
    BY DEF Abort, Id
  <2>2. (pending \in [flag : BOOLEAN, id : Id, mac : Id, timer : BOOLEAN] /\ decay \subseteq Slot)'
    BY DEF Abort, NoProposal, Id
  <2>3. (timer \in [pc : TimerPc, x : Slot \cup {0}, reg : SUBSET Slot])'
    BY DEF Abort, IdleTimer, TimerPc
  <2>4. (wifi \in [pc : WifiPc, x : Slot \cup {0}, n : Id] /\ heard \subseteq Child)'
    BY DEF Abort, IdleWifi, WifiPc, Id
  <2>5. (caller \in [pc : {"idle", "usage", "id", "send"}, i : Nat, dst : Id])'
    BY DEF Abort, IdleCaller, Id
  <2>6. (out \in Seq(Child) /\ held \in Id)'
    BY DEF Abort, Id
  <2> QED
    BY <2>1, <2>2, <2>3, <2>4, <2>5, <2>6 DEF TypeOK
<1>2. (InHandler /\ InCallback /\ InCall /\ EntryWatched)'
  BY DEF Abort, IdleTimer, IdleWifi, IdleCaller, InHandler, InCallback, InCall, EntryWatched
<1> QED
  BY <1>1, <1>2 DEF IInv

-----------------------------------------------------------------------------
(***************************************************************************)
(* The steps of each task.                                                 *)
(***************************************************************************)

LEMMA WifiInv ==
  ASSUME IInv, WifiTask
  PROVE  IInv'
<1> USE DEF IInv, Id, WifiPc
<1>1. ASSUME NEW c \in Child, Propose(c)
      PROVE  IInv'
  BY <1>1 DEF Propose, Hears, WifiIdle, TypeOK, InHandler, InCallback, InCall, EntryWatched
<1>2. ASSUME NEW c \in Child, Confirm(c)
      PROVE  IInv'
  <2> DEFINE p == [pending EXCEPT !.flag = FALSE, !.timer = FALSE]
  <2>0. pending' = p /\ p \in [flag : BOOLEAN, id : Id, mac : Id, timer : BOOLEAN]
    BY <1>2 DEF Confirm, TypeOK
  <2> HIDE DEF p
  <2>1. CASE FreeSlots = {}
    BY <1>2, <2>0, <2>1 DEF Confirm, Hears, WifiIdle, TypeOK, InHandler, InCallback, InCall, EntryWatched
  <2>2. CASE FreeSlots # {}
    <3>1. FreeSlot \in Slot /\ FreeSlot \notin usage
      BY <2>2, FreeSlotInSlot
    <3>2. TypeOK'
      BY <1>2, <2>0, <2>2, <3>1 DEF Confirm, Hears, WifiIdle, TypeOK
    <3>3. InHandler' /\ InCallback' /\ InCall'
      BY <1>2, <2>2, <3>1 DEF Confirm, Hears, WifiIdle, TypeOK, InHandler, InCallback, InCall
    <3>4. EntryWatched'
      BY <1>2, <2>2, <3>1 DEF Confirm, Hears, WifiIdle, TypeOK, EntryWatched
    <3> QED
      BY <3>2, <3>3, <3>4
  <2> QED
    BY <2>1, <2>2
<1>3. ASSUME NEW c \in Child, StatusFrom(c)
      PROVE  IInv'
  <2>1. EntryOf(c) \in Slot
    BY <1>3, EntryOfInSlot DEF StatusFrom
  <2>2. out' \in Seq(Child)
    BY <1>3, EnqueuedType DEF StatusFrom, TypeOK
  <2> QED
    BY <1>3, <2>1, <2>2 DEF StatusFrom, Hears, WifiIdle, TypeOK, InHandler, InCallback, InCall, EntryWatched
<1>4. ASSUME ProposeRest
      PROVE  IInv'
  <2>1. wifi.n \in Child
    BY <1>4 DEF ProposeRest, InHandler
  <2>2. out' \in Seq(Child)
    BY <1>4, <2>1, EnqueuedType DEF ProposeRest, TypeOK
  <2>3. TypeOK'
    BY <1>4, <2>1, <2>2 DEF ProposeRest, IdleWifi, TypeOK
  <2> QED
    BY <1>4, <2>3 DEF ProposeRest, IdleWifi, TypeOK, InHandler, InCallback, InCall, EntryWatched
<1>5. ASSUME FormId
      PROVE  IInv'
  BY <1>5 DEF FormId, TypeOK, InHandler, InCallback, InCall, EntryWatched
<1>6. ASSUME FormMac
      PROVE  IInv'
  BY <1>6 DEF FormMac, StartDecay, TypeOK, InHandler, InCallback, InCall, EntryWatched
<1>7. ASSUME ForgetProposal
      PROVE  IInv'
  <2>1. CASE wifi.pc = "forgetMac"
    BY <1>7, <2>1 DEF ForgetProposal, TypeOK, InHandler, InCallback, InCall, EntryWatched
  <2>2. CASE wifi.pc = "forgetId"
    BY <1>7, <2>2 DEF ForgetProposal, IdleWifi, TypeOK, InHandler, InCallback, InCall, EntryWatched
  <2> QED
    BY <1>7, <2>1, <2>2 DEF ForgetProposal
<1> QED
  BY <1>1, <1>2, <1>3, <1>4, <1>5, <1>6, <1>7 DEF WifiTask

LEMMA TimerInv ==
  ASSUME IInv, TimerTask
  PROVE  IInv'
<1> USE DEF IInv, TimerPc, TimerAt, WifiIdle, Goto
<1>1. ASSUME NEW x \in Slot, DecayFires(x)
      PROVE  IInv'
  BY <1>1 DEF DecayFires, TypeOK, InHandler, InCallback, InCall, EntryWatched
<1>2. ASSUME NEW x \in Slot, DecayAborts(x)
      PROVE  IInv'
  BY <1>2, AbortInv DEF DecayAborts
<1>3. ASSUME DecayPeer
      PROVE  IInv'
  BY <1>3 DEF DecayPeer, TypeOK, InHandler, InCallback, InCall, EntryWatched
<1>4. ASSUME DecayLoad
      PROVE  IInv'
  BY <1>4 DEF DecayLoad, entryVars, TypeOK, InHandler, InCallback, InCall, EntryWatched
<1>5. ASSUME DecayStore
      PROVE  IInv'
  BY <1>5 DEF DecayStore, TypeOK, InHandler, InCallback, InCall, EntryWatched
<1>6. ASSUME DecayId
      PROVE  IInv'
  BY <1>6 DEF DecayId, Id, TypeOK, InHandler, InCallback, InCall, EntryWatched
<1>7. ASSUME DecayMac
      PROVE  IInv'
  BY <1>7 DEF DecayMac, CallbackEnds, IdleTimer, Id, TypeOK, InHandler, InCallback, InCall, EntryWatched
<1>8. ASSUME ProposalFires
      PROVE  IInv'
  BY <1>8 DEF ProposalFires, TypeOK, InHandler, InCallback, InCall, EntryWatched
<1>9. ASSUME ProposalFlag
      PROVE  IInv'
  BY <1>9 DEF ProposalFlag, TypeOK, InHandler, InCallback, InCall, EntryWatched
<1>10. ASSUME ProposalPeer
       PROVE  IInv'
  BY <1>10 DEF ProposalPeer, TypeOK, InHandler, InCallback, InCall, EntryWatched
<1>11. ASSUME ProposalMac
       PROVE  IInv'
  BY <1>11 DEF ProposalMac, Id, TypeOK, InHandler, InCallback, InCall, EntryWatched
<1>12. ASSUME ProposalId
       PROVE  IInv'
  BY <1>12 DEF ProposalId, CallbackEnds, IdleTimer, Id, TypeOK, InHandler, InCallback, InCall, EntryWatched
<1> QED
  BY <1>1, <1>2, <1>3, <1>4, <1>5, <1>6, <1>7, <1>8, <1>9, <1>10, <1>11, <1>12
  DEF TimerTask

LEMMA SenderInv ==
  ASSUME IInv, SendTask \/ Worker
  PROVE  IInv'
<1> USE DEF IInv, entryVars
<1>1. CASE CallSendDown
  BY <1>1 DEF CallSendDown, Id, TypeOK, InHandler, InCallback, InCall, EntryWatched
<1>2. CASE TestUsage
  BY <1>2 DEF TestUsage, IdleCaller, Id, TypeOK, InHandler, InCallback, InCall, EntryWatched
<1>3. CASE ReadId
  BY <1>3 DEF ReadId, TypeOK, InHandler, InCallback, InCall, EntryWatched
<1>4. CASE SendRaw
  <2>1. caller.dst \in Child
    BY <1>4 DEF SendRaw, MaySend, TypeOK, Id
  <2>2. out' \in Seq(Child)
    BY <1>4, <2>1, EnqueuedType DEF SendRaw, TypeOK
  <2> QED
    BY <1>4, <2>2 DEF SendRaw, Id, TypeOK, InHandler, InCallback, InCall, EntryWatched
<1>5. CASE SendAborts
  BY <1>5, AbortInv DEF SendAborts
<1>6. CASE TakeFrame
  BY <1>6 DEF TakeFrame, Id, TypeOK, InHandler, InCallback, InCall, EntryWatched
<1>7. CASE Deliver
  BY <1>7 DEF Deliver, Id, TypeOK, InHandler, InCallback, InCall, EntryWatched
<1> QED
  BY <1>1, <1>2, <1>3, <1>4, <1>5, <1>6, <1>7 DEF SendTask, Worker

-----------------------------------------------------------------------------
(***************************************************************************)
(* Theorems.                                                               *)
(***************************************************************************)

\* The inductive invariant holds in every state.
THEOREM Invariance == Spec => []IInv
<1>1. Init => IInv
  BY InitInv
<1>2. IInv /\ [Next]_vars => IInv'
  <2> SUFFICES ASSUME IInv, [Next]_vars
               PROVE  IInv'
    OBVIOUS
  <2>1. CASE Next
    BY <2>1, WifiInv, TimerInv, SenderInv DEF Next
  <2>2. CASE UNCHANGED vars
    BY <2>2 DEF vars, entryVars, IInv, TypeOK, InHandler, InCallback, InCall, EntryWatched
  <2> QED
    BY <2>1, <2>2
<1> QED
  BY <1>1, <1>2, PTL DEF Spec

\* Types: in particular no frame for id 0 is ever queued, although the tasks
\* meet entries without id.
THEOREM TypeCorrect == Spec => []TypeOK
  BY Invariance, PTL DEF IInv

\* No entry of the link table is used for ever, however the handlers and
\* callbacks of net_layer.c interleave on it without a lock.
THEOREM EntriesAreWatched == Spec => []EntryWatched
  BY Invariance, PTL DEF IInv
=============================================================================
