----------------------------- MODULE NodeUplink -----------------------------
(***************************************************************************)
(* The up-stream link of one node and the word node.flags, access by       *)
(* access.  NodeTasks does the same for the down-stream entries.           *)
(*                                                                         *)
(* The timer task runs the callbacks, and the WiFi task (espnow_recv, same *)
(* core, higher priority) preempts it between any two of its accesses.     *)
(* Every `node.flags |= X' and `&= ~X' of a callback is a load and a       *)
(* store.  A handler is never preempted by a callback: one step.  A task   *)
(* of the other core may be in net_send_up at any time.                    *)
(*                                                                         *)
(* The node is not the root; its parent, its children and the nodes that   *)
(* search are the environment.  Addresses, peers and the table entries of  *)
(* the children are in NodeTasks; here a child is the slot it occupies.    *)
(* No code in the repository sends FREEZE: the parent is free to.          *)
(***************************************************************************)
EXTENDS Integers, FiniteSets

CONSTANT LINK_TABLE_SIZE  \* entries of the link table, entry 0 (LINK_UP) included

ASSUME TableAssumption == LINK_TABLE_SIZE \in Nat \ {0}

Slot  == 1 .. LINK_TABLE_SIZE-1
Flag  == {"LOCATING", "PENDING_LINK", "UPLINK_STATUS", "FROZEN"}
Timer == {"join", "locate", "pending", "status", "up"}

VARIABLES
  flags,     \* the STATE_ bits set in node.flags
  usedUp,    \* the LINK_UP bit of link_table.usage
  idUp,      \* whether entry[LINK_UP].id is set: to the parent, there is no other
  kids,      \* the used down-stream entries
  decay,     \* the down-stream entries with a running decay timer
  timers,    \* the other running timers
  responded, \* loc_count > 0
  proposal,  \* pending_id is set
  check,     \* the STATUS exchange with the parent: "none", "asked" or "answered"
  wifi,      \* the WiFi task: "ready", or "blackout" in the delay of exec_blackout
  timer,     \* the timer task: [pc, reg], reg the flags as loaded
  sender,    \* a task in net_send_up: "idle", or "linked" after has_uplink
  heard,     \* history: the answer to the present status check came in time
  raced      \* history: a FREEZE has been handled while a callback was in progress

linkVars  == <<usedUp, idUp, kids, responded, proposal>>
timerVars == <<timers, decay>>
vars == <<flags, linkVars, timerVars, check, wifi, timer, sender, heard, raced>>

TimerPc == {"idle", "joinStore", "joinSend", "locateStore", "locatePick",
            "formId", "formTimer", "checkTimer", "checkLoad", "checkStore",
            "checkAgain", "pendingStore", "pendingForget", "blackout"}
IdleTimer == [pc |-> "idle", reg |-> {}]

Init ==
  /\ flags = {} /\ usedUp = FALSE /\ idUp = FALSE /\ kids = {}
  /\ responded = FALSE /\ proposal = FALSE
  /\ timers = {"join"} /\ decay = {}
  /\ check = "none" /\ wifi = "ready" /\ timer = IdleTimer /\ sender = "idle"
  /\ heard = FALSE /\ raced = FALSE

\* esp_restart() or abort(), and net_init() after the reset: the state of Init.
Reset ==
  /\ flags' = {} /\ usedUp' = FALSE /\ idUp' = FALSE /\ kids' = {}
  /\ responded' = FALSE /\ proposal' = FALSE
  /\ timers' = {"join"} /\ decay' = {}
  /\ check' = "none" /\ wifi' = "ready" /\ timer' = IdleTimer /\ sender' = "idle"
  /\ heard' = FALSE /\ raced' = FALSE

-----------------------------------------------------------------------------
(***************************************************************************)
(* The WiFi task.                                                          *)
(***************************************************************************)
WifiReady == wifi = "ready"

\* Faulty variant: has_available_downlinks(..) >= 0.
AnyDownlinks(k) == TRUE

\* has_available_downlinks(..) > 0.
FreeDownlinks(k) == k # Slot

\* CONTROL_LOCATE from a node nearby.  esp_now_add_peer may refuse the address
\* (it is in the peer list): the flag is set, no timer is started.
Propose(refused) ==
  /\ WifiReady
  /\ "FROZEN" \notin flags /\ usedUp /\ FreeDownlinks(kids) /\ "PENDING_LINK" \notin flags
  /\ flags' = flags \cup {"PENDING_LINK"}
  /\ proposal' = TRUE
  /\ timers' = IF refused THEN timers ELSE timers \cup {"pending"}
  /\ UNCHANGED <<usedUp, idUp, kids, responded, decay, check, wifi, timer, sender, heard, raced>>

\* CONTROL_LINK: a proposal in answer to our LOCATE.
NoteProposal ==
  /\ WifiReady
  /\ "FROZEN" \notin flags /\ "LOCATING" \in flags
  /\ responded' = TRUE
  /\ UNCHANGED <<flags, usedUp, idUp, kids, proposal, timerVars, check, wifi, timer, sender, heard, raced>>

\* CONTROL_LINK: the node we proposed to confirms; form_downlink takes entry x.
Confirm(x) ==
  /\ WifiReady
  /\ "FROZEN" \notin flags /\ "PENDING_LINK" \in flags /\ proposal
  /\ x \notin kids /\ \A y \in Slot \ kids : x <= y
  /\ timers' = timers \ {"pending"}
  /\ flags' = flags \ {"PENDING_LINK"}
  /\ kids' = kids \cup {x}
  /\ decay' = decay \cup {x}
  /\ proposal' = FALSE
  /\ UNCHANGED <<usedUp, idUp, responded, check, wifi, timer, sender, heard, raced>>

\* timer_cb_upstream has sent its STATUS and not returned.
Checking == timer.pc \in {"checkTimer", "checkLoad", "checkStore", "checkAgain"}

\* CONTROL_STATUS from the parent, who is linked: the answer.  It comes in time
\* unless the node is frozen, still Checking, or has given the parent up.
ParentAnswers ==
  /\ WifiReady
  /\ check = "asked" /\ idUp
  /\ check' = "answered"
  /\ heard' = ("FROZEN" \notin flags /\ ~ Checking /\ timer.pc # "blackout")
  /\ IF "FROZEN" \notin flags /\ "UPLINK_STATUS" \in flags
     THEN /\ flags' = flags \ {"UPLINK_STATUS"}
          /\ timers' = timers \ {"status"}
     ELSE UNCHANGED <<flags, timers>>
  /\ UNCHANGED <<linkVars, decay, wifi, timer, sender, raced>>

\* CONTROL_STATUS from the child in entry x.
ChildChecks(x) ==
  /\ WifiReady
  /\ "FROZEN" \notin flags /\ x \in kids
  /\ decay' = decay \cup {x}
  /\ UNCHANGED <<flags, linkVars, timers, check, wifi, timer, sender, heard, raced>>

\* CONTROL_BLACKOUT from the parent: exec_blackout up to its delay.
ObeyBlackout ==
  /\ WifiReady
  /\ "FROZEN" \notin flags /\ idUp
  /\ wifi' = "blackout"
  /\ UNCHANGED <<flags, linkVars, timerVars, check, timer, sender, heard, raced>>

\* A FREEZE is handled: is the timer task in the middle of a callback?
NoteRace == raced' = (raced \/ timer.pc \notin {"idle", "blackout"})

\* Faulty variant: CONTROL_FREEZE that leaves the pending status check alone.
FreezeKeepsStatus(t) == t \ {"up"}

\* What CONTROL_FREEZE leaves of the timers.
Stopped(t) == t \ {"status", "up"}

\* CONTROL_FREEZE from the parent of a running node.
Freeze ==
  /\ WifiReady
  /\ idUp /\ "FROZEN" \notin flags
  /\ flags' = (flags \cup {"FROZEN"}) \ {"UPLINK_STATUS"}
  /\ timers' = IF usedUp THEN Stopped(timers) ELSE timers \ {"status"}
  /\ decay' = decay \ kids
  /\ NoteRace
  /\ UNCHANGED <<linkVars, check, wifi, timer, sender, heard>>

\* Faulty variants: CONTROL_FREEZE restarts the up-stream timer only, or does
\* not look at the usage bits.
RestartedNone(k, d) == {}
RestartedAll(k, d)  == {x \in Slot : \A y \in d : x < y}

\* The decay timers a thawing node starts: those before the first that runs.
Restarted(k, d) == {x \in k : \A y \in d : x < y}

\* CONTROL_FREEZE from the parent of a frozen node: start the timers in table
\* order, and return at the first one that runs already.
Unfreeze ==
  /\ WifiReady
  /\ idUp /\ "FROZEN" \in flags
  /\ flags' = flags \ {"FROZEN"}
  /\ IF "up" \in timers
     THEN UNCHANGED timerVars
     ELSE /\ timers' = timers \cup {"up"}
          /\ decay' = decay \cup Restarted(kids, decay)
  /\ NoteRace
  /\ UNCHANGED <<linkVars, check, wifi, timer, sender, heard>>

-----------------------------------------------------------------------------
(***************************************************************************)
(* The timer task.                                                         *)
(***************************************************************************)
At(pc)   == timer.pc = pc
Goto(pc) == timer' = [timer EXCEPT !.pc = pc]

\* The callback of timer t begins with a load of node.flags.
FiresLoad(t, pc) ==
  /\ At("idle") /\ t \in timers
  /\ timers' = timers \ {t}
  /\ timer' = [pc |-> pc, reg |-> flags]
  /\ UNCHANGED <<flags, linkVars, decay, check, wifi, sender, heard, raced>>

\* It stores the loaded word, changed.
Store(f, pc) ==
  /\ flags' = f
  /\ Goto(pc)
  /\ UNCHANGED <<linkVars, timerVars, check, wifi, sender, heard, raced>>

\* timer_cb_join: flags |= STATE_LOCATING, LOCATE, loc_timer.
JoinFires == FiresLoad("join", "joinStore")
JoinStore == At("joinStore") /\ Store(timer.reg \cup {"LOCATING"}, "joinSend")
JoinSend ==
  /\ At("joinSend")
  /\ timers' = timers \cup {"locate"}
  /\ timer' = IdleTimer
  /\ UNCHANGED <<flags, linkVars, decay, check, wifi, sender, heard, raced>>

\* timer_cb_locating: flags &= ~STATE_LOCATING.
LocateFires == FiresLoad("locate", "locateStore")
LocateStore == At("locateStore") /\ Store(timer.reg \ {"LOCATING"}, "locatePick")

\* timer_cb_locating: nobody proposed, or form_uplink up to the usage bit.
LocatePick ==
  /\ At("locatePick")
  /\ IF responded
     THEN usedUp' = TRUE /\ Goto("formId") /\ UNCHANGED timers
     ELSE timers' = timers \cup {"join"} /\ timer' = IdleTimer /\ UNCHANGED usedUp
  /\ UNCHANGED <<flags, idUp, kids, responded, proposal, decay, check, wifi, sender, heard, raced>>

\* form_uplink: table->entry[LINK_UP].id = id.
FormId ==
  /\ At("formId")
  /\ idUp' = TRUE
  /\ Goto("formTimer")
  /\ UNCHANGED <<flags, usedUp, kids, responded, proposal, timerVars, check, wifi, sender, heard, raced>>

\* form_uplink: the MAC and the timer; then LINK, and the proposals are cleared.
FormTimer ==
  /\ At("formTimer")
  /\ timers' = timers \cup {"up"}
  /\ responded' = FALSE
  /\ timer' = IdleTimer
  /\ UNCHANGED <<flags, usedUp, idUp, kids, proposal, decay, check, wifi, sender, heard, raced>>

\* timer_cb_upstream: STATUS to the parent.  TIMEOUT_STATUS is shorter than
\* PERIOD_UP_STATUS: the last check is over.
CheckFires ==
  /\ At("idle") /\ "up" \in timers /\ "status" \notin timers
  /\ timers' = timers \ {"up"}
  /\ check' = "asked"
  /\ heard' = FALSE
  /\ Goto("checkTimer")
  /\ UNCHANGED <<flags, linkVars, decay, wifi, sender, raced>>

\* timer_cb_upstream: esp_timer_start_once(status_timer).
CheckTimer ==
  /\ At("checkTimer")
  /\ timers' = timers \cup {"status"}
  /\ Goto("checkLoad")
  /\ UNCHANGED <<flags, linkVars, decay, check, wifi, sender, heard, raced>>

\* timer_cb_upstream: flags |= STATE_UPLINK_STATUS.
CheckLoad ==
  /\ At("checkLoad")
  /\ timer' = [pc |-> "checkStore", reg |-> flags]
  /\ UNCHANGED <<flags, linkVars, timerVars, check, wifi, sender, heard, raced>>
CheckStore == At("checkStore") /\ Store(timer.reg \cup {"UPLINK_STATUS"}, "checkAgain")

\* Faulty variant: timer_cb_upstream does not start its own timer again.
AgainNever(t) == t

\* esp_timer_start_once(entry[LINK_UP].timer).
Again(t) == t \cup {"up"}

CheckAgain ==
  /\ At("checkAgain")
  /\ timers' = Again(timers)
  /\ timer' = IdleTimer
  /\ UNCHANGED <<flags, linkVars, decay, check, wifi, sender, heard, raced>>

\* timer_cb_up_status: exec_blackout up to its delay.
ParentLost ==
  /\ At("idle") /\ "status" \in timers
  /\ timers' = timers \ {"status"}
  /\ Goto("blackout")
  /\ UNCHANGED <<flags, linkVars, decay, check, wifi, sender, heard, raced>>

\* timer_cb_pending_link: flags &= ~STATE_PENDING_LINK, then the address.
PendingFires == FiresLoad("pending", "pendingStore")
PendingStore == At("pendingStore") /\ Store(timer.reg \ {"PENDING_LINK"}, "pendingForget")
PendingForget ==
  /\ At("pendingForget")
  /\ proposal' = FALSE
  /\ timer' = IdleTimer
  /\ UNCHANGED <<flags, usedUp, idUp, kids, responded, timerVars, check, wifi, sender, heard, raced>>

\* timer_cb_downstream(x), which does not touch the flags.
DecayFires(x) ==
  /\ At("idle") /\ x \in decay
  /\ decay' = decay \ {x}
  /\ kids' = kids \ {x}
  /\ UNCHANGED <<flags, usedUp, idUp, responded, proposal, timers, check, wifi, timer, sender, heard, raced>>

\* exec_blackout: the delay is over.
Restart == (At("blackout") \/ wifi = "blackout") /\ Reset

-----------------------------------------------------------------------------
(***************************************************************************)
(* net_send_up in a task of the other core: the usage bit, then the id; an *)
(* id of 0 fails the assertion in is_upstream, called from net_send_raw.   *)
(***************************************************************************)
TestUplink ==
  /\ sender = "idle" /\ usedUp
  /\ sender' = "linked"
  /\ UNCHANGED <<flags, linkVars, timerVars, check, wifi, timer, heard, raced>>

ReadUpId ==
  /\ sender = "linked" /\ idUp
  /\ sender' = "idle"
  /\ UNCHANGED <<flags, linkVars, timerVars, check, wifi, timer, heard, raced>>

SendUpAborts == sender = "linked" /\ ~ idUp /\ Reset

WifiTask  == \/ \E refused \in BOOLEAN : Propose(refused)
             \/ \E x \in Slot : Confirm(x) \/ ChildChecks(x)
             \/ NoteProposal \/ ParentAnswers \/ ObeyBlackout \/ Freeze \/ Unfreeze
TimerTask == \/ JoinFires \/ JoinStore \/ JoinSend
             \/ LocateFires \/ LocateStore \/ LocatePick \/ FormId \/ FormTimer
             \/ CheckFires \/ CheckTimer \/ CheckLoad \/ CheckStore \/ CheckAgain
             \/ ParentLost
             \/ PendingFires \/ PendingStore \/ PendingForget
             \/ \E x \in Slot : DecayFires(x)
SendTask  == TestUplink \/ ReadUpId \/ SendUpAborts

Next == WifiTask \/ TimerTask \/ Restart \/ SendTask

Spec == Init /\ [][Next]_vars

\* A callback goes on, the delay of a blackout ends, and a timer that runs
\* expires: esp_timer serves the expired ones in the order of their alarms, so
\* the callbacks of other timers do not keep one from its turn for ever.  (A
\* FREEZE may; nothing is asked of a node that is frozen again and again.)
FairSpec == /\ Spec
            /\ WF_vars(TimerTask /\ ~ At("idle")) /\ WF_vars(Restart)
            /\ SF_vars(CheckFires) /\ SF_vars(ParentLost)

-----------------------------------------------------------------------------
(***************************************************************************)
(* Properties.                                                             *)
(***************************************************************************)

TypeOK ==
  /\ flags \subseteq Flag
  /\ usedUp \in BOOLEAN /\ idUp \in BOOLEAN
  /\ kids \subseteq Slot /\ decay \subseteq kids
  /\ timers \subseteq Timer
  /\ responded \in BOOLEAN /\ proposal \in BOOLEAN
  /\ check \in {"none", "asked", "answered"}
  /\ wifi \in {"ready", "blackout"}
  /\ timer \in [pc : TimerPc, reg : SUBSET Flag]
  /\ sender \in {"idle", "linked"}
  /\ heard \in BOOLEAN /\ raced \in BOOLEAN

\* An answer of the parent that is handled by a running node once
\* timer_cb_upstream has returned always prevents the blackout: no lost update of
\* node.flags, FREEZE or restart hides the flag from it.  (An answer that comes
\* earlier may find the flag not set yet; it is ignored and the node restarts.)
AnswerSaves == At("blackout") => ~ heard

\* A free entry is kept for an open proposal, even when the flag that says so
\* is lost in a read-modify-write and a second node is proposed to.
ReservedSlot == proposal => kids # Slot

\* A FREEZE that meets no callback in progress stops every timer of a link,
\* and the next one starts every one again; nothing else leaves a link of a
\* running node unwatched.
FreezeIsExact ==
  ~ raced =>
    IF "FROZEN" \in flags
    THEN decay = {} /\ timers \cap {"status", "up"} = {}
    ELSE /\ decay = kids
         /\ usedUp => "up" \in timers \/ Checking \/ timer.pc \in {"formId", "formTimer"}

\* An unfrozen node with a parent goes on checking it, until it restarts; only
\* a FREEZE in the middle of a callback could end that.
KeepsChecking == []<>(At("checkTimer") \/ ~ usedUp \/ "FROZEN" \in flags \/ raced)
=============================================================================
