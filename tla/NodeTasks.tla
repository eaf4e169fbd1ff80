----------------------------- MODULE NodeTasks -----------------------------
(***************************************************************************)
(* The tasks of one node on its link table, instruction by instruction.    *)
(* LinkLayer takes every handler and callback for one step; main/          *)
(* net_layer.c has no lock on the link table, so here                      *)
(*  - the WiFi task (espnow_recv; core 0, the highest priority) preempts   *)
(*    the timer task (core 0) anywhere in a callback, never the reverse;   *)
(*  - an application task in net_send_down and worker_send (core 1) run    *)
(*    next to both.                                                        *)
(* A failed assertion aborts: the node starts again from nothing.          *)
(*                                                                         *)
(* Only the down-stream entries; the children are the environment.         *)
(***************************************************************************)
EXTENDS Integers, Sequences, FiniteSets

CONSTANTS
  Child,            \* ids of the nodes around, each with its MAC
  None,             \* id 0, and the zeroed MAC
  LINK_TABLE_SIZE,  \* entries of the link table, entry 0 (LINK_UP) included
  OutCap            \* capacity of the outbound queue

ASSUME NoneAssumption  == None \notin Child
ASSUME TableAssumption == LINK_TABLE_SIZE \in Nat \ {0}
ASSUME QueueAssumption == OutCap \in Nat \ {0}

Slot == 1 .. LINK_TABLE_SIZE-1
Id   == Child \cup {None}

VARIABLES
  usage,    \* the down-stream bits set in link_table.usage
  id,       \* entry[i].id
  mac,      \* entry[i].mac
  peers,    \* the ESP-NOW peer list
  pending,  \* [flag, id, mac, timer]: STATE_PENDING_LINK, pending_id, pending_mac
            \* and whether pending_timer runs
  decay,    \* the entries with a running decay timer
  timer,    \* the timer task: [pc, x, reg], slot of the callback, usage as read
  wifi,     \* the WiFi task: [pc, x, n], slot and child of the handler
  heard,    \* the children heard from since the timer task began its callback
  caller,   \* a task in net_send_down: [pc, i, dst]
  out,      \* destinations of the frames in the outbound queue
  held      \* the frame worker_send has taken and delays, or None

entryVars == <<usage, id, mac, peers, pending, decay>>
vars == <<entryVars, timer, wifi, heard, caller, out, held>>

TimerPc == {"idle", "peer", "load", "store", "id", "mac",
            "flag", "delPending", "pendingMac", "pendingId"}
WifiPc  == {"idle", "propose", "id", "mac", "forgetMac", "forgetId"}

IdleTimer  == [pc |-> "idle", x |-> 0, reg |-> {}]
IdleWifi   == [pc |-> "idle", x |-> 0, n |-> None]
IdleCaller == [pc |-> "idle", i |-> 0, dst |-> None]
NoProposal == [flag |-> FALSE, id |-> None, mac |-> None, timer |-> FALSE]

Init ==
  /\ usage = {} /\ id = [i \in Slot |-> None] /\ mac = [i \in Slot |-> None]
  /\ peers = {} /\ pending = NoProposal /\ decay = {}
  /\ timer = IdleTimer /\ wifi = IdleWifi /\ heard = {}
  /\ caller = IdleCaller /\ out = << >> /\ held = None

\* abort() and the reset that follows: the state of Init.
Abort ==
  /\ usage' = {} /\ id' = [i \in Slot |-> None] /\ mac' = [i \in Slot |-> None]
  /\ peers' = {} /\ pending' = NoProposal /\ decay' = {}
  /\ timer' = IdleTimer /\ wifi' = IdleWifi /\ heard' = {}
  /\ caller' = IdleCaller /\ out' = << >> /\ held' = None

-----------------------------------------------------------------------------
(***************************************************************************)
(* Lookups.                                                                *)
(***************************************************************************)
FreeSlots  == Slot \ usage
FreeSlot   == CHOOSE i \in FreeSlots : \A j \in FreeSlots : i <= j
Entries(c) == {i \in usage : id[i] = c}

\* find_entry(c), when there is one.
EntryOf(c) == CHOOSE i \in Entries(c) : \A j \in Entries(c) : i <= j

\* is_linked without its assertion, on an entry that has no id yet
MaySendToNobody(d) == d = None \/ Entries(d) # {} \/ d = pending.id

\* The assertion in net_send_raw, and the one in is_upstream.
MaySend(d) == d # None /\ (Entries(d) # {} \/ d = pending.id)

\* net_send_raw past its assertion.
Enqueued(d) == IF Len(out) < OutCap THEN Append(out, d) ELSE out

-----------------------------------------------------------------------------
(***************************************************************************)
(* The WiFi task.  A handler is one step where no task of core 1 reads     *)
(* what it is in the middle of writing.                                    *)
(***************************************************************************)
WifiIdle == wifi.pc = "idle"

\* A frame from c.  The frames of a node are seconds apart (TIMEOUT_LOCATE,
\* PERIOD_UP_STATUS): no two of them fall into one timer callback.
Hears(c) ==
  /\ WifiIdle
  /\ c \notin heard
  /\ heard' = IF timer.pc = "idle" THEN {} ELSE heard \cup {c}

\* c looks for a parent, or has been waiting for a second: the frames that were
\* queued for it before have left.
Drained(c) == held # c /\ \A k \in 1 .. Len(out) : out[k] # c

\* CONTROL_LOCATE from c, up to pending_id.
Propose(c) ==
  /\ Hears(c)
  /\ Drained(c)
  /\ FreeSlots # {} /\ ~ pending.flag
  /\ pending' = [pending EXCEPT !.flag = TRUE, !.id = c]
  /\ wifi' = [pc |-> "propose", x |-> 0, n |-> c]
  /\ UNCHANGED <<usage, id, mac, peers, decay, timer, caller, out, held>>

\* CONTROL_LOCATE, the rest: pending_mac, esp_now_add_peer, net_send_raw, timer.
ProposeRest ==
  /\ wifi.pc = "propose"
  /\ pending' = [pending EXCEPT !.mac = wifi.n, !.timer = wifi.n \notin peers]
  /\ IF wifi.n \in peers
     THEN UNCHANGED <<peers, out>>
     ELSE /\ peers' = peers \cup {wifi.n}
          /\ out' = Enqueued(wifi.n)
  /\ wifi' = IdleWifi
  /\ UNCHANGED <<usage, id, mac, decay, timer, heard, caller, held>>

\* CONTROL_LINK from c, the answer to a proposal that was sent, up to the usage
\* bit in form_downlink.
Confirm(c) ==
  /\ Hears(c)
  /\ Drained(c)
  /\ pending.flag /\ pending.id = c /\ pending.mac = c
  /\ pending.timer \/ timer.pc = "flag"
  /\ pending' = [pending EXCEPT !.flag = FALSE, !.timer = FALSE]
  /\ IF FreeSlots = {}
     THEN /\ wifi' = [pc |-> "forgetMac", x |-> 0, n |-> c]
          /\ UNCHANGED usage
     ELSE /\ usage' = usage \cup {FreeSlot}
          /\ wifi' = [pc |-> "id", x |-> FreeSlot, n |-> c]
  /\ UNCHANGED <<id, mac, peers, decay, timer, caller, out, held>>

\* form_downlink: table->entry[x].id = id.
FormId ==
  /\ wifi.pc = "id"
  /\ id' = [id EXCEPT ![wifi.x] = wifi.n]
  /\ wifi' = [wifi EXCEPT !.pc = "mac"]
  /\ UNCHANGED <<usage, mac, peers, pending, decay, timer, heard, caller, out, held>>

\* form_downlink that does not start the timer
StartNothing(x) == decay

\* esp_timer_start_once on the decay timer of entry x; it may run already.
StartDecay(x) == decay \cup {x}

\* form_downlink: the MAC and the decay timer.
FormMac ==
  /\ wifi.pc = "mac"
  /\ mac' = [mac EXCEPT ![wifi.x] = wifi.n]
  /\ decay' = StartDecay(wifi.x)
  /\ wifi' = [wifi EXCEPT !.pc = "forgetMac"]
  /\ UNCHANGED <<usage, id, peers, pending, timer, heard, caller, out, held>>

\* CONTROL_LINK: memset( pending_mac ), then pending_id = 0.
ForgetProposal ==
  \/ /\ wifi.pc = "forgetMac"
     /\ pending' = [pending EXCEPT !.mac = None]
     /\ wifi' = [wifi EXCEPT !.pc = "forgetId"]
     /\ UNCHANGED <<usage, id, mac, peers, decay, timer, heard, caller, out, held>>
  \/ /\ wifi.pc = "forgetId"
     /\ pending' = [pending EXCEPT !.id = None]
     /\ wifi' = IdleWifi
     /\ UNCHANGED <<usage, id, mac, peers, decay, timer, heard, caller, out, held>>

\* CONTROL_STATUS from child c: restart its decay timer and answer.
StatusFrom(c) ==
  /\ Hears(c)
  /\ Entries(c) # {}
  /\ decay' = decay \cup {EntryOf(c)}
  /\ out' = Enqueued(c)
  /\ UNCHANGED <<usage, id, mac, peers, pending, timer, wifi, caller, held>>

-----------------------------------------------------------------------------
(***************************************************************************)
(* The timer task: it runs while the WiFi task waits.                      *)
(***************************************************************************)
TimerAt(pc) == timer.pc = pc /\ WifiIdle
Goto(pc) == timer' = [timer EXCEPT !.pc = pc]

\* A callback ends: it took milliseconds.
CallbackEnds == timer' = IdleTimer /\ heard' = {}

\* timer_cb_downstream(x): its assertion.
DecayFires(x) ==
  /\ TimerAt("idle")
  /\ x \in decay
  /\ x \in usage
  /\ decay' = decay \ {x}
  /\ timer' = [pc |-> "peer", x |-> x, reg |-> {}]
  /\ UNCHANGED <<usage, id, mac, peers, pending, wifi, heard, caller, out, held>>

\* timer_cb_downstream(x): the assertion fails.
DecayAborts(x) ==
  /\ TimerAt("idle")
  /\ x \in decay
  /\ x \notin usage
  /\ Abort

\* timer_cb_downstream: esp_now_del_peer, after the log line.
DecayPeer ==
  /\ TimerAt("peer")
  /\ peers' = peers \ {mac[timer.x]}
  /\ Goto("load")
  /\ UNCHANGED <<usage, id, mac, pending, decay, wifi, heard, caller, out, held>>

\* usage &= ~(1ul << x) is a load and a store.
DecayLoad ==
  /\ TimerAt("load")
  /\ timer' = [timer EXCEPT !.pc = "store", !.reg = usage]
  /\ UNCHANGED <<entryVars, wifi, heard, caller, out, held>>

DecayStore ==
  /\ TimerAt("store")
  /\ usage' = timer.reg \ {timer.x}
  /\ Goto("id")
  /\ UNCHANGED <<id, mac, peers, pending, decay, wifi, heard, caller, out, held>>

DecayId ==
  /\ TimerAt("id")
  /\ id' = [id EXCEPT ![timer.x] = None]
  /\ Goto("mac")
  /\ UNCHANGED <<usage, mac, peers, pending, decay, wifi, heard, caller, out, held>>

DecayMac ==
  /\ TimerAt("mac")
  /\ mac' = [mac EXCEPT ![timer.x] = None]
  /\ CallbackEnds
  /\ UNCHANGED <<usage, id, peers, pending, decay, wifi, caller, out, held>>

\* timer_cb_pending_link.
ProposalFires ==
  /\ TimerAt("idle")
  /\ pending.timer
  /\ pending' = [pending EXCEPT !.timer = FALSE]
  /\ Goto("flag")
  /\ UNCHANGED <<usage, id, mac, peers, decay, wifi, heard, caller, out, held>>

ProposalFlag ==
  /\ TimerAt("flag")
  /\ pending' = [pending EXCEPT !.flag = FALSE]
  /\ Goto("delPending")
  /\ UNCHANGED <<usage, id, mac, peers, decay, wifi, heard, caller, out, held>>

ProposalPeer ==
  /\ TimerAt("delPending")
  /\ peers' = peers \ {pending.mac}
  /\ Goto("pendingMac")
  /\ UNCHANGED <<usage, id, mac, pending, decay, wifi, heard, caller, out, held>>

ProposalMac ==
  /\ TimerAt("pendingMac")
  /\ pending' = [pending EXCEPT !.mac = None]
  /\ Goto("pendingId")
  /\ UNCHANGED <<usage, id, mac, peers, decay, wifi, heard, caller, out, held>>

ProposalId ==
  /\ TimerAt("pendingId")
  /\ pending' = [pending EXCEPT !.id = None]
  /\ CallbackEnds
  /\ UNCHANGED <<usage, id, mac, peers, decay, wifi, caller, out, held>>

-----------------------------------------------------------------------------
(***************************************************************************)
(* An application task in net_send_down.                                   *)
(***************************************************************************)
CallSendDown ==
  /\ caller.pc = "idle"
  /\ caller' = [pc |-> "usage", i |-> 1, dst |-> None]
  /\ UNCHANGED <<entryVars, timer, wifi, heard, out, held>>

\* if (usage & (1ul << i)), for the next i
TestUsage ==
  /\ caller.pc = "usage"
  /\ caller' = IF caller.i \notin Slot THEN IdleCaller
               ELSE IF caller.i \in usage THEN [caller EXCEPT !.pc = "id"]
               ELSE [caller EXCEPT !.i = @ + 1]
  /\ UNCHANGED <<entryVars, timer, wifi, heard, out, held>>

\* out.head.destination = entry[i].id, and the checksum over the frame
ReadId ==
  /\ caller.pc = "id"
  /\ caller' = [caller EXCEPT !.pc = "send", !.dst = id[caller.i]]
  /\ UNCHANGED <<entryVars, timer, wifi, heard, out, held>>

\* net_send_raw( &out )
SendRaw ==
  /\ caller.pc = "send"
  /\ MaySend(caller.dst)
  /\ out' = Enqueued(caller.dst)
  /\ caller' = [pc |-> "usage", i |-> caller.i + 1, dst |-> None]
  /\ UNCHANGED <<entryVars, timer, wifi, heard, held>>

SendAborts ==
  /\ caller.pc = "send"
  /\ ~ MaySend(caller.dst)
  /\ Abort

\* worker_send: take a frame, wait at random, look the address up and send.
TakeFrame ==
  /\ held = None
  /\ out # << >>
  /\ held' = Head(out)
  /\ out' = Tail(out)
  /\ UNCHANGED <<entryVars, timer, wifi, heard, caller>>

Deliver ==
  /\ held # None
  /\ held' = None
  /\ UNCHANGED <<entryVars, timer, wifi, heard, caller, out>>

WifiTask  == \/ \E c \in Child : Propose(c) \/ Confirm(c) \/ StatusFrom(c)
             \/ ProposeRest \/ FormId \/ FormMac \/ ForgetProposal
TimerTask == \/ \E x \in Slot : DecayFires(x) \/ DecayAborts(x)
             \/ DecayPeer \/ DecayLoad \/ DecayStore \/ DecayId \/ DecayMac
             \/ ProposalFires \/ ProposalFlag \/ ProposalPeer \/ ProposalMac \/ ProposalId
SendTask  == CallSendDown \/ TestUsage \/ ReadId \/ SendRaw \/ SendAborts
Worker    == TakeFrame \/ Deliver

Next == WifiTask \/ TimerTask \/ SendTask \/ Worker

Spec == Init /\ [][Next]_vars

-----------------------------------------------------------------------------
(***************************************************************************)
(* Properties.                                                             *)
(***************************************************************************)

\* The types of the C variables; no frame for id 0 is ever queued.
TypeOK ==
  /\ usage \subseteq Slot
  /\ id \in [Slot -> Id]
  /\ mac \in [Slot -> Id]
  /\ peers \subseteq Child
  /\ pending \in [flag : BOOLEAN, id : Id, mac : Id, timer : BOOLEAN]
  /\ decay \subseteq Slot
  /\ timer \in [pc : TimerPc, x : Slot \cup {0}, reg : SUBSET Slot]
  /\ wifi \in [pc : WifiPc, x : Slot \cup {0}, n : Id]
  /\ heard \subseteq Child
  /\ caller \in [pc : {"idle", "usage", "id", "send"}, i : Nat, dst : Id]
  /\ out \in Seq(Child)
  /\ held \in Id

\* No entry is used for ever: whatever the tasks interleave, a used entry has
\* its decay timer running or is in the hands of the handler that forms it or
\* of the callback that frees it.  An entry may be lost early, never late.
EntryWatched ==
  \A x \in usage :
    \/ x \in decay
    \/ wifi.pc \in {"id", "mac"} /\ wifi.x = x
    \/ timer.pc \in {"peer", "load", "store"} /\ timer.x = x

\* The assertion of timer_cb_downstream holds: a decay timer that may fire
\* belongs to a used entry.
DecayAssertion == timer.pc = "idle" => decay \subseteq usage
=============================================================================
