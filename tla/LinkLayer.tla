----------------------------- MODULE LinkLayer -----------------------------
(***************************************************************************)
(* The virtual links of main/net_layer.c: how a node finds an up-stream    *)
(* parent (LOCATE, LINK), how both ends watch the link (STATUS, decay),    *)
(* how a lost parent takes its sub-tree down (BLACKOUT) and how a node is  *)
(* frozen (FREEZE).  MAP and DEFAULT frames only read the link table; they *)
(* are not modelled here.                                                  *)
(*                                                                         *)
(* Each handler of espnow_recv and each timer callback is one action of    *)
(* the node that runs it.  A node id stands for the pair (id, MAC): ids    *)
(* are assumed unique.  All nodes hear a broadcast; any receiver may miss  *)
(* any frame.                                                              *)
(*                                                                         *)
(* Time.  A running timer may fire at any moment, except where the         *)
(* constants of net_layer.h order two events:                              *)
(*  - a queued frame is on the air within milliseconds, the shortest timer *)
(*    is 1 s: a frame has arrived, or is lost, before a timer started with *)
(*    it fires (Sent), and so has the LOCATE that a LINK has met before    *)
(*    the sender of that LINK gives its proposal up or has booted (Heard); *)
(*  - TIMEOUT_STATUS (1 s) ends before the next PERIOD_UP_STATUS (15 s);   *)
(*  - PERIOD_LOCATE (25 s) is longer than anything an earlier boot or an   *)
(*    earlier LOCATE left behind on other nodes (Settled), except links    *)
(*    that have not decayed (TIMEOUT_LINK_DECAY, 30 s).                    *)
(*                                                                         *)
(* A callback is one step with one exception: the WiFi task may handle a   *)
(* LOCATE in the middle of timer_cb_pending_link (InterruptedTimeout).     *)
(***************************************************************************)
EXTENDS Integers, Sequences, FiniteSets

CONSTANTS
  Node,             \* node ids
  Root,             \* the node with isRoot set
  None,             \* id 0: an empty entry
  LINK_TABLE_SIZE,  \* entries of the link table, entry 0 (LINK_UP) included
  OutCap,           \* capacity of the outbound queue (16 in the code)
  IdentMod,         \* loc_ident counts modulo this (256 in the code)
  Faulty,           \* nodes that may lose power at any time
  Freezable,        \* nodes whose parent may send FREEZE (no code here does)
  Racing            \* nodes on which a LOCATE may meet the end of a proposal

ASSUME RootAssumption     == Root \in Node
ASSUME NoneAssumption     == None \notin Node
ASSUME TableAssumption    == LINK_TABLE_SIZE \in Nat \ {0}
ASSUME QueueAssumption    == OutCap \in Nat \ {0}
ASSUME IdentAssumption    == IdentMod \in Nat \ {0}
ASSUME FaultsAssumption   == Faulty \cup Racing \subseteq Node /\ Freezable \subseteq Node \ {Root}

Slot  == 1 .. LINK_TABLE_SIZE-1        \* the down-stream entries
Ident == 0 .. IdentMod-1
Flag  == {"LOCATING", "PENDING_LINK", "UPLINK_STATUS", "FROZEN"}
Timer == {"join", "locate", "pending", "status", "up"}

\* A frame on its way; dst = None is link_broadcast.id, the sender is the
\* node in whose queue it is.
Frame == [type  : {"LOCATE", "LINK", "STATUS", "BLACKOUT"},
          dst   : Node \cup {None},
          ident : Ident]
NoFrame == [type |-> "NONE", dst |-> None, ident |-> 0]

VARIABLES
  flags,      \* flags[n]: the STATE_ bits set in node.flags
  up,         \* up[n]: entry[LINK_UP].id
  down,       \* down[n][i]: entry[i].id while its usage bit is set, else None
  peers,      \* peers[n]: the ESP-NOW peer list, without the broadcast address
  pending,    \* pending[n]: pending_id
  pendingMac, \* pendingMac[n]: the node of pending_mac
  ident,      \* ident[n]: loc_ident
  responses,  \* responses[n]: the proposers in loc_response[0 .. loc_count-1]
  timers,     \* timers[n]: the running one-shot timers of the node
  decay,      \* decay[n]: the down-stream entries with a running decay timer
  blocked,    \* blocked[n]: the tasks held in the delay before esp_restart()
  raced,      \* the nodes on which, since their boot, the end of a proposal
              \* has wiped the address of the next one
  out,        \* out[n]: the outbound queue
  air         \* air[n]: the frame n transmits, and who may still receive it

nodeVars == <<flags, up, down, peers, pending, pendingMac, ident, responses, timers,
              decay, blocked, raced>>
vars     == <<nodeVars, out, air>>

-----------------------------------------------------------------------------
(***************************************************************************)
(* The link table.                                                         *)
(***************************************************************************)
Used(n)      == {i \in Slot : down[n][i] # None}
Children(n)  == {down[n][i] : i \in Used(n)}
Links(n)     == Children(n) \cup ({up[n]} \ {None})
HasUplink(n) == n = Root \/ up[n] # None
FreeSlots(n) == Slot \ Used(n)

\* has_available_downlinks(table): the first free entry.
FreeSlot(n) == CHOOSE i \in FreeSlots(n) : \A j \in FreeSlots(n) : i <= j

\* find_entry(id): the first entry of child c, if it has one.
EntryOf(n, c) == {i \in Used(n) : down[n][i] = c /\ \A j \in Used(n) : down[n][j] = c => i <= j}

\* is_downstream that accepts anyone
AnyoneIsDownstream(n, c) == TRUE

\* is_downstream(id).
IsDownstream(n, c) == c \in Children(n)

\* the result of esp_now_add_peer is not looked at
AddResultIgnored(n, c) == FALSE

\* esp_now_add_peer refuses an address that is in the peer list already.
AddRefused(n, c) == c \in peers[n]

\* a link is removed without esp_now_del_peer
PeerNotDeleted(n, c) == UNCHANGED peers

\* esp_now_del_peer.
DelPeer(n, c) == peers' = [peers EXCEPT ![n] = @ \ {c}]

\* form_downlink that does not start the timer
DecayNotStarted(n, i) == UNCHANGED decay

\* form_downlink starts the decay timer of its entry i.
StartDecay(n, i) == decay' = [decay EXCEPT ![n] = @ \cup {i}]

\* form_downlink(c), unless the table is full.
FormDownlink(n, c) ==
  IF FreeSlots(n) = {}
  THEN UNCHANGED <<down, decay>>
  ELSE /\ down' = [down EXCEPT ![n][FreeSlot(n)] = c]
       /\ StartDecay(n, FreeSlot(n))

\* form_uplink(p), unless there is a parent already.
FormUplink(n, p) == up' = [up EXCEPT ![n] = IF @ = None THEN p ELSE @]

\* find_mac(id) and esp_now_send: the nodes in reach of a frame for d.  Without
\* an entry for d the frame goes to all peers, the broadcast address included.
Receivers(n, d) ==
  IF d # None /\ (d = pending[n] \/ d \in Links(n))
  THEN {d} \cap peers[n]
  ELSE Node \ {n}

-----------------------------------------------------------------------------
(***************************************************************************)
(* Sending.                                                                *)
(***************************************************************************)

\* net_send_raw: a full queue drops the frame.
Enqueue(q, f) == IF Len(q) < OutCap THEN Append(q, f) ELSE q

Send(n, type, dst, id) ==
  out' = [out EXCEPT ![n] = Enqueue(@, [type |-> type, dst |-> dst, ident |-> id])]

\* exec_blackout() up to the restart, called in a task of node n: a BLACKOUT for
\* each of the first k used entries in table order, as many as the queue takes.
ExecBlackout(n, task) ==
  LET used == Cardinality(Used(n))
      room == OutCap - Len(out[n])
      k    == IF used < room THEN used ELSE room
  IN
  /\ \E entry \in [1 .. k -> Used(n)] :
       /\ \A j \in 1 .. k : Cardinality({i \in Used(n) : i < entry[j]}) = j - 1
       /\ out' = [out EXCEPT ![n] = @ \o [j \in 1 .. k |->
                   [type |-> "BLACKOUT", dst |-> down[n][entry[j]], ident |-> 0]]]
  /\ blocked' = [blocked EXCEPT ![n] = @ \cup {task}]

\* worker_send takes the next frame; its destination is looked up now.
Transmit(n) ==
  /\ air[n].to = {}
  /\ out[n] # << >>
  /\ LET f == Head(out[n])
         R == Receivers(n, f.dst)
     IN  air' = [air EXCEPT ![n] = [to |-> R, frame |-> IF R = {} THEN NoFrame ELSE f]]
  /\ out' = [out EXCEPT ![n] = Tail(@)]
  /\ UNCHANGED nodeVars

\* Node m is done with the frame of n.
Consume(n, m) ==
  LET R == air[n].to \ {m} IN
  air' = [air EXCEPT ![n] = [to |-> R, frame |-> IF R = {} THEN NoFrame ELSE air[n].frame]]

\* The frame of n does not reach m, or m ignores it.
Lose(n, m) ==
  /\ m \in air[n].to
  /\ Consume(n, m)
  /\ UNCHANGED <<nodeVars, out>>

-----------------------------------------------------------------------------
(***************************************************************************)
(* espnow_recv(mac, data, len) on node m, in the WiFi task.  The cases in  *)
(* which it changes something; a frame it ignores is a Lose step.          *)
(***************************************************************************)

\* Node m receives a frame of this type from n.
Receive(n, m, type) ==
  /\ m \in air[n].to
  /\ air[n].frame.type = type
  /\ "wifi" \notin blocked[m]
  /\ Consume(n, m)

\* a proposal without a look at the free entries
ProposeWhenFull(m) ==
  "FROZEN" \notin flags[m] /\ HasUplink(m) /\ "PENDING_LINK" \notin flags[m]

\* a proposal by a node without an up-link
ProposeAsOrphan(m) ==
  "FROZEN" \notin flags[m] /\ FreeSlots(m) # {} /\ "PENDING_LINK" \notin flags[m]

\* CONTROL_LOCATE: not frozen, and the first two conditions of the comment.
HasRoom(m) == "FROZEN" \notin flags[m] /\ HasUplink(m) /\ FreeSlots(m) # {}

\* CONTROL_LOCATE: the three conditions of the comment, and not frozen.
MayPropose(m) == HasRoom(m) /\ "PENDING_LINK" \notin flags[m]

\* CONTROL_LOCATE: propose a link.  The flag is set before esp_now_add_peer,
\* which refuses a node that is a peer already; then nothing else happens.
ProposeLink(n, m) ==
  /\ Receive(n, m, "LOCATE")
  /\ MayPropose(m)
  /\ flags' = [flags EXCEPT ![m] = @ \cup {"PENDING_LINK"}]
  /\ pending' = [pending EXCEPT ![m] = n]
  /\ pendingMac' = [pendingMac EXCEPT ![m] = n]
  /\ IF AddRefused(m, n)
     THEN UNCHANGED <<peers, timers, out>>
     ELSE /\ peers' = [peers EXCEPT ![m] = @ \cup {n}]
          /\ Send(m, "LINK", n, air[n].frame.ident)
          /\ timers' = [timers EXCEPT ![m] = @ \cup {"pending"}]
  /\ UNCHANGED <<up, down, ident, responses, decay, blocked, raced>>

\* The frame answers the LOCATE of node m.
Answers(n, m) == "LOCATING" \in flags[m] /\ air[n].frame.ident = ident[m]

\* CONTROL_LINK: note a proposal.
NoteProposal(n, m) ==
  /\ Receive(n, m, "LINK")
  /\ "FROZEN" \notin flags[m]
  /\ Answers(n, m)
  /\ responses' = [responses EXCEPT ![m] = @ \cup {n}]
  /\ UNCHANGED <<flags, up, down, peers, pending, pendingMac, ident, timers, decay, blocked, raced, out>>

\* any LINK counts as the confirmation
AnyoneConfirms(n, m) == "PENDING_LINK" \in flags[m]

\* The sender is the node that m has proposed a link to.
Confirms(n, m) == "PENDING_LINK" \in flags[m] /\ pending[m] = n

\* CONTROL_LINK: the node we proposed to confirms (form_downlink).
AdoptChild(n, m) ==
  /\ Receive(n, m, "LINK")
  /\ "FROZEN" \notin flags[m]
  /\ ~ Answers(n, m)
  /\ Confirms(n, m)
  /\ timers' = [timers EXCEPT ![m] = @ \ {"pending"}]
  /\ flags' = [flags EXCEPT ![m] = @ \ {"PENDING_LINK"}]
  /\ pending' = [pending EXCEPT ![m] = None]
  /\ pendingMac' = [pendingMac EXCEPT ![m] = None]
  /\ FormDownlink(m, n)
  /\ UNCHANGED <<up, peers, ident, responses, blocked, raced, out>>

\* The frame is the answer of the parent to the status check of m.
ParentAnswers(n, m) == "UPLINK_STATUS" \in flags[m] /\ up[m] = n

\* CONTROL_STATUS: the parent is there.
StatusFromParent(n, m) ==
  /\ Receive(n, m, "STATUS")
  /\ "FROZEN" \notin flags[m]
  /\ ParentAnswers(n, m)
  /\ flags' = [flags EXCEPT ![m] = @ \ {"UPLINK_STATUS"}]
  /\ timers' = [timers EXCEPT ![m] = @ \ {"status"}]
  /\ UNCHANGED <<up, down, peers, pending, pendingMac, ident, responses, decay, blocked, raced, out>>

\* CONTROL_STATUS: a child checks; restart its decay timer and answer.
StatusFromChild(n, m) ==
  /\ Receive(n, m, "STATUS")
  /\ "FROZEN" \notin flags[m]
  /\ ~ ParentAnswers(n, m)
  /\ IsDownstream(m, n)
  /\ decay' = [decay EXCEPT ![m] = @ \cup EntryOf(m, n)]
  /\ Send(m, "STATUS", n, 0)
  /\ UNCHANGED <<flags, up, down, peers, pending, pendingMac, ident, responses, timers, blocked, raced>>

\* CONTROL_BLACKOUT from the parent.
ObeyBlackout(n, m) ==
  /\ Receive(n, m, "BLACKOUT")
  /\ "FROZEN" \notin flags[m]
  /\ up[m] = n
  /\ ExecBlackout(m, "wifi")
  /\ UNCHANGED <<flags, up, down, peers, pending, pendingMac, ident, responses, timers, decay, raced>>

\* CONTROL_FREEZE that stops the up-stream timers only
NothingStoppedByFreeze(m) == {}

\* The down-stream entries whose timer CONTROL_FREEZE stops.
StoppedByFreeze(m) == Used(m)

\* CONTROL_FREEZE from the parent of a running node: stop the link timers.
Freeze(m) ==
  /\ m \in Freezable /\ up[m] # None /\ "wifi" \notin blocked[m]
  /\ "FROZEN" \notin flags[m]
  /\ flags' = [flags EXCEPT ![m] = (@ \cup {"FROZEN"}) \ {"UPLINK_STATUS"}]
  /\ timers' = [timers EXCEPT ![m] = @ \ {"status", "up"}]
  /\ decay' = [decay EXCEPT ![m] = @ \ StoppedByFreeze(m)]
  /\ UNCHANGED <<up, down, peers, pending, pendingMac, ident, responses, blocked, raced, out, air>>

\* CONTROL_FREEZE from the parent of a frozen node: start them again.
Unfreeze(m) ==
  /\ m \in Freezable /\ up[m] # None /\ "wifi" \notin blocked[m]
  /\ "FROZEN" \in flags[m]
  /\ flags' = [flags EXCEPT ![m] = @ \ {"FROZEN"}]
  /\ timers' = [timers EXCEPT ![m] = @ \cup {"up"}]
  /\ decay' = [decay EXCEPT ![m] = @ \cup Used(m)]
  /\ UNCHANGED <<up, down, peers, pending, pendingMac, ident, responses, blocked, raced, out, air>>

-----------------------------------------------------------------------------
(***************************************************************************)
(* Timer callbacks, in the esp_timer task.                                 *)
(***************************************************************************)
Fires(n, t) == t \in timers[n] /\ "timer" \notin blocked[n]

\* No frame of this type of n for d is still on its way.
Sent(n, type, d) ==
  /\ \A k \in 1 .. Len(out[n]) : ~ (out[n][k].type = type /\ out[n][k].dst = d)
  /\ ~ (air[n].frame.type = type /\ air[n].frame.dst = d)

\* The LOCATE of a node that has noted a LINK of n is not on its way any more.
Heard(n) == \A d \in Node : n \in responses[d] => Sent(d, "LOCATE", None)

\* PERIOD_LOCATE shorter than what it has to outlast
NothingSettled(n) == TRUE

\* What 25 s since the last LOCATE or boot of n have settled: no frame for n
\* is on its way, no proposal to n is open and none of n is being considered,
\* and the nodes that had n for their parent in an earlier boot have noticed,
\* unless they are frozen.
Settled(n) ==
  \A m \in Node :
    /\ \A k \in 1 .. Len(out[m]) : out[m][k].dst # n
    /\ n \notin air[m].to
    /\ ~ (pending[m] = n /\ "pending" \in timers[m])
    /\ n \notin responses[m]
    /\ up[m] = n => "FROZEN" \in flags[m]

\* loc_ident wider than its field in the frame
IdentNotReduced(n) == ident[n] + 1

\* ++node.loc_ident
NextIdent(n) == (ident[n] + 1) % IdentMod

\* timer_cb_join: look for a network.
Join(n) ==
  /\ Fires(n, "join")
  /\ Settled(n)
  /\ flags' = [flags EXCEPT ![n] = @ \cup {"LOCATING"}]
  /\ ident' = [ident EXCEPT ![n] = NextIdent(n)]
  /\ Send(n, "LOCATE", None, NextIdent(n))
  /\ timers' = [timers EXCEPT ![n] = (@ \ {"join"}) \cup {"locate"}]
  /\ UNCHANGED <<up, down, peers, pending, pendingMac, responses, decay, blocked, raced, air>>

\* timer_cb_locating without a proposal: try again later.
NobodyProposed(n) ==
  /\ Fires(n, "locate") /\ Sent(n, "LOCATE", None)
  /\ responses[n] = {}
  /\ flags' = [flags EXCEPT ![n] = @ \ {"LOCATING"}]
  /\ timers' = [timers EXCEPT ![n] = (@ \ {"locate"}) \cup {"join"}]
  /\ UNCHANGED <<up, down, peers, pending, pendingMac, ident, responses, decay, blocked, raced, out, air>>

\* timer_cb_locating: pick a proposal at random, form the up-link and confirm.
ChooseParent(n) ==
  /\ Fires(n, "locate") /\ Sent(n, "LOCATE", None)
  /\ flags' = [flags EXCEPT ![n] = @ \ {"LOCATING"}]
  /\ \E p \in responses[n] :
       IF AddRefused(n, p)
       THEN /\ timers' = [timers EXCEPT ![n] = @ \ {"locate"}]
            /\ UNCHANGED <<up, peers, responses, out>>
       ELSE /\ peers' = [peers EXCEPT ![n] = @ \cup {p}]
            /\ FormUplink(n, p)
            /\ timers' = [timers EXCEPT ![n] = (@ \ {"locate"}) \cup {"up"}]
            /\ Send(n, "LINK", p, ident[n])
            /\ responses' = [responses EXCEPT ![n] = {}]
  /\ UNCHANGED <<down, pending, pendingMac, ident, decay, blocked, raced, air>>

\* timer_cb_pending_link begins: the proposal was not answered.
ProposalEnds(n) == Fires(n, "pending") /\ Heard(n) /\ \A d \in Node : Sent(n, "LINK", d)

\* timer_cb_pending_link, undisturbed.
ProposalTimeout(n) ==
  /\ ProposalEnds(n)
  /\ flags' = [flags EXCEPT ![n] = @ \ {"PENDING_LINK"}]
  /\ timers' = [timers EXCEPT ![n] = @ \ {"pending"}]
  /\ DelPeer(n, pendingMac[n])
  /\ pending' = [pending EXCEPT ![n] = None]
  /\ pendingMac' = [pendingMac EXCEPT ![n] = None]
  /\ UNCHANGED <<up, down, ident, responses, decay, blocked, raced, out, air>>

\* timer_cb_pending_link on m, which clears the flag, esp_now_del_peer and wipes
\* pending_mac and pending_id, with a LOCATE of n handled before the second, the
\* third or the fourth of these: what is left of it undoes the new proposal.  No
\* node has m for its pending_id: a proposal to m is over before one of m is, and
\* m is not the node that one has been stuck with (PendingMeansAwaiting).
InterruptedTimeout(n, m) ==
  /\ m \in Racing
  /\ ProposalEnds(m)
  /\ \A x \in Node : pending[x] # m
  /\ Receive(n, m, "LOCATE") /\ HasRoom(m) /\ n # pendingMac[m]
  /\ \/ /\ peers' = [peers EXCEPT ![m] = @ \ {n}]
        /\ pendingMac' = [pendingMac EXCEPT ![m] = None]
        /\ raced' = raced \cup {m}
     \/ /\ peers' = [peers EXCEPT ![m] = (@ \ {pendingMac[m]}) \cup {n}]
        /\ pendingMac' = [pendingMac EXCEPT ![m] = None]
        /\ raced' = raced \cup {m}
     \/ /\ peers' = [peers EXCEPT ![m] = (@ \ {pendingMac[m]}) \cup {n}]
        /\ pendingMac' = [pendingMac EXCEPT ![m] = n]
        /\ UNCHANGED raced
  /\ pending' = [pending EXCEPT ![m] = None]
  /\ IF AddRefused(m, n)
     THEN /\ timers' = [timers EXCEPT ![m] = @ \ {"pending"}]
          /\ UNCHANGED out
     ELSE /\ Send(m, "LINK", n, air[n].frame.ident)
          /\ UNCHANGED timers
  /\ UNCHANGED <<flags, up, down, ident, responses, decay, blocked>>

\* timer_cb_upstream: check the parent.
CheckParent(n) ==
  /\ Fires(n, "up")
  /\ "status" \notin timers[n]
  /\ Send(n, "STATUS", up[n], 0)
  /\ timers' = [timers EXCEPT ![n] = @ \cup {"status"}]
  /\ flags' = [flags EXCEPT ![n] = @ \cup {"UPLINK_STATUS"}]
  /\ UNCHANGED <<up, down, peers, pending, pendingMac, ident, responses, decay, blocked, raced, air>>

\* timer_cb_up_status: the parent has not answered.
ParentLost(n) ==
  /\ Fires(n, "status") /\ Sent(n, "STATUS", up[n])
  /\ timers' = [timers EXCEPT ![n] = @ \ {"status"}]
  /\ ExecBlackout(n, "timer")
  /\ UNCHANGED <<flags, up, down, peers, pending, pendingMac, ident, responses, decay, raced, air>>

\* timer_cb_downstream: a child has not checked for 30 s; the answer to its last
\* check has left.
Decay(n, i) ==
  /\ i \in decay[n] /\ "timer" \notin blocked[n]
  /\ \A k \in 1 .. Len(out[n]) :
       ~ (out[n][k].type = "STATUS" /\ out[n][k].dst = down[n][i])
  /\ decay' = [decay EXCEPT ![n] = @ \ {i}]
  /\ DelPeer(n, down[n][i])
  /\ down' = [down EXCEPT ![n][i] = None]
  /\ UNCHANGED <<flags, up, pending, pendingMac, ident, responses, timers, blocked, raced, out, air>>

-----------------------------------------------------------------------------
(***************************************************************************)
(* Boot.                                                                   *)
(***************************************************************************)

FirstTimers(n) == IF n = Root THEN {} ELSE {"join"}
Silence == [to |-> {}, frame |-> NoFrame]

\* init_sys, init_node and net_init after a reset of n.
Boot(n) ==
  /\ Heard(n)
  /\ flags'     = [flags EXCEPT ![n] = {}]
  /\ up'        = [up EXCEPT ![n] = None]
  /\ down'      = [down EXCEPT ![n] = [i \in Slot |-> None]]
  /\ peers'     = [peers EXCEPT ![n] = {}]
  /\ pending'   = [pending EXCEPT ![n] = None]
  /\ pendingMac' = [pendingMac EXCEPT ![n] = None]
  /\ raced'     = raced \ {n}
  /\ \E k \in Ident : ident' = [ident EXCEPT ![n] = k]
  /\ responses' = [responses EXCEPT ![n] = {}]
  /\ timers'    = [timers EXCEPT ![n] = FirstTimers(n)]
  /\ decay'     = [decay EXCEPT ![n] = {}]
  /\ blocked'   = [blocked EXCEPT ![n] = {}]
  /\ out'       = [out EXCEPT ![n] = << >>]
  /\ air'       = [air EXCEPT ![n] = Silence]

\* exec_blackout: esp_restart() after 2 s; by then the BLACKOUTs are out.
Restart(n) ==
  /\ blocked[n] # {}
  /\ \A d \in Node : Sent(n, "BLACKOUT", d)
  /\ Boot(n)

\* The node loses power, or an assertion resets it.
PowerCycle(n) == n \in Faulty /\ Boot(n)

Init ==
  /\ flags     = [n \in Node |-> {}]
  /\ up        = [n \in Node |-> None]
  /\ down      = [n \in Node |-> [i \in Slot |-> None]]
  /\ peers     = [n \in Node |-> {}]
  /\ pending   = [n \in Node |-> None]
  /\ pendingMac = [n \in Node |-> None]
  /\ raced     = {}
  /\ ident     \in [Node -> Ident]
  /\ responses = [n \in Node |-> {}]
  /\ timers    = [n \in Node |-> FirstTimers(n)]
  /\ decay     = [n \in Node |-> {}]
  /\ blocked   = [n \in Node |-> {}]
  /\ out       = [n \in Node |-> << >>]
  /\ air       = [n \in Node |-> Silence]

Handle(n, m) ==
  \/ ProposeLink(n, m) \/ NoteProposal(n, m) \/ AdoptChild(n, m)
  \/ StatusFromParent(n, m) \/ StatusFromChild(n, m) \/ ObeyBlackout(n, m)

TimerFires(n) ==
  \/ Join(n) \/ NobodyProposed(n) \/ ChooseParent(n) \/ ProposalTimeout(n)
  \/ CheckParent(n) \/ ParentLost(n) \/ \E i \in Slot : Decay(n, i)

Next ==
  \/ \E n, m \in Node : Handle(n, m) \/ Lose(n, m) \/ InterruptedTimeout(n, m)
  \/ \E n \in Node : \/ Transmit(n) \/ TimerFires(n) \/ Freeze(n) \/ Unfreeze(n)
                     \/ Restart(n) \/ PowerCycle(n)

Spec == Init /\ [][Next]_vars

\* The tasks of a running node get the processor: the worker, the WiFi task and
\* the timer task, whose running timers expire.
FairSpec ==
  /\ Spec
  /\ \A n \in Node :
       /\ WF_vars(Transmit(n))
       /\ \A m \in Node \ {n} : WF_vars(Handle(n, m) \/ Lose(n, m))
       /\ WF_vars(CheckParent(n)) /\ WF_vars(ParentLost(n)) /\ WF_vars(ProposalTimeout(n))
       /\ \A i \in Slot : WF_vars(Decay(n, i))
       /\ WF_vars(Restart(n))

-----------------------------------------------------------------------------
(***************************************************************************)
(* Properties.                                                             *)
(***************************************************************************)

TypeOK ==
  /\ flags     \in [Node -> SUBSET Flag]
  /\ up        \in [Node -> Node \cup {None}]
  /\ down      \in [Node -> [Slot -> Node \cup {None}]]
  /\ peers     \in [Node -> SUBSET Node]
  /\ pending   \in [Node -> Node \cup {None}]
  /\ pendingMac \in [Node -> Node \cup {None}]
  /\ raced     \subseteq Node
  /\ ident     \in [Node -> Ident]
  /\ responses \in [Node -> SUBSET Node]
  /\ timers    \in [Node -> SUBSET Timer]
  /\ decay     \in [Node -> SUBSET Slot]
  /\ blocked   \in [Node -> SUBSET {"wifi", "timer"}]
  /\ out       \in [Node -> Seq(Frame)]
  /\ air       \in [Node -> [to : SUBSET Node, frame : Frame \cup {NoFrame}]]

\* No node is in a link table twice, as a child in two entries or as child and
\* parent: find_entry and find_mac could only ever see one of the entries.
NoDuplicateLink ==
  \A n \in Node :
    /\ \A i, j \in Used(n) : i # j => down[n][i] # down[n][j]
    /\ up[n] \notin Children(n)
    /\ n \notin Links(n)

\* A proposal reserves an entry: from ProposeLink to the confirmation a
\* down-stream entry stays free, so form_downlink cannot find the table full
\* after the other side has committed itself.
ProposalHasSlot == \A n \in Node : "PENDING_LINK" \in flags[n] => FreeSlots(n) # {}

\* The ESP-NOW peer list holds exactly the linked nodes and the node a proposal
\* is open to; it neither leaks (the list is finite) nor lacks a linked node.
\* Not so on a node on which a LOCATE has met the end of a proposal: a peer that
\* nothing removes is left there, or a child loses its own.
PeersMatchLinks ==
  \A n \in Node \ raced :
    peers[n] = Links(n) \cup (IF "pending" \in timers[n] THEN {pendingMac[n]} ELSE {})

\* Timers and what they watch go together.  timer_cb_downstream asserts that
\* its entry is used; an unwatched entry would never decay.
TimersMatchState ==
  \A n \in Node :
    /\ decay[n] = (IF "FROZEN" \in flags[n] THEN {} ELSE Used(n))
    /\ "up" \in timers[n] <=> up[n] # None /\ "FROZEN" \notin flags[n]
    /\ "LOCATING" \in flags[n] <=> "locate" \in timers[n]
    /\ "status" \in timers[n] => "UPLINK_STATUS" \in flags[n]
    /\ "UPLINK_STATUS" \in flags[n] => "status" \in timers[n] \/ "timer" \in blocked[n]
    /\ "pending" \in timers[n] => /\ "PENDING_LINK" \in flags[n]
                                  /\ pendingMac[n] # None \/ n \in raced

\* A node looks for a parent only while it has none, no link of its own and no
\* proposal open; so form_uplink never finds the entry taken.
LocatingIsOrphan ==
  \A n \in Node : timers[n] \cap {"join", "locate"} # {} =>
    /\ ~ HasUplink(n)
    /\ Children(n) = {}
    /\ "PENDING_LINK" \notin flags[n]

\* The up-links form no cycle, whatever crashes and restarts went before: every
\* set of nodes has one whose parent is outside.  In a cycle every node would
\* answer the next one's STATUS for ever, cut off from the root.
UplinksAcyclic ==
  \A S \in (SUBSET Node) \ {{}} : \E n \in S : up[n] \notin S

\* Frames, timers and restarts implement a forest: a node changes only its own
\* up-link, from none to a parent while it is nobody's parent, and back.
Promised == INSTANCE Forest WITH parent <- up
ImplementsForest == Promised!Spec

\* A node adopts only a child that has chosen it: whenever a down-link appears,
\* the other end has its up-link there.
AdoptsOnlyItsChildren ==
  [][\A p, c \in Node : c \notin Children(p) /\ c \in Children(p)' => up[c] = p]_vars

\* A frozen node keeps its links: nothing times out under it.
FrozenKeepsLinks ==
  [][\A n \in Node : "FROZEN" \in flags[n] /\ "FROZEN" \in flags'[n] =>
        up'[n] = up[n] /\ down'[n] = down[n]]_vars

\* "not already be awaiting a response to a LINK proposal": while the flag is
\* set the node waits for a response, and gives up after TIMEOUT_PROPOSE_LINK.
PendingMeansAwaiting ==
  \A n \in Node : "PENDING_LINK" \in flags[n] => "pending" \in timers[n]

\* A half-open link is repaired: a node whose parent does not know it gives the
\* parent up (it restarts), unless it is frozen.
HalfOpenResolved ==
  \A c \in Node \ {Root} : \A p \in Node \ {c} :
    (up[c] = p /\ c \notin Children(p)) ~>
      (up[c] # p \/ c \in Children(p) \/ "FROZEN" \in flags[c])

\* A stale child decays: a parent that is not frozen drops a child that has
\* another parent or none.
StaleChildDecays ==
  \A c \in Node \ {Root} : \A p \in Node \ {c} :
    (c \in Children(p) /\ up[c] # p) ~>
      (c \notin Children(p) \/ up[c] = p \/ "FROZEN" \in flags[p])
=============================================================================
