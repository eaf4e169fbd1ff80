------------------------------ MODULE NetData ------------------------------
(***************************************************************************)
(* The frames that travel over the virtual links: DEFAULT frames between   *)
(* applications, with their inbound queues and the default forwarding of   *)
(* nodes without the application, and MAP.  Bounce puts an application on  *)
(* top and closes the system.                                              *)
(*                                                                         *)
(* The nodes form the tree Parent under Top, which is the debug root or    *)
(* has the gateway for its parent (isRoot).  How links come and go is in   *)
(* LinkLayer; of it, only what a frame in a queue can notice is here: a    *)
(* child that decays at its parent while it still has it for its parent, a *)
(* restart, and a node that joins again, under the same parent.            *)
(*                                                                         *)
(* A frame is taken from the queue, sent and handled in one step; any of   *)
(* its receivers may miss it.  One application; its packets hold a payload.*)
(***************************************************************************)
EXTENDS Integers, Sequences, FiniteSets

CONSTANTS
  Node,             \* node ids
  Top,              \* the node under the gateway, or the debug root
  Parent,           \* the parent a node has when it is linked
  Gateway,          \* the node above Top, not part of this system
  None,             \* id 0: an empty entry
  LINK_TABLE_SIZE,  \* entries of the link table, entry 0 (LINK_UP) included
  OutCap,           \* capacity of the outbound queue (16 in the code)
  InCap,            \* INBOUND_QUEUE_SIZE
  MaxFaults         \* bound: restarts, links that break under a running child, and
                    \* lookups of the application that are late

ASSUME NodeAssumption  == IsFiniteSet(Node) /\ Top \in Node /\ Gateway \notin Node /\ None \notin Node \cup {Gateway}
ASSUME TreeAssumption  == /\ Parent \in [Node -> Node \cup {Gateway}]
                          /\ \A n \in Node : Parent[n] = Gateway <=> n = Top
ASSUME TableAssumption == LINK_TABLE_SIZE \in Nat \ {0}
ASSUME QueueAssumption == OutCap \in Nat \ {0} /\ InCap \in Nat \ {0} /\ MaxFaults \in Nat

Slot == 1 .. LINK_TABLE_SIZE-1

VARIABLES
  isRoot,  \* whether Top has node.isRoot set
  hosts,   \* the nodes on which the application is registered
  up,      \* up[n]: entry[LINK_UP].id
  down,    \* down[n][i]: entry[i].id while its usage bit is set, else None
  out,     \* out[n]: the outbound queue
  inbox,   \* inbox[n]: the inbound queue of the application
  mapped,  \* history: the (origin, up-stream) pairs that reached the gateway
  asked,   \* history: the gateway has sent a MAP request
  lost,    \* history: a MAP frame has been lost, or a link was down
  faults   \* the number of faults so far

setVars  == <<isRoot, hosts>>
linkVars == <<up, down>>
mapVars  == <<mapped, asked, lost>>
netVars  == <<setVars, linkVars, out, inbox, mapVars, faults>>

Used(n)     == {i \in Slot : down[n][i] # None}
Children(n) == {down[n][i] : i \in Used(n)}
Links(n)    == Children(n) \cup ({up[n]} \ {None})

\* The k-th used entry in table order, and the children of n in that order.
Nth(n, k)  == CHOOSE i \in Used(n) : Cardinality({j \in Used(n) : j < i}) = k - 1
Entries(n) == [k \in 1 .. Cardinality(Used(n)) |-> down[n][Nth(n, k)]]

\* The empty tables of a booted node.
NoLinks == [i \in Slot |-> None]

\* The tables that hold the children of n, from the first entry on.
Tables(n) ==
  {f \in [Slot -> Node \cup {None}] :
     /\ {f[i] : i \in Slot} \ {None} = {c \in Node : Parent[c] = n}
     /\ \A i, j \in Slot : i < j /\ f[j] # None => f[i] \notin {None, f[j]}}

\* The children of a node fit its table.  The links form a tree, as LinkLayer keeps
\* them (UplinksAcyclic): in every set of nodes the parent of some is not one of them.
ASSUME FitAssumption     == \A n \in Node : Tables(n) # {}
ASSUME AcyclicAssumption == \A S \in SUBSET Node : S # {} => \E n \in S : Parent[n] \notin S

\* Every node linked to its parent, in some table order.
NetInit ==
  /\ isRoot \in BOOLEAN
  /\ hosts \in SUBSET Node
  /\ up = [n \in Node |-> IF n = Top /\ isRoot THEN None ELSE Parent[n]]
  /\ down = [n \in Node |-> CHOOSE f \in Tables(n) : TRUE]
  /\ out = [n \in Node |-> << >>] /\ inbox = [n \in Node |-> << >>]
  /\ mapped = {} /\ asked = FALSE /\ lost = FALSE /\ faults = 0

-----------------------------------------------------------------------------
(***************************************************************************)
(* Sending.                                                                *)
(***************************************************************************)
DataFrame(d, p)     == [control |-> "DEFAULT", dst |-> d, payload |-> p]
MapFrame(d, o, u)   == [control |-> "MAP", dst |-> d, origin |-> o, upstream |-> u]

\* net_send_raw for each frame of s in turn: a full queue drops the rest.
EnqueueAll(q, s) == q \o SubSeq(s, 1, IF Len(s) < OutCap - Len(q) THEN Len(s) ELSE OutCap - Len(q))

\* The frame f, sent to each child in turn.
ToChildren(n, f) == [k \in 1 .. Cardinality(Used(n)) |-> [f EXCEPT !.dst = Entries(n)[k]]]

\* net_send_up: the root ignores it, a node without an up-stream link drops it.
SendUp(n, p) == IF up[n] = None THEN << >> ELSE << DataFrame(up[n], p) >>

\* net_send_down.
SendDown(n, p) == ToChildren(n, DataFrame(None, p))

\* find_mac and esp_now_send: without an entry for d the frame goes to all peers,
\* the broadcast address included.
Receivers(n, d) == IF d \in Links(n) THEN {d} ELSE (Node \cup {Gateway}) \ {n}

-----------------------------------------------------------------------------
(***************************************************************************)
(* espnow_recv on node m for a frame f of src.                             *)
(***************************************************************************)
IsLinked(m, src)   == src \in Links(m)

\* Faulty variant: is_upstream looks at the down-stream entries.
IsADownstream(m, src) == src \in Children(m)

IsUpstream(m, src) == src = up[m]

\* Faulty variant: a node that passes an answer on puts its own link into it.
MapRenamed(m, src, f) ==
  IF IsUpstream(m, src)
  THEN << MapFrame(src, m, src) >> \o ToChildren(m, f)
  ELSE IF up[m] # None THEN << MapFrame(up[m], m, up[m]) >> ELSE << >>

\* CONTROL_MAP: from up-stream, answer and pass the request on; from down-stream,
\* pass the frame on, except at the root.
MapReplies(m, src, f) ==
  IF IsUpstream(m, src)
  THEN << MapFrame(src, m, src) >> \o ToChildren(m, f)
  ELSE IF up[m] # None THEN << [f EXCEPT !.dst = up[m]] >> ELSE << >>

\* Faulty variant: the queue of the application takes any number.
DeliverAll(q, m, src, p) == Append(q, [payload |-> p, fromUp |-> IsUpstream(m, src)])

\* CONTROL_DEFAULT with a registered application: it is queued with the direction
\* it came from, or dropped.
Deliver(q, m, src, p) ==
  IF Len(q) < InCap THEN Append(q, [payload |-> p, fromUp |-> IsUpstream(m, src)]) ELSE q

\* Faulty variant: a registered application does not keep a packet from travelling on.
ForwardAlways(m, src, p, found) ==
  IF IsUpstream(m, src) THEN SendDown(m, p) ELSE SendUp(m, p)

\* CONTROL_DEFAULT without one: the default behaviour.
Forward(m, src, p, found) ==
  IF found THEN << >> ELSE IF IsUpstream(m, src) THEN SendDown(m, p) ELSE SendUp(m, p)

\* The frames that m sends in answer to f.
Replies(m, src, f, found) ==
  IF ~ IsLinked(m, src) THEN << >>
  ELSE IF f.control = "MAP" THEN MapReplies(m, src, f)
  ELSE Forward(m, src, f.payload, found)

\* What is handed to the application.
Inbound(m, src, f, found) ==
  IF IsLinked(m, src) /\ f.control = "DEFAULT" /\ found
  THEN Deliver(inbox[m], m, src, f.payload)
  ELSE inbox[m]

\* A full outbound queue of m drops some of a sequence s of frames.
Overflows(m, s) == Len(out[m]) + Len(s) > OutCap

\* The nodes R handle f of src.  find_app finds nothing on a node that is
\* not a host, and on the nodes of `late', where it has not got the lock in time.
Handle(R, src, f, late, q) ==
  LET found(m) == m \in hosts \ late IN
  /\ out' = [m \in Node |-> IF m \in R THEN EnqueueAll(q[m], Replies(m, src, f, found(m)))
                                       ELSE q[m]]
  /\ inbox' = [m \in Node |-> IF m \in R THEN Inbound(m, src, f, found(m)) ELSE inbox[m]]

\* The copy of a frame that went to all peers carries this mark (history).
Strayed(f) ==
  IF f.control = "DEFAULT" THEN [f EXCEPT !.payload.strayed = TRUE] ELSE f

\* find_app is late on these nodes.
Late(L) == faults + Cardinality(L) <= MaxFaults /\ faults' = faults + Cardinality(L)

\* worker_send takes the next frame of n; those in R receive it.
Transmit(n) ==
  /\ out[n] # << >>
  /\ LET f  == Head(out[n])
         to == Receivers(n, f.dst)
     IN  \E R \in SUBSET to, late \in SUBSET hosts :
           /\ late \subseteq R /\ Late(late)
           /\ Handle(R, n, IF to = {f.dst} THEN f ELSE Strayed(f), late,
                     [out EXCEPT ![n] = Tail(@)])
           /\ f.control = "MAP" => late = {}
           /\ IF f.control = "MAP"
              THEN /\ mapped' = IF Gateway \in R THEN mapped \cup {<<f.origin, f.upstream>>} ELSE mapped
                   /\ lost' = (lost \/ R # {f.dst}
                                    \/ \E m \in R \cap Node : Overflows(m, Replies(m, n, f, FALSE)))
              ELSE UNCHANGED <<mapped, lost>>
  /\ UNCHANGED <<setVars, linkVars, asked>>

\* The gateway sends a MAP request.
MapRequest ==
  /\ ~ isRoot /\ ~ asked
  /\ Handle({Top}, Gateway, MapFrame(Top, None, None), {}, out)
  /\ asked' = TRUE
  /\ lost' = (lost \/ Overflows(Top, MapReplies(Top, Gateway, MapFrame(Top, None, None))))
  /\ UNCHANGED <<setVars, linkVars, mapped, faults>>

-----------------------------------------------------------------------------
(***************************************************************************)
(* Links.                                                                  *)
(***************************************************************************)

\* timer_cb_downstream on n for entry i.  A child that still has n for its parent
\* was not heard in time: a fault.
Decay(n, i) ==
  /\ down[n][i] # None
  /\ IF up[down[n][i]] = n
     THEN faults < MaxFaults /\ faults' = faults + 1
     ELSE UNCHANGED faults
  /\ down' = [down EXCEPT ![n][i] = None]
  /\ lost' = TRUE
  /\ UNCHANGED <<setVars, up, out, inbox, mapped, asked>>

\* A node restarts, and registers its application again.
Restart(n) ==
  /\ n # Top /\ faults < MaxFaults
  /\ faults' = faults + 1
  /\ up' = [up EXCEPT ![n] = None]
  /\ down' = [down EXCEPT ![n] = NoLinks]
  /\ out' = [out EXCEPT ![n] = << >>]
  /\ inbox' = [inbox EXCEPT ![n] = << >>]
  /\ lost' = TRUE
  /\ UNCHANGED <<setVars, mapped, asked>>

\* It is linked again (form_downlink, form_uplink).
Rejoin(n) ==
  LET p    == Parent[n]
      free == {i \in Slot : down[p][i] = None}
  IN
  /\ n # Top /\ up[n] = None
  /\ up[p] # None \/ (p = Top /\ isRoot)
  /\ n \notin Children(p) /\ free # {}
  /\ down' = [down EXCEPT ![p] = [@ EXCEPT ![CHOOSE i \in free : \A j \in free : i <= j] = n]]
  /\ up' = [up EXCEPT ![n] = p]
  /\ UNCHANGED <<setVars, out, inbox, mapVars, faults>>

NetStep == \/ \E n \in Node : Transmit(n) \/ Restart(n) \/ Rejoin(n)
           \/ \E n \in Node, i \in Slot : Decay(n, i)
=============================================================================
