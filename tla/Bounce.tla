------------------------------- MODULE Bounce -------------------------------
(***************************************************************************)
(* The bounce application on the data frames of NetData: a packet that     *)
(* comes from up-stream is sent back up, one from down-stream back down to *)
(* every child, life times.  Where the application is not registered, or   *)
(* find_app is late, the network layer passes the packet on.               *)
(*                                                                         *)
(* A payload is what is left of the life (life - counter) and, as history, *)
(* the leg of the journey it is on: legs are numbered, a number is free    *)
(* again when no copy of the leg is left.  The direction of a leg is that  *)
(* of the first message, turned at each bounce.                            *)
(***************************************************************************)
EXTENDS NetData

CONSTANTS
  Leg,      \* the numbers of legs
  MaxLife   \* bound on the life of a message

VARIABLE added  \* whether a message has been added

vars == <<netVars, added>>

ASSUME LegAssumption == Leg # {} /\ Leg \subseteq Nat /\ MaxLife \in Nat

BouncePacket == [left : 0 .. MaxLife, leg : Leg, up : BOOLEAN, strayed : BOOLEAN]

Init == NetInit /\ added = FALSE

\* The copies under way: [payload, at], at the node that holds or gets it next.
OutCopies == UNION {{[payload |-> out[n][k].payload, at |-> out[n][k].dst] :
                       k \in {i \in DOMAIN out[n] : out[n][i].control = "DEFAULT"}} : n \in Node}
InCopies  == UNION {{[payload |-> inbox[n][k].payload, at |-> n] :
                       k \in DOMAIN inbox[n]} : n \in Node}

\* The number of the next leg (history).  Bound: a bounce waits for a free one.
FreeLeg == LET free == Leg \ {c.payload.leg : c \in OutCopies \cup InCopies}
           IN  CHOOSE l \in free : \A j \in free : l <= j
LegFree == Leg # {c.payload.leg : c \in OutCopies \cup InCopies}

\* app_bounce_add_message_up and _down on node n.
AddMessage(n, goUp, life) ==
  LET p == [left |-> life, leg |-> FreeLeg, up |-> goUp, strayed |-> FALSE] IN
  /\ n \in hosts /\ ~ added /\ ~ asked
  /\ added' = TRUE
  /\ out' = [out EXCEPT ![n] = EnqueueAll(@, IF goUp THEN SendUp(n, p) ELSE SendDown(n, p))]
  /\ UNCHANGED <<setVars, linkVars, inbox, mapVars, faults>>

\* A message that bounces between the gateway and this system.
GatewayMessage(life) ==
  LET p == [left |-> life, leg |-> FreeLeg, up |-> FALSE, strayed |-> FALSE] IN
  /\ ~ isRoot /\ ~ added /\ ~ asked
  /\ added' = TRUE
  /\ \E late \in SUBSET (hosts \cap {Top}) :
       Late(late) /\ Handle({Top}, Gateway, DataFrame(Top, p), late, out)
  /\ UNCHANGED <<setVars, linkVars, mapVars>>

\* Faulty variant: data.counter is not incremented.
LeftUncounted(p) == p.left

\* data.counter++, as what is left.
LeftAfter(p) == p.left - 1

\* app_bounce_timer_cb on n: one turn of its loop.
Bounces(n) ==
  /\ inbox[n] # << >>
  /\ inbox' = [inbox EXCEPT ![n] = Tail(@)]
  /\ LET h == Head(inbox[n])
         p == [left |-> LeftAfter(h.payload), leg |-> FreeLeg,
               up |-> ~ h.payload.up, strayed |-> h.payload.strayed]
     IN  IF h.payload.left = 0
         THEN UNCHANGED out
         ELSE LegFree /\ out' = [out EXCEPT ![n] =
                EnqueueAll(@, IF h.fromUp THEN SendUp(n, p) ELSE SendDown(n, p))]
  /\ UNCHANGED <<setVars, linkVars, mapVars, faults, added>>

\* Bound: one message, or one request of the gateway.
Next == \/ NetStep /\ UNCHANGED added
        \/ MapRequest /\ ~ added /\ UNCHANGED added
        \/ \E n \in Node, goUp \in BOOLEAN, life \in 1 .. MaxLife : AddMessage(n, goUp, life)
        \/ \E life \in 1 .. MaxLife : GatewayMessage(life)
        \/ \E n \in Node : Bounces(n)

Spec == Init /\ [][Next]_vars

\* The worker task and the periodic timer of the application on some node: one goes on.
Advance == \E n \in Node : (Transmit(n) /\ UNCHANGED added) \/ Bounces(n)

FairSpec == Spec /\ WF_vars(Advance)

-----------------------------------------------------------------------------
TypeOK ==
  /\ isRoot \in BOOLEAN /\ hosts \subseteq Node
  /\ up \in [Node -> Node \cup {Gateway, None}]
  /\ down \in [Node -> [Slot -> Node \cup {None}]]
  /\ \A n \in Node :
       /\ Len(out[n]) <= OutCap /\ Len(inbox[n]) <= InCap
       /\ \A k \in 1 .. Len(out[n]) :
            \/ out[n][k] \in [control : {"DEFAULT"}, dst : Node \cup {Gateway}, payload : BouncePacket]
            \/ out[n][k] \in [control : {"MAP"}, dst : Node \cup {Gateway},
                              origin : Node \cup {None}, upstream : Node \cup {Gateway, None}]
       /\ \A k \in 1 .. Len(inbox[n]) : inbox[n][k] \in [payload : BouncePacket, fromUp : BOOLEAN]
  /\ mapped \subseteq (Node \cup {None}) \X (Node \cup {Gateway, None})
  /\ asked \in BOOLEAN /\ lost \in BOOLEAN /\ added \in BOOLEAN
  /\ faults \in 0 .. MaxFaults

\* n or a node above it.
AtOrAbove[n \in Node \cup {Gateway}] ==
  IF n = Gateway THEN {n} ELSE {n} \cup AtOrAbove[Parent[n]]

\* Handed to an application or passed on, never both: no path of the tree holds two
\* copies of one leg.  find_app may miss an application, which then never sees
\* the packet; a copy is strayed once a frame to a lost child went to all peers.
OneCopyPerPath ==
  \A c, d \in OutCopies \cup InCopies :
    /\ c # d /\ c.payload.leg = d.payload.leg
    /\ ~ c.payload.strayed /\ ~ d.payload.strayed
    => c.at \notin AtOrAbove[d.at]

\* A bounced packet turns round: each hop of a leg, through nodes with and without
\* the application, goes the way that the number of bounces says.  Copies that have
\* strayed are left out, and do turn round: the destination is looked up again when
\* the frame is sent (net_layer.c:1116), one for a child that has decayed since it was
\* queued goes to all peers, and the parent takes it for one from down-stream (623)
\* and sends it back up.
LegsKeepDirection ==
  \A n \in Node : \A k \in 1 .. Len(out[n]) :
    out[n][k].control = "DEFAULT" /\ ~ out[n][k].payload.strayed
    => (out[n][k].payload.up <=> out[n][k].dst = up[n])

\* A MAP request brings the gateway the link of every node, if no frame is lost.
MapComplete == [](asked => <>(lost \/ mapped = {<<n, Parent[n]>> : n \in Node}))

\* Bouncing ends: copies may multiply at every node with several children, and
\* stray after a lost child, but the network falls silent.
FallsSilent == <>[](\A n \in Node : out[n] = << >> /\ inbox[n] = << >>)
=============================================================================
