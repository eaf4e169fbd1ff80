------------------------------- MODULE Forest -------------------------------
(***************************************************************************)
(* What the network layer promises of its up-stream links, without frames, *)
(* timers, flags or peers: nodes that are nobody's parent join the tree of *)
(* another node, and leave their parent one by one.  The root never joins. *)
(* LinkLayer implements this while no node is frozen (ImplementsForest).   *)
(***************************************************************************)
CONSTANTS
  Node,  \* the nodes
  Root,  \* the root of the network
  None   \* parent of a node that is in no tree but its own

VARIABLE parent  \* parent[n]: the up-stream link of n

Init == parent = [n \in Node |-> None]

\* n has no tree of its own to bring along: a cycle cannot close.
Attach(n, p) ==
  /\ n # Root /\ p # n
  /\ parent[n] = None
  /\ \A m \in Node : parent[m] # n
  /\ parent' = [parent EXCEPT ![n] = p]

Detach(n) ==
  /\ parent[n] # None
  /\ parent' = [parent EXCEPT ![n] = None]

Next == \E n \in Node : Detach(n) \/ \E p \in Node : Attach(n, p)

Spec == Init /\ [][Next]_parent
=============================================================================
