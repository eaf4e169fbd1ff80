------------------------------- MODULE Ledger -------------------------------
(***************************************************************************)
(* What the Collatz application promises, without frames, indices, shifts, *)
(* reports or queues: a ledger of the blocks each node holds for done.     *)
(*                                                                         *)
(* A node works on one block at a time, never on one it holds for done,    *)
(* and enters in its ledger the block it worked on and blocks that some    *)
(* node has started on.  Entries are never taken back; a restart clears    *)
(* the node's ledger.  Collatz implements this (ImplementsLedger).         *)
(***************************************************************************)
CONSTANTS
  Node,    \* the nodes
  NoBlock  \* job of a node that does not compute

VARIABLES
  done,    \* done[n]: the blocks node n holds for done
  job,     \* job[n]: the block n computes, or NoBlock
  started  \* the blocks a node has started to compute

ledgerVars == <<done, job, started>>

Init ==
  /\ done = [n \in Node |-> {}]
  /\ job = [n \in Node |-> NoBlock]
  /\ started = {}

\* A block, of whatever kind, that n does not hold for done.
Begin(n) ==
  /\ job[n] = NoBlock
  /\ \E b \in started' \ done[n] :
       /\ job' = [job EXCEPT ![n] = b]
       /\ started' = started \cup {b}
  /\ UNCHANGED done

\* The computation of n has ended: the block it began with is entered.
Finish(n) ==
  /\ job[n] # NoBlock
  /\ done' = [done EXCEPT ![n] = @ \cup {job[n]}]
  /\ job' = [job EXCEPT ![n] = NoBlock]
  /\ UNCHANGED started

GiveUp(n) ==
  /\ job[n] # NoBlock
  /\ job' = [job EXCEPT ![n] = NoBlock]
  /\ UNCHANGED <<done, started>>

\* A report: n enters some of the blocks somebody has started on.
Learn(n) ==
  /\ \E B \in SUBSET started : done' = [done EXCEPT ![n] = @ \cup B]
  /\ UNCHANGED <<job, started>>

Clear(n) ==
  /\ done' = [done EXCEPT ![n] = {}]
  /\ job' = [job EXCEPT ![n] = NoBlock]
  /\ UNCHANGED started

Next == \E n \in Node :
          Begin(n) \/ Finish(n) \/ GiveUp(n) \/ Learn(n) \/ Clear(n)

Spec == Init /\ [][Next]_ledgerVars
=============================================================================
