----------------------------- MODULE MCCollatz -----------------------------
(***************************************************************************)
(* Instances of Collatz for TLC: trees of two and three nodes.             *)
(***************************************************************************)
EXTENDS Collatz

CONSTANTS n0, n1, n2

\* n0 is the parent of n1
PairParent == [n \in {n1} |-> n0]

\* n0 - n1 - n2: reports of n2 pass n1 on their way up and down
ChainParent == [n \in {n1, n2} |-> IF n = n1 THEN n0 ELSE n1]
=============================================================================
