---------------------------- MODULE MCNodeTasks ----------------------------
(***************************************************************************)
(* Instances of NodeTasks for TLC: two children that are interchangeable.  *)
(***************************************************************************)
EXTENDS NodeTasks, TLC

CONSTANTS a, b

ChildSymmetry == Permutations({a, b})
=============================================================================
