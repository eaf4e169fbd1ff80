---------------------------- MODULE MCLinkLayer ----------------------------
(***************************************************************************)
(* Instances of LinkLayer for TLC: a root r and the nodes a and b.         *)
(***************************************************************************)
EXTENDS LinkLayer, TLC

CONSTANTS r, a, b

\* a and b have the same part in link_trio.
Symmetric == Permutations({a, b})
=============================================================================
