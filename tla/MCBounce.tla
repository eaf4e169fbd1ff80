------------------------------ MODULE MCBounce ------------------------------
(***************************************************************************)
(* Instance of Bounce for TLC: t over m over the leaves x and y.           *)
(***************************************************************************)
EXTENDS Bounce

CONSTANTS t, m, x, y, g

MCParent == [n \in {t, m, x, y} |-> CASE n = t -> g [] n = m -> t [] OTHER -> m]
=============================================================================
