------------------------------ MODULE MCSensor ------------------------------
(***************************************************************************)
(* Instance of Sensor for TLC: t with the children a and b, and a leaf d   *)
(* below a.                                                                *)
(***************************************************************************)
EXTENDS Sensor

CONSTANTS t, a, b, d, g

MCParent == [n \in {t, a, b, d} |-> CASE n = t -> g [] n = d -> a [] OTHER -> t]
=============================================================================
