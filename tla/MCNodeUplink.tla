--------------------------- MODULE MCNodeUplink ---------------------------
(***************************************************************************)
(* Instances of NodeUplink for TLC.                                        *)
(***************************************************************************)
EXTENDS NodeUplink
=============================================================================
