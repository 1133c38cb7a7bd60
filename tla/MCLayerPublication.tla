------------------------- MODULE MCLayerPublication -------------------------
(***************************************************************************)
(* A received base layer, a layer on it and its package, a layer without   *)
(* a parent and one that is built on an overlay.                           *)
(***************************************************************************)
EXTENDS LayerPublication

MCKind == [base |-> "receive", layer |-> "compile", package |-> "send", other |-> "compile", overlay |-> "materialize"]
MCDep == [base |-> None, layer |-> "base", package |-> "layer", other |-> None, overlay |-> None]
=============================================================================
