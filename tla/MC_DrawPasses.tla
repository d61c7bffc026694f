--------------------------- MODULE MC_DrawPasses ----------------------------
(***************************************************************************)
(* The two materials of the engine: both systems have the same body, so    *)
(* they are interchangeable.                                               *)
(***************************************************************************)
EXTENDS DrawPasses, TLC

BothMaterials == Permutations(Materials)
=============================================================================
