------------------------- MODULE MC_TableIteration --------------------------
(***************************************************************************)
(* A table of five entities, of which any may be new and any may have had  *)
(* a body before.                                                          *)
(***************************************************************************)
EXTENDS TableIteration, TLC

CONSTANTS e1, e2, e3, e4, e5

Five == {e1, e2, e3, e4, e5}

Same == Permutations(Five)
=============================================================================
