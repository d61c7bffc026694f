------------------------ MODULE MC_DeferredCommands -------------------------
(***************************************************************************)
(* Two queues, that of the world and that of one system; many commands and *)
(* few ids, or few commands and many ids.                                  *)
(***************************************************************************)
EXTENDS DeferredCommands, TLC

CONSTANTS q1, MaxTogether

OneQueue == {q1}

FewTogether == Cardinality(names) + Cardinality(held \cup killed) <= MaxTogether
=============================================================================
