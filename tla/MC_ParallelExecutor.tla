------------------------- MODULE MC_ParallelExecutor ------------------------
(***************************************************************************)
(* ParallelExecutor on every graph calc_dep_graph can produce for a few    *)
(* systems: the first-fit graphs of all their conflict relations (that     *)
(* calc_dep_graph produces these is GraphIsFirstFit of module DepGraph).   *)
(***************************************************************************)
EXTENDS ParallelExecutor, FirstFit, TLC

Pairs == {p \in Systems \X Systems : p[1] < p[2]}

AllDepGraphs ==
  {FirstFitGraph(Cardinality(Systems), ps \cup {<<p[2], p[1]>> : p \in ps}) :
     ps \in SUBSET Pairs}

Symmetry == Permutations(Workers)
=============================================================================
