------------------------------ MODULE FirstFit ------------------------------
(***************************************************************************)
(* The reference for calc_dep_graph: the systems 0 .. n-1 are coloured in  *)
(* order, each with the least colour that no earlier system it clashes     *)
(* with has, and of two clashing systems the higher colour waits for the   *)
(* lower one.                                                              *)
(***************************************************************************)
EXTENDS Naturals

Colouring(n, clash) ==
  LET colour[i \in 0 .. n - 1] ==
        CHOOSE c \in 0 .. i :
          /\ \A j \in 0 .. i - 1 : <<i, j>> \in clash => colour[j] # c
          /\ \A d \in 0 .. c - 1 :
               \E j \in 0 .. i - 1 : <<i, j>> \in clash /\ colour[j] = d
  IN colour

FirstFitGraph(n, clash) ==
  LET colour == Colouring(n, clash)
  IN [i \in 0 .. n - 1 |->
        {j \in 0 .. n - 1 : <<i, j>> \in clash /\ colour[j] < colour[i]}]
=============================================================================
