---------------------------- MODULE MC_DepGraph -----------------------------
(***************************************************************************)
(* An instance of DepGraph: up to four systems over three resources, which *)
(* give every shape of conflict, and up to three systems when one of them  *)
(* reaches the ECS world, on every archetype of two components.            *)
(***************************************************************************)
EXTENDS DepGraph, TLC

CONSTANTS Transform, Camera, RenderManager, UpdateData, MouseInput

Terms == [reads |-> {}, writes |-> {}, opt_reads |-> {}, opt_writes |-> {},
          with |-> {}, without |-> {}, any |-> {NoFilter}, entity |-> "none"]

Mut(cs) == Query([Terms EXCEPT !.writes = cs])

AnyArchetypes == SUBSET Components

\* One kind of access to the ECS world each.
WorldAccess == {
  {World}, {Runtime},
  {Mut({Transform})},
  {Query([Terms EXCEPT !.opt_reads = {Transform}, !.reads = {Camera}])},
  {Query([Terms EXCEPT !.entity = "mut", !.without = {Transform}])},
  {Query([Terms EXCEPT !.opt_writes = {Camera},
                       !.any = {[with |-> {Camera}, without |-> {}],
                                [with |-> {}, without |-> {Transform}]}])}}

\* One or two of three resources each: cliques, stars and paths of conflicts,
\* where the order of registration decides who shares a group.
AnySystems ==
  {[name |-> f, params |-> {Res(t) : t \in ts} \cup {Local(f, 1)}] :
      f \in Functions, ts \in SUBSET Resources \ {{}, Resources}}

WorldSystems ==
  {[name |-> f, params |-> w \cup {Local(f, 1)}] : f \in Functions, w \in WorldAccess}

AllSystems == AnySystems \cup WorldSystems

ThreeWithWorld ==
  Len(actions) > 3 => \A k \in DOMAIN actions : actions[k] \in AnySystems

Names == Permutations(Functions)
=============================================================================
