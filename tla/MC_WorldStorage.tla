-------------------------- MODULE MC_WorldStorage ---------------------------
(***************************************************************************)
(* Two components in tables and one in a sparse set: archetypes that share *)
(* a table, and a move between tables while an entity of a third archetype *)
(* has the last row.                                                       *)
(***************************************************************************)
EXTENDS WorldStorage, TLC

CONSTANTS A, B, S, v1, v2

Some == {{A, S}, {B, S}}
Batch == {{A, B}}

Same == Permutations({A, B}) \cup Permutations({v1, v2})

\* Batches are inserted, and indices used again, while there are one or two.
Small ==
  Len(world.ents.meta) > 2 =>
    batch = Off /\ \A i \in DOMAIN world.ents.meta : world.ents.meta[i].generation = 1
=============================================================================
