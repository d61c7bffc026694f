--------------------------- MODULE MC_PhysicsSync ---------------------------
(***************************************************************************)
(* One entity with every kind of body, velocities and targets, or two      *)
(* entities with dynamic bodies and nothing but positions.  One component  *)
(* may be missing because the game removed it.                             *)
(***************************************************************************)
EXTENDS PhysicsSync, TLC

PlainSpawn == {"Transform", "RigidBody", "DirectModifications"}

SomeSpawns == {PlainSpawn, {"Transform", "Collider"}, {"Transform", "RigidBody", "Velocity"}}

Used == {e \in Entities : Live(e) \/ e \in despawned}

Afar == {e \in Entities :
  \/ value[e].transform # Origin
  \/ \E h \in DOMAIN bodies : rigidbody_entity[h] = e
                             /\ {bodies[h].position, bodies[h].next} # {Origin}}

Plain ==
  /\ \A p \in taken : p[1] \in added_bodies /\ p[2] \in {"Transform", "RigidBodyHandle"}
  /\ \A e \in Entities : Live(e) =>
       /\ PlainSpawn \subseteq comps[e] \cup {"RigidBody"} \cup {p[2] : p \in taken}
       /\ "Velocity" \in comps[e] => e \in added_bodies
       /\ "RigidBody" \in comps[e] => value[e].kind = "dynamic"
       /\ value[e].velocity = Still
  /\ \A h \in DOMAIN bodies : bodies[h].kind = "dynamic" /\ bodies[h].velocity = Still
  /\ Cardinality(Afar) <= 1
  /\ Cardinality(added_colliders \cup Has({"Collider"})) + Cardinality(taken) <= 1

\* The bound: one component missing at a time, of entities that have no collider then, and
\* a second entity only next to a plain one, one of them at the origin, one without a
\* collider, and nothing missing next to a collider.
Small ==
  /\ Cardinality(taken) <= 1 /\ (taken # {} => Has({"Collider"}) = {})
  /\ Cardinality(Used) <= 1 \/ Plain

Same == Permutations(Entities)
=============================================================================
