----------------------------- MODULE PhysicsSync ----------------------------
(***************************************************************************)
(* The frame as the ECS world and rapier see it: game systems edit the     *)
(* world, the systems of PhysicsSyncMain carry it over to rapier and back, *)
(* rapier makes a step, clear_trackers forgets what was changed.           *)
(*                                                                         *)
(* PhysicsSyncMain always runs on the main thread, in the order its        *)
(* systems are registered.  Every system builds its queries anew, so Added *)
(* and Changed mean: since the last clear_trackers.                        *)
(***************************************************************************)
EXTENDS Naturals, Sequences, FiniteSets

CONSTANTS Entities,
          Kinds,       \* the kinds of bodies the game builds
          Positions,   \* of a Transform, its rotation included
          Velocities,  \* linear and angular velocity as one
          Origin,      \* Transform::default()
          Still,       \* the default velocity
          Spawns       \* the sets of components the game spawns entities with

AllKinds == {"dynamic", "fixed", "kinematic position", "kinematic velocity"}
GameComponents ==
  {"RigidBody", "Transform", "Collider", "Velocity", "DirectModifications"}
Components == GameComponents \cup
  {"RigidBodyHandle", "FixedRigidBody", "TargetTransform", "TargetVelocity"}

\* The components whose flags somebody asks for.
AddedAsked == {"RigidBody", "Collider", "RigidBodyHandle"}
ChangedAsked == {"Transform", "Velocity", "TargetVelocity"}

ASSUME KindsAssumption == Kinds \subseteq AllKinds /\ Kinds # {}
ASSUME DefaultsAssumption == Origin \in Positions /\ Still \in Velocities
ASSUME SpawnsAssumption ==
  Spawns \subseteq {cs \in SUBSET GameComponents : "Transform" \in cs}

VARIABLES
  comps,           \* the components of every live entity
  despawned,       \* entities that are no more
  taken,           \* history: <<entity, component>> the game removed and did not give back
  value,           \* what the components hold
  added, changed,  \* <<entity, component>>: added, and added or written, since clear_trackers,
                   \* of those somebody asks for
  bodies,          \* RigidBodySet, by handle
  rigidbody_entity,              \* PhysicsMappings: handle -> entity
  added_bodies, added_colliders, \* PhysicsMappings
  pc               \* the system to run, or where the frame is between schedules

world == <<comps, despawned, taken, value, added, changed>>
mappings == <<rigidbody_entity, added_bodies, added_colliders>>
vars == <<world, bodies, mappings, pc>>

\* Mutant: colliders are handled before bodies.
SystemsColliderFirst ==
  <<"sync_physics_transform", "sync_fixed_bodies_to_rapier", "handle_collider_insert",
    "handle_rigidbody_insert", "sync_target_transform_kinematic_body",
    "sync_target_vel_kinematic_body", "sync_physics_direct_transform_modification",
    "sync_lin_vel_to_physics", "mark_static_bodies_trans_changed">>

\* Mutant: bodies are made last but for the colliders.
SystemsBodiesLate ==
  <<"sync_physics_transform", "sync_fixed_bodies_to_rapier",
    "sync_target_transform_kinematic_body", "sync_target_vel_kinematic_body",
    "sync_physics_direct_transform_modification", "sync_lin_vel_to_physics",
    "mark_static_bodies_trans_changed", "handle_rigidbody_insert",
    "handle_collider_insert">>

\* physics_systems, in order; sync_ang_vel_to_physics is as sync_lin_vel_to_physics.
Systems == <<"sync_physics_transform", "sync_fixed_bodies_to_rapier",
             "handle_rigidbody_insert", "sync_target_transform_kinematic_body",
             "sync_target_vel_kinematic_body", "sync_physics_direct_transform_modification",
             "sync_lin_vel_to_physics", "mark_static_bodies_trans_changed",
             "handle_collider_insert">>

Unset == [kind |-> CHOOSE k \in Kinds : TRUE, transform |-> Origin, velocity |-> Still,
          handle |-> 0, target |-> Origin, target_velocity |-> Still]

Init ==
  /\ comps = [e \in Entities |-> {}]
  /\ despawned = {} /\ taken = {}
  /\ value = [e \in Entities |-> Unset]
  /\ added = {} /\ changed = {}
  /\ bodies = << >> /\ rigidbody_entity = << >>
  /\ added_bodies = {} /\ added_colliders = {}
  /\ pc = "game"

Has(cs) == {e \in Entities : cs \subseteq comps[e]}
ChangedIn(c) == {e \in Entities : <<e, c>> \in changed}
AddedIn(c) == {e \in Entities : <<e, c>> \in added}

\* An entity may have lost all its components and still be there.
Live(e) == comps[e] # {} \/ \E c \in Components : <<e, c>> \in taken

-----------------------------------------------------------------------------
(***************************************************************************)
(* The game: systems of EngineLoad, Update and PostUpdate ("game") and of  *)
(* PostPhysicsSync ("game, late").                                         *)
(***************************************************************************)
Game == pc \in {"game", "game, late"} /\ UNCHANGED <<bodies, mappings, pc>>

\* Insert the components cs: those that were there are overwritten.
Insert(e, cs) ==
  /\ comps' = [comps EXCEPT ![e] = @ \cup cs]
  /\ added' = added \cup ({e} \X ((cs \ comps[e]) \cap AddedAsked))
  /\ changed' = changed \cup ({e} \X (cs \cap ChangedAsked))
  /\ taken' = taken \ ({e} \X cs)

Spawn(e, cs, v) ==
  /\ Game
  /\ ~Live(e) /\ e \notin despawned
  /\ Insert(e, cs)
  /\ value' = [value EXCEPT ![e] = v]
  /\ UNCHANGED despawned

\* What the components cs may hold at first.
Spawned(cs) ==
  [kind : IF "RigidBody" \in cs THEN Kinds ELSE {Unset.kind}, transform : Positions,
   velocity : IF "Velocity" \in cs THEN Velocities ELSE {Still}, handle : {0},
   target : {Origin}, target_velocity : {Still}]

Write(e, c, v) ==
  /\ Game
  /\ c \in comps[e]
  /\ changed' = changed \cup ({e} \X ({c} \cap ChangedAsked))
  /\ value' = [value EXCEPT ![e] = v]
  /\ UNCHANGED <<comps, despawned, taken, added>>

EditTransform(e, p) == Write(e, "Transform", [value[e] EXCEPT !.transform = p])
EditVelocity(e, v) == Write(e, "Velocity", [value[e] EXCEPT !.velocity = v])
EditTarget(e, p) == Write(e, "TargetTransform", [value[e] EXCEPT !.target = p])
EditTargetVelocity(e, v) ==
  Write(e, "TargetVelocity", [value[e] EXCEPT !.target_velocity = v])

\* A component for an entity that is already there, once more perhaps.
InsertLater(e, c, v) ==
  /\ Game
  /\ Live(e)
  /\ Insert(e, {c})
  /\ value' = [value EXCEPT ![e] = v]
  /\ UNCHANGED despawned

InsertRigidBody(e, k) == InsertLater(e, "RigidBody", [value[e] EXCEPT !.kind = k])
InsertTransform(e, p) == InsertLater(e, "Transform", [value[e] EXCEPT !.transform = p])
InsertVelocity(e, v) == InsertLater(e, "Velocity", [value[e] EXCEPT !.velocity = v])
InsertMark(e, c) == InsertLater(e, c, value[e])

\* Without the component c, what it held is gone.
Without(v, c) ==
  CASE c = "RigidBody" -> [v EXCEPT !.kind = Unset.kind]
    [] c = "Transform" -> [v EXCEPT !.transform = Origin]
    [] c = "Velocity" -> [v EXCEPT !.velocity = Still]
    [] c = "RigidBodyHandle" -> [v EXCEPT !.handle = 0]
    [] c = "TargetTransform" -> [v EXCEPT !.target = Origin]
    [] c = "TargetVelocity" -> [v EXCEPT !.target_velocity = Still]
    [] OTHER -> v

\* EntityWorldMut::remove of any component, those the systems put there among them.
Remove(e, c) ==
  /\ Game
  /\ c \in comps[e]
  /\ comps' = [comps EXCEPT ![e] = @ \ {c}]
  /\ added' = added \ {<<e, c>>} /\ changed' = changed \ {<<e, c>>}
  /\ taken' = taken \cup {<<e, c>>}
  /\ value' = [value EXCEPT ![e] = Without(@, c)]
  /\ UNCHANGED despawned

Despawn(e) ==
  /\ Game
  /\ Live(e)
  /\ comps' = [comps EXCEPT ![e] = {}]
  /\ despawned' = despawned \cup {e} /\ taken' = {p \in taken : p[1] # e}
  /\ added' = {p \in added : p[1] # e} /\ changed' = {p \in changed : p[1] # e}
  /\ value' = [value EXCEPT ![e] = Unset]

-----------------------------------------------------------------------------
(***************************************************************************)
(* PhysicsSyncMain.                                                        *)
(***************************************************************************)
After(s) ==
  LET i == CHOOSE j \in DOMAIN Systems : Systems[j] = s
  IN IF i = Len(Systems) THEN "synced" ELSE Systems[i + 1]

Run(s) == pc = s /\ pc' = After(s)

Begin ==
  /\ pc = "game"
  /\ pc' = Systems[1]
  /\ UNCHANGED <<world, bodies, mappings>>

Active == {h \in DOMAIN bodies : bodies[h].active}
\* Mutant: the query asks for With<PhysicsSyncDirectBodyModifications>.
LostUnlessDirect ==
  {h \in Active : rigidbody_entity[h] \notin
     Has({"Transform", "RigidBodyHandle", "DirectModifications"})}

Lost == {h \in Active : rigidbody_entity[h] \notin Has({"Transform", "RigidBodyHandle"})}

\* The whole Transform is assigned, PhysicsDontSyncRotation or not.
sync_physics_transform ==
  /\ Run("sync_physics_transform")
  /\ Lost = {}
  /\ value' = [e \in Entities |->
       IF \E h \in Active : rigidbody_entity[h] = e
       THEN [value[e] EXCEPT !.transform =
               bodies[CHOOSE h \in Active : rigidbody_entity[h] = e].position]
       ELSE value[e]]
  /\ changed' = changed \cup ({rigidbody_entity[h] : h \in Active} \X {"Transform"})
  /\ UNCHANGED <<comps, despawned, taken, added, bodies, mappings>>

\* transforms.get_mut(entity).unwrap(), of an entity that is gone or has lost a component
\* the query asks for.
TransformLost ==
  /\ pc = "sync_physics_transform" /\ Lost # {}
  /\ pc' = "panicked"
  /\ UNCHANGED <<world, bodies, mappings>>

\* For every entity of es, its body as f makes it of the body and the entity's values.
UpdateBodies(es, f(_,_)) ==
  bodies' = [h \in DOMAIN bodies |->
    IF \E e \in es : value[e].handle = h
    THEN f(bodies[h], value[CHOOSE e \in es : value[e].handle = h])
    ELSE bodies[h]]

set_position(b, v) == [b EXCEPT !.position = v.transform, !.next = v.transform]
set_next_kinematic_position(b, v) ==
  [b EXCEPT !.next = IF b.kind = "kinematic position" THEN v.target ELSE @]
Free(b) == b.kind \in {"dynamic", "kinematic velocity"}
set_linvel(b, v) == [b EXCEPT !.velocity = IF Free(b) THEN v.velocity ELSE @]
set_target_velocity(b, v) == [b EXCEPT !.velocity = IF Free(b) THEN v.target_velocity ELSE @]

\* Mutant: only those whose Transform has changed.
sync_changed_fixed_bodies_to_rapier ==
  /\ Run("sync_fixed_bodies_to_rapier")
  /\ UpdateBodies(Has({"RigidBodyHandle", "Transform", "FixedRigidBody"})
                    \cap ChangedIn("Transform"), set_position)
  /\ UNCHANGED <<world, mappings>>

sync_fixed_bodies_to_rapier ==
  /\ Run("sync_fixed_bodies_to_rapier")
  /\ UpdateBodies(Has({"RigidBodyHandle", "Transform", "FixedRigidBody"}), set_position)
  /\ UNCHANGED <<world, mappings>>

\* Mutant: an entity whose RigidBody is inserted again gets another body.
NewBodiesAgain == Has({"RigidBody", "Transform"}) \cap AddedIn("RigidBody")

NewBodies == (Has({"RigidBody", "Transform"}) \cap AddedIn("RigidBody")) \ added_bodies

Companions(k) ==
  CASE k = "dynamic" -> {}
    [] k = "fixed" -> {"FixedRigidBody"}
    [] k = "kinematic position" -> {"TargetTransform"}
    [] k = "kinematic velocity" -> {"TargetVelocity"}

\* One entity of handle_rigidbody_insert: its body is made and its RigidBody replaced
\* by a handle, with velocities and a target that overwrite those it had.
InsertBody(e) ==
  /\ pc = "handle_rigidbody_insert"
  /\ e \in NewBodies
  /\ LET v == value[e]
         cs == {"RigidBodyHandle", "Velocity"} \cup Companions(v.kind)
     IN /\ \E linvel \in Velocities :
             bodies' = Append(bodies,
               [kind |-> v.kind, position |-> v.transform, next |-> v.transform,
                velocity |-> linvel, colliders |-> 0, active |-> FALSE])
        /\ value' = [value EXCEPT
             ![e].kind = Unset.kind,
             ![e].handle = Len(bodies) + 1,
             ![e].velocity = Still,
             ![e].target = IF v.kind = "kinematic position" THEN Origin ELSE @,
             ![e].target_velocity = IF v.kind = "kinematic velocity" THEN Still ELSE @]
        /\ comps' = [comps EXCEPT ![e] = (@ \cup cs) \ {"RigidBody"}]
        /\ added' = (added \cup ({e} \X ((cs \ comps[e]) \cap AddedAsked)))
                      \ {<<e, "RigidBody">>}
        /\ changed' = changed \cup ({e} \X (cs \cap ChangedAsked))
        /\ taken' = taken \ ({e} \X cs)
  /\ rigidbody_entity' = Append(rigidbody_entity, e)
  /\ added_bodies' = added_bodies \cup {e}
  /\ UNCHANGED <<despawned, added_colliders, pc>>

BodiesInserted ==
  /\ Run("handle_rigidbody_insert")
  /\ NewBodies = {}
  /\ UNCHANGED <<world, bodies, mappings>>

sync_target_transform_kinematic_body ==
  /\ Run("sync_target_transform_kinematic_body")
  /\ UpdateBodies(Has({"TargetTransform", "RigidBodyHandle"}), set_next_kinematic_position)
  /\ UNCHANGED <<world, mappings>>

sync_target_vel_kinematic_body ==
  /\ Run("sync_target_vel_kinematic_body")
  /\ UpdateBodies(Has({"TargetVelocity", "RigidBodyHandle"}) \cap ChangedIn("TargetVelocity"),
                  set_target_velocity)
  /\ UNCHANGED <<world, mappings>>

sync_physics_direct_transform_modification ==
  /\ Run("sync_physics_direct_transform_modification")
  /\ UpdateBodies(Has({"Transform", "RigidBodyHandle", "DirectModifications"})
                    \cap ChangedIn("Transform"), set_position)
  /\ UNCHANGED <<world, mappings>>

sync_lin_vel_to_physics ==
  /\ Run("sync_lin_vel_to_physics")
  /\ UpdateBodies(Has({"Velocity", "RigidBodyHandle"}) \cap ChangedIn("Velocity"), set_linvel)
  /\ UNCHANGED <<world, mappings>>

mark_static_bodies_trans_changed ==
  /\ Run("mark_static_bodies_trans_changed")
  /\ changed' = changed \cup (Has({"Transform", "FixedRigidBody"}) \X {"Transform"})
  /\ UNCHANGED <<comps, despawned, taken, value, added, bodies, mappings>>

NewColliders ==
  (Has({"Collider", "RigidBodyHandle"}) \cap AddedIn("Collider")) \ added_colliders

InsertCollider(e) ==
  /\ pc = "handle_collider_insert"
  /\ e \in NewColliders
  /\ bodies' = [bodies EXCEPT ![value[e].handle].colliders = @ + 1]
  /\ added_colliders' = added_colliders \cup {e}
  /\ UNCHANGED <<world, rigidbody_entity, added_bodies, pc>>

CollidersInserted ==
  /\ Run("handle_collider_insert")
  /\ NewColliders = {}
  /\ UNCHANGED <<world, bodies, mappings>>

-----------------------------------------------------------------------------
(***************************************************************************)
(* The rest of the frame.                                                  *)
(***************************************************************************)
Late ==
  /\ pc = "synced" /\ pc' = "game, late"
  /\ UNCHANGED <<world, bodies, mappings>>

LateDone ==
  /\ pc = "game, late" /\ pc' = "step"
  /\ UNCHANGED <<world, bodies, mappings>>

\* What a step of rapier may make of a body: one that is not active stays where it is.
\* Falling asleep and waking up, by a contact or by set_position, are among the choices.
Motions == [active : BOOLEAN, position : Positions, velocity : Velocities]

Possible(b, m) ==
  /\ m.active => b.kind # "fixed"
  /\ ~m.active => m.position = b.position
  /\ m.active /\ b.kind = "kinematic position" => m.position = b.next
  /\ ~Free(b) => m.velocity = b.velocity

Moved(b, m) ==
  [b EXCEPT !.active = m.active, !.position = m.position, !.velocity = m.velocity,
            !.next = IF m.active THEN m.position ELSE @]

StepBodies ==
  /\ pc = "step" /\ pc' = "game"
  /\ \E motion \in [DOMAIN bodies -> Motions] :
       /\ \A h \in DOMAIN bodies : Possible(bodies[h], motion[h])
       /\ bodies' = [h \in DOMAIN bodies |-> Moved(bodies[h], motion[h])]

\* PhysicsPipeline::step, then clear_trackers.
Step ==
  /\ StepBodies
  /\ added' = {} /\ changed' = {}
  /\ UNCHANGED <<comps, despawned, taken, value, mappings>>

Next ==
  \/ \E e \in Entities, cs \in Spawns : \E v \in Spawned(cs) : Spawn(e, cs, v)
  \/ \E e \in Entities, p \in Positions :
       EditTransform(e, p) \/ EditTarget(e, p) \/ InsertTransform(e, p)
  \/ \E e \in Entities, v \in Velocities :
       EditVelocity(e, v) \/ EditTargetVelocity(e, v) \/ InsertVelocity(e, v)
  \/ \E e \in Entities, k \in Kinds : InsertRigidBody(e, k)
  \/ \E e \in Entities, c \in {"Collider", "DirectModifications"} : InsertMark(e, c)
  \/ \E e \in Entities, c \in Components : Remove(e, c)
  \/ \E e \in Entities : Despawn(e)
  \/ Begin
  \/ sync_physics_transform \/ TransformLost
  \/ sync_fixed_bodies_to_rapier
  \/ \E e \in Entities : InsertBody(e)
  \/ BodiesInserted
  \/ sync_target_transform_kinematic_body
  \/ sync_target_vel_kinematic_body
  \/ sync_physics_direct_transform_modification
  \/ sync_lin_vel_to_physics
  \/ mark_static_bodies_trans_changed
  \/ \E e \in Entities : InsertCollider(e)
  \/ CollidersInserted
  \/ Late \/ LateDone \/ Step

Spec == Init /\ [][Next]_vars

-----------------------------------------------------------------------------
(***************************************************************************)
(* What the materials may draw, and rapier may step, after PhysicsSyncMain.*)
(***************************************************************************)
BodyOf(e) == bodies[value[e].handle]

\* Bodies that move, fixed ones the game left their mark, those made in this frame, and
\* resting ones whose Transform the game wrote if they are marked for that.
Followed ==
  {e \in Has({"Transform", "RigidBodyHandle"}) :
     \/ BodyOf(e).active
     \/ BodyOf(e).kind = "fixed" /\ <<e, "FixedRigidBody">> \notin taken
     \/ e \in AddedIn("RigidBodyHandle")
     \/ "DirectModifications" \in comps[e] /\ e \in ChangedIn("Transform")}

\* These entities are drawn where their bodies are.
DrawnWhereTheBodyIs ==
  pc = "synced" => \A e \in Followed : value[e].transform = BodyOf(e).position

\* Rapier steps with the targets and velocities the components ask for, also in the
\* frame the body is made in: the mark DirectModifications alone overrides a target, and
\* a velocity that was written overrides a target velocity.
SteppedAsAsked ==
  pc = "synced" =>
    \A e \in Has({"RigidBodyHandle"}) :
      /\ "TargetTransform" \in comps[e] /\ "DirectModifications" \notin comps[e]
           => BodyOf(e).next = value[e].target
      /\ e \in ChangedIn("Velocity") /\ Free(BodyOf(e))
           => BodyOf(e).velocity = value[e].velocity
      /\ e \in ChangedIn("TargetVelocity") \ ChangedIn("Velocity") /\ Free(BodyOf(e))
           => BodyOf(e).velocity = value[e].target_velocity

\* An entity has at most one body however often its RigidBody is inserted, its handle
\* leads to that body and back, and the body has the collider of its own entity, once.
MappingsHold ==
  /\ Len(bodies) = Len(rigidbody_entity)
  /\ \A g, h \in DOMAIN bodies : rigidbody_entity[g] = rigidbody_entity[h] => g = h
  /\ added_bodies = {rigidbody_entity[h] : h \in DOMAIN bodies}
  /\ \A e \in Has({"RigidBodyHandle"}) : rigidbody_entity[value[e].handle] = e
  /\ \A h \in DOMAIN bodies :
       bodies[h].colliders = IF rigidbody_entity[h] \in added_colliders THEN 1 ELSE 0

\* Nothing that was added in this frame, before PhysicsSyncMain, is left over: a
\* collider that comes with its body finds the handle made in the same frame.
AddedIsHandled == pc = "synced" => NewBodies = {} /\ NewColliders = {}

\* What the game took from the entity of a moving body that sync_physics_transform needs.
Bereft(e) ==
  e \in despawned \/ \E c \in {"Transform", "RigidBodyHandle"} : <<e, c>> \in taken

\* The unwrap()s of PhysicsSyncMain fail only after the game despawned the entity of a
\* moving body, or removed its Transform or its handle and gave it no other: never by
\* what the systems themselves add, replace and remove, in whatever order and frames.
PanicNeedsRemoval ==
  pc = "panicked" => \E h \in Active : Bereft(rigidbody_entity[h])
=============================================================================
