---------------------------- MODULE PhysicsProofs ---------------------------
(***************************************************************************)
(* Physics, for any number of entities and bodies.                         *)
(*                                                                         *)
(* 1. PhysicsSyncMain as a whole (PhysicsSync).  What the materials and    *)
(*    rapier may rely on is built up system by system, so the invariant    *)
(*    says for each place in the order what the systems before it have     *)
(*    done (Done), of a world in which handles, bodies and components      *)
(*    agree (Settled).                                                     *)
(* 2. Its system that changes the table it iterates over (TableIteration): *)
(*    the rows it moves are never ones it has still to read.               *)
(***************************************************************************)
EXTENDS PhysicsSync, TableIteration, SequenceTheorems, TLAPS

(* The inductive invariant. *)
Value == [kind : Kinds, transform : Positions, velocity : Velocities, handle : Nat,
          target : Positions, target_velocity : Velocities]

Body == [kind : Kinds, position : Positions, next : Positions, velocity : Velocities,
         colliders : Nat, active : BOOLEAN]

\* The places from a system on, up to the end of PhysicsSyncMain.
FromColliders == {"handle_collider_insert", "synced"}
FromMark == {"mark_static_bodies_trans_changed"} \cup FromColliders
FromLinVel == {"sync_lin_vel_to_physics"} \cup FromMark
FromDirect == {"sync_physics_direct_transform_modification"} \cup FromLinVel
FromTargetVel == {"sync_target_vel_kinematic_body"} \cup FromDirect
FromTarget == {"sync_target_transform_kinematic_body"} \cup FromTargetVel
FromBodies == {"handle_rigidbody_insert"} \cup FromTarget
FromFixed == {"sync_fixed_bodies_to_rapier"} \cup FromBodies

TypeOK ==
  /\ comps \in [Entities -> SUBSET Components] /\ despawned \subseteq Entities
  /\ value \in [Entities -> Value]
  /\ taken \subseteq Entities \X Components
  /\ added \subseteq Entities \X AddedAsked /\ changed \subseteq Entities \X ChangedAsked
  /\ bodies \in Seq(Body) /\ rigidbody_entity \in Seq(Entities)
  /\ added_bodies \subseteq Entities /\ added_colliders \subseteq Entities
  /\ pc \in {"game", "sync_physics_transform", "game, late", "step", "panicked"} \cup FromFixed

Bound == Has({"RigidBodyHandle"})

\* Handles are those of bodies, and only an entity with a body gets a collider.
Owned ==
  /\ MappingsHold
  /\ \A e \in Bound : value[e].handle \in DOMAIN bodies
  /\ added_colliders \subseteq added_bodies

\* Only the game takes an entity its Transform or its handle.
Kept ==
  /\ \A e \in Entities : Live(e) => "Transform" \in comps[e] \/ <<e, "Transform">> \in taken
  /\ \A e \in despawned : ~Live(e)
  /\ \A h \in DOMAIN bodies :
       \/ rigidbody_entity[h] \in despawned
       \/ "RigidBodyHandle" \in comps[rigidbody_entity[h]]
       \/ <<rigidbody_entity[h], "RigidBodyHandle">> \in taken

\* The components that come with a body.
Bodily == {"RigidBodyHandle", "FixedRigidBody", "TargetTransform"}

\* They came with the body, and tell its kind; the mark of a fixed one is there unless the
\* game took it.
Kinded ==
  /\ \A e \in Entities \ added_bodies : \A c \in Bodily : c \notin comps[e]
  /\ \A e \in Bound :
       /\ BodyOf(e).kind = "fixed" =>
            "FixedRigidBody" \in comps[e] \/ <<e, "FixedRigidBody">> \in taken
       /\ "TargetTransform" \in comps[e] => BodyOf(e).kind = "kinematic position"

\* Flags are those of components that are there, and handles are new only to the systems
\* behind the one that makes them.
Flagged ==
  /\ \A p \in changed : p[2] \in comps[p[1]]
  /\ pc \in {"game", "sync_physics_transform", "sync_fixed_bodies_to_rapier"} =>
       AddedIn("RigidBodyHandle") = {}

Follows(e) == value[e].transform = BodyOf(e).position

\* What each system has done for those behind it.
Done ==
  /\ \A e \in Bound :
       /\ pc \in FromFixed /\ BodyOf(e).active => Follows(e)
       /\ pc \in FromBodies /\ {"FixedRigidBody", "Transform"} \subseteq comps[e] => Follows(e)
       /\ pc \in FromBodies /\ e \in AddedIn("RigidBodyHandle") => Follows(e)
       /\ pc \in FromLinVel /\ "DirectModifications" \in comps[e] /\ e \in ChangedIn("Transform")
            => Follows(e)
       /\ pc \in FromTargetVel /\ "TargetTransform" \in comps[e]
            /\ "DirectModifications" \notin comps[e] => BodyOf(e).next = value[e].target
       /\ pc \in FromMark /\ e \in ChangedIn("Velocity") /\ Free(BodyOf(e))
            => BodyOf(e).velocity = value[e].velocity
       /\ pc \in FromDirect /\ e \in ChangedIn("TargetVelocity") \ ChangedIn("Velocity")
            /\ Free(BodyOf(e)) => BodyOf(e).velocity = value[e].target_velocity
  /\ pc \in FromTarget => NewBodies = {}
  /\ pc = "synced" => NewColliders = {}

Settled == TypeOK /\ Owned /\ Kept /\ Kinded /\ Flagged

PhysicsInv == Settled /\ Done /\ PanicNeedsRemoval

-----------------------------------------------------------------------------
(***************************************************************************)
(* Bodies and their entities.                                              *)
(***************************************************************************)
LEMMA Order ==
  /\ Systems[1] = "sync_physics_transform"
  /\ After("sync_physics_transform") = "sync_fixed_bodies_to_rapier"
  /\ After("sync_fixed_bodies_to_rapier") = "handle_rigidbody_insert"
  /\ After("handle_rigidbody_insert") = "sync_target_transform_kinematic_body"
  /\ After("sync_target_transform_kinematic_body") = "sync_target_vel_kinematic_body"
  /\ After("sync_target_vel_kinematic_body") = "sync_physics_direct_transform_modification"
  /\ After("sync_physics_direct_transform_modification") = "sync_lin_vel_to_physics"
  /\ After("sync_lin_vel_to_physics") = "mark_static_bodies_trans_changed"
  /\ After("mark_static_bodies_trans_changed") = "handle_collider_insert"
  /\ After("handle_collider_insert") = "synced"
<1>1. Len(Systems) = 9 /\ DOMAIN Systems = 1 .. 9
  BY DEF Systems
<1>2. ASSUME NEW k \in 1 .. 9
      PROVE  After(Systems[k]) = IF k = 9 THEN "synced" ELSE Systems[k + 1]
  <2>1. \A j \in 1 .. 9 : Systems[j] = Systems[k] => j = k
    BY DEF Systems
  <2>2. (CHOOSE j \in DOMAIN Systems : Systems[j] = Systems[k]) = k
    BY <1>1, <2>1
  <2> QED
    BY <1>1, <2>2 DEF After
<1>3. /\ After(Systems[1]) = Systems[2] /\ After(Systems[2]) = Systems[3]
      /\ After(Systems[3]) = Systems[4] /\ After(Systems[4]) = Systems[5]
      /\ After(Systems[5]) = Systems[6] /\ After(Systems[6]) = Systems[7]
      /\ After(Systems[7]) = Systems[8] /\ After(Systems[8]) = Systems[9]
      /\ After(Systems[9]) = "synced"
  BY <1>2
<1> QED
  BY <1>3 DEF Systems

LEMMA UnsetIsValue == Unset \in Value /\ Unset.handle = 0
<1>1. (CHOOSE k \in Kinds : TRUE) \in Kinds
  BY KindsAssumption
<1> QED
  BY <1>1, DefaultsAssumption DEF Unset, Value

\* What the handle of an entity leads to.
LEMMA OwnBody ==
  ASSUME Settled, NEW e \in Bound
  PROVE  /\ e \in Entities /\ "RigidBodyHandle" \in comps[e]
         /\ value[e] \in Value /\ value[e].handle \in DOMAIN bodies
         /\ rigidbody_entity[value[e].handle] = e
         /\ BodyOf(e) \in Body /\ e \in added_bodies /\ e \notin despawned
<1>1. e \in Entities /\ "RigidBodyHandle" \in comps[e]
  BY DEF Bound, Has
<1>2. /\ value[e].handle \in DOMAIN bodies /\ rigidbody_entity[value[e].handle] = e
      /\ e \in added_bodies
  BY DEF Settled, Owned, MappingsHold, Bound
<1>3. value[e] \in Value /\ BodyOf(e) \in Body
  <2>1. value \in [Entities -> Value] /\ bodies \in Seq(Body)
    BY DEF Settled, TypeOK
  <2>2. bodies[value[e].handle] \in Body
    BY <1>2, <2>1
  <2> QED
    BY <1>1, <2>1, <2>2 DEF BodyOf
<1>4. e \notin despawned
  BY <1>1 DEF Settled, Kept, Live
<1> QED
  BY <1>1, <1>2, <1>3, <1>4

\* The entity of es whose handle is h, if one has it.
Held(es, h) == \E e \in es : value[e].handle = h
Holder(es, h) == CHOOSE e \in es : value[e].handle = h

LEMMA Chosen ==
  ASSUME Settled, NEW es, es \subseteq Bound, NEW h \in DOMAIN bodies
  PROVE  /\ Held(es, h) <=> rigidbody_entity[h] \in es
         /\ Held(es, h) => Holder(es, h) = rigidbody_entity[h]
<1>1. ASSUME NEW e \in es PROVE value[e].handle = h <=> rigidbody_entity[h] = e
  <2>1. value[e].handle \in DOMAIN bodies /\ rigidbody_entity[value[e].handle] = e
    BY OwnBody
  <2> QED
    BY <2>1 DEF Settled, Owned, MappingsHold
<1> QED
  BY <1>1 DEF Held, Holder

LEMMA BodiesTyped ==
  ASSUME Settled
  PROVE  /\ DOMAIN bodies = 1 .. Len(bodies) /\ Len(bodies) \in Nat
         /\ DOMAIN rigidbody_entity = DOMAIN bodies /\ Len(rigidbody_entity) = Len(bodies)
         /\ \A h \in DOMAIN bodies : bodies[h] \in Body /\ rigidbody_entity[h] \in Entities
<1>1. bodies \in Seq(Body) /\ rigidbody_entity \in Seq(Entities)
      /\ Len(bodies) = Len(rigidbody_entity)
  BY DEF Settled, TypeOK, Owned, MappingsHold
<1>2. /\ DOMAIN bodies = 1 .. Len(bodies) /\ Len(bodies) \in Nat
      /\ DOMAIN rigidbody_entity = DOMAIN bodies
  BY <1>1
<1> QED
  BY <1>1, <1>2, ElementOfSeq

Places == {"game", "sync_physics_transform", "game, late", "step", "panicked"} \cup FromFixed
Early == {"game", "sync_physics_transform", "sync_fixed_bodies_to_rapier"}

\* A step that makes or loses no body and no component.
LEMMA SettledKept ==
  ASSUME Settled,
         UNCHANGED <<comps, despawned, taken, rigidbody_entity, added_bodies, added_colliders>>,
         value' \in [Entities -> Value],
         \A e \in Entities : value'[e].handle = value[e].handle,
         bodies' \in Seq(Body), Len(bodies') = Len(bodies),
         \A h \in DOMAIN bodies :
           bodies'[h].kind = bodies[h].kind /\ bodies'[h].colliders = bodies[h].colliders,
         added' \subseteq added, changed' \subseteq Entities \X ChangedAsked,
         \A p \in changed' : p[2] \in comps[p[1]],
         pc' \in Places, pc' \in Early => pc \in Early \/ added' = {}
  PROVE  Settled'
<1>1. TypeOK'
  BY DEF Settled, TypeOK, Places
<1>2. DOMAIN bodies' = DOMAIN bodies /\ Bound' = Bound
  BY BodiesTyped DEF Bound, Has
<1>3. Owned'
  <2>1. MappingsHold'
    <3>1. \A e \in Has({"RigidBodyHandle"})' : rigidbody_entity'[value'[e].handle] = e
      BY DEF Settled, Owned, MappingsHold, Has
    <3>2. \A h \in DOMAIN bodies' :
            bodies'[h].colliders = IF rigidbody_entity'[h] \in added_colliders' THEN 1 ELSE 0
      BY <1>2 DEF Settled, Owned, MappingsHold
    <3> QED
      BY <1>2, <3>1, <3>2 DEF Settled, Owned, MappingsHold
  <2> QED
    BY <1>2, <2>1 DEF Settled, Owned, Bound, Has
<1>4. Kept'
  BY <1>2 DEF Settled, Kept, Live
<1>5. Kinded'
  <2>1. \A e \in Bound : BodyOf(e)'.kind = BodyOf(e).kind
    BY OwnBody DEF BodyOf
  <2> QED
    BY <1>2, <2>1 DEF Settled, Kinded
<1>6. Flagged'
  BY DEF Settled, Flagged, AddedIn, Early
<1> QED
  BY <1>1, <1>3, <1>4, <1>5, <1>6 DEF Settled

LEMMA NothingDone ==
  ASSUME pc' \notin FromFixed \cup {"panicked"}
  PROVE  Done' /\ PanicNeedsRemoval'
BY DEF Done, PanicNeedsRemoval, FromFixed, FromBodies, FromTarget, FromTargetVel, FromDirect,
       FromLinVel, FromMark, FromColliders

-----------------------------------------------------------------------------
(***************************************************************************)
(* The game.                                                               *)
(***************************************************************************)
\* A step of the game: it gives no entity a handle, or a component that comes with one,
\* and what it takes is noted.
LEMMA GameSettled ==
  ASSUME Settled, Game, comps' \in [Entities -> SUBSET Components],
         value' \in [Entities -> Value],
         despawned \subseteq despawned', despawned' \subseteq Entities,
         taken' \subseteq Entities \X Components,
         added' \subseteq Entities \X AddedAsked, changed' \subseteq Entities \X ChangedAsked,
         \A e \in Entities :
           Live(e)' => "Transform" \in comps'[e] \/ <<e, "Transform">> \in taken',
         \A e \in despawned' : ~Live(e)',
         \A e \in Entities : \A c \in Bodily : c \in comps'[e] => c \in comps[e],
         \A e \in Entities \ despawned' : \A c \in Bodily :
           c \in comps[e] \/ <<e, c>> \in taken => c \in comps'[e] \/ <<e, c>> \in taken',
         \A e \in Entities : "RigidBodyHandle" \in comps'[e] => value'[e].handle = value[e].handle,
         \A p \in changed' : p[2] \in comps'[p[1]],
         pc = "game" => \A e \in Entities : <<e, "RigidBodyHandle">> \notin added'
  PROVE  PhysicsInv'
<1>0. pc' = pc /\ pc \in {"game", "game, late"} /\ UNCHANGED <<bodies, mappings>>
  BY DEF Game
<1>1. TypeOK'
  BY <1>0 DEF Settled, TypeOK, mappings
<1>2. Bound' \subseteq Bound /\ \A e \in Bound' : value'[e].handle = value[e].handle
  BY DEF Bound, Has, Bodily
<1>3. Owned'
  <2>1. \A e \in Has({"RigidBodyHandle"})' : rigidbody_entity'[value'[e].handle] = e
    BY <1>0, <1>2 DEF Settled, Owned, MappingsHold, Bound, mappings
  <2>2. MappingsHold
    BY DEF Settled, Owned
  <2>3. bodies' = bodies /\ rigidbody_entity' = rigidbody_entity
        /\ added_bodies' = added_bodies /\ added_colliders' = added_colliders
    BY <1>0 DEF mappings
  <2>4. MappingsHold'
    BY <2>1, <2>2, <2>3 DEF MappingsHold
  <2>5. \A e \in Bound' : value'[e].handle \in DOMAIN bodies'
    BY <1>0, <1>2 DEF Settled, Owned
  <2> QED
    BY <2>3, <2>4, <2>5 DEF Settled, Owned
<1>4. Kept'
  <2> SUFFICES ASSUME NEW h \in DOMAIN bodies', rigidbody_entity'[h] \notin despawned'
               PROVE  \/ "RigidBodyHandle" \in comps'[rigidbody_entity'[h]]
                      \/ <<rigidbody_entity'[h], "RigidBodyHandle">> \in taken'
    BY DEF Kept
  <2> DEFINE e == rigidbody_entity[h]
  <2>1. e \in Entities \ despawned'
        /\ ("RigidBodyHandle" \in comps[e] \/ <<e, "RigidBodyHandle">> \in taken)
    BY <1>0, BodiesTyped DEF Settled, Kept, mappings
  <2>2. rigidbody_entity'[h] = e
    BY <1>0 DEF mappings
  <2> HIDE DEF e
  <2> QED
    BY <2>1, <2>2 DEF Bodily
<1>5. Kinded'
  <2>1. \A e \in Bound' : e \in Bound /\ BodyOf(e)' = BodyOf(e) /\ e \in Entities \ despawned'
    BY <1>0, <1>2 DEF BodyOf, Bound, Has, Live
  <2>2. added_bodies' = added_bodies
    BY <1>0 DEF mappings
  <2> QED
    BY <2>1, <2>2 DEF Settled, Kinded, Bodily
<1>6. Flagged'
  BY <1>0 DEF Flagged, AddedIn
<1>7. Done' /\ PanicNeedsRemoval'
  BY <1>0, NothingDone DEF FromFixed, FromBodies, FromTarget, FromTargetVel, FromDirect,
     FromLinVel, FromMark, FromColliders
<1> QED
  BY <1>1, <1>3, <1>4, <1>5, <1>6, <1>7 DEF PhysicsInv, Settled

\* Components given to an entity, none of them one that comes with a body.
LEMMA GivenInv ==
  ASSUME Settled, NEW e \in Entities, NEW cs, cs \subseteq GameComponents, NEW v \in Value,
         Game, Insert(e, cs), value' = [value EXCEPT ![e] = v], UNCHANGED despawned,
         e \notin despawned, v.handle = value[e].handle \/ comps[e] = {},
         "Transform" \in cs \/ Live(e)
  PROVE  PhysicsInv'
<1>1. /\ comps' = [comps EXCEPT ![e] = @ \cup cs] /\ taken' = taken \ ({e} \X cs)
      /\ added' = added \cup ({e} \X ((cs \ comps[e]) \cap AddedAsked))
      /\ changed' = changed \cup ({e} \X (cs \cap ChangedAsked))
  BY DEF Insert
<1>2. cs \subseteq Components /\ cs \cap Bodily = {} /\ "RigidBodyHandle" \notin cs
  BY DEF GameComponents, Components, Bodily
<1>3. /\ comps' \in [Entities -> SUBSET Components] /\ value' \in [Entities -> Value]
      /\ comps'[e] = comps[e] \cup cs /\ value'[e] = v
      /\ \A f \in Entities : f # e => comps'[f] = comps[f] /\ value'[f] = value[f]
  BY <1>1, <1>2 DEF Settled, TypeOK
<1>4. taken' \subseteq Entities \X Components /\ added' \subseteq Entities \X AddedAsked
      /\ changed' \subseteq Entities \X ChangedAsked
  BY <1>1 DEF Settled, TypeOK
<1>5. \A p \in changed' : p[2] \in comps'[p[1]]
  <2> SUFFICES ASSUME NEW p \in changed' PROVE p[2] \in comps'[p[1]]
    OBVIOUS
  <2>1. CASE p \in changed
    <3>1. p[2] \in comps[p[1]] /\ p[1] \in Entities
      BY <2>1 DEF Settled, Flagged, TypeOK
    <3> QED
      BY <1>3, <3>1
  <2>2. CASE p \in {e} \X (cs \cap ChangedAsked)
    BY <1>3, <2>2
  <2> QED
    BY <1>1, <2>1, <2>2
<1>6. pc = "game" => \A f \in Entities : <<f, "RigidBodyHandle">> \notin added'
  BY <1>1, <1>2 DEF Settled, Flagged, AddedIn
<1>7. \A f \in Entities : \A c \in Bodily : c \in comps'[f] => c \in comps[f]
  BY <1>2, <1>3
<1>8. \A f \in Entities, c \in Components :
        <<f, c>> \in taken' <=> <<f, c>> \in taken /\ (f # e \/ c \notin cs)
  BY <1>1
<1>9. \A f \in Entities \ despawned' : \A c \in Bodily :
        c \in comps[f] \/ <<f, c>> \in taken => c \in comps'[f] \/ <<f, c>> \in taken'
  <2>1. Bodily \subseteq Components
    BY DEF Bodily, Components
  <2> QED
    BY <1>2, <1>3, <1>8, <2>1
<1>10. \A f \in Entities : f # e => (Live(f)' <=> Live(f))
  BY <1>3, <1>8 DEF Live
<1>11. \A f \in Entities :
         Live(f)' => "Transform" \in comps'[f] \/ <<f, "Transform">> \in taken'
  <2>1. "Transform" \in Components
    BY DEF Components, GameComponents
  <2>2. \A f \in Entities : Live(f) => "Transform" \in comps[f] \/ <<f, "Transform">> \in taken
    BY DEF Settled, Kept
  <2>3. "Transform" \in comps'[e] \/ <<e, "Transform">> \in taken'
    BY <1>3, <1>8, <2>1, <2>2
  <2>4. \A f \in Entities : f # e /\ Live(f)' =>
          "Transform" \in comps'[f] \/ <<f, "Transform">> \in taken'
    BY <1>3, <1>8, <1>10, <2>1, <2>2
  <2> QED
    BY <2>3, <2>4
<1>12. \A f \in despawned' : ~Live(f)'
  <2>1. \A f \in despawned : f \in Entities /\ ~Live(f)
    BY DEF Settled, Kept, TypeOK
  <2> QED
    BY <1>10, <2>1
<1>13. \A f \in Entities :
         "RigidBodyHandle" \in comps'[f] => value'[f].handle = value[f].handle
  BY <1>2, <1>3
<1>14. despawned \subseteq despawned' /\ despawned' \subseteq Entities
  BY DEF Settled, TypeOK
<1> QED
  BY <1>3, <1>4, <1>5, <1>6, <1>7, <1>9, <1>11, <1>12, <1>13, <1>14, GameSettled

LEMMA SpawnInv ==
  ASSUME Settled, NEW e \in Entities, NEW cs \in Spawns, NEW v \in Spawned(cs), Spawn(e, cs, v)
  PROVE  PhysicsInv'
<1>1. cs \subseteq GameComponents /\ "Transform" \in cs
  BY SpawnsAssumption
<1>2. v \in Value
  BY UnsetIsValue, DefaultsAssumption DEF Spawned, Value
<1>3. /\ Game /\ Insert(e, cs) /\ value' = [value EXCEPT ![e] = v] /\ despawned' = despawned
      /\ e \notin despawned /\ comps[e] = {}
  BY DEF Spawn, Live
<1> QED
  BY <1>1, <1>2, <1>3, GivenInv

\* Writing what a component holds.
LEMMA WriteInv ==
  ASSUME Settled, NEW e \in Entities, NEW c \in Components, NEW v \in Value,
         v.handle = value[e].handle, Write(e, c, v)
  PROVE  PhysicsInv'
<1>1. /\ c \in comps[e] /\ changed' = changed \cup ({e} \X ({c} \cap ChangedAsked))
      /\ value' = [value EXCEPT ![e] = v]
      /\ UNCHANGED <<comps, despawned, taken, added>> /\ Game
  BY DEF Write
<1>2. /\ value' \in [Entities -> Value]
      /\ \A f \in Entities : value'[f].handle = value[f].handle
  BY <1>1 DEF Settled, TypeOK
<1>3. changed' \subseteq Entities \X ChangedAsked
  BY <1>1 DEF Settled, TypeOK
<1>4. \A p \in changed' : p[2] \in comps'[p[1]]
  BY <1>1 DEF Settled, Flagged
<1>5. pc = "game" => \A f \in Entities : <<f, "RigidBodyHandle">> \notin added'
  BY <1>1 DEF Settled, Flagged, AddedIn
<1>6. \A f : Live(f)' <=> Live(f)
  BY <1>1 DEF Live
<1>7. /\ \A f \in Entities :
           Live(f)' => "Transform" \in comps'[f] \/ <<f, "Transform">> \in taken'
      /\ \A f \in despawned' : ~Live(f)'
  BY <1>1, <1>6 DEF Settled, Kept
<1> QED
  BY <1>1, <1>2, <1>3, <1>4, <1>5, <1>7, GameSettled DEF Settled, TypeOK

LEMMA EditInv ==
  ASSUME Settled, NEW e \in Entities,
         \/ \E p \in Positions : EditTransform(e, p) \/ EditTarget(e, p)
         \/ \E v \in Velocities : EditVelocity(e, v) \/ EditTargetVelocity(e, v)
  PROVE  PhysicsInv'
<1>0. value[e] \in Value /\ "Transform" \in Components /\ "TargetTransform" \in Components
      /\ "Velocity" \in Components /\ "TargetVelocity" \in Components
  BY DEF Settled, TypeOK, Components, GameComponents
<1>1. ASSUME NEW p \in Positions, EditTransform(e, p) PROVE PhysicsInv'
  <2>1. [value[e] EXCEPT !.transform = p] \in Value
        /\ [value[e] EXCEPT !.transform = p].handle = value[e].handle
    BY <1>0 DEF Value
  <2> QED
    BY <1>0, <1>1, <2>1, WriteInv DEF EditTransform
<1>2. ASSUME NEW p \in Positions, EditTarget(e, p) PROVE PhysicsInv'
  <2>1. [value[e] EXCEPT !.target = p] \in Value
        /\ [value[e] EXCEPT !.target = p].handle = value[e].handle
    BY <1>0 DEF Value
  <2> QED
    BY <1>0, <1>2, <2>1, WriteInv DEF EditTarget
<1>3. ASSUME NEW v \in Velocities, EditVelocity(e, v) PROVE PhysicsInv'
  <2>1. [value[e] EXCEPT !.velocity = v] \in Value
        /\ [value[e] EXCEPT !.velocity = v].handle = value[e].handle
    BY <1>0 DEF Value
  <2> QED
    BY <1>0, <1>3, <2>1, WriteInv DEF EditVelocity
<1>4. ASSUME NEW v \in Velocities, EditTargetVelocity(e, v) PROVE PhysicsInv'
  <2>1. [value[e] EXCEPT !.target_velocity = v] \in Value
        /\ [value[e] EXCEPT !.target_velocity = v].handle = value[e].handle
    BY <1>0 DEF Value
  <2> QED
    BY <1>0, <1>4, <2>1, WriteInv DEF EditTargetVelocity
<1> QED
  BY <1>1, <1>2, <1>3, <1>4

LEMMA InsertLaterInv ==
  ASSUME Settled, NEW e \in Entities, NEW c \in GameComponents, NEW v \in Value,
         v.handle = value[e].handle, InsertLater(e, c, v)
  PROVE  PhysicsInv'
<1>1. /\ Game /\ Insert(e, {c}) /\ value' = [value EXCEPT ![e] = v] /\ despawned' = despawned
      /\ Live(e)
  BY DEF InsertLater
<1>2. e \notin despawned /\ {c} \subseteq GameComponents
  BY <1>1 DEF Settled, Kept
<1> QED
  BY <1>1, <1>2, GivenInv

LEMMA GiveInv ==
  ASSUME Settled, NEW e \in Entities,
         \/ \E k \in Kinds : InsertRigidBody(e, k)
         \/ \E p \in Positions : InsertTransform(e, p)
         \/ \E v \in Velocities : InsertVelocity(e, v)
         \/ \E c \in {"Collider", "DirectModifications"} : InsertMark(e, c)
  PROVE  PhysicsInv'
<1>0. value[e] \in Value
  BY DEF Settled, TypeOK
<1>1. ASSUME NEW k \in Kinds, InsertRigidBody(e, k) PROVE PhysicsInv'
  <2>1. [value[e] EXCEPT !.kind = k] \in Value
        /\ [value[e] EXCEPT !.kind = k].handle = value[e].handle
    BY <1>0 DEF Value
  <2>2. "RigidBody" \in GameComponents
    BY DEF GameComponents
  <2> QED
    BY <1>1, <2>1, <2>2, InsertLaterInv DEF InsertRigidBody
<1>2. ASSUME NEW p \in Positions, InsertTransform(e, p) PROVE PhysicsInv'
  <2>1. [value[e] EXCEPT !.transform = p] \in Value
        /\ [value[e] EXCEPT !.transform = p].handle = value[e].handle
    BY <1>0 DEF Value
  <2>2. "Transform" \in GameComponents
    BY DEF GameComponents
  <2> QED
    BY <1>2, <2>1, <2>2, InsertLaterInv DEF InsertTransform
<1>3. ASSUME NEW v \in Velocities, InsertVelocity(e, v) PROVE PhysicsInv'
  <2>1. [value[e] EXCEPT !.velocity = v] \in Value
        /\ [value[e] EXCEPT !.velocity = v].handle = value[e].handle
    BY <1>0 DEF Value
  <2>2. "Velocity" \in GameComponents
    BY DEF GameComponents
  <2> QED
    BY <1>3, <2>1, <2>2, InsertLaterInv DEF InsertVelocity
<1>4. ASSUME NEW c \in {"Collider", "DirectModifications"}, InsertMark(e, c) PROVE PhysicsInv'
  <2>1. c \in GameComponents
    BY DEF GameComponents
  <2> QED
    BY <1>0, <1>4, <2>1, InsertLaterInv DEF InsertMark
<1> QED
  BY <1>1, <1>2, <1>3, <1>4

\* What the game takes from an entity is noted as taken.
LEMMA RemoveInv ==
  ASSUME Settled, NEW e \in Entities, NEW c \in Components, Remove(e, c)
  PROVE  PhysicsInv'
<1>1. /\ Game /\ c \in comps[e] /\ despawned' = despawned
      /\ comps' = [comps EXCEPT ![e] = @ \ {c}] /\ taken' = taken \cup {<<e, c>>}
      /\ added' = added \ {<<e, c>>} /\ changed' = changed \ {<<e, c>>}
      /\ value' = [value EXCEPT ![e] = Without(value[e], c)]
  BY DEF Remove
<1>2. /\ Without(value[e], c) \in Value
      /\ c # "RigidBodyHandle" => Without(value[e], c).handle = value[e].handle
  <2>1. value[e] \in Value /\ Origin \in Positions /\ Still \in Velocities /\ Unset.kind \in Kinds
    BY UnsetIsValue, DefaultsAssumption DEF Settled, TypeOK, Value
  <2> QED
    BY <2>1 DEF Without, Value
<1>3. /\ comps' \in [Entities -> SUBSET Components] /\ value' \in [Entities -> Value]
      /\ comps'[e] = comps[e] \ {c} /\ value'[e] = Without(value[e], c)
      /\ \A f \in Entities : f # e => comps'[f] = comps[f] /\ value'[f] = value[f]
  BY <1>1, <1>2 DEF Settled, TypeOK
<1>4. taken' \subseteq Entities \X Components /\ added' \subseteq Entities \X AddedAsked
      /\ changed' \subseteq Entities \X ChangedAsked
  <2>1. /\ taken \subseteq Entities \X Components /\ added \subseteq Entities \X AddedAsked
        /\ changed \subseteq Entities \X ChangedAsked
    BY DEF Settled, TypeOK
  <2> QED
    BY <1>1, <2>1
<1>5. \A p \in changed' : p[2] \in comps'[p[1]]
  <2> SUFFICES ASSUME NEW p \in changed' PROVE p[2] \in comps'[p[1]]
    OBVIOUS
  <2>1. p \in changed /\ p # <<e, c>>
    BY <1>1
  <2>2. p[2] \in comps[p[1]]
    BY <2>1 DEF Settled, Flagged
  <2>3. p[1] \in Entities /\ p = <<p[1], p[2]>>
    <3>1. p \in Entities \X ChangedAsked
      BY <1>4
    <3> QED
      BY <3>1
  <2> QED
    BY <1>3, <2>1, <2>2, <2>3
<1>6. pc = "game" => \A f \in Entities : <<f, "RigidBodyHandle">> \notin added'
  BY <1>1 DEF Settled, Flagged, AddedIn
<1>7. \A f \in Entities, d \in Components : d \in comps'[f] => d \in comps[f]
  BY <1>3
<1>8. \A f \in Entities, d \in Components :
        d \in comps[f] \/ <<f, d>> \in taken => d \in comps'[f] \/ <<f, d>> \in taken'
  <2> SUFFICES ASSUME NEW f \in Entities, NEW d \in Components,
                      d \in comps[f], <<f, d>> \notin taken'
               PROVE  d \in comps'[f]
    BY <1>1
  <2>1. <<f, d>> # <<e, c>>
    BY <1>1
  <2>2. f # e \/ d # c
    BY <2>1
  <2> QED
    BY <1>3, <2>2
<1>9. Bodily \subseteq Components /\ "Transform" \in Components
  BY DEF Bodily, Components, GameComponents
<1>10. Live(e) /\ \A f \in Entities : f # e => (Live(f)' <=> Live(f))
  <2>1. Live(e)
    BY <1>1 DEF Live
  <2>2. \A f \in Entities, d \in Components : f # e => (<<f, d>> \in taken' <=> <<f, d>> \in taken)
    BY <1>1
  <2> QED
    BY <1>3, <2>1, <2>2 DEF Live
<1>11. \A f \in Entities :
         Live(f)' => "Transform" \in comps'[f] \/ <<f, "Transform">> \in taken'
  <2>1. \A f \in Entities : Live(f) => "Transform" \in comps[f] \/ <<f, "Transform">> \in taken
    BY DEF Settled, Kept
  <2> QED
    BY <1>8, <1>9, <1>10, <2>1
<1>12. \A f \in despawned' : ~Live(f)'
  <2>1. \A f \in despawned : f \in Entities /\ ~Live(f)
    BY DEF Settled, Kept, TypeOK
  <2> QED
    BY <1>1, <1>10, <2>1
<1>13. \A f \in Entities :
         "RigidBodyHandle" \in comps'[f] => value'[f].handle = value[f].handle
  BY <1>2, <1>3
<1>14. \A f \in Entities : \A d \in Bodily : d \in comps'[f] => d \in comps[f]
  BY <1>7, <1>9
<1>15. \A f \in Entities \ despawned' : \A d \in Bodily :
         d \in comps[f] \/ <<f, d>> \in taken => d \in comps'[f] \/ <<f, d>> \in taken'
  BY <1>8, <1>9
<1>16. despawned \subseteq despawned' /\ despawned' \subseteq Entities
  BY <1>1 DEF Settled, TypeOK
<1> QED
  BY <1>1, <1>3, <1>4, <1>5, <1>6, <1>11, <1>12, <1>13, <1>14, <1>15, <1>16, GameSettled

LEMMA DespawnInv ==
  ASSUME Settled, NEW e \in Entities, Despawn(e)
  PROVE  PhysicsInv'
<1>1. /\ comps' = [comps EXCEPT ![e] = {}] /\ despawned' = despawned \cup {e}
      /\ taken' = {p \in taken : p[1] # e}
      /\ added' = {p \in added : p[1] # e} /\ changed' = {p \in changed : p[1] # e}
      /\ value' = [value EXCEPT ![e] = Unset] /\ Game
  BY DEF Despawn
<1>2. /\ comps' \in [Entities -> SUBSET Components] /\ comps'[e] = {}
      /\ value' \in [Entities -> Value]
      /\ \A f \in Entities : f # e => comps'[f] = comps[f] /\ value'[f] = value[f]
  BY <1>1, UnsetIsValue DEF Settled, TypeOK
<1>3. added' \subseteq added /\ added' \subseteq Entities \X AddedAsked
      /\ changed' \subseteq Entities \X ChangedAsked /\ taken' \subseteq Entities \X Components
      /\ despawned' \subseteq Entities /\ despawned \subseteq despawned'
  BY <1>1 DEF Settled, TypeOK
<1>4. \A p \in changed' : p[2] \in comps'[p[1]]
  BY <1>1, <1>2 DEF Settled, Flagged, TypeOK
<1>5. pc = "game" => \A f \in Entities : <<f, "RigidBodyHandle">> \notin added'
  BY <1>3 DEF Settled, Flagged, AddedIn
<1>6. \A f \in Entities, d \in Components : <<f, d>> \in taken' <=> <<f, d>> \in taken /\ f # e
  BY <1>1
<1>7. ~Live(e)' /\ \A f \in Entities : f # e => (Live(f)' <=> Live(f))
  BY <1>2, <1>6 DEF Live
<1>8. "Transform" \in Components /\ Bodily \subseteq Components
  BY DEF Components, GameComponents, Bodily
<1>9. \A f \in Entities :
        Live(f)' => "Transform" \in comps'[f] \/ <<f, "Transform">> \in taken'
  BY <1>2, <1>6, <1>7, <1>8 DEF Settled, Kept
<1>10. \A f \in despawned' : ~Live(f)'
  BY <1>1, <1>7 DEF Settled, Kept, TypeOK
<1>11. \A f \in Entities : \A d \in Bodily : d \in comps'[f] => d \in comps[f]
  BY <1>2
<1>12. \A f \in Entities \ despawned' : \A d \in Bodily :
         d \in comps[f] \/ <<f, d>> \in taken => d \in comps'[f] \/ <<f, d>> \in taken'
  BY <1>1, <1>2, <1>6, <1>8
<1>13. \A f \in Entities :
         "RigidBodyHandle" \in comps'[f] => value'[f].handle = value[f].handle
  BY <1>2
<1> QED
  BY <1>1, <1>2, <1>3, <1>4, <1>5, <1>9, <1>10, <1>11, <1>12, <1>13, GameSettled

-----------------------------------------------------------------------------
(***************************************************************************)
(* PhysicsSyncMain.                                                        *)
(***************************************************************************)
\* The sets of values of pc, spelt out.
LEMMA Progress ==
  /\ FromFixed \subseteq Places /\ FromBodies \subseteq FromFixed /\ FromTarget \subseteq FromBodies
  /\ FromTargetVel \subseteq FromTarget /\ FromDirect \subseteq FromTargetVel
  /\ FromLinVel \subseteq FromDirect /\ FromMark \subseteq FromLinVel
  /\ FromColliders \subseteq FromMark /\ "synced" \in FromColliders
  /\ FromFixed = {"sync_fixed_bodies_to_rapier"} \cup FromBodies
  /\ FromBodies = {"handle_rigidbody_insert"} \cup FromTarget
  /\ FromTarget = {"sync_target_transform_kinematic_body"} \cup FromTargetVel
  /\ FromTargetVel = {"sync_target_vel_kinematic_body"} \cup FromDirect
  /\ FromDirect = {"sync_physics_direct_transform_modification"} \cup FromLinVel
  /\ FromLinVel = {"sync_lin_vel_to_physics"} \cup FromMark
  /\ FromMark = {"mark_static_bodies_trans_changed"} \cup FromColliders
  /\ FromColliders = {"handle_collider_insert", "synced"}
BY DEF FromFixed, FromBodies, FromTarget, FromTargetVel, FromDirect, FromLinVel, FromMark,
       FromColliders, Places

\* What Done says of one entity and its body.
DoneFor(e) ==
  /\ pc \in FromFixed /\ BodyOf(e).active => Follows(e)
  /\ pc \in FromBodies /\ {"FixedRigidBody", "Transform"} \subseteq comps[e] => Follows(e)
  /\ pc \in FromBodies /\ e \in AddedIn("RigidBodyHandle") => Follows(e)
  /\ pc \in FromLinVel /\ "DirectModifications" \in comps[e] /\ e \in ChangedIn("Transform")
       => Follows(e)
  /\ pc \in FromTargetVel /\ "TargetTransform" \in comps[e]
       /\ "DirectModifications" \notin comps[e] => BodyOf(e).next = value[e].target
  /\ pc \in FromMark /\ e \in ChangedIn("Velocity") /\ Free(BodyOf(e))
       => BodyOf(e).velocity = value[e].velocity
  /\ pc \in FromDirect /\ e \in ChangedIn("TargetVelocity") \ ChangedIn("Velocity")
       /\ Free(BodyOf(e)) => BodyOf(e).velocity = value[e].target_velocity

LEMMA DoneForEach ==
  Done <=> /\ \A e \in Bound : DoneFor(e)
           /\ pc \in FromTarget => NewBodies = {}
           /\ pc = "synced" => NewColliders = {}
BY DEF Done, DoneFor

\* Only the place changes.
LEMMA PlaceOnly ==
  ASSUME Settled, UNCHANGED <<world, bodies, mappings>>, pc' \in Places,
         pc' \in Early => pc \in Early
  PROVE  /\ Settled' /\ Bound' = Bound /\ NewBodies' = NewBodies /\ NewColliders' = NewColliders
         /\ \A e : BodyOf(e)' = BodyOf(e) /\ (Follows(e)' <=> Follows(e))
         /\ UNCHANGED <<comps, value, added, changed>>
<1>1. UNCHANGED <<comps, despawned, taken, value, added, changed, bodies, rigidbody_entity,
                  added_bodies, added_colliders>>
  BY DEF world, mappings
<1>2. \A p \in changed' : p[2] \in comps[p[1]]
  BY <1>1 DEF Settled, Flagged
<1>3. Settled'
  BY <1>1, <1>2, SettledKept DEF Settled, TypeOK
<1> QED
  BY <1>1, <1>3 DEF Bound, Has, NewBodies, NewColliders, AddedIn, BodyOf, Follows

LEMMA BeginInv == ASSUME PhysicsInv, Begin PROVE PhysicsInv'
<1>1. pc = "game" /\ pc' = "sync_physics_transform" /\ UNCHANGED <<world, bodies, mappings>>
  BY Order DEF Begin
<1>2. Settled'
  BY <1>1, PlaceOnly DEF PhysicsInv, Places, Early
<1>3. Done' /\ PanicNeedsRemoval'
  BY <1>1, NothingDone, Progress DEF FromFixed, FromBodies, FromTarget, FromTargetVel, FromDirect,
     FromLinVel, FromMark, FromColliders
<1> QED
  BY <1>2, <1>3 DEF PhysicsInv

\* After PhysicsSyncMain nothing it did is promised any longer.
LEMMA LateInv == ASSUME PhysicsInv, Late \/ LateDone PROVE PhysicsInv'
<1>1. pc' \in {"game, late", "step"} /\ UNCHANGED <<world, bodies, mappings>>
  BY DEF Late, LateDone
<1>2. Settled'
  BY <1>1, PlaceOnly DEF PhysicsInv, Places, Early
<1>3. Done' /\ PanicNeedsRemoval'
  BY <1>1, NothingDone DEF FromFixed, FromBodies, FromTarget, FromTargetVel, FromDirect,
     FromLinVel, FromMark, FromColliders
<1> QED
  BY <1>2, <1>3 DEF PhysicsInv

\* Where the Transform or the handle of a moving body is missing, the game took it.
LEMMA TransformLostInv == ASSUME PhysicsInv, TransformLost PROVE PhysicsInv'
<1>1. pc' = "panicked" /\ UNCHANGED <<world, bodies, mappings>>
  BY DEF TransformLost
<1>2. Settled'
  BY <1>1, PlaceOnly DEF PhysicsInv, Places, Early
<1>3. Done'
  BY <1>1 DEF Done, FromFixed, FromBodies, FromTarget, FromTargetVel, FromDirect,
     FromLinVel, FromMark, FromColliders
<1>4. PanicNeedsRemoval'
  <2>1. PICK h \in Lost : TRUE
    BY DEF TransformLost
  <2>2. h \in Active /\ h \in DOMAIN bodies
        /\ rigidbody_entity[h] \notin Has({"Transform", "RigidBodyHandle"})
    BY <2>1 DEF Lost, Active
  <2>3. rigidbody_entity[h] \in Entities
    BY <2>2, BodiesTyped DEF PhysicsInv
  <2>4. Bereft(rigidbody_entity[h])
    <3> DEFINE e == rigidbody_entity[h]
    <3>1. \/ e \in despawned \/ "RigidBodyHandle" \in comps[e]
          \/ <<e, "RigidBodyHandle">> \in taken
      BY <2>2 DEF PhysicsInv, Settled, Kept
    <3>2. ASSUME "RigidBodyHandle" \in comps[e] PROVE <<e, "Transform">> \in taken
      <4>1. "Transform" \notin comps[e] /\ Live(e)
        BY <2>2, <2>3, <3>2 DEF Has, Live
      <4> QED
        BY <2>3, <4>1 DEF PhysicsInv, Settled, Kept
    <3> QED
      BY <3>1, <3>2 DEF Bereft
  <2> QED
    BY <1>1, <2>2, <2>4 DEF PanicNeedsRemoval, Active, Bereft, world, mappings
<1> QED
  BY <1>2, <1>3, <1>4 DEF PhysicsInv

LEMMA BodiesInsertedInv == ASSUME PhysicsInv, BodiesInserted PROVE PhysicsInv'
<1>1. /\ pc = "handle_rigidbody_insert" /\ pc' = "sync_target_transform_kinematic_body"
      /\ NewBodies = {} /\ UNCHANGED <<world, bodies, mappings>>
  BY Order DEF BodiesInserted, Run
<1>2. /\ Settled' /\ Bound' = Bound /\ NewBodies' = NewBodies
      /\ \A e : BodyOf(e)' = BodyOf(e) /\ (Follows(e)' <=> Follows(e))
      /\ UNCHANGED <<comps, value, added, changed>>
  BY <1>1, PlaceOnly, Progress DEF PhysicsInv, Early
<1>3. \A e \in Bound : DoneFor(e)'
  <2> SUFFICES ASSUME NEW e \in Bound PROVE DoneFor(e)'
    OBVIOUS
  <2>1. DoneFor(e)
    BY DoneForEach DEF PhysicsInv
  <2>2. pc \in FromBodies /\ pc' \in FromBodies /\ pc \in FromFixed
        /\ pc' \notin FromTargetVel /\ pc' \notin FromDirect /\ pc' \notin FromLinVel
        /\ pc' \notin FromMark
    BY <1>1 DEF FromFixed, FromBodies, FromTarget, FromTargetVel, FromDirect, FromLinVel, FromMark,
       FromColliders
  <2> QED
    BY <1>2, <2>1, <2>2 DEF DoneFor, AddedIn
<1>4. Done'
  BY <1>1, <1>2, <1>3 DEF Done, DoneFor
<1>5. PanicNeedsRemoval'
  BY <1>1 DEF PanicNeedsRemoval
<1> QED
  BY <1>2, <1>4, <1>5 DEF PhysicsInv

LEMMA CollidersInsertedInv == ASSUME PhysicsInv, CollidersInserted PROVE PhysicsInv'
<1>1. /\ pc = "handle_collider_insert" /\ pc' = "synced"
      /\ NewColliders = {} /\ UNCHANGED <<world, bodies, mappings>>
  BY Order DEF CollidersInserted, Run
<1>2. /\ Settled' /\ Bound' = Bound /\ NewBodies' = NewBodies /\ NewColliders' = NewColliders
      /\ \A e : BodyOf(e)' = BodyOf(e) /\ (Follows(e)' <=> Follows(e))
      /\ UNCHANGED <<comps, value, added, changed>>
  BY <1>1, PlaceOnly, Progress DEF PhysicsInv, Early
<1>3. pc \in FromColliders /\ pc \in FromMark /\ pc \in FromLinVel /\ pc \in FromDirect
      /\ pc \in FromTargetVel /\ pc \in FromTarget /\ pc \in FromBodies /\ pc \in FromFixed
  BY <1>1, Progress
<1>4. \A e \in Bound : DoneFor(e)'
  <2> SUFFICES ASSUME NEW e \in Bound PROVE DoneFor(e)'
    OBVIOUS
  <2>1. DoneFor(e)
    BY DoneForEach DEF PhysicsInv
  <2> QED
    BY <1>2, <1>3, <2>1 DEF DoneFor, AddedIn, ChangedIn
<1>5. Done'
  BY <1>1, <1>2, <1>3, <1>4 DEF Done, DoneFor, PhysicsInv
<1>6. PanicNeedsRemoval'
  BY <1>1 DEF PanicNeedsRemoval
<1> QED
  BY <1>2, <1>5, <1>6 DEF PhysicsInv

\* What the systems that go through rapier's bodies do to one of them.
LEMMA SetPosition ==
  ASSUME NEW b \in Body, NEW v \in Value, NEW r, r = set_position(b, v)
  PROVE  /\ r \in Body /\ r.kind = b.kind /\ r.colliders = b.colliders /\ r.active = b.active
         /\ r.velocity = b.velocity /\ r.position = v.transform /\ r.next = v.transform
BY DEF set_position, Body, Value

LEMMA SetNext ==
  ASSUME NEW b \in Body, NEW v \in Value, NEW r, r = set_next_kinematic_position(b, v)
  PROVE  /\ r \in Body /\ r.kind = b.kind /\ r.colliders = b.colliders /\ r.active = b.active
         /\ r.velocity = b.velocity /\ r.position = b.position
         /\ b.kind = "kinematic position" => r.next = v.target
BY DEF set_next_kinematic_position, Body, Value

LEMMA SetVelocity ==
  ASSUME NEW b \in Body, NEW v \in Value, NEW r,
         r = set_linvel(b, v) \/ r = set_target_velocity(b, v)
  PROVE  /\ r \in Body /\ r.kind = b.kind /\ r.colliders = b.colliders /\ r.active = b.active
         /\ r.position = b.position /\ r.next = b.next
         /\ r = set_linvel(b, v) /\ Free(b) => r.velocity = v.velocity
         /\ r = set_target_velocity(b, v) /\ Free(b) => r.velocity = v.target_velocity
BY DEF set_linvel, set_target_velocity, Body, Value

\* A system that goes through the bodies changes neither the world nor what a body is.
LEMMA Updating ==
  ASSUME PhysicsInv, UNCHANGED <<world, mappings>>, pc' \in Places, pc' \notin Early,
         bodies' = [h \in DOMAIN bodies |-> bodies'[h]],
         \A h \in DOMAIN bodies :
           /\ bodies'[h] \in Body /\ bodies'[h].kind = bodies[h].kind
           /\ bodies'[h].colliders = bodies[h].colliders /\ bodies'[h].active = bodies[h].active
  PROVE  /\ Settled' /\ Bound' = Bound
         /\ NewBodies' = NewBodies /\ NewColliders' = NewColliders
         /\ UNCHANGED <<comps, value, added, changed>>
         /\ \A e \in Bound : /\ BodyOf(e)'.kind = BodyOf(e).kind
                            /\ BodyOf(e)'.active = BodyOf(e).active
<1>0. UNCHANGED <<comps, despawned, taken, value, added, changed, rigidbody_entity,
                  added_bodies, added_colliders>>
  BY DEF world, mappings
<1>1. DOMAIN bodies = 1 .. Len(bodies) /\ Len(bodies) \in Nat
  BY BodiesTyped DEF PhysicsInv
<1>2. bodies' \in [1 .. Len(bodies) -> Body]
  BY <1>1
<1>3. bodies' \in Seq(Body) /\ Len(bodies') = Len(bodies)
  BY <1>1, <1>2, SeqDef, LenProperties
<1>4. \A p \in changed' : p[2] \in comps[p[1]]
  BY <1>0 DEF PhysicsInv, Settled, Flagged
<1>5. Settled'
  BY <1>0, <1>3, <1>4, SettledKept DEF PhysicsInv, Settled, TypeOK
<1>6. ASSUME NEW e \in Bound
      PROVE  BodyOf(e)'.kind = BodyOf(e).kind /\ BodyOf(e)'.active = BodyOf(e).active
  BY <1>0, OwnBody DEF PhysicsInv, BodyOf
<1> QED
  BY <1>0, <1>5, <1>6 DEF Bound, Has, NewBodies, NewColliders, AddedIn

LEMMA FixedBodiesInv == ASSUME PhysicsInv, sync_fixed_bodies_to_rapier PROVE PhysicsInv'
<1> DEFINE es == Has({"RigidBodyHandle", "Transform", "FixedRigidBody"})
<1>0. Settled /\ Done /\ es \subseteq Bound
  BY DEF PhysicsInv, Bound, Has
<1>1. /\ pc = "sync_fixed_bodies_to_rapier" /\ pc' = "handle_rigidbody_insert"
      /\ UNCHANGED <<world, mappings>>
  BY Order DEF sync_fixed_bodies_to_rapier, Run
<1>2. /\ bodies' = [h \in DOMAIN bodies |-> bodies'[h]]
      /\ \A h \in DOMAIN bodies : bodies'[h] =
           IF rigidbody_entity[h] \in es THEN set_position(bodies[h], value[rigidbody_entity[h]])
                                         ELSE bodies[h]
  <2>1. bodies' = [h \in DOMAIN bodies |->
          IF Held(es, h) THEN set_position(bodies[h], value[Holder(es, h)]) ELSE bodies[h]]
    BY DEF sync_fixed_bodies_to_rapier, UpdateBodies, Held, Holder
  <2> HIDE DEF es
  <2> QED
    BY <1>0, <2>1, Chosen
<1>3. \A h \in DOMAIN bodies : bodies[h] \in Body /\ value[rigidbody_entity[h]] \in Value
  BY <1>0, BodiesTyped DEF Settled, TypeOK
<1>4. \A h \in DOMAIN bodies :
        /\ bodies'[h] \in Body /\ bodies'[h].kind = bodies[h].kind
        /\ bodies'[h].colliders = bodies[h].colliders /\ bodies'[h].active = bodies[h].active
  BY <1>2, <1>3, SetPosition
<1>5. /\ Settled' /\ Bound' = Bound /\ UNCHANGED <<comps, value, added, changed>>
      /\ \A e \in Bound : BodyOf(e)'.kind = BodyOf(e).kind /\ BodyOf(e)'.active = BodyOf(e).active
  BY <1>1, <1>2, <1>4, Updating, Progress DEF Early
<1>6. \A e \in Bound : Follows(e)' <=> e \in es \/ Follows(e)
  <2> SUFFICES ASSUME NEW e \in Bound PROVE Follows(e)' <=> e \in es \/ Follows(e)
    OBVIOUS
  <2>1. /\ value[e].handle \in DOMAIN bodies /\ rigidbody_entity[value[e].handle] = e
        /\ value[e] \in Value /\ BodyOf(e) \in Body
    BY <1>0, OwnBody
  <2>2. BodyOf(e)' = IF e \in es THEN set_position(BodyOf(e), value[e]) ELSE BodyOf(e)
    BY <1>2, <1>5, <2>1 DEF BodyOf
  <2> QED
    BY <1>5, <2>1, <2>2, SetPosition DEF Follows
<1>7. ASSUME NEW e \in Bound PROVE DoneFor(e)'
  <2>1. DoneFor(e) /\ e \in Entities /\ "RigidBodyHandle" \in comps[e]
    BY <1>0, DoneForEach, OwnBody
  <2>2. {"FixedRigidBody", "Transform"} \subseteq comps[e] => e \in es
    BY <2>1 DEF Has
  <2>3. AddedIn("RigidBodyHandle")' = {}
    BY <1>0, <1>1, <1>5 DEF Settled, Flagged, AddedIn
  <2>4. pc \in FromFixed /\ pc' \notin FromTarget /\ pc' \notin FromTargetVel
        /\ pc' \notin FromDirect /\ pc' \notin FromLinVel /\ pc' \notin FromMark
    BY <1>1 DEF FromFixed, FromBodies, FromTarget, FromTargetVel, FromDirect, FromLinVel,
       FromMark, FromColliders
  <2> QED
    BY <1>5, <1>6, <2>1, <2>2, <2>3, <2>4 DEF DoneFor
<1>8. Done' /\ PanicNeedsRemoval'
  <2>1. pc' \notin FromTarget /\ pc' # "synced" /\ pc' # "panicked"
    BY <1>1 DEF FromTarget, FromTargetVel, FromDirect, FromLinVel, FromMark, FromColliders
  <2> QED
    BY <1>5, <1>7, <2>1 DEF Done, DoneFor, PanicNeedsRemoval
<1> QED
  BY <1>5, <1>8 DEF PhysicsInv

LEMMA TargetTransformInv ==
  ASSUME PhysicsInv, sync_target_transform_kinematic_body PROVE PhysicsInv'
<1> DEFINE es == Has({"TargetTransform", "RigidBodyHandle"})
<1>0. Settled /\ Done /\ es \subseteq Bound
  BY DEF PhysicsInv, Bound, Has
<1>1. /\ pc = "sync_target_transform_kinematic_body" /\ pc' = "sync_target_vel_kinematic_body"
      /\ UNCHANGED <<world, mappings>>
  BY Order DEF sync_target_transform_kinematic_body, Run
<1>2. /\ bodies' = [h \in DOMAIN bodies |-> bodies'[h]]
      /\ \A h \in DOMAIN bodies : bodies'[h] =
           IF rigidbody_entity[h] \in es
           THEN set_next_kinematic_position(bodies[h], value[rigidbody_entity[h]])
           ELSE bodies[h]
  <2>1. bodies' = [h \in DOMAIN bodies |->
          IF Held(es, h) THEN set_next_kinematic_position(bodies[h], value[Holder(es, h)])
                         ELSE bodies[h]]
    BY DEF sync_target_transform_kinematic_body, UpdateBodies, Held, Holder
  <2> HIDE DEF es
  <2> QED
    BY <1>0, <2>1, Chosen
<1>3. \A h \in DOMAIN bodies : bodies[h] \in Body /\ value[rigidbody_entity[h]] \in Value
  BY <1>0, BodiesTyped DEF Settled, TypeOK
<1>4. \A h \in DOMAIN bodies :
        /\ bodies'[h] \in Body /\ bodies'[h].kind = bodies[h].kind
        /\ bodies'[h].colliders = bodies[h].colliders /\ bodies'[h].active = bodies[h].active
  <2> SUFFICES ASSUME NEW h \in DOMAIN bodies
               PROVE  /\ bodies'[h] \in Body /\ bodies'[h].kind = bodies[h].kind
                      /\ bodies'[h].colliders = bodies[h].colliders
                      /\ bodies'[h].active = bodies[h].active
    OBVIOUS
  <2>1. CASE rigidbody_entity[h] \in es
    <3>1. bodies'[h] = set_next_kinematic_position(bodies[h], value[rigidbody_entity[h]])
      BY <1>2, <2>1
    <3>2. bodies[h] \in Body /\ value[rigidbody_entity[h]] \in Value
      BY <1>3
    <3> QED
      BY <3>1, <3>2, SetNext, ZenonT(30)
  <2>2. CASE rigidbody_entity[h] \notin es
    BY <1>2, <1>3, <2>2
  <2> QED
    BY <2>1, <2>2
<1>5. /\ Settled' /\ Bound' = Bound /\ NewBodies' = NewBodies
      /\ UNCHANGED <<comps, value, added, changed>>
      /\ \A e \in Bound : BodyOf(e)'.kind = BodyOf(e).kind /\ BodyOf(e)'.active = BodyOf(e).active
  BY <1>1, <1>2, <1>4, Updating, Progress DEF Early
<1>6. ASSUME NEW e \in Bound
      PROVE  (Follows(e)' <=> Follows(e))
             /\ ("TargetTransform" \in comps[e] => BodyOf(e)'.next = value[e].target)
  <2>1. /\ value[e].handle \in DOMAIN bodies /\ rigidbody_entity[value[e].handle] = e
        /\ value[e] \in Value /\ BodyOf(e) \in Body /\ e \in Entities
        /\ "RigidBodyHandle" \in comps[e]
    BY <1>0, OwnBody
  <2>2. BodyOf(e)' =
          IF e \in es THEN set_next_kinematic_position(BodyOf(e), value[e]) ELSE BodyOf(e)
    BY <1>2, <1>5, <2>1 DEF BodyOf
  <2>3. "TargetTransform" \in comps[e] => e \in es /\ BodyOf(e).kind = "kinematic position"
    BY <1>0, <2>1 DEF Has, Settled, Kinded
  <2> QED
    BY <1>5, <2>1, <2>2, <2>3, SetNext DEF Follows
<1>7. ASSUME NEW e \in Bound PROVE DoneFor(e)'
  <2>1. DoneFor(e)
    BY <1>0, DoneForEach
  <2>2. pc \in FromFixed /\ pc \in FromBodies /\ pc' \notin FromDirect
        /\ pc' \notin FromLinVel /\ pc' \notin FromMark
    BY <1>1 DEF FromFixed, FromBodies, FromTarget, FromTargetVel, FromDirect, FromLinVel,
       FromMark, FromColliders
  <2> QED
    BY <1>5, <1>6, <2>1, <2>2 DEF DoneFor, AddedIn
<1>8. Done' /\ PanicNeedsRemoval'
  <2>1. pc \in FromTarget /\ pc' # "synced" /\ pc' # "panicked"
    BY <1>1 DEF FromTarget
  <2> QED
    BY <1>0, <1>5, <1>7, <2>1 DEF Done, DoneFor, PanicNeedsRemoval
<1> QED
  BY <1>5, <1>8 DEF PhysicsInv

LEMMA TargetVelocityInv == ASSUME PhysicsInv, sync_target_vel_kinematic_body PROVE PhysicsInv'
<1> DEFINE es == Has({"TargetVelocity", "RigidBodyHandle"}) \cap ChangedIn("TargetVelocity")
<1>0. Settled /\ Done /\ es \subseteq Bound
  BY DEF PhysicsInv, Bound, Has
<1>1. /\ pc = "sync_target_vel_kinematic_body"
      /\ pc' = "sync_physics_direct_transform_modification" /\ UNCHANGED <<world, mappings>>
  BY Order DEF sync_target_vel_kinematic_body, Run
<1>2. /\ bodies' = [h \in DOMAIN bodies |-> bodies'[h]]
      /\ \A h \in DOMAIN bodies : bodies'[h] =
           IF rigidbody_entity[h] \in es
           THEN set_target_velocity(bodies[h], value[rigidbody_entity[h]]) ELSE bodies[h]
  <2>1. bodies' = [h \in DOMAIN bodies |->
          IF Held(es, h) THEN set_target_velocity(bodies[h], value[Holder(es, h)]) ELSE bodies[h]]
    BY DEF sync_target_vel_kinematic_body, UpdateBodies, Held, Holder
  <2> HIDE DEF es
  <2> QED
    BY <1>0, <2>1, Chosen
<1>3. \A h \in DOMAIN bodies : bodies[h] \in Body /\ value[rigidbody_entity[h]] \in Value
  BY <1>0, BodiesTyped DEF Settled, TypeOK
<1>4. \A h \in DOMAIN bodies :
        /\ bodies'[h] \in Body /\ bodies'[h].kind = bodies[h].kind
        /\ bodies'[h].colliders = bodies[h].colliders /\ bodies'[h].active = bodies[h].active
        /\ bodies'[h].position = bodies[h].position /\ bodies'[h].next = bodies[h].next
  BY <1>2, <1>3, SetVelocity
<1>5. /\ Settled' /\ Bound' = Bound /\ NewBodies' = NewBodies
      /\ UNCHANGED <<comps, value, added, changed>>
      /\ \A e \in Bound : BodyOf(e)'.kind = BodyOf(e).kind /\ BodyOf(e)'.active = BodyOf(e).active
  BY <1>1, <1>2, <1>4, Updating, Progress DEF Early
<1>6. ASSUME NEW e \in Bound
      PROVE  /\ Follows(e)' <=> Follows(e)
             /\ BodyOf(e)'.next = BodyOf(e).next
             /\ e \in ChangedIn("TargetVelocity") /\ Free(BodyOf(e)) =>
                  BodyOf(e)'.velocity = value[e].target_velocity
  <2>1. /\ value[e].handle \in DOMAIN bodies /\ rigidbody_entity[value[e].handle] = e
        /\ value[e] \in Value /\ BodyOf(e) \in Body /\ e \in Entities
        /\ "RigidBodyHandle" \in comps[e]
    BY <1>0, OwnBody
  <2>2. BodyOf(e)' = IF e \in es THEN set_target_velocity(BodyOf(e), value[e]) ELSE BodyOf(e)
    BY <1>2, <1>5, <2>1 DEF BodyOf
  <2>3. e \in ChangedIn("TargetVelocity") => e \in es
    BY <1>0, <2>1 DEF ChangedIn, Has, Settled, Flagged
  <2> QED
    BY <1>5, <2>1, <2>2, <2>3, SetVelocity DEF Follows
<1>7. ASSUME NEW e \in Bound PROVE DoneFor(e)'
  <2>1. DoneFor(e)
    BY <1>0, DoneForEach
  <2>2. pc \in FromFixed /\ pc \in FromBodies /\ pc \in FromTargetVel
        /\ pc' \notin FromLinVel /\ pc' \notin FromMark
    BY <1>1 DEF FromFixed, FromBodies, FromTarget, FromTargetVel, FromDirect, FromLinVel,
       FromMark, FromColliders
  <2> QED
    BY <1>5, <1>6, <2>1, <2>2 DEF DoneFor, AddedIn, ChangedIn, Free
<1>8. Done' /\ PanicNeedsRemoval'
  <2>1. pc \in FromTarget /\ pc' # "synced" /\ pc' # "panicked"
    BY <1>1 DEF FromTarget, FromTargetVel
  <2> QED
    BY <1>0, <1>5, <1>7, <2>1 DEF Done, DoneFor, PanicNeedsRemoval
<1> QED
  BY <1>5, <1>8 DEF PhysicsInv

LEMMA DirectInv ==
  ASSUME PhysicsInv, sync_physics_direct_transform_modification PROVE PhysicsInv'
<1> DEFINE es == Has({"Transform", "RigidBodyHandle", "DirectModifications"})
                   \cap ChangedIn("Transform")
<1>0. Settled /\ Done /\ es \subseteq Bound
  BY DEF PhysicsInv, Bound, Has
<1>1. /\ pc = "sync_physics_direct_transform_modification" /\ pc' = "sync_lin_vel_to_physics"
      /\ UNCHANGED <<world, mappings>>
  BY Order DEF sync_physics_direct_transform_modification, Run
<1>2. /\ bodies' = [h \in DOMAIN bodies |-> bodies'[h]]
      /\ \A h \in DOMAIN bodies : bodies'[h] =
           IF rigidbody_entity[h] \in es THEN set_position(bodies[h], value[rigidbody_entity[h]])
                                         ELSE bodies[h]
  <2>1. bodies' = [h \in DOMAIN bodies |->
          IF Held(es, h) THEN set_position(bodies[h], value[Holder(es, h)]) ELSE bodies[h]]
    BY DEF sync_physics_direct_transform_modification, UpdateBodies, Held, Holder
  <2> HIDE DEF es
  <2> QED
    BY <1>0, <2>1, Chosen
<1>3. \A h \in DOMAIN bodies : bodies[h] \in Body /\ value[rigidbody_entity[h]] \in Value
  BY <1>0, BodiesTyped DEF Settled, TypeOK
<1>4. \A h \in DOMAIN bodies :
        /\ bodies'[h] \in Body /\ bodies'[h].kind = bodies[h].kind
        /\ bodies'[h].colliders = bodies[h].colliders /\ bodies'[h].active = bodies[h].active
  BY <1>2, <1>3, SetPosition
<1>5. /\ Settled' /\ Bound' = Bound /\ NewBodies' = NewBodies
      /\ UNCHANGED <<comps, value, added, changed>>
      /\ \A e \in Bound : BodyOf(e)'.kind = BodyOf(e).kind /\ BodyOf(e)'.active = BodyOf(e).active
  BY <1>1, <1>2, <1>4, Updating, Progress DEF Early
<1>6. ASSUME NEW e \in Bound
      PROVE  (Follows(e)' <=> e \in es \/ Follows(e))
             /\ (e \notin es => BodyOf(e)'.next = BodyOf(e).next)
             /\ BodyOf(e)'.velocity = BodyOf(e).velocity
  <2>1. /\ value[e].handle \in DOMAIN bodies /\ rigidbody_entity[value[e].handle] = e
        /\ value[e] \in Value /\ BodyOf(e) \in Body
    BY <1>0, OwnBody
  <2>2. BodyOf(e)' = IF e \in es THEN set_position(BodyOf(e), value[e]) ELSE BodyOf(e)
    BY <1>2, <1>5, <2>1 DEF BodyOf
  <2> QED
    BY <1>5, <2>1, <2>2, SetPosition DEF Follows
<1>7. ASSUME NEW e \in Bound PROVE DoneFor(e)'
  <2>1. DoneFor(e) /\ "RigidBodyHandle" \in comps[e] /\ e \in Entities
    BY <1>0, DoneForEach, OwnBody
  <2>2. e \in es <=> "DirectModifications" \in comps[e] /\ e \in ChangedIn("Transform")
    BY <1>0, <2>1 DEF Has, ChangedIn, Settled, Flagged
  <2>3. pc \in FromFixed /\ pc \in FromBodies /\ pc \in FromTargetVel /\ pc \in FromDirect
        /\ pc' \notin FromMark
    BY <1>1 DEF FromFixed, FromBodies, FromTarget, FromTargetVel, FromDirect, FromLinVel,
       FromMark, FromColliders
  <2> QED
    BY <1>5, <1>6, <2>1, <2>2, <2>3 DEF DoneFor, AddedIn, ChangedIn, Free
<1>8. Done' /\ PanicNeedsRemoval'
  <2>1. pc \in FromTarget /\ pc' # "synced" /\ pc' # "panicked"
    BY <1>1 DEF FromTarget, FromTargetVel, FromDirect
  <2> QED
    BY <1>0, <1>5, <1>7, <2>1 DEF Done, DoneFor, PanicNeedsRemoval
<1> QED
  BY <1>5, <1>8 DEF PhysicsInv

LEMMA VelocityInv == ASSUME PhysicsInv, sync_lin_vel_to_physics PROVE PhysicsInv'
<1> DEFINE es == Has({"Velocity", "RigidBodyHandle"}) \cap ChangedIn("Velocity")
<1>0. Settled /\ Done /\ es \subseteq Bound
  BY DEF PhysicsInv, Bound, Has
<1>1. /\ pc = "sync_lin_vel_to_physics" /\ pc' = "mark_static_bodies_trans_changed"
      /\ UNCHANGED <<world, mappings>>
  BY Order DEF sync_lin_vel_to_physics, Run
<1>2. /\ bodies' = [h \in DOMAIN bodies |-> bodies'[h]]
      /\ \A h \in DOMAIN bodies : bodies'[h] =
           IF rigidbody_entity[h] \in es THEN set_linvel(bodies[h], value[rigidbody_entity[h]])
                                         ELSE bodies[h]
  <2>1. bodies' = [h \in DOMAIN bodies |->
          IF Held(es, h) THEN set_linvel(bodies[h], value[Holder(es, h)]) ELSE bodies[h]]
    BY DEF sync_lin_vel_to_physics, UpdateBodies, Held, Holder
  <2> HIDE DEF es
  <2> QED
    BY <1>0, <2>1, Chosen
<1>3. \A h \in DOMAIN bodies : bodies[h] \in Body /\ value[rigidbody_entity[h]] \in Value
  BY <1>0, BodiesTyped DEF Settled, TypeOK
<1>4. \A h \in DOMAIN bodies :
        /\ bodies'[h] \in Body /\ bodies'[h].kind = bodies[h].kind
        /\ bodies'[h].colliders = bodies[h].colliders /\ bodies'[h].active = bodies[h].active
        /\ bodies'[h].position = bodies[h].position /\ bodies'[h].next = bodies[h].next
  BY <1>2, <1>3, SetVelocity
<1>5. /\ Settled' /\ Bound' = Bound /\ NewBodies' = NewBodies
      /\ UNCHANGED <<comps, value, added, changed>>
      /\ \A e \in Bound : BodyOf(e)'.kind = BodyOf(e).kind /\ BodyOf(e)'.active = BodyOf(e).active
  BY <1>1, <1>2, <1>4, Updating, Progress DEF Early
<1>6. ASSUME NEW e \in Bound
      PROVE  /\ Follows(e)' <=> Follows(e)
             /\ BodyOf(e)'.next = BodyOf(e).next
             /\ e \in ChangedIn("Velocity") /\ Free(BodyOf(e)) =>
                  BodyOf(e)'.velocity = value[e].velocity
             /\ e \notin ChangedIn("Velocity") => BodyOf(e)'.velocity = BodyOf(e).velocity
  <2>1. /\ value[e].handle \in DOMAIN bodies /\ rigidbody_entity[value[e].handle] = e
        /\ value[e] \in Value /\ BodyOf(e) \in Body /\ e \in Entities
        /\ "RigidBodyHandle" \in comps[e]
    BY <1>0, OwnBody
  <2>2. BodyOf(e)' = IF e \in es THEN set_linvel(BodyOf(e), value[e]) ELSE BodyOf(e)
    BY <1>2, <1>5, <2>1 DEF BodyOf
  <2>3. e \in ChangedIn("Velocity") => e \in es
    BY <1>0, <2>1 DEF ChangedIn, Has, Settled, Flagged
  <2> QED
    BY <1>5, <2>1, <2>2, <2>3, SetVelocity DEF Follows
<1>7. ASSUME NEW e \in Bound PROVE DoneFor(e)'
  <2>1. DoneFor(e)
    BY <1>0, DoneForEach
  <2>2. pc \in FromFixed /\ pc \in FromBodies /\ pc \in FromTargetVel /\ pc \in FromDirect
        /\ pc \in FromLinVel
    BY <1>1, Progress
  <2> QED
    BY <1>5, <1>6, <2>1, <2>2 DEF DoneFor, AddedIn, ChangedIn, Free
<1>8. Done' /\ PanicNeedsRemoval'
  <2>1. pc \in FromTarget /\ pc' # "synced" /\ pc' # "panicked"
    BY <1>1, Progress
  <2> QED
    BY <1>0, <1>5, <1>7, <2>1 DEF Done, DoneFor, PanicNeedsRemoval
<1> QED
  BY <1>5, <1>8 DEF PhysicsInv

\* The owners of moving bodies are all there, each with one body.
LEMMA TransformInv == ASSUME PhysicsInv, sync_physics_transform PROVE PhysicsInv'
<1> DEFINE Mine(e) == CHOOSE h \in Active : rigidbody_entity[h] = e
           Moves(e) == \E h \in Active : rigidbody_entity[h] = e
<1>0. Settled /\ Active \subseteq DOMAIN bodies
  BY DEF PhysicsInv, Active
<1>1. /\ pc = "sync_physics_transform" /\ pc' = "sync_fixed_bodies_to_rapier" /\ Lost = {}
      /\ changed' = changed \cup ({rigidbody_entity[h] : h \in Active} \X {"Transform"})
      /\ UNCHANGED <<comps, despawned, taken, added, bodies, mappings>>
      /\ value' = [e \in Entities |->
           IF Moves(e) THEN [value[e] EXCEPT !.transform = bodies[Mine(e)].position]
                       ELSE value[e]]
  BY Order DEF sync_physics_transform, Run
<1>2. \A h \in Active : /\ rigidbody_entity[h] \in Entities /\ bodies[h] \in Body
                        /\ "Transform" \in comps[rigidbody_entity[h]]
  BY <1>0, <1>1, BodiesTyped DEF Lost, Has
<1>3. \A e \in Entities : Moves(e) => Mine(e) \in Active
  OBVIOUS
<1>4. ASSUME NEW e \in Entities
      PROVE  /\ value'[e] \in Value /\ value'[e].handle = value[e].handle
             /\ Moves(e) => value'[e].transform = bodies[Mine(e)].position
  <2>1. value[e] \in Value
    BY <1>0 DEF Settled, TypeOK
  <2>2. CASE Moves(e)
    <3> DEFINE p == bodies[Mine(e)].position
    <3>1. p \in Positions
      BY <1>2, <1>3, <2>2 DEF Body
    <3>2. value'[e] = [value[e] EXCEPT !.transform = p]
      BY <1>1, <2>2
    <3> HIDE DEF p
    <3>3. value'[e] \in Value /\ value'[e].handle = value[e].handle /\ value'[e].transform = p
      BY <2>1, <3>1, <3>2 DEF Value
    <3> QED
      BY <3>3 DEF p
  <2>3. CASE ~Moves(e)
    BY <1>1, <2>1, <2>3
  <2> QED
    BY <2>2, <2>3
<1>5. value' \in [Entities -> Value]
  <2>1. DOMAIN value' = Entities /\ value' = [e \in Entities |-> value'[e]]
    BY <1>1
  <2> QED
    BY <1>4, <2>1
<1>6. changed' \subseteq Entities \X ChangedAsked /\ \A p \in changed' : p[2] \in comps[p[1]]
  <2>1. "Transform" \in ChangedAsked
    BY DEF ChangedAsked
  <2>2. changed' \subseteq Entities \X ChangedAsked
    BY <1>0, <1>1, <1>2, <2>1 DEF Settled, TypeOK
  <2> QED
    BY <1>0, <1>1, <1>2, <2>2 DEF Settled, Flagged
<1>7. Settled'
  BY <1>0, <1>1, <1>4, <1>5, <1>6, SettledKept, Progress DEF Early, Settled, TypeOK, mappings
<1>8. ASSUME NEW e \in Bound', BodyOf(e)'.active PROVE Follows(e)'
  <2>1. e \in Bound /\ e \in Entities /\ value'[e].handle = value[e].handle
        /\ BodyOf(e)' = BodyOf(e)
    BY <1>1, <1>4 DEF Bound, Has, BodyOf
  <2>2. value[e].handle \in DOMAIN bodies /\ rigidbody_entity[value[e].handle] = e
    BY <1>0, <2>1, OwnBody
  <2>3. value[e].handle \in Active
    BY <1>8, <2>1, <2>2 DEF BodyOf, Active
  <2>4. Mine(e) = value[e].handle
    <3>1. Mine(e) \in Active /\ rigidbody_entity[Mine(e)] = e
      BY <2>2, <2>3
    <3> HIDE DEF Mine
    <3> QED
      BY <1>0, <2>2, <3>1 DEF Settled, Owned, MappingsHold
  <2>5. value'[e].transform = bodies[Mine(e)].position
    BY <1>4, <2>1, <2>2, <2>3
  <2> QED
    BY <2>1, <2>4, <2>5 DEF Follows, BodyOf
<1>9. Done' /\ PanicNeedsRemoval'
  <2>1. /\ pc' \notin FromBodies /\ pc' \notin FromLinVel /\ pc' \notin FromTargetVel
        /\ pc' \notin FromMark /\ pc' \notin FromDirect /\ pc' \notin FromTarget /\ pc' # "synced" /\ pc' # "panicked"
    BY <1>1 DEF FromBodies, FromTarget, FromTargetVel, FromDirect, FromLinVel, FromMark,
       FromColliders
  <2> QED
    BY <1>8, <2>1 DEF Done, PanicNeedsRemoval
<1> QED
  BY <1>7, <1>9 DEF PhysicsInv

LEMMA MarkInv == ASSUME PhysicsInv, mark_static_bodies_trans_changed PROVE PhysicsInv'
<1>0. Settled /\ Done
  BY DEF PhysicsInv
<1>1. /\ pc = "mark_static_bodies_trans_changed" /\ pc' = "handle_collider_insert"
      /\ changed' = changed \cup (Has({"Transform", "FixedRigidBody"}) \X {"Transform"})
      /\ UNCHANGED <<comps, despawned, taken, value, added, bodies, mappings>>
  BY Order DEF mark_static_bodies_trans_changed, Run
<1>2. changed' \subseteq Entities \X ChangedAsked /\ \A p \in changed' : p[2] \in comps[p[1]]
  <2>1. "Transform" \in ChangedAsked
    BY DEF ChangedAsked
  <2>2. changed' \subseteq Entities \X ChangedAsked
    BY <1>0, <1>1, <2>1 DEF Settled, TypeOK, Has
  <2> QED
    BY <1>0, <1>1, <2>2 DEF Settled, Flagged, Has
<1>3. Settled'
  BY <1>0, <1>1, <1>2, SettledKept, Progress DEF Early, Settled, TypeOK, mappings
<1>4. /\ Bound' = Bound /\ NewBodies' = NewBodies
      /\ \A e : BodyOf(e)' = BodyOf(e) /\ (Follows(e)' <=> Follows(e))
  BY <1>1 DEF Bound, Has, NewBodies, AddedIn, BodyOf, Follows, mappings
<1>5. pc \in FromFixed /\ pc \in FromBodies /\ pc \in FromTarget /\ pc \in FromTargetVel
      /\ pc \in FromDirect /\ pc \in FromLinVel /\ pc \in FromMark
  BY <1>1, Progress
<1>6. ASSUME NEW e \in Bound PROVE DoneFor(e)'
  <2>1. DoneFor(e) /\ e \in Entities
    BY <1>0, DoneForEach, OwnBody
  <2>2. /\ e \in ChangedIn("Velocity")' <=> e \in ChangedIn("Velocity")
        /\ e \in ChangedIn("TargetVelocity")' <=> e \in ChangedIn("TargetVelocity")
    BY <1>1 DEF ChangedIn
  <2>3. \/ e \notin ChangedIn("Transform")' \/ e \in ChangedIn("Transform")
        \/ {"FixedRigidBody", "Transform"} \subseteq comps[e]
    BY <1>1 DEF ChangedIn, Has
  <2> QED
    BY <1>1, <1>4, <1>5, <2>1, <2>2, <2>3 DEF DoneFor, AddedIn
<1>7. Done' /\ PanicNeedsRemoval'
  BY <1>0, <1>1, <1>4, <1>5, <1>6 DEF Done, DoneFor, PanicNeedsRemoval
<1> QED
  BY <1>3, <1>7 DEF PhysicsInv

\* A body gets the collider of its own entity, once.
LEMMA InsertColliderInv ==
  ASSUME PhysicsInv, NEW e \in Entities, InsertCollider(e) PROVE PhysicsInv'
<1> DEFINE k == value[e].handle
<1>0. Settled /\ Done /\ e \in Bound /\ e \notin added_colliders
  BY DEF PhysicsInv, InsertCollider, NewColliders, Bound, Has
<1>1. /\ pc = "handle_collider_insert" /\ pc' = pc
      /\ bodies' = [bodies EXCEPT ![k].colliders = @ + 1]
      /\ added_colliders' = added_colliders \cup {e}
      /\ UNCHANGED <<comps, despawned, taken, value, added, changed, rigidbody_entity,
                     added_bodies>>
  BY DEF InsertCollider, world
<1>2. k \in DOMAIN bodies /\ rigidbody_entity[k] = e /\ e \in added_bodies
  BY <1>0, OwnBody
<1>3. /\ DOMAIN bodies = 1 .. Len(bodies) /\ Len(bodies) \in Nat
      /\ \A h \in DOMAIN bodies : bodies[h] \in Body /\ rigidbody_entity[h] \in Entities
  BY <1>0, BodiesTyped
<1>4. /\ bodies'[k] = [bodies[k] EXCEPT !.colliders = @ + 1]
      /\ \A h \in DOMAIN bodies : h # k => bodies'[h] = bodies[h]
      /\ DOMAIN bodies' = DOMAIN bodies /\ bodies' = [h \in DOMAIN bodies |-> bodies'[h]]
  BY <1>1, <1>2
<1>5. bodies[k] \in Body
  BY <1>2, <1>3
<1>6. /\ bodies'[k] \in Body /\ bodies'[k].kind = bodies[k].kind
      /\ bodies'[k].position = bodies[k].position /\ bodies'[k].next = bodies[k].next
      /\ bodies'[k].velocity = bodies[k].velocity /\ bodies'[k].active = bodies[k].active
      /\ bodies'[k].colliders = bodies[k].colliders + 1
  BY <1>4, <1>5 DEF Body
<1>7. bodies' \in Seq(Body) /\ Len(bodies') = Len(bodies)
  <2>1. bodies' \in [1 .. Len(bodies) -> Body]
    BY <1>3, <1>4, <1>6
  <2> QED
    BY <1>3, <2>1, SeqDef, LenProperties
<1>8. \A h \in DOMAIN bodies :
        /\ bodies'[h].kind = bodies[h].kind
        /\ bodies'[h].position = bodies[h].position /\ bodies'[h].next = bodies[h].next
        /\ bodies'[h].velocity = bodies[h].velocity /\ bodies'[h].active = bodies[h].active
  BY <1>4, <1>6
<1>9. Bound' = Bound
  BY <1>1 DEF Bound, Has
<1>10. TypeOK'
  BY <1>0, <1>1, <1>7 DEF Settled, TypeOK
<1>11. Owned'
  <2>1. \A h \in DOMAIN bodies' :
          bodies'[h].colliders = IF rigidbody_entity'[h] \in added_colliders' THEN 1 ELSE 0
    <3> SUFFICES ASSUME NEW h \in DOMAIN bodies
                 PROVE  bodies'[h].colliders =
                          IF rigidbody_entity[h] \in added_colliders \cup {e} THEN 1 ELSE 0
      BY <1>1, <1>4
    <3>1. bodies[h].colliders = IF rigidbody_entity[h] \in added_colliders THEN 1 ELSE 0
      BY <1>0 DEF Settled, Owned, MappingsHold
    <3>2. CASE h = k
      BY <1>0, <1>2, <1>6, <3>1, <3>2
    <3>3. CASE h # k
      <4>1. rigidbody_entity[h] # e
        BY <1>0, <1>2, <3>3 DEF Settled, Owned, MappingsHold
      <4> QED
        BY <1>4, <3>1, <3>3, <4>1
    <3> QED
      BY <3>2, <3>3
  <2>2. MappingsHold'
    <3>1. \A f \in Has({"RigidBodyHandle"})' : rigidbody_entity'[value'[f].handle] = f
      BY <1>0, <1>1 DEF Settled, Owned, MappingsHold, Has
    <3>2. /\ Len(bodies') = Len(rigidbody_entity')
          /\ added_bodies' = {rigidbody_entity'[h] : h \in DOMAIN bodies'}
          /\ \A g, h \in DOMAIN bodies' : rigidbody_entity'[g] = rigidbody_entity'[h] => g = h
      BY <1>0, <1>1, <1>4, <1>7 DEF Settled, Owned, MappingsHold
    <3> QED
      BY <2>1, <3>1, <3>2 DEF MappingsHold
  <2>3. \A f \in Bound' : value'[f].handle \in DOMAIN bodies'
    BY <1>0, <1>1, <1>4, <1>9 DEF Settled, Owned
  <2> QED
    BY <1>0, <1>1, <1>2, <2>2, <2>3 DEF Settled, Owned
<1>12. Kept'
  BY <1>0, <1>1, <1>4 DEF Settled, Kept, Live
<1>13. \A f \in Bound : /\ BodyOf(f)'.kind = BodyOf(f).kind /\ BodyOf(f)'.active = BodyOf(f).active
                        /\ BodyOf(f)'.position = BodyOf(f).position
                        /\ BodyOf(f)'.next = BodyOf(f).next
                        /\ BodyOf(f)'.velocity = BodyOf(f).velocity
  BY <1>0, <1>1, <1>8, OwnBody DEF BodyOf
<1>14. Kinded'
  BY <1>0, <1>1, <1>9, <1>13 DEF Settled, Kinded
<1>15. Flagged'
  BY <1>0, <1>1 DEF Settled, Flagged, AddedIn
<1>16. \A f \in Bound : DoneFor(f)'
  <2> SUFFICES ASSUME NEW f \in Bound PROVE DoneFor(f)'
    OBVIOUS
  <2>1. DoneFor(f) /\ (Follows(f)' <=> Follows(f))
    BY <1>0, <1>1, <1>13, DoneForEach DEF Follows
  <2> QED
    BY <1>1, <1>13, <2>1 DEF DoneFor, AddedIn, ChangedIn, Free
<1>17. NewBodies' = NewBodies
  BY <1>1 DEF NewBodies, Has, AddedIn
<1>18. Done' /\ PanicNeedsRemoval'
  BY <1>0, <1>1, <1>9, <1>16, <1>17 DEF Done, DoneFor, PanicNeedsRemoval
<1> QED
  BY <1>10, <1>11, <1>12, <1>14, <1>15, <1>18 DEF PhysicsInv, Settled

\* rapier's step.
LEMMA StepInv == ASSUME PhysicsInv, Step PROVE PhysicsInv'
<1>0. Settled /\ pc' = "game" /\ added' = {} /\ changed' = {}
      /\ UNCHANGED <<comps, despawned, taken, value, mappings>>
  BY DEF PhysicsInv, Step, StepBodies
<1>1. PICK motion \in [DOMAIN bodies -> Motions] :
        bodies' = [h \in DOMAIN bodies |-> Moved(bodies[h], motion[h])]
  BY DEF Step, StepBodies
<1>2. DOMAIN bodies = 1 .. Len(bodies) /\ Len(bodies) \in Nat
  BY <1>0, BodiesTyped
<1>3. ASSUME NEW b \in Body, NEW m \in Motions, NEW r, r = Moved(b, m)
      PROVE  r \in Body /\ r.kind = b.kind /\ r.colliders = b.colliders
  BY <1>3 DEF Moved, Body, Motions
<1>4. \A h \in DOMAIN bodies : /\ bodies'[h] \in Body /\ bodies'[h].kind = bodies[h].kind
                               /\ bodies'[h].colliders = bodies[h].colliders
  <2>1. \A h \in DOMAIN bodies : bodies[h] \in Body /\ motion[h] \in Motions
    BY <1>0, BodiesTyped
  <2> QED
    BY <1>1, <1>3, <2>1
<1>5. bodies' \in Seq(Body) /\ Len(bodies') = Len(bodies)
  <2>1. bodies' \in [1 .. Len(bodies) -> Body]
    BY <1>1, <1>2, <1>4
  <2> QED
    BY <1>2, <2>1, SeqDef, LenProperties
<1>6. Settled'
  BY <1>0, <1>4, <1>5, SettledKept DEF Places, Settled, TypeOK, mappings
<1>7. Done' /\ PanicNeedsRemoval'
  BY <1>0, NothingDone DEF FromFixed, FromBodies, FromTarget, FromTargetVel, FromDirect,
     FromLinVel, FromMark, FromColliders
<1> QED
  BY <1>6, <1>7 DEF PhysicsInv

\* A body is made.
LEMMA InsertBodyInv == ASSUME PhysicsInv, NEW e \in Entities, InsertBody(e) PROVE PhysicsInv'
<1> DEFINE v == value[e]
           cs == {"RigidBodyHandle", "Velocity"} \cup Companions(v.kind)
           n == Len(bodies) + 1
<1>0. /\ Settled /\ Done /\ pc = "handle_rigidbody_insert" /\ pc' = pc /\ e \notin added_bodies
      /\ "RigidBody" \in comps[e] /\ "Transform" \in comps[e]
      /\ UNCHANGED <<despawned, added_colliders>>
  BY DEF PhysicsInv, InsertBody, NewBodies, Has
<1>1. v \in Value /\ e \notin Bound /\ e \notin despawned /\ v.kind \in Kinds /\ v.kind \in AllKinds
  <2>1. v \in Value
    BY <1>0 DEF Settled, TypeOK
  <2>2. e \notin Bound /\ e \notin despawned
    BY <1>0, OwnBody DEF Settled, Kept, Live
  <2> QED
    BY <2>1, <2>2, KindsAssumption DEF Value
<1>2. /\ rigidbody_entity' = Append(rigidbody_entity, e) /\ added_bodies' = added_bodies \cup {e}
      /\ comps' = [comps EXCEPT ![e] = (@ \cup cs) \ {"RigidBody"}]
      /\ added' = (added \cup ({e} \X ((cs \ comps[e]) \cap AddedAsked))) \ {<<e, "RigidBody">>}
      /\ changed' = changed \cup ({e} \X (cs \cap ChangedAsked))
      /\ taken' = taken \ ({e} \X cs)
  BY DEF InsertBody
<1>3. PICK b \in Body : /\ bodies' = Append(bodies, b) /\ b.kind = v.kind /\ b.colliders = 0
                        /\ b.position = v.transform /\ b.active = FALSE
  <2>1. PICK linvel \in Velocities :
          bodies' = Append(bodies,
            [kind |-> v.kind, position |-> v.transform, next |-> v.transform,
             velocity |-> linvel, colliders |-> 0, active |-> FALSE])
    BY DEF InsertBody
  <2> DEFINE b == [kind |-> v.kind, position |-> v.transform, next |-> v.transform,
                   velocity |-> linvel, colliders |-> 0, active |-> FALSE]
  <2>2. v.transform \in Positions
    BY <1>1 DEF Value
  <2>3. /\ b \in Body /\ b.kind = v.kind /\ b.colliders = 0
        /\ b.position = v.transform /\ b.active = FALSE
    BY <1>1, <2>2 DEF Body
  <2> QED
    BY <2>1, <2>3
<1>4. PICK w \in Value : /\ value' = [value EXCEPT ![e] = w]
                         /\ w.handle = n /\ w.transform = v.transform
  <2> DEFINE w == [v EXCEPT !.kind = Unset.kind, !.handle = n, !.velocity = Still,
                     !.target = IF v.kind = "kinematic position" THEN Origin ELSE @,
                     !.target_velocity = IF v.kind = "kinematic velocity" THEN Still ELSE @]
  <2>1. n \in Nat
    BY <1>0, BodiesTyped
  <2>2. w \in Value /\ w.handle = n /\ w.transform = v.transform
    BY <1>1, <2>1, UnsetIsValue, DefaultsAssumption DEF Value
  <2>3. value' = [value EXCEPT ![e] = w]
    BY <1>0 DEF InsertBody, Settled, TypeOK, Value
  <2> QED
    BY <2>2, <2>3
<1>5. /\ value' \in [Entities -> Value] /\ value'[e] = w
      /\ \A f \in Entities : f # e => value'[f] = value[f]
  BY <1>0, <1>4 DEF Settled, TypeOK
<1>6. /\ DOMAIN bodies = 1 .. n - 1 /\ n - 1 \in Nat /\ bodies' \in Seq(Body)
      /\ DOMAIN bodies' = 1 .. n /\ Len(bodies') = n /\ bodies'[n] = b
      /\ \A h \in 1 .. n - 1 : bodies'[h] = bodies[h]
  <2>1. bodies \in Seq(Body)
    BY <1>0 DEF Settled, TypeOK
  <2> QED
    BY <1>3, <2>1
<1>7. /\ rigidbody_entity' \in Seq(Entities) /\ Len(rigidbody_entity') = n
      /\ rigidbody_entity'[n] = e
      /\ \A h \in 1 .. n - 1 : rigidbody_entity'[h] = rigidbody_entity[h]
  <2>1. rigidbody_entity \in Seq(Entities) /\ Len(rigidbody_entity) = n - 1
    BY <1>0, <1>6, BodiesTyped DEF Settled, TypeOK
  <2> QED
    BY <1>2, <1>6, <2>1
<1>8. cs \subseteq Components /\ "RigidBody" \notin cs /\ "RigidBodyHandle" \in cs
  BY <1>1 DEF Companions, Components, GameComponents, AllKinds
<1>9. /\ comps' \in [Entities -> SUBSET Components]
      /\ comps'[e] = (comps[e] \cup cs) \ {"RigidBody"}
      /\ \A f \in Entities : f # e => comps'[f] = comps[f]
  BY <1>0, <1>2, <1>8 DEF Settled, TypeOK
<1>10. Bound' = Bound \cup {e} /\ Bound \subseteq Entities
  BY <1>8, <1>9 DEF Bound, Has
<1>11. added' \subseteq Entities \X AddedAsked /\ changed' \subseteq Entities \X ChangedAsked
  BY <1>0, <1>2, <1>8 DEF Settled, TypeOK
<1>12. TypeOK'
  BY <1>0, <1>2, <1>5, <1>6, <1>7, <1>9, <1>11 DEF Settled, TypeOK
<1>13. BodyOf(e)' = b
  BY <1>4, <1>5, <1>6 DEF BodyOf
<1>14. \A f \in Bound : f # e /\ BodyOf(f)' = BodyOf(f) /\ value'[f] = value[f]
                        /\ value[f].handle \in 1 .. n - 1
  <2> SUFFICES ASSUME NEW f \in Bound
               PROVE  f # e /\ BodyOf(f)' = BodyOf(f) /\ value'[f] = value[f]
                      /\ value[f].handle \in 1 .. n - 1
    OBVIOUS
  <2>1. f # e /\ f \in Entities /\ value[f].handle \in 1 .. n - 1
    BY <1>0, <1>1, <1>6, OwnBody
  <2> QED
    BY <1>5, <1>6, <2>1 DEF BodyOf
<1>15. Owned'
  <2>1. MappingsHold /\ added_colliders \subseteq added_bodies
    BY <1>0 DEF Settled, Owned
  <2>2. \A h \in 1 .. n - 1 : rigidbody_entity[h] \in added_bodies /\ rigidbody_entity[h] # e
    BY <1>0, <1>6, <2>1 DEF MappingsHold
  <2>3. \A g, h \in 1 .. n : rigidbody_entity'[g] = rigidbody_entity'[h] => g = h
    <3> SUFFICES ASSUME NEW g \in 1 .. n, NEW h \in 1 .. n,
                        rigidbody_entity'[g] = rigidbody_entity'[h], g # h
                 PROVE  FALSE
      OBVIOUS
    <3>1. CASE g = n
      BY <1>6, <1>7, <2>2, <3>1
    <3>2. CASE h = n
      BY <1>6, <1>7, <2>2, <3>2
    <3>3. CASE g \in 1 .. n - 1 /\ h \in 1 .. n - 1
      BY <1>6, <1>7, <2>1, <3>3 DEF MappingsHold
    <3> QED
      BY <1>6, <3>1, <3>2, <3>3
  <2>4. added_bodies' = {rigidbody_entity'[h] : h \in 1 .. n}
    <3>1. added_bodies = {rigidbody_entity[h] : h \in 1 .. n - 1}
      BY <1>6, <2>1 DEF MappingsHold
    <3>2. \A x \in added_bodies' : \E h \in 1 .. n : x = rigidbody_entity'[h]
      BY <1>2, <1>6, <1>7, <3>1
    <3>3. \A h \in 1 .. n : rigidbody_entity'[h] \in added_bodies'
      <4> SUFFICES ASSUME NEW h \in 1 .. n PROVE rigidbody_entity'[h] \in added_bodies'
        OBVIOUS
      <4>1. CASE h = n
        BY <1>2, <1>7, <4>1
      <4>2. CASE h \in 1 .. n - 1
        BY <1>2, <1>7, <2>2, <4>2
      <4> QED
        BY <1>6, <4>1, <4>2
    <3> QED
      BY <3>2, <3>3
  <2>5. \A f \in Has({"RigidBodyHandle"})' : rigidbody_entity'[value'[f].handle] = f
    <3> SUFFICES ASSUME NEW f \in Bound' PROVE rigidbody_entity'[value'[f].handle] = f
      BY DEF Bound
    <3>1. CASE f = e
      BY <1>4, <1>5, <1>7, <3>1
    <3>2. CASE f \in Bound
      BY <1>0, <1>7, <1>14, <3>2, OwnBody
    <3> QED
      BY <1>10, <3>1, <3>2
  <2>6. \A h \in 1 .. n : bodies'[h].colliders =
                            IF rigidbody_entity'[h] \in added_colliders' THEN 1 ELSE 0
    <3> SUFFICES ASSUME NEW h \in 1 .. n
                 PROVE  bodies'[h].colliders =
                          IF rigidbody_entity'[h] \in added_colliders THEN 1 ELSE 0
      BY <1>0
    <3>1. CASE h = n
      BY <1>0, <1>3, <1>6, <1>7, <2>1, <3>1
    <3>2. CASE h \in 1 .. n - 1
      BY <1>6, <1>7, <2>1, <3>2 DEF MappingsHold
    <3> QED
      BY <1>6, <3>1, <3>2
  <2>7. MappingsHold'
    BY <1>6, <1>7, <2>3, <2>4, <2>5, <2>6 DEF MappingsHold
  <2>8. \A f \in Bound' : value'[f].handle \in DOMAIN bodies'
    BY <1>4, <1>5, <1>6, <1>10, <1>14
  <2> QED
    BY <1>0, <1>2, <2>1, <2>7, <2>8 DEF Owned
<1>16. Kept'
  <2>1. \A f \in Entities, c \in Components \ {"RigidBody"} :
          c \in comps[f] \/ <<f, c>> \in taken => c \in comps'[f] \/ <<f, c>> \in taken'
    BY <1>2, <1>9
  <2>2. \A h \in DOMAIN bodies' :
          \/ rigidbody_entity'[h] \in despawned'
          \/ "RigidBodyHandle" \in comps'[rigidbody_entity'[h]]
          \/ <<rigidbody_entity'[h], "RigidBodyHandle">> \in taken'
    <3> SUFFICES ASSUME NEW h \in 1 .. n
                 PROVE  \/ rigidbody_entity'[h] \in despawned
                        \/ "RigidBodyHandle" \in comps'[rigidbody_entity'[h]]
                        \/ <<rigidbody_entity'[h], "RigidBodyHandle">> \in taken'
      BY <1>0, <1>6
    <3>1. CASE h = n
      BY <1>7, <1>8, <1>9, <3>1
    <3>2. CASE h \in 1 .. n - 1
      <4> DEFINE f == rigidbody_entity[h]
      <4>1. f \in Entities /\ \/ f \in despawned \/ "RigidBodyHandle" \in comps[f]
                              \/ <<f, "RigidBodyHandle">> \in taken
        BY <1>0, <1>6, <3>2, BodiesTyped DEF Settled, Kept
      <4>2. rigidbody_entity'[h] = f
        BY <1>7, <3>2
      <4>3. "RigidBodyHandle" \in Components \ {"RigidBody"}
        BY DEF Components
      <4> HIDE DEF f
      <4> QED
        BY <2>1, <4>1, <4>2, <4>3
    <3> QED
      BY <1>6, <3>1, <3>2
  <2>3. \A f \in Entities : f # e => (Live(f)' <=> Live(f))
    <3>1. \A f \in Entities, c \in Components :
            f # e => (<<f, c>> \in taken' <=> <<f, c>> \in taken)
      BY <1>2
    <3> QED
      BY <1>9, <3>1 DEF Live
  <2>4. \A f \in Entities :
          Live(f)' => "Transform" \in comps'[f] \/ <<f, "Transform">> \in taken'
    <3>1. "Transform" \in Components \ {"RigidBody"}
      BY DEF Components, GameComponents
    <3>2. \A f \in Entities : Live(f) => "Transform" \in comps[f] \/ <<f, "Transform">> \in taken
      BY <1>0 DEF Settled, Kept
    <3>3. "Transform" \in comps'[e]
      BY <1>0, <1>9
    <3> QED
      BY <2>1, <2>3, <3>1, <3>2, <3>3
  <2>5. \A f \in despawned' : ~Live(f)'
    BY <1>0, <1>1, <2>3 DEF Settled, Kept, TypeOK
  <2> QED
    BY <2>2, <2>4, <2>5 DEF Kept
<1>17. Kinded'
  <2>1. /\ \A c \in Bodily : c \notin comps[e]
        /\ "FixedRigidBody" \in cs <=> v.kind = "fixed"
        /\ "TargetTransform" \in cs <=> v.kind = "kinematic position"
    BY <1>0, <1>1 DEF Settled, Kinded, Companions, AllKinds
  <2>2. \A f \in Entities \ added_bodies' : \A c \in Bodily : c \notin comps'[f]
    BY <1>0, <1>2, <1>9 DEF Settled, Kinded
  <2>3. ASSUME NEW f \in Bound'
        PROVE  /\ BodyOf(f)'.kind = "fixed" =>
                    "FixedRigidBody" \in comps'[f] \/ <<f, "FixedRigidBody">> \in taken'
               /\ "TargetTransform" \in comps'[f] => BodyOf(f)'.kind = "kinematic position"
    <3>1. CASE f = e
      BY <1>3, <1>9, <1>13, <2>1, <3>1 DEF Bodily
    <3>2. CASE f # e
      <4>1. f \in Bound /\ BodyOf(f)' = BodyOf(f) /\ comps'[f] = comps[f]
        BY <1>9, <1>10, <1>14, <3>2
      <4>2. <<f, "FixedRigidBody">> \in taken => <<f, "FixedRigidBody">> \in taken'
        BY <1>2, <3>2
      <4> QED
        BY <1>0, <4>1, <4>2 DEF Settled, Kinded
    <3> QED
      BY <3>1, <3>2
  <2> QED
    BY <2>2, <2>3 DEF Kinded
<1>18. Flagged'
  <2>1. \A p \in changed' : p[2] \in comps'[p[1]]
    <3> SUFFICES ASSUME NEW p \in changed' PROVE p[2] \in comps'[p[1]]
      OBVIOUS
    <3>1. CASE p \in changed
      <4>1. p[2] \in comps[p[1]] /\ p[1] \in Entities /\ p = <<p[1], p[2]>>
        BY <1>0, <3>1 DEF Settled, Flagged, TypeOK
      <4>2. p[2] # "RigidBody"
        BY <1>0, <3>1 DEF Settled, TypeOK, ChangedAsked
      <4> QED
        BY <1>9, <4>1, <4>2
    <3>2. CASE p \in {e} \X (cs \cap ChangedAsked)
      BY <1>8, <1>9, <3>2
    <3> QED
      BY <1>2, <3>1, <3>2
  <2> QED
    BY <1>0, <2>1 DEF Flagged
<1>19. \A f \in Bound' : DoneFor(f)'
  <2> SUFFICES ASSUME NEW f \in Bound' PROVE DoneFor(f)'
    OBVIOUS
  <2>1. pc \in FromFixed /\ pc \in FromBodies /\ pc \notin FromTargetVel /\ pc \notin FromDirect
        /\ pc \notin FromLinVel /\ pc \notin FromMark
    BY <1>0 DEF FromFixed, FromBodies, FromTarget, FromTargetVel, FromDirect, FromLinVel, FromMark,
       FromColliders
  <2>2. CASE f = e
    <3>1. Follows(e)'
      BY <1>3, <1>4, <1>5, <1>13 DEF Follows
    <3> QED
      BY <1>0, <2>1, <2>2, <3>1 DEF DoneFor
  <2>3. CASE f \in Bound
    <3>1. DoneFor(f) /\ f # e
      BY <1>0, <1>14, <2>3, DoneForEach
    <3>2. f \in AddedIn("RigidBodyHandle")' => f \in AddedIn("RigidBodyHandle")
      BY <1>2, <3>1 DEF AddedIn
    <3>3. BodyOf(f)' = BodyOf(f) /\ (Follows(f)' <=> Follows(f)) /\ comps'[f] = comps[f]
      BY <1>9, <1>10, <1>14, <2>3, <3>1 DEF Follows
    <3> QED
      BY <1>0, <2>1, <3>1, <3>2, <3>3 DEF DoneFor
  <2> QED
    BY <1>10, <2>2, <2>3
<1>20. Done' /\ PanicNeedsRemoval'
  <2>1. pc' \notin FromTarget /\ pc' # "synced" /\ pc' # "panicked"
    BY <1>0 DEF FromTarget, FromTargetVel, FromDirect, FromLinVel, FromMark, FromColliders
  <2> QED
    BY <1>19, <2>1 DEF Done, DoneFor, PanicNeedsRemoval
<1> QED
  BY <1>12, <1>15, <1>16, <1>17, <1>18, <1>20 DEF PhysicsInv, Settled

-----------------------------------------------------------------------------
(***************************************************************************)
(* The theorems.                                                           *)
(***************************************************************************)
LEMMA PhysicsInit == Init => PhysicsInv
<1> SUFFICES ASSUME Init PROVE PhysicsInv
  OBVIOUS
<1>1. value \in [Entities -> Value]
  BY UnsetIsValue DEF Init
<1>2. comps \in [Entities -> SUBSET Components] /\ \A e \in Entities : comps[e] = {}
  BY DEF Init
<1>3. bodies \in Seq(Body) /\ rigidbody_entity \in Seq(Entities) /\ Len(bodies) = 0
      /\ Len(rigidbody_entity) = 0 /\ DOMAIN bodies = {}
  BY EmptySeq DEF Init
<1>4. TypeOK
  BY <1>1, <1>2, <1>3 DEF Init, TypeOK
<1>5. Bound = {} /\ Has({"RigidBodyHandle"}) = {}
  BY <1>2 DEF Bound, Has
<1>6. Owned
  BY <1>3, <1>5 DEF Init, Owned, MappingsHold
<1>7. Kept /\ Kinded /\ Flagged
  BY <1>2, <1>3, <1>5 DEF Init, Kept, Live, Kinded, Flagged, AddedIn
<1>8. Done /\ PanicNeedsRemoval
  BY DEF Init, Done, PanicNeedsRemoval, FromFixed, FromBodies, FromTarget, FromTargetVel,
     FromDirect, FromLinVel, FromMark, FromColliders
<1> QED
  BY <1>4, <1>6, <1>7, <1>8 DEF PhysicsInv, Settled

LEMMA PhysicsNext == PhysicsInv /\ [Next]_vars => PhysicsInv'
<1> SUFFICES ASSUME PhysicsInv, [Next]_vars PROVE PhysicsInv'
  OBVIOUS
<1>0. Settled
  BY DEF PhysicsInv
<1>1. ASSUME NEW e \in Entities, NEW cs \in Spawns, NEW v \in Spawned(cs), Spawn(e, cs, v)
      PROVE  PhysicsInv'
  BY <1>0, <1>1, SpawnInv
<1>2. ASSUME NEW e \in Entities, NEW p \in Positions, EditTransform(e, p) \/ EditTarget(e, p)
      PROVE  PhysicsInv'
  BY <1>0, <1>2, EditInv
<1>3. ASSUME NEW e \in Entities, NEW v \in Velocities,
             EditVelocity(e, v) \/ EditTargetVelocity(e, v)
      PROVE  PhysicsInv'
  BY <1>0, <1>3, EditInv
<1>4. ASSUME NEW e \in Entities,
             \/ \E k \in Kinds : InsertRigidBody(e, k)
             \/ \E p \in Positions : InsertTransform(e, p)
             \/ \E v \in Velocities : InsertVelocity(e, v)
             \/ \E c \in {"Collider", "DirectModifications"} : InsertMark(e, c)
      PROVE  PhysicsInv'
  BY <1>0, <1>4, GiveInv
<1>5. ASSUME NEW e \in Entities, NEW c \in Components, Remove(e, c) PROVE PhysicsInv'
  BY <1>0, <1>5, RemoveInv
<1>6. ASSUME NEW e \in Entities, Despawn(e) PROVE PhysicsInv'
  BY <1>0, <1>6, DespawnInv
<1>7. ASSUME NEW e \in Entities, InsertBody(e) PROVE PhysicsInv'
  BY <1>7, InsertBodyInv
<1>8. ASSUME NEW e \in Entities, InsertCollider(e) PROVE PhysicsInv'
  BY <1>8, InsertColliderInv
<1>9. CASE Begin
  BY <1>9, BeginInv
<1>10. CASE sync_physics_transform
  BY <1>10, TransformInv
<1>11. CASE TransformLost
  BY <1>11, TransformLostInv
<1>12. CASE sync_fixed_bodies_to_rapier
  BY <1>12, FixedBodiesInv
<1>13. CASE BodiesInserted
  BY <1>13, BodiesInsertedInv
<1>14. CASE sync_target_transform_kinematic_body
  BY <1>14, TargetTransformInv
<1>15. CASE sync_target_vel_kinematic_body
  BY <1>15, TargetVelocityInv
<1>16. CASE sync_physics_direct_transform_modification
  BY <1>16, DirectInv
<1>17. CASE sync_lin_vel_to_physics
  BY <1>17, VelocityInv
<1>18. CASE mark_static_bodies_trans_changed
  BY <1>18, MarkInv
<1>19. CASE CollidersInserted
  BY <1>19, CollidersInsertedInv
<1>20. CASE Late \/ LateDone
  BY <1>20, LateInv
<1>21. CASE Step
  BY <1>21, StepInv
<1>22. CASE UNCHANGED vars
  <2>1. UNCHANGED <<comps, despawned, taken, value, added, changed, bodies, rigidbody_entity,
                    added_bodies, added_colliders, pc>>
    BY <1>22 DEF vars, world, mappings
  <2>2. Settled'
    BY <1>0, <1>22, PlaceOnly DEF vars, Settled, TypeOK, Places
  <2>3. Done' /\ PanicNeedsRemoval'
    BY <2>1 DEF PhysicsInv, Done, Bound, Has, BodyOf, Follows, AddedIn, ChangedIn, Free,
       NewBodies, NewColliders, PanicNeedsRemoval, Active, Bereft
  <2> QED
    BY <2>2, <2>3 DEF PhysicsInv
<1> QED
  BY <1>1, <1>2, <1>3, <1>4, <1>5, <1>6, <1>7, <1>8, <1>9, <1>10, <1>11, <1>12, <1>13, <1>14,
     <1>15, <1>16, <1>17, <1>18, <1>19, <1>20, <1>21, <1>22 DEF Next

\* What the systems of PhysicsSyncMain leave to those behind them, for any number of
\* entities and bodies, and whatever the game inserts, writes, removes and despawns.
THEOREM PhysicsInvariant == Spec => []PhysicsInv
  BY PhysicsInit, PhysicsNext, PTL DEF Spec

\* Entities, handles, bodies and colliders stay one to one (PhysicsMappings).
THEOREM MappingsAlwaysHold == Spec => []MappingsHold
<1>1. PhysicsInv => MappingsHold
  BY DEF PhysicsInv, Settled, Owned
<1> QED
  BY <1>1, PhysicsInvariant, PTL

\* No RigidBody and no Collider that came before PhysicsSyncMain is left without a body.
THEOREM AddedIsAlwaysHandled == Spec => []AddedIsHandled
<1>1. PhysicsInv => AddedIsHandled
  BY Progress DEF PhysicsInv, Done, AddedIsHandled
<1> QED
  BY <1>1, PhysicsInvariant, PTL

\* The materials, which run after PhysicsSyncMain, draw these entities where rapier has them.
THEOREM DrawnIsWhereTheBodyIs == Spec => []DrawnWhereTheBodyIs
<1>1. ASSUME PhysicsInv PROVE DrawnWhereTheBodyIs
  <2> SUFFICES ASSUME pc = "synced", NEW e \in Followed
               PROVE  value[e].transform = BodyOf(e).position
    BY DEF DrawnWhereTheBodyIs
  <2>1. e \in Bound /\ "Transform" \in comps[e]
    BY DEF Followed, Bound, Has
  <2>2. pc \in FromFixed /\ pc \in FromBodies /\ pc \in FromLinVel
    BY Progress
  <2>3. DoneFor(e)
    BY <1>1, <2>1, DoneForEach DEF PhysicsInv
  <2>4. BodyOf(e).kind = "fixed" /\ <<e, "FixedRigidBody">> \notin taken =>
          {"FixedRigidBody", "Transform"} \subseteq comps[e]
    BY <1>1, <2>1 DEF PhysicsInv, Settled, Kinded
  <2> QED
    BY <2>2, <2>3, <2>4 DEF Followed, DoneFor, Follows
<1> QED
  BY <1>1, PhysicsInvariant, PTL

\* Rapier's step has the targets and velocities that the components ask for.
THEOREM SteppedIsAsAsked == Spec => []SteppedAsAsked
<1>1. ASSUME PhysicsInv PROVE SteppedAsAsked
  <2> SUFFICES ASSUME pc = "synced", NEW e \in Bound
               PROVE  /\ "TargetTransform" \in comps[e] /\ "DirectModifications" \notin comps[e]
                           => BodyOf(e).next = value[e].target
                      /\ e \in ChangedIn("Velocity") /\ Free(BodyOf(e))
                           => BodyOf(e).velocity = value[e].velocity
                      /\ e \in ChangedIn("TargetVelocity") \ ChangedIn("Velocity")
                         /\ Free(BodyOf(e)) => BodyOf(e).velocity = value[e].target_velocity
    BY DEF SteppedAsAsked, Bound
  <2>1. pc \in FromTargetVel /\ pc \in FromDirect /\ pc \in FromMark
    BY Progress
  <2> QED
    BY <1>1, <2>1, DoneForEach DEF PhysicsInv, DoneFor
<1> QED
  BY <1>1, PhysicsInvariant, PTL

\* A system of PhysicsSyncMain panics only over the entity of a moving body that the game
\* has despawned, or from which it has taken the Transform or the handle.
THEOREM PanicAlwaysNeedsRemoval == Spec => []PanicNeedsRemoval
<1>1. PhysicsInv => PanicNeedsRemoval
  BY DEF PhysicsInv
<1> QED
  BY <1>1, PhysicsInvariant, PTL

-----------------------------------------------------------------------------
(***************************************************************************)
(* The iterator of handle_rigidbody_insert.                                *)
(***************************************************************************)
LocationHolds == \A r \in 1 .. entity_count : location[entities[r]] = r

\* The iterator starts with a consistent table.
LEMMA IterInitIInv == IterInit => IterInv
<1> SUFFICES ASSUME IterInit PROVE IterInv
    OBVIOUS
<1> USE RowsAssumption
<1>1. IterTypeOK
  BY DEF IterInit, IterTypeOK
<1>2. RowsHold
  BY DEF IterInit, RowsHold
<1>3. LocationHolds
  BY DEF IterInit, LocationHolds
<1>4. UnreadIntact
  BY DEF IterInit, UnreadIntact, Unread
<1>5. ReadDealtWith
  <2> SUFFICES ASSUME NEW e \in TableEntities
               PROVE  \E r \in 1 .. Rows : Unread(r) /\ entities[r] = e
    BY DEF ReadDealtWith
  <2>1. location[e] \in 1 .. Rows /\ entities[location[e]] = e /\ current_row = 1
    BY DEF IterInit
  <2> QED BY <2>1 DEF Unread
<1> QED BY <1>1, <1>2, <1>3, <1>4, <1>5 DEF IterInv, LocationHolds

\* A row that is passed over belongs to an entity that needs no body.
LEMMA SkipRowIterInv == IterInv /\ SkipRow => IterInv'
<1> SUFFICES ASSUME IterInv, SkipRow PROVE IterInv'
    OBVIOUS
<1> USE RowsAssumption
<1>0. /\ entities' = entities /\ columns' = columns /\ entity_count' = entity_count
      /\ location' = location /\ newly' = newly /\ with_body' = with_body
      /\ known' = known /\ made_from' = made_from /\ current_row' = current_row + 1
      /\ current_row \in 1 .. Rows
      /\ columns[current_row] \notin newly \/ entities[current_row] \in with_body
  BY DEF SkipRow, table, More, Values, Here, IterInv, IterTypeOK
<1>1. IterTypeOK'
  BY <1>0 DEF IterInv, IterTypeOK
<1>2. RowsHold' /\ LocationHolds'
  BY <1>0 DEF IterInv, RowsHold, LocationHolds
<1>3. UnreadIntact'
  BY <1>0 DEF IterInv, UnreadIntact, Unread
<1>4. ReadDealtWith'
  <2> SUFFICES ASSUME NEW e \in TableEntities
               PROVE  DealtWith(e)' \/ (\E r \in 1 .. Rows : Unread(r) /\ entities[r] = e)'
    BY DEF ReadDealtWith
  <2>1. CASE e = entities[current_row]
    <3>1. /\ columns[current_row] = e /\ made_from[e] = {}
          /\ e \in with_body => e \in known
      BY <2>1, <1>0 DEF IterInv, UnreadIntact, Unread
    <3>2. e \notin newly \ known
      BY <3>1, <2>1, <1>0
    <3> QED BY <3>1, <3>2, <1>0 DEF DealtWith
  <2>2. CASE e # entities[current_row]
    <3>1. DealtWith(e) \/ \E r \in current_row .. Rows : r \in 1 .. Rows /\ entities[r] = e
      BY DEF IterInv, ReadDealtWith, Unread
    <3>2. CASE DealtWith(e)
      BY <3>2, <1>0 DEF DealtWith
    <3>3. ASSUME NEW r \in current_row .. Rows, r \in 1 .. Rows, entities[r] = e
          PROVE  (\E s \in 1 .. Rows : Unread(s) /\ entities[s] = e)'
      <4>1. r \in current_row + 1 .. Rows
        BY <3>3, <2>2, <1>0
      <4> QED BY <4>1, <3>3, <1>0 DEF Unread
    <3> QED BY <3>1, <3>2, <3>3
  <2> QED BY <2>1, <2>2
<1> QED BY <1>1, <1>2, <1>3, <1>4 DEF IterInv, LocationHolds

\* The row an entity is removed from was read already, so the rows to come stay.
LEMMA InsertBodyIterInv == IterInv /\ InsertBodyHere => IterInv'
<1> SUFFICES ASSUME IterInv, InsertBodyHere PROVE IterInv'
    OBVIOUS
<1> USE RowsAssumption
<1> DEFINE e == entities[current_row]
           row == location[e]
           swapped == entities[entity_count]
<1>0. /\ current_row \in 1 .. Rows /\ current_row' = current_row + 1
      /\ columns[current_row] \in newly /\ e \notin with_body
      /\ with_body' = with_body \cup {e}
      /\ made_from' = [made_from EXCEPT ![e] = @ \cup {columns[current_row]}]
      /\ entities' = [entities EXCEPT ![row] = swapped]
      /\ columns' = [columns EXCEPT ![row] = columns[entity_count]]
      /\ location' = [location EXCEPT ![swapped] = row, ![e] = 0]
      /\ entity_count' = entity_count - 1
      /\ newly' = newly /\ known' = known
  BY DEF InsertBodyHere, MoveRow, More, Values, Here, IterInv, IterTypeOK
<1>1. /\ e \in TableEntities /\ columns[current_row] = e /\ made_from[e] = {}
      /\ row # 0 /\ e \in newly \ known
  BY <1>0 DEF IterInv, IterTypeOK, UnreadIntact, Unread
<1>2. row \in 1 .. current_row /\ row <= entity_count /\ entities[row] = e
  <2>1. row \in 1 .. entity_count /\ entities[row] = e /\ entity_count \in 0 .. Rows
    BY <1>1 DEF IterInv, IterTypeOK, RowsHold
  <2>2. ~(row > current_row)
    BY <2>1, <1>0 DEF IterInv, UnreadIntact, Unread
  <2> QED BY <2>1, <2>2, <1>0
<1>3. /\ entity_count \in 1 .. Rows /\ swapped \in TableEntities /\ location[swapped] = entity_count
      /\ columns[entity_count] = swapped
  <2>1. entity_count \in 1 .. Rows
    BY <1>2, <1>0 DEF IterInv, IterTypeOK
  <2>2. swapped \in TableEntities /\ location[swapped] = entity_count
    BY <2>1 DEF IterInv, IterTypeOK
  <2>3. columns[entity_count] = swapped
    BY <2>1, <2>2 DEF IterInv, RowsHold
  <2> QED BY <2>1, <2>2, <2>3
<1>4. swapped = e \/ row # entity_count
  BY <1>2
<1>5. IterTypeOK'
  <2>1. columns[entity_count] \in TableEntities /\ row \in 1 .. Rows
    BY <1>0, <1>2, <1>3
  <2>2. entities' \in [1 .. Rows -> TableEntities] /\ columns' \in [1 .. Rows -> TableEntities]
    BY <1>0, <1>3, <2>1 DEF IterInv, IterTypeOK
  <2>3. location' \in [TableEntities -> 0 .. Rows]
    BY <1>0, <1>1, <1>3, <2>1 DEF IterInv, IterTypeOK
  <2>4. entity_count' \in 0 .. Rows /\ current_row' \in 1 .. Rows + 1
    BY <1>0, <1>3
  <2>5. newly' \subseteq TableEntities /\ known' \subseteq with_body'
        /\ with_body' \subseteq TableEntities
    BY <1>0, <1>1 DEF IterInv, IterTypeOK
  <2>6. made_from' \in [TableEntities -> SUBSET TableEntities]
    BY <1>0, <1>1 DEF IterInv, IterTypeOK
  <2> QED BY <2>2, <2>3, <2>4, <2>5, <2>6 DEF IterTypeOK
<1>6. location'[e] = 0 /\ (swapped # e => location'[swapped] = row)
      /\ \A x \in TableEntities \ {e, swapped} : location'[x] = location[x]
  BY <1>0, <1>1, <1>3 DEF IterInv, IterTypeOK
<1>7. /\ \A r \in 1 .. Rows \ {row} : entities'[r] = entities[r] /\ columns'[r] = columns[r]
      /\ entities'[row] = swapped /\ columns'[row] = swapped
  BY <1>0, <1>2, <1>3 DEF IterInv, IterTypeOK
<1>8. RowsHold'
  <2> SUFFICES ASSUME NEW x \in TableEntities, location'[x] # 0
               PROVE  /\ location'[x] <= entity_count'
                      /\ entities'[location'[x]] = x
                      /\ columns'[location'[x]] = x
    BY DEF RowsHold
  <2>1. x # e
    BY <1>6
  <2>2. CASE x = swapped
    BY <2>1, <2>2, <1>0, <1>2, <1>3, <1>4, <1>6, <1>7
  <2>3. CASE x # swapped
    <3>1. location'[x] = location[x]
      BY <2>1, <2>3, <1>6
    <3>2. location[x] \in 1 .. entity_count /\ entities[location[x]] = x /\ columns[location[x]] = x
      BY <3>1 DEF IterInv, IterTypeOK, RowsHold
    <3>3. location[x] # row /\ location[x] # entity_count
      BY <3>2, <2>1, <2>3, <1>2
    <3> QED BY <3>1, <3>2, <3>3, <1>0, <1>3, <1>7
  <2> QED BY <2>2, <2>3
<1>9. LocationHolds'
  <2> SUFFICES ASSUME NEW r \in 1 .. entity_count - 1
               PROVE  location'[entities'[r]] = r
    BY <1>0 DEF LocationHolds
  <2>1. r \in 1 .. Rows /\ r \in 1 .. entity_count /\ r # entity_count
    BY <1>3
  <2>2. CASE r = row
    BY <2>1, <2>2, <1>3, <1>6, <1>7
  <2>3. CASE r # row
    <3>1. entities'[r] = entities[r] /\ entities[r] \in TableEntities /\ location[entities[r]] = r
      BY <2>1, <2>3, <1>7 DEF IterInv, IterTypeOK
    <3>2. entities[r] # e /\ entities[r] # swapped
      BY <3>1, <2>1, <2>3, <1>3
    <3> QED BY <3>1, <3>2, <1>6
  <2> QED BY <2>2, <2>3
<1>10. \A r \in current_row + 1 .. Rows :
         /\ r \in 1 .. Rows /\ r \in current_row .. Rows /\ r # row
         /\ entities'[r] = entities[r] /\ columns'[r] = columns[r]
         /\ entities[r] # e /\ entities[r] \in TableEntities
  <2> SUFFICES ASSUME NEW r \in current_row + 1 .. Rows
               PROVE  /\ r \in 1 .. Rows /\ r \in current_row .. Rows /\ r # row
                      /\ entities'[r] = entities[r] /\ columns'[r] = columns[r]
                      /\ entities[r] # e /\ entities[r] \in TableEntities
    OBVIOUS
  <2>1. r \in 1 .. Rows /\ r \in current_row .. Rows /\ r # row /\ r # current_row
    BY <1>0, <1>2
  <2>2. entities[r] # e
    BY <2>1, <1>0 DEF IterInv, UnreadIntact, Unread
  <2> QED BY <2>1, <2>2, <1>7 DEF IterInv, IterTypeOK
<1>11. \A x \in TableEntities \ {e} : made_from'[x] = made_from[x]
  BY <1>0 DEF IterInv, IterTypeOK
<1>12. UnreadIntact'
  <2>1. ASSUME NEW r \in current_row + 1 .. Rows
        PROVE  /\ columns'[r] = entities'[r]
               /\ location'[entities'[r]] # 0
               /\ made_from'[entities'[r]] = {}
               /\ entities'[r] \in with_body' => entities'[r] \in known'
    <3>1. /\ columns[r] = entities[r] /\ location[entities[r]] # 0
          /\ made_from[entities[r]] = {}
          /\ entities[r] \in with_body => entities[r] \in known
      BY <1>10 DEF IterInv, UnreadIntact, Unread
    <3>2. location'[entities[r]] # 0
      BY <3>1, <1>10, <1>1, <1>6
    <3>0. entities[r] # e /\ entities[r] \in TableEntities
      BY <1>10
    <3>3. made_from'[entities[r]] = {}
      BY <3>0, <3>1, <1>11
    <3>4. entities[r] \in with_body' => entities[r] \in known'
      BY <3>0, <3>1, <1>0
    <3>5. entities'[r] = entities[r] /\ columns'[r] = entities[r]
      BY <3>1, <1>10
    <3> QED BY <3>2, <3>3, <3>4, <3>5
  <2>2. ASSUME NEW r \in current_row + 1 .. Rows, NEW s \in current_row + 1 .. Rows,
               entities'[r] = entities'[s]
        PROVE  r = s
    BY <2>2, <1>10 DEF IterInv, UnreadIntact, Unread
  <2> QED BY <2>1, <2>2, <1>0 DEF UnreadIntact, Unread
<1>13. ReadDealtWith'
  <2> SUFFICES ASSUME NEW x \in TableEntities
               PROVE  DealtWith(x)' \/ (\E r \in 1 .. Rows : Unread(r) /\ entities[r] = x)'
    BY DEF ReadDealtWith
  <2>1. CASE x = e
    <3>1. made_from'[e] = {e}
      BY <1>0, <1>1 DEF IterInv, IterTypeOK
    <3> QED BY <3>1, <2>1, <1>0, <1>1 DEF DealtWith
  <2>2. CASE x # e
    <3>1. DealtWith(x) \/ \E r \in current_row .. Rows : r \in 1 .. Rows /\ entities[r] = x
      BY DEF IterInv, ReadDealtWith, Unread
    <3>2. CASE DealtWith(x)
      BY <3>2, <2>2, <1>0, <1>11 DEF DealtWith
    <3>3. ASSUME NEW r \in current_row .. Rows, r \in 1 .. Rows, entities[r] = x
          PROVE  (\E s \in 1 .. Rows : Unread(s) /\ entities[s] = x)'
      <4>1. r \in current_row + 1 .. Rows
        BY <3>3, <2>2, <1>0
      <4> QED BY <4>1, <3>3, <1>0, <1>10 DEF Unread
    <3> QED BY <3>1, <3>2, <3>3
  <2> QED BY <2>1, <2>2
<1> HIDE DEF e, row, swapped
<1> QED BY <1>5, <1>8, <1>9, <1>12, <1>13 DEF IterInv, LocationHolds

\* The invariant holds while the iterator runs, however rows move under it.
THEOREM IterationInvariant == IterSpec => []IterInv
<1>1. IterInv /\ UNCHANGED itervars => IterInv'
  <2> SUFFICES ASSUME IterInv, UNCHANGED itervars PROVE IterInv'
    OBVIOUS
  <2>1. /\ entities' = entities /\ columns' = columns /\ entity_count' = entity_count
        /\ location' = location /\ newly' = newly /\ with_body' = with_body
        /\ known' = known /\ made_from' = made_from /\ current_row' = current_row
    BY DEF itervars, table
  <2>2. IterTypeOK' /\ RowsHold' /\ LocationHolds'
    BY <2>1 DEF IterInv, IterTypeOK, RowsHold, LocationHolds
  <2>3. UnreadIntact' /\ ReadDealtWith'
    BY <2>1 DEF IterInv, UnreadIntact, ReadDealtWith, Unread, DealtWith
  <2> QED BY <2>2, <2>3 DEF IterInv, LocationHolds
<1>2. IterInv /\ [IterNext]_itervars => IterInv'
  BY <1>1, SkipRowIterInv, InsertBodyIterInv DEF IterNext
<1> QED BY <1>2, IterInitIInv, PTL DEF IterSpec

\* No body is made from the values of another entity.
THEOREM BodiesOfOwnValues == IterSpec => []OwnValues
<1>1. IterInv => OwnValues
  <2> SUFFICES ASSUME IterInv, NEW e \in TableEntities PROVE made_from[e] \subseteq {e}
    BY DEF OwnValues
  <2>1. made_from[e] = {} \/ made_from[e] = {e}
    BY DEF IterInv, ReadDealtWith, DealtWith, UnreadIntact
  <2> QED BY <2>1
<1> QED BY <1>1, IterationInvariant, PTL

\* When the iterator is done every new entity has got its body, and no other has.
THEOREM EveryNewBodyOnce == IterSpec => []EachOnce
<1>1. IterInv => EachOnce
  <2> SUFFICES ASSUME IterInv, ~More, NEW e \in TableEntities
               PROVE  (made_from[e] # {}) = (e \in newly \ known)
    BY DEF EachOnce
  <2>1. \A r \in 1 .. Rows : ~Unread(r)
    BY RowsAssumption DEF More, Unread, IterInv, IterTypeOK
  <2>2. DealtWith(e)
    BY <2>1 DEF IterInv, ReadDealtWith
  <2> QED BY <2>2 DEF DealtWith
<1> QED BY <1>1, IterationInvariant, PTL

\* The world can find every remaining entity at every moment of the iteration.
THEOREM EveryRowFound == IterSpec => []RowsHold
<1>1. IterInv => RowsHold
  BY DEF IterInv
<1> QED BY <1>1, IterationInvariant, PTL
=============================================================================
