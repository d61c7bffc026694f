---------------------------- MODULE WorldStorage ----------------------------
(***************************************************************************)
(* Where an ECS world keeps its components.  An archetype is a set of      *)
(* components and has a row for each of its entities.  Components of kind  *)
(* Table are columns of a table, which all archetypes with the same table  *)
(* components share; components of kind SparseSet lie in a set of their    *)
(* own.  Rows are removed by moving the last one into their place, so each *)
(* change of one entity may change where another is, in three structures   *)
(* that point at each other:                                               *)
(*                                                                         *)
(*   entities    id            -> archetype, archetype row, table row      *)
(*   archetypes  archetype row -> id, table row                            *)
(*   tables      table row     -> id, one value per column                 *)
(*                                                                         *)
(* Rows count from 1 here, from 0 in the code.  Archetypes and tables      *)
(* exist from the start, empty: when the code makes them cannot be told    *)
(* from what they hold.  Change ticks and removal events are the subject   *)
(* of Trackers, queued commands of DeferredCommands.                       *)
(***************************************************************************)
EXTENDS EntityAllocator, FiniteSets

CONSTANTS TableComponents, SparseComponents,
          Values,       \* of any component
          Bundles,      \* the sets of components that are inserted and removed
          BatchBundles, \* those that are inserted in batches
          Uninit,       \* memory that nothing was written to yet
          Off,          \* no batch is being inserted
          MaxIndex      \* bound: how many indices the allocator hands out

ASSUME ComponentsAssumption ==
  /\ TableComponents \cap SparseComponents = {}
  /\ Bundles \cup BatchBundles \subseteq SUBSET (TableComponents \cup SparseComponents)
  /\ Values # {} /\ Uninit \notin Values
  /\ MaxIndex \in Nat

Components == TableComponents \cup SparseComponents
Archetype == SUBSET Components
TableOf(archetype) == archetype \cap TableComponents

\* ArchetypeId::INVALID is in no location of an entity.
ASSUME LocationAssumption ==
  NoLocation \notin [archetype : Archetype, row : Nat, table_row : Nat]

Ids == [index : 1 .. MaxIndex, generation : Generation]

VARIABLES
  world, \* entities, archetypes, tables and sparse_sets of World
  batch  \* insert_or_spawn_batch: its bundle and what its cached pointers are for

vars == <<world, batch>>

NewWorld ==
  [ents   |-> NewEntities,
   arch   |-> [cs \in Archetype |-> <<>>],
   table  |-> [ts \in SUBSET TableComponents |->
                [entities |-> <<>>, column |-> [c \in ts |-> <<>>]]],
   sparse |-> [c \in SparseComponents |->
                [entities |-> <<>>, dense |-> <<>>, sparse |-> <<>>]]]

Init == world = NewWorld /\ batch = Off

(***************************************************************************)
(* ComponentSparseSet                                                      *)
(***************************************************************************)
SparseInsert(s, e, v) ==
  IF e.index \in DOMAIN s.sparse
  THEN [s EXCEPT !.dense[s.sparse[e.index]] = v]
  ELSE [entities |-> Append(s.entities, e),
        dense    |-> Append(s.dense, v),
        sparse   |-> [i \in DOMAIN s.sparse \cup {e.index} |->
                        IF i = e.index THEN Len(s.dense) + 1 ELSE s.sparse[i]]]

SparseRemove(s, e) ==
  IF e.index \notin DOMAIN s.sparse THEN s
  ELSE LET row == s.sparse[e.index]
           entities == WithoutRow(s.entities, row)
           rest == [i \in DOMAIN s.sparse \ {e.index} |-> s.sparse[i]]
       IN  [entities |-> entities,
            dense    |-> WithoutRow(s.dense, row),
            sparse   |-> IF row = Len(s.dense) THEN rest
                         ELSE [rest EXCEPT ![entities[row].index] = row]]

(***************************************************************************)
(* Rows of tables and archetypes                                           *)
(***************************************************************************)
Place(w, e) == Location(w.ents, e)

\* Table::allocate followed by Archetype::allocate and Entities::set.
AllocateRow(w, archetype, e, table_row) ==
  [w EXCEPT
    !.arch[archetype] = Append(@, [entity |-> e, table_row |-> table_row]),
    !.ents = set(@, e.index, [archetype |-> archetype,
                              row |-> Len(w.arch[archetype]) + 1,
                              table_row |-> table_row])]

AllocateTableRow(w, ts, e) ==
  [w EXCEPT !.table[ts] =
     [entities |-> Append(@.entities, e),
      column   |-> [c \in ts |-> Append(@.column[c], Uninit)]]]

Allocate(w, archetype, e) ==
  LET ts == TableOf(archetype)
  IN  AllocateRow(AllocateTableRow(w, ts, e), archetype, e,
                  Len(w.table[ts].entities) + 1)

\* Archetype::swap_remove; the entity that is moved is told its new row.
RemoveArchetypeRow(w, archetype, row) ==
  LET rest == WithoutRow(w.arch[archetype], row)
      moved == rest[row].entity
  IN  [w EXCEPT
        !.arch[archetype] = rest,
        !.ents = IF row > Len(rest) THEN @
                 ELSE set(@, moved.index, [Location(@, moved) EXCEPT !.row = row])]

\* Table::swap_remove_unchecked
RemoveTableRow(w, ts, row) ==
  [w EXCEPT !.table[ts] =
     [entities |-> WithoutRow(@.entities, row),
      column   |-> [c \in ts |-> WithoutRow(@.column[c], row)]]]

\* Mutant: the archetype of the entity that was moved is not told.
TellEntityOnly(w, ts, row) ==
  IF row > Len(w.table[ts].entities) THEN w
  ELSE LET moved == w.table[ts].entities[row]
       IN  [w EXCEPT !.ents = set(@, moved.index,
                                  [Place(w, moved) EXCEPT !.table_row = row])]

\* The entity that was moved into a row of a table, and the row of its
\* archetype, which may be any that shares the table, are told.
TellMoved(w, ts, row) ==
  IF row > Len(w.table[ts].entities) THEN w
  ELSE LET moved == w.table[ts].entities[row]
           place == Place(w, moved)
       IN  [w EXCEPT
             !.ents = set(@, moved.index, [place EXCEPT !.table_row = row]),
             !.arch[place.archetype][place.row].table_row = row]

\* Table::move_to_..._unchecked: columns that both tables have are moved.
MoveTableRow(w, from, row, to) ==
  LET e == w.table[from].entities[row]
      moved(c) == IF c \in from THEN w.table[from].column[c][row] ELSE Uninit
      removed == RemoveTableRow(w, from, row)
  IN  [removed EXCEPT !.table[to] =
         [entities |-> Append(@.entities, e),
          column   |-> [c \in to |-> Append(@.column[c], moved(c))]]]

\* An entity becomes one of archetype `to`.
Move(w, e, to) ==
  LET place == Place(w, e)
      from == TableOf(place.archetype)
      target == TableOf(to)
      left == RemoveArchetypeRow(w, place.archetype, place.row)
      row == w.arch[place.archetype][place.row].table_row
      moved == MoveTableRow(left, from, row, target)
  IN  IF from = target THEN AllocateRow(left, to, e, row)
      ELSE TellMoved(AllocateRow(moved, to, e, Len(moved.table[target].entities)),
                     from, row)

(***************************************************************************)
(* Bundles                                                                 *)
(***************************************************************************)
\* BundleInfo::write_components, with one value for all of them.
WriteComponents(w, e, bundle, v) ==
  LET ts == TableOf(Place(w, e).archetype)
      row == Place(w, e).table_row
  IN  [w EXCEPT
        !.table[ts].column = [c \in ts |-> IF c \in bundle
                                           THEN [@[c] EXCEPT ![row] = v] ELSE @[c]],
        !.sparse = [c \in SparseComponents |->
                      IF c \in bundle THEN SparseInsert(@[c], e, v) ELSE @[c]]]

\* BundleSpawner::spawn_non_existent
SpawnNonExistent(w, e, bundle, v) ==
  WriteComponents(Allocate(w, bundle, e), e, bundle, v)

\* BundleInserter for entities of `archetype`.  Used for an entity of another
\* one it would move the wrong rows; it never is.
InsertBundle(w, e, archetype, bundle, v) ==
  LET to == archetype \cup bundle
  IN  WriteComponents(IF to = archetype THEN w ELSE Move(w, e, to), e, bundle, v)

\* EntityWorldMut::remove_bundle, and take when the entity has all of it.
RemoveBundle(w, e, bundle) ==
  LET archetype == Place(w, e).archetype
      removed == archetype \cap bundle
      cleaned == [w EXCEPT !.sparse = [c \in SparseComponents |->
                    IF c \in removed THEN SparseRemove(@[c], e) ELSE @[c]]]
  IN  IF removed = {} THEN w ELSE Move(cleaned, e, archetype \ bundle)

(***************************************************************************)
(* World                                                                   *)
(***************************************************************************)
\* Reserved ids in the order flush() gives them a place.
FlushOrder(a) ==
  [k \in 1 .. -AtMostZero(a.cursor) |-> Len(a.meta) + k]
    \o SubSeq(a.pending, AtLeastZero(a.cursor) + 1, Len(a.pending))

\* flush_entities: they become entities without components.
flush_entities(w) ==
  LET order == FlushOrder(w.ents)
      ids == [k \in DOMAIN order |-> ResolveFromIndex(w.ents, order[k])]
      before == Len(w.arch[{}])
      place == [i \in Awaiting(w.ents) |->
                  LET k == CHOOSE k \in DOMAIN order : order[k] = i
                  IN  [archetype |-> {}, row |-> before + k,
                       table_row |-> Len(w.table[{}].entities) + k]]
  IN  [w EXCEPT
        !.ents = flush(@, place),
        !.table[{}].entities = @ \o ids,
        !.arch[{}] = @ \o [k \in DOMAIN order |->
                             [entity |-> ids[k],
                              table_row |-> Len(w.table[{}].entities) + k]]]

Now == flush_entities(world)

Quiet == batch = Off

\* Systems reserve ids while they share the world.
Reserve ==
  /\ Quiet
  /\ NextIndex(world.ents) <= MaxIndex
  /\ world' = [world EXCEPT !.ents = reserve_entity(@)]
  /\ UNCHANGED batch

Flush == Quiet /\ needs_flush(world.ents) /\ world' = Now /\ UNCHANGED batch

\* World::spawn, and spawn_empty for the empty bundle.
Spawn(bundle, v) ==
  /\ Quiet
  /\ AllocIndex(Now.ents) <= MaxIndex
  /\ world' = SpawnNonExistent([Now EXCEPT !.ents = alloc(@)],
                               AllocId(Now.ents), bundle, v)
  /\ UNCHANGED batch

\* EntityWorldMut::insert; World::entity_mut flushes nothing.
Insert(e, bundle, v) ==
  /\ Quiet
  /\ Exists(world.ents, e)
  /\ world' = InsertBundle(world, e, Place(world, e).archetype, bundle, v)
  /\ UNCHANGED batch

Remove(e, bundle) ==
  /\ Quiet
  /\ Exists(world.ents, e)
  /\ world' = RemoveBundle(world, e, bundle)
  /\ UNCHANGED batch

\* EntityWorldMut::retain; clear retains nothing.
Retain(e, bundle) ==
  /\ Quiet
  /\ Exists(world.ents, e)
  /\ world' = RemoveBundle(world, e, Place(world, e).archetype \ bundle)
  /\ UNCHANGED batch

\* World::despawn and EntityWorldMut::despawn.
Despawn(e) ==
  LET place == Place(Now, e)
      freed == [Now EXCEPT !.ents = free(@, e)]
      left == RemoveArchetypeRow(freed, place.archetype, place.row)
      cleaned == [left EXCEPT !.sparse = [c \in SparseComponents |->
                    IF c \in place.archetype THEN SparseRemove(@[c], e) ELSE @[c]]]
      ts == TableOf(place.archetype)
      row == Now.arch[place.archetype][place.row].table_row
  IN  /\ Quiet
      /\ Exists(Now.ents, e)
      /\ world' = TellMoved(RemoveTableRow(cleaned, ts, row), ts, row)
      /\ UNCHANGED batch

\* World::get_or_spawn of an id the caller chose.
GetOrSpawn(e) ==
  /\ Quiet
  /\ LET answer == AllocAtWithoutReplacement(Now.ents, e)
         taken == [Now EXCEPT !.ents = alloc_at_without_replacement(@, e)]
     IN  world' = IF answer = "DidNotExist" THEN Allocate(taken, {}, e) ELSE Now
  /\ UNCHANGED batch

\* insert_or_spawn_batch: pointers to an archetype are kept from one item to
\* the next and made anew when an item is of another archetype.
BatchBegin(bundle) ==
  /\ Quiet
  /\ world' = Now
  /\ batch' = [bundle |-> bundle, inserter |-> Off]

\* Mutant: what was kept is used for every item.
FirstInserter(kept, archetype) == IF kept # Off THEN kept ELSE archetype

Inserter(kept, archetype) == IF kept = archetype THEN kept ELSE archetype

BatchItem(e, v) ==
  LET answer == AllocAtWithoutReplacement(world.ents, e)
      taken == [world EXCEPT !.ents = alloc_at_without_replacement(@, e)]
      archetype == Place(world, e).archetype
      inserter == Inserter(batch.inserter, archetype)
  IN  /\ ~Quiet
      /\ \/ /\ answer = "DidNotExist"
            /\ world' = SpawnNonExistent(taken, e, batch.bundle, v)
            /\ batch' = [batch EXCEPT !.inserter = Off]
         \/ /\ answer = "Exists"
            /\ world' = InsertBundle(world, e, inserter, batch.bundle, v)
            /\ batch' = [batch EXCEPT !.inserter = inserter]
         \/ /\ answer = "ExistsWithWrongGeneration"
            /\ UNCHANGED vars

BatchEnd == ~Quiet /\ batch' = Off /\ UNCHANGED world

ClearEntities == Quiet /\ world' = NewWorld /\ UNCHANGED batch

Next ==
  \/ Reserve \/ Flush \/ ClearEntities \/ BatchEnd
  \/ \E bundle \in Bundles, v \in Values : Spawn(bundle, v)
  \/ \E e \in Ids :
       \/ Despawn(e) \/ GetOrSpawn(e)
       \/ \E v \in Values : BatchItem(e, v)
       \/ \E bundle \in Bundles :
            \/ Remove(e, bundle) \/ Retain(e, bundle)
            \/ \E v \in Values : Insert(e, bundle, v)
  \/ \E bundle \in BatchBundles : BatchBegin(bundle)

Spec == Init /\ [][Next]_vars

(***************************************************************************)
(* Properties                                                              *)
(***************************************************************************)
\* What an entity reads as its component c, through its location.
Value(e, c) ==
  LET place == Place(world, e)
  IN  IF c \in TableComponents
      THEN world.table[TableOf(place.archetype)].column[c][place.table_row]
      ELSE world.sparse[c].dense[world.sparse[c].sparse[e.index]]

Store == [e \in Alive(world.ents) |->
           [c \in Place(world, e).archetype |-> Value(e, c)]]

Abstract == INSTANCE EntityStore WITH store <- Store, reserved <- Reserved(world.ents)

\* The world implements the map from entities to components: no operation
\* changes what another entity reads, whatever rows it moves, and ids are
\* handed out once.
ImplementsEntityStore == Abstract!Spec

\* The three structures agree, and hold nothing that belongs to no entity:
\* what a query finds by walking archetypes, tables and sparse sets is what
\* the entities' locations say.
StorageAgrees ==
  LET w == world
      alive == Alive(w.ents)
  IN  /\ \A e \in alive :
           LET place == Place(w, e)
               ts == TableOf(place.archetype)
           IN  /\ w.arch[place.archetype][place.row] =
                    [entity |-> e, table_row |-> place.table_row]
               /\ w.table[ts].entities[place.table_row] = e
      /\ \A cs \in Archetype : \A r \in DOMAIN w.arch[cs] :
           LET e == w.arch[cs][r].entity
           IN  e \in alive /\ Place(w, e).archetype = cs /\ Place(w, e).row = r
      /\ \A ts \in SUBSET TableComponents : \A r \in DOMAIN w.table[ts].entities :
           LET e == w.table[ts].entities[r]
           IN  e \in alive /\ TableOf(Place(w, e).archetype) = ts
                 /\ Place(w, e).table_row = r
      /\ \A c \in SparseComponents :
           LET s == w.sparse[c]
           IN  /\ \A e \in alive :
                    c \in Place(w, e).archetype <=> e.index \in DOMAIN s.sparse
               /\ \A i \in DOMAIN s.sparse : s.entities[s.sparse[i]].index = i
               /\ Cardinality(DOMAIN s.sparse) = Len(s.dense)
               /\ \A r \in DOMAIN s.entities : s.entities[r] \in alive
=============================================================================
