-------------------------- MODULE EntityAllocator ---------------------------
(***************************************************************************)
(* Entities, the allocator of entity ids of an ECS world, as operators on  *)
(* its value.  An id is an index with a generation; indices count from 1   *)
(* here, from 0 in the code.                                               *)
(*                                                                         *)
(* `meta` holds a generation and a location for every index, `pending` the *)
(* indices that are free.  Threads that share the world reserve ids with   *)
(* one atomic subtraction from `cursor` and touch nothing else: what lies  *)
(* in `pending` behind the cursor is reserved, and a negative cursor       *)
(* promises as many new indices behind the end of `meta`.  flush(), under  *)
(* an exclusive reference, makes these promises true.                      *)
(***************************************************************************)
EXTENDS Integers, Sequences

CONSTANTS MaxGeneration, \* 2^31 - 1 in the code
          NoLocation     \* ArchetypeId::INVALID

ASSUME MaxGenerationAssumption == MaxGeneration \in Nat \ {0}

Generation == 1 .. MaxGeneration

EMPTY == [generation |-> 1, location |-> NoLocation]

NewEntities == [meta |-> <<>>, pending |-> <<>>, cursor |-> 0, len |-> 0]

Id(i, g) == [index |-> i, generation |-> g]

\* Mutant: an index is used again under the generation it had.
same_generation(g) == g

\* The generation behind g; 31 bits wrap around to 1.
inc_masked_high(g) == IF g = MaxGeneration THEN 1 ELSE g + 1

needs_flush(a) == a.cursor # Len(a.pending)

Known(a, i) == i \in 1 .. Len(a.meta)

\* The id that stands for index i now, or will once `meta` has grown to it.
ResolveFromIndex(a, i) ==
  Id(i, IF Known(a, i) THEN a.meta[i].generation ELSE 1)

(***************************************************************************)
(* Reservations, by any number of threads with a shared reference.         *)
(***************************************************************************)
AtMostZero(n) == IF n < 0 THEN n ELSE 0
AtLeastZero(n) == IF n > 0 THEN n ELSE 0

\* What lowering the cursor from `end` to `start` takes: the free indices
\* between them and, below zero, indices that `meta` does not have yet.
IndicesBetween(a, start, end) ==
  {a.pending[k] : k \in AtLeastZero(start) + 1 .. AtLeastZero(end)}
    \cup (Len(a.meta) - AtMostZero(end) + 1 .. Len(a.meta) - AtMostZero(start))

ReservedIds(a, count) ==
  {ResolveFromIndex(a, i) :
     i \in IndicesBetween(a, a.cursor - count, a.cursor)}

reserve_entities(a, count) == [a EXCEPT !.cursor = @ - count]

\* The index reserve_entity takes, reserve_entities for one id.
NextIndex(a) ==
  IF a.cursor > 0 THEN a.pending[a.cursor] ELSE Len(a.meta) - a.cursor + 1

NextId(a) == ResolveFromIndex(a, NextIndex(a))

reserve_entity(a) == reserve_entities(a, 1)

\* The indices that are reserved and await flush().
Awaiting(a) == IndicesBetween(a, a.cursor, Len(a.pending))

(***************************************************************************)
(* Operations under an exclusive reference.                                *)
(***************************************************************************)
\* flush(): place[i] is the location `init` gives to index i.
flush(a, place) ==
  LET grown == Len(a.meta) - AtMostZero(a.cursor)
      kept  == AtLeastZero(a.cursor)
      fresh == Awaiting(a)
      old(i) == IF i > Len(a.meta) THEN EMPTY ELSE a.meta[i]
  IN  [meta    |-> [i \in 1 .. grown |->
                      IF i \in fresh
                      THEN [old(i) EXCEPT !.location = place[i]]
                      ELSE a.meta[i]],
       pending |-> SubSeq(a.pending, 1, kept),
       cursor  |-> kept,
       len     |-> a.len + (grown - Len(a.meta)) + (Len(a.pending) - kept)]

\* alloc() takes the last free index, or a new one and leaves the cursor.
AllocIndex(a) ==
  IF a.pending # <<>> THEN a.pending[Len(a.pending)] ELSE Len(a.meta) + 1

AllocId(a) == ResolveFromIndex(a, AllocIndex(a))

alloc(a) ==
  IF a.pending # <<>>
  THEN [a EXCEPT !.pending = SubSeq(@, 1, Len(@) - 1),
                 !.cursor  = Len(a.pending) - 1,
                 !.len     = @ + 1]
  ELSE [a EXCEPT !.meta = Append(@, EMPTY), !.len = @ + 1]

set(a, i, location) == [a EXCEPT !.meta[i].location = location]

\* Mutant: the cursor is left behind the freed index.
free_below_cursor(a, entity) ==
  [a EXCEPT !.meta[entity.index] = [generation |-> inc_masked_high(entity.generation),
                                    location   |-> NoLocation],
            !.pending = Append(@, entity.index),
            !.len = @ - 1]

\* Destroys `entity`.  An id of another generation is refused.
free(a, entity) ==
  IF a.meta[entity.index].generation # entity.generation THEN a
  ELSE [meta    |-> [a.meta EXCEPT ![entity.index] =
                       [generation |-> inc_masked_high(entity.generation),
                        location   |-> NoLocation]],
        pending |-> Append(a.pending, entity.index),
        cursor  |-> Len(a.pending) + 1,
        len     |-> a.len - 1]

PendingAt(a, i) == {k \in 1 .. Len(a.pending) : a.pending[k] = i}

\* `entity`, chosen by the caller, is given its index if that is free.
AllocAtWithoutReplacement(a, entity) ==
  LET i == entity.index
  IN  IF ~Known(a, i) \/ PendingAt(a, i) # {} \/ a.meta[i].location = NoLocation
      THEN "DidNotExist"
      ELSE IF a.meta[i].generation = entity.generation THEN "Exists"
      ELSE "ExistsWithWrongGeneration"

\* Vec::swap_remove: the last row takes the place of row k.
WithoutRow(s, k) ==
  LET rest == SubSeq(s, 1, Len(s) - 1)
  IN  IF k = Len(s) THEN rest ELSE [rest EXCEPT ![k] = s[Len(s)]]

alloc_at_without_replacement(a, entity) ==
  LET i == entity.index
      between == [k \in 1 .. i - 1 - Len(a.meta) |-> Len(a.meta) + k]
      extended == [meta    |-> [j \in 1 .. i |-> IF j > Len(a.meta)
                                                 THEN EMPTY ELSE a.meta[j]],
                   pending |-> a.pending \o between,
                   cursor  |-> Len(a.pending) + Len(between),
                   len     |-> a.len + 1]
      taken == [a EXCEPT !.pending = WithoutRow(@, CHOOSE k \in PendingAt(a, i) : TRUE),
                         !.cursor  = Len(a.pending) - 1,
                         !.len     = @ + 1]
      new == IF ~Known(a, i) THEN extended
             ELSE IF PendingAt(a, i) # {} THEN taken ELSE a
  IN  IF AllocAtWithoutReplacement(a, entity) = "ExistsWithWrongGeneration" THEN a
      ELSE [new EXCEPT !.meta[i].generation = entity.generation]

(***************************************************************************)
(* What the allocator says of an id.                                       *)
(***************************************************************************)
\* get(): the entity has a location.
Exists(a, entity) ==
  /\ Known(a, entity.index)
  /\ a.meta[entity.index].generation = entity.generation
  /\ a.meta[entity.index].location # NoLocation

Location(a, entity) == a.meta[entity.index].location

\* contains(): the index resolves to this generation, reserved or placed or
\* about to be handed out again.
contains(a, entity) ==
  /\ entity.index \in 1 .. Len(a.meta) - AtMostZero(a.cursor)
  /\ ResolveFromIndex(a, entity.index) = entity

Alive(a) == {e \in {ResolveFromIndex(a, i) : i \in 1 .. Len(a.meta)} : Exists(a, e)}

Reserved(a) == {ResolveFromIndex(a, i) : i \in Awaiting(a)}
=============================================================================
