----------------------- MODULE DeferredCommandsProofs -----------------------
(***************************************************************************)
(* Handles, queues and the order of commands, for any number of queues,    *)
(* commands, indices and generations.                                      *)
(*                                                                         *)
(* 1. A handle that was destroyed stays dead.  The invariant is that       *)
(*    `meta` is ahead of every dead handle: its index is known, and was    *)
(*    given a later generation.  No operation takes a generation back, and *)
(*    the id that is handed out is the one `meta` has for its index.       *)
(* 2. The handles are the entities and the reservations, each once: the    *)
(*    free list has the indices without a location, each once (HandlesInv).*)
(* 3. The calls that are nested in one vector have adjacent parts of it,   *)
(*    what is saved belongs to a vector that is being unwound, and between *)
(*    two commands nothing is pending (CommandsInv).                       *)
(* 4. Every command that was queued ran or waits in one place, and the     *)
(*    order in which the places are taken is depth first (OrderInv).       *)
(***************************************************************************)
EXTENDS DeferredCommands, FiniteSetTheorems, SequenceTheorems, TLAPS

Meta == [generation : Generation, location : {NoLocation, Placed}]

Entities == [meta : Seq(Meta), pending : Seq(Int), cursor : Int, len : Int]

\* The cursor promises nothing beyond the free indices.
Sound(a) == a \in Entities /\ a.cursor <= Len(a.pending)

\* Index by index, b has the generations of a or later ones.
Later(a, b) ==
  /\ Len(a.meta) <= Len(b.meta)
  /\ \A i \in 1 .. Len(a.meta) : a.meta[i].generation <= b.meta[i].generation

\* The allocator has left id e behind.
Behind(a, e) ==
  /\ Known(a, e.index) /\ e.generation \in Int
  /\ e.generation < a.meta[e.index].generation

IInv ==
  /\ Sound(ents)
  /\ \A e \in killed : Behind(ents, e)
  /\ killed \cap held = {}

LEMMA SoundForm ==
  ASSUME NEW m \in Seq(Meta), NEW p \in Seq(Int), NEW c \in Int, NEW n \in Int,
         c <= Len(p), NEW a, a = [meta |-> m, pending |-> p, cursor |-> c, len |-> n]
  PROVE  Sound(a) /\ a.meta = m
<1>1. a.meta = m /\ a.pending = p /\ a.cursor = c
  OBVIOUS
<1>2. a \in Entities
  BY DEF Entities
<1> QED
  BY <1>1, <1>2 DEF Sound

LEMMA MetaForm ==
  ASSUME NEW g \in Generation, NEW l \in {NoLocation, Placed}
  PROVE  [generation |-> g, location |-> l] \in Meta
BY DEF Meta

LEMMA EmptyMeta == EMPTY \in Meta
<1>1. 1 \in Generation
  BY MaxGenerationAssumption DEF Generation
<1> QED
  BY <1>1 DEF EMPTY, Meta

LEMMA SameGeneration ==
  ASSUME NEW r \in Meta
  PROVE  /\ [r EXCEPT !.location = Placed] \in Meta
         /\ [r EXCEPT !.location = Placed].generation = r.generation
BY DEF Meta

\* What flush() leaves of the cursor.
LEMMA CursorArithmetic ==
  ASSUME NEW c \in Int, NEW m \in Nat, NEW p \in Nat, c <= p, NEW n \in Int
  PROVE  /\ m - AtMostZero(c) \in Nat /\ m - AtMostZero(c) >= m
         /\ AtLeastZero(c) \in Nat /\ AtLeastZero(c) <= p
         /\ n + ((m - AtMostZero(c)) - m) + (p - AtLeastZero(c)) \in Int
BY DEF AtMostZero, AtLeastZero

\* The list without what is behind the cursor.
LEMMA Shortened ==
  ASSUME NEW p \in Seq(Int), NEW k \in Nat, k <= Len(p)
  PROVE  SubSeq(p, 1, k) \in Seq(Int) /\ Len(SubSeq(p, 1, k)) = k
<1>1. Len(p) \in Nat
  BY LenProperties
<1>2. \A i \in 1 .. k : p[i] \in Int
  BY <1>1, ElementOfSeq
<1> QED
  BY <1>1, <1>2, SubSeqProperties

LEMMA Generations ==
  ASSUME NEW s \in Seq(Meta), NEW i \in 1 .. Len(s)
  PROVE  s[i] \in Meta /\ s[i].generation \in Generation /\ s[i].generation \in Int
<1>1. s[i] \in Meta
  BY ElementOfSeq
<1>2. s[i].generation \in Generation
  BY <1>1 DEF Meta
<1> QED
  BY <1>1, <1>2, MaxGenerationAssumption DEF Generation

LEMMA EntitiesFields ==
  ASSUME NEW a \in Entities
  PROVE  /\ a.meta \in Seq(Meta) /\ a.pending \in Seq(Int)
         /\ a.cursor \in Int /\ a.len \in Int
         /\ Len(a.meta) \in Nat /\ Len(a.pending) \in Nat
<1>1. a.meta \in Seq(Meta) /\ a.pending \in Seq(Int) /\ a.cursor \in Int /\ a.len \in Int
  BY DEF Entities
<1> QED
  BY <1>1, LenProperties

LEMMA NewSound == Sound(NewEntities)
BY DEF Sound, NewEntities, Entities

LEMMA LaterItself ==
  ASSUME NEW a, Sound(a), NEW b, b.meta = a.meta
  PROVE  Later(a, b)
<1>1. /\ a.meta \in Seq(Meta) /\ Len(a.meta) \in Nat
      /\ \A i \in 1 .. Len(a.meta) : a.meta[i].generation \in Int
  BY EntitiesFields, Generations DEF Sound
<1> QED
  BY <1>1 DEF Later

LEMMA ReserveSound ==
  ASSUME NEW a, Sound(a)
  PROVE  Sound(reserve_entity(a)) /\ Later(a, reserve_entity(a))
<1> DEFINE b == reserve_entity(a)
<1>1. /\ a.cursor \in Int /\ b.cursor = a.cursor - 1 /\ b \in Entities
      /\ b.meta = a.meta /\ b.pending = a.pending /\ Len(a.pending) \in Nat
  BY DEF Sound, Entities, reserve_entity, reserve_entities
<1>2. Later(a, b)
  BY <1>1, LaterItself
<1> QED
  BY <1>1, <1>2 DEF Sound

LEMMA FlushSound ==
  ASSUME NEW a, Sound(a), NEW b, b = flush(a, [i \in Awaiting(a) |-> Placed])
  PROVE  /\ Sound(b) /\ Later(a, b)
         /\ \A i \in 1 .. Len(a.meta) : b.meta[i].generation = a.meta[i].generation
<1> DEFINE grown == Len(a.meta) - AtMostZero(a.cursor)
           kept == AtLeastZero(a.cursor)
           old(i) == IF i > Len(a.meta) THEN EMPTY ELSE a.meta[i]
           place == [i \in Awaiting(a) |-> Placed]
           new(i) == IF i \in Awaiting(a) THEN [old(i) EXCEPT !.location = place[i]]
                     ELSE a.meta[i]
           number == a.len + (grown - Len(a.meta)) + (Len(a.pending) - kept)
<1>1. /\ a.cursor \in Int /\ a.cursor <= Len(a.pending) /\ a.len \in Int
      /\ a.meta \in Seq(Meta) /\ a.pending \in Seq(Int)
      /\ Len(a.meta) \in Nat /\ Len(a.pending) \in Nat
  BY EntitiesFields DEF Sound
<1>2. grown \in Nat /\ grown >= Len(a.meta) /\ kept \in Nat /\ kept <= Len(a.pending)
      /\ number \in Int
  BY <1>1, CursorArithmetic
<1>3. b = [meta |-> [i \in 1 .. grown |-> new(i)], pending |-> SubSeq(a.pending, 1, kept),
           cursor |-> kept, len |-> number]
  BY DEF flush
<1>5. ASSUME NEW i \in 1 .. grown
      PROVE  /\ new(i) \in Meta
             /\ i <= Len(a.meta) => new(i).generation = a.meta[i].generation
  <2>1. CASE i \in Awaiting(a)
    <3>1. old(i) \in Meta /\ (i <= Len(a.meta) => old(i) = a.meta[i])
      BY <1>1, <1>2, EmptyMeta, Generations
    <3>2. new(i) = [old(i) EXCEPT !.location = Placed]
      BY <2>1
    <3> QED
      BY <3>1, <3>2, SameGeneration
  <2>2. CASE i \notin Awaiting(a)
    <3>1. i <= Len(a.meta)
      BY <1>1, <1>2, <2>2 DEF Awaiting, IndicesBetween, AtMostZero
    <3> QED
      BY <1>1, <2>2, <3>1, Generations
  <2> QED
    BY <2>1, <2>2
<1> DEFINE meta == [i \in 1 .. grown |-> new(i)]
<1>6. meta \in Seq(Meta) /\ Len(meta) = grown /\ \A i \in 1 .. grown : meta[i] = new(i)
  <2> HIDE DEF new, grown
  <2>1. meta \in [1 .. grown -> Meta]
    BY <1>5
  <2>2. meta \in Seq(Meta)
    BY <1>2, <2>1, SeqDef
  <2> QED
    BY <1>2, <2>1, <2>2, LenProperties
<1>7. SubSeq(a.pending, 1, kept) \in Seq(Int) /\ Len(SubSeq(a.pending, 1, kept)) = kept
  BY <1>1, <1>2, Shortened
<1>8. Sound(b) /\ b.meta = meta
  <2> DEFINE pending == SubSeq(a.pending, 1, kept)
  <2>1. b = [meta |-> meta, pending |-> pending, cursor |-> kept, len |-> number]
    BY <1>3
  <2>2. kept \in Int /\ kept <= Len(pending) /\ number \in Int
    BY <1>2, <1>7
  <2>3. meta \in Seq(Meta) /\ pending \in Seq(Int)
    BY <1>6, <1>7
  <2> HIDE DEF meta, kept, number, pending
  <2> QED
    BY <2>1, <2>2, <2>3, SoundForm
<1> HIDE DEF new, grown, kept, meta
<1>10. \A i \in 1 .. Len(a.meta) : b.meta[i].generation = a.meta[i].generation
  BY <1>1, <1>2, <1>5, <1>6, <1>8
<1>11. \A i \in 1 .. Len(a.meta) : a.meta[i].generation \in Int
  BY <1>1, Generations
<1>12. Len(a.meta) <= Len(b.meta)
  BY <1>2, <1>6, <1>8
<1>13. ASSUME NEW i \in 1 .. Len(a.meta) PROVE a.meta[i].generation <= b.meta[i].generation
  BY <1>10, <1>11
<1> QED
  BY <1>8, <1>10, <1>12, <1>13 DEF Later

LEMMA SpawnSound ==
  ASSUME NEW a, Sound(a), NEW b, b = set(alloc(a), AllocIndex(a), Placed),
         a.cursor = Len(a.pending)
  PROVE  Sound(b) /\ Later(a, b)
<1> DEFINE i == AllocIndex(a)
<1>1. /\ a.cursor \in Int /\ a.len \in Int
      /\ a.meta \in Seq(Meta) /\ a.pending \in Seq(Int)
      /\ Len(a.meta) \in Nat /\ Len(a.pending) \in Nat
  BY EntitiesFields DEF Sound
<1>2. \A j \in 1 .. Len(a.meta) : a.meta[j].generation \in Int
  BY <1>1, Generations
<1>3. CASE a.pending # <<>>
  <2> DEFINE meta == [a.meta EXCEPT ![i].location = Placed]
             cursor == Len(a.pending) - 1
             pending == SubSeq(a.pending, 1, cursor)
             number == a.len + 1
  <2>1. b = [meta |-> meta, pending |-> pending, cursor |-> cursor, len |-> number]
    BY <1>3 DEF alloc, set, Sound, Entities
  <2>2. \A j \in 1 .. Len(a.meta) :
          meta[j] \in Meta /\ meta[j].generation = a.meta[j].generation
    BY <1>1, Generations, SameGeneration
  <2>3. meta \in Seq(Meta) /\ Len(meta) = Len(a.meta)
    <3>1. meta \in [1 .. Len(a.meta) -> Meta]
      BY <1>1, <2>2, LenProperties
    <3>2. meta \in Seq(Meta)
      BY <1>1, <3>1, SeqDef
    <3> QED
      BY <1>1, <3>1, <3>2, LenProperties
  <2>4. pending \in Seq(Int) /\ Len(pending) = Len(a.pending) - 1
    BY <1>1, <1>3, Shortened, EmptySeq
  <2>5. cursor \in Int /\ cursor <= Len(pending) /\ number \in Int
    BY <1>1, <2>4
  <2> HIDE DEF meta, pending, cursor, number
  <2>6. Sound(b) /\ b.meta = meta
    BY <2>1, <2>3, <2>4, <2>5, SoundForm
  <2> QED
    BY <1>1, <1>2, <2>2, <2>3, <2>6 DEF Later
<1>4. CASE a.pending = <<>>
  <2> DEFINE grown == Append(a.meta, EMPTY)
             meta == [grown EXCEPT ![i].location = Placed]
  <2>1. b = [meta |-> meta, pending |-> a.pending, cursor |-> a.cursor, len |-> a.len + 1]
    BY <1>4 DEF alloc, set, Sound, Entities
  <2>3. /\ grown \in Seq(Meta) /\ Len(grown) = Len(a.meta) + 1
        /\ \A j \in 1 .. Len(a.meta) : grown[j] = a.meta[j]
    BY <1>1, EmptyMeta
  <2> HIDE DEF grown
  <2>4. \A j \in 1 .. Len(grown) :
          meta[j] \in Meta /\ meta[j].generation = grown[j].generation
    BY <2>3, Generations, SameGeneration
  <2>5. meta \in Seq(Meta) /\ Len(meta) = Len(grown)
    <3>1. meta \in [1 .. Len(grown) -> Meta]
      BY <2>3, <2>4, LenProperties
    <3>2. meta \in Seq(Meta) /\ Len(grown) \in Nat
      BY <1>1, <2>3, <3>1, SeqDef
    <3> QED
      BY <3>1, <3>2, LenProperties
  <2> HIDE DEF meta
  <2>6. Sound(b) /\ b.meta = meta
    <3>1. a.len + 1 \in Int /\ a.cursor <= Len(a.pending)
      BY <1>1 DEF Sound
    <3> QED
      BY <1>1, <2>1, <2>5, <3>1, SoundForm
  <2>7. \A j \in 1 .. Len(a.meta) : meta[j].generation = a.meta[j].generation
    BY <1>1, <2>3, <2>4
  <2> QED
    BY <1>1, <1>2, <2>3, <2>5, <2>6, <2>7 DEF Later
<1> QED
  BY <1>3, <1>4

LEMMA FreeSound ==
  ASSUME NEW a, Sound(a), NEW e, Known(a, e.index),
         a.meta[e.index].generation = e.generation, e.generation < MaxGeneration
  PROVE  Sound(free(a, e)) /\ Later(a, free(a, e)) /\ Behind(free(a, e), e)
<1> DEFINE b == free(a, e)
           freed == [generation |-> e.generation + 1, location |-> NoLocation]
           meta == [a.meta EXCEPT ![e.index] = freed]
           pending == Append(a.pending, e.index)
           cursor == Len(a.pending) + 1
           number == a.len - 1
<1>1. /\ a.meta \in Seq(Meta) /\ a.pending \in Seq(Int) /\ a.len \in Int
      /\ Len(a.meta) \in Nat /\ Len(a.pending) \in Nat /\ e.index \in 1 .. Len(a.meta)
  BY EntitiesFields DEF Sound, Known
<1>2. \A i \in 1 .. Len(a.meta) : a.meta[i].generation \in Int
  BY <1>1, Generations
<1>3. e.generation \in Generation /\ e.generation \in Int
  BY <1>1, Generations
<1>4. freed \in Meta
  <2>1. e.generation + 1 \in Generation
    BY <1>3, MaxGenerationAssumption DEF Generation
  <2> QED
    BY <2>1, MetaForm
<1>5. b = [meta |-> meta, pending |-> pending, cursor |-> cursor, len |-> number]
  <2>1. inc_masked_high(e.generation) = e.generation + 1
    BY <1>3, MaxGenerationAssumption DEF inc_masked_high
  <2> QED
    BY <2>1 DEF free
<1>6. /\ meta \in Seq(Meta) /\ Len(meta) = Len(a.meta)
      /\ \A i \in 1 .. Len(a.meta) : meta[i] = IF i = e.index THEN freed ELSE a.meta[i]
  BY <1>1, <1>4, ExceptSeq
<1>7. pending \in Seq(Int) /\ Len(pending) = Len(a.pending) + 1
  BY <1>1
<1> HIDE DEF b, meta, pending
<1>8. Sound(b) /\ b.meta = meta
  <2>1. cursor \in Int /\ cursor <= Len(pending) /\ number \in Int
    BY <1>1, <1>7
  <2> HIDE DEF cursor, number
  <2> QED
    BY <1>5, <1>6, <1>7, <2>1, SoundForm
<1>10. Later(a, b)
  <2>1. \A i \in 1 .. Len(a.meta) : a.meta[i].generation <= b.meta[i].generation
    BY <1>2, <1>3, <1>6, <1>8
  <2>2. Len(a.meta) <= Len(b.meta)
    BY <1>1, <1>6, <1>8
  <2> QED
    BY <2>1, <2>2 DEF Later
<1>11. Behind(b, e)
  BY <1>1, <1>3, <1>6, <1>8 DEF Behind, Known
<1> QED
  BY <1>8, <1>10, <1>11 DEF b

(***************************************************************************)
(* The steps.                                                              *)
(***************************************************************************)
LEMMA StaysBehind ==
  ASSUME NEW a, Sound(a), NEW b, Sound(b), Later(a, b), NEW e, Behind(a, e)
  PROVE  Behind(b, e)
<1>1. /\ e.index \in 1 .. Len(a.meta) /\ e.generation \in Int
      /\ e.generation < a.meta[e.index].generation
      /\ a.meta \in Seq(Meta) /\ b.meta \in Seq(Meta)
      /\ Len(a.meta) \in Nat /\ Len(b.meta) \in Nat
  BY EntitiesFields DEF Behind, Known, Sound
<1>2. /\ Len(a.meta) <= Len(b.meta)
      /\ a.meta[e.index].generation <= b.meta[e.index].generation
  BY <1>1 DEF Later
<1>3. e.index \in 1 .. Len(b.meta)
  BY <1>1, <1>2
<1>4. a.meta[e.index].generation \in Int /\ b.meta[e.index].generation \in Int
  BY <1>1, <1>3, Generations
<1> QED
  BY <1>1, <1>2, <1>3, <1>4 DEF Behind, Known

\* The id that stands for an index is none that the allocator left behind.
LEMMA ResolvedIsAhead ==
  ASSUME NEW a, Sound(a), NEW i, NEW e, Behind(a, e)
  PROVE  e # ResolveFromIndex(a, i)
<1> SUFFICES ASSUME e = ResolveFromIndex(a, i) PROVE FALSE
  OBVIOUS
<1>1. e.index = i /\ e.generation = IF Known(a, i) THEN a.meta[i].generation ELSE 1
  BY DEF ResolveFromIndex, Id
<1>2. Known(a, i) /\ e.generation < a.meta[i].generation /\ e.generation \in Int
  BY <1>1 DEF Behind
<1> QED
  BY <1>1, <1>2

LEMMA NothingDies ==
  ASSUME IInv, Sound(ents'), Later(ents, ents'), killed' = killed,
         killed \cap held' = {}
  PROVE  IInv'
<1>1. \A e \in killed : Behind(ents', e)
  BY StaysBehind DEF IInv
<1> QED
  BY <1>1 DEF IInv, Behind, Sound, Known

LEMMA NothingHappens ==
  ASSUME IInv, ents' = ents, held' = held, killed' = killed
  PROVE  IInv'
BY DEF IInv, Behind, Sound, Known

LEMMA FlushStep ==
  ASSUME IInv, ents' = flush_entities, held' = held, killed' = killed
  PROVE  IInv'
<1>1. Sound(ents') /\ Later(ents, ents')
  BY FlushSound DEF IInv, flush_entities
<1> QED
  BY <1>1, NothingDies DEF IInv

LEMMA QueueStep ==
  ASSUME IInv, NEW q, NEW name, Queue(q, name), killed' = killed
  PROVE  IInv'
<1>1. CASE ents' = ents /\ held' = held
  BY <1>1, NothingHappens
<1>2. CASE ents' = reserve_entity(ents) /\ held' = held \cup {NextId(ents)}
  <2>1. Sound(ents') /\ Later(ents, ents')
    BY <1>2, ReserveSound DEF IInv
  <2>2. NextId(ents) \notin killed
    BY ResolvedIsAhead DEF IInv, NextId
  <2> QED
    BY <1>2, <2>1, <2>2, NothingDies DEF IInv
<1> QED
  BY <1>1, <1>2 DEF Queue

LEMMA SpawnNowStep ==
  ASSUME IInv, SpawnNow
  PROVE  IInv'
<1>1. ents.cursor = Len(ents.pending)
  BY DEF SpawnNow, needs_flush
<1>2. Sound(ents') /\ Later(ents, ents')
  BY <1>1, SpawnSound DEF IInv, SpawnNow
<1>3. AllocId(ents) \notin killed
  BY ResolvedIsAhead DEF IInv, AllocId
<1> QED
  BY <1>2, <1>3, NothingDies DEF IInv, SpawnNow

LEMMA DespawnStep ==
  ASSUME IInv, NEW e, NEW below, e.generation < MaxGeneration, despawn(e, below)
  PROVE  IInv'
<1>1. CASE ~Exists(ents, e)
  BY <1>1, FlushStep DEF despawn
<1>2. CASE Exists(ents, e)
  <2> DEFINE a == flush_entities
             b == free(a, e)
  <2>1. ents' = b /\ held' = held \ {e} /\ killed' = killed \cup {e}
    BY <1>2 DEF despawn, BeforeDespawn
  <2>2. Sound(ents) /\ Sound(a) /\ Later(ents, a)
    BY FlushSound DEF IInv, flush_entities
  <2>3. Known(a, e.index) /\ a.meta[e.index].generation = e.generation
    <3>1. /\ e.index \in 1 .. Len(ents.meta)
          /\ ents.meta[e.index].generation = e.generation
      BY <1>2 DEF Exists, Known
    <3>2. a.meta[e.index].generation = e.generation
      BY <3>1, FlushSound DEF IInv, flush_entities
    <3>3. Len(ents.meta) <= Len(a.meta) /\ Len(ents.meta) \in Nat /\ Len(a.meta) \in Nat
      BY <2>2, EntitiesFields DEF Later, Sound
    <3> HIDE DEF a
    <3> QED
      BY <3>1, <3>2, <3>3 DEF Known
  <2>4. Sound(b) /\ Later(a, b) /\ Behind(b, e)
    BY <2>2, <2>3, FreeSound
  <2>5. \A k \in killed : Behind(b, k)
    BY <2>2, <2>4, StaysBehind DEF IInv
  <2> HIDE DEF b
  <2> QED
    BY <2>1, <2>4, <2>5 DEF IInv, Behind, Sound, Known
<1> QED
  BY <1>1, <1>2

LEMMA ReturnStep ==
  ASSUME IInv, Return, held' = held, killed' = killed
  PROVE  IInv'
BY FlushStep DEF Return

LEMMA NextIInv == IInv /\ [Next]_vars => IInv'
<1> SUFFICES ASSUME IInv, [Next]_vars PROVE IInv'
  OBVIOUS
<1>1. ASSUME NEW q \in AllQueues, QueueFromOutside(q) PROVE IInv'
  BY <1>1, QueueStep DEF QueueFromOutside
<1>2. ASSUME NEW q \in Queues, AppendToWorld(q) PROVE IInv'
  BY <1>2, NothingHappens DEF AppendToWorld
<1>3. ASSUME NEW q \in Queues, Apply(q) PROVE IInv'
  BY <1>3, FlushStep DEF Apply
<1>4. CASE Flush
  BY <1>4, FlushStep DEF Flush
<1>5. CASE ApplyItself
  BY <1>5, NothingHappens DEF ApplyItself
<1>6. CASE Start
  BY <1>6, NothingHappens DEF Start
<1>7. CASE End
  BY <1>7, NothingHappens DEF End
<1>8. CASE Insert
  BY <1>8, ReturnStep, NothingHappens DEF Insert, Panic
<1>9. CASE DespawnCommand
  BY <1>9, DespawnStep DEF DespawnCommand
<1>10. CASE DespawnNow
  BY <1>10, DespawnStep DEF DespawnNow
<1>11. CASE SpawnNow
  BY <1>11, SpawnNowStep
<1>12. CASE ClosureQueues
  BY <1>12, QueueStep DEF ClosureQueues
<1>13. CASE ClosureReturns
  BY <1>13, ReturnStep DEF ClosureReturns
<1>14. CASE ClosurePanics
  BY <1>14, NothingHappens DEF ClosurePanics, Panic
<1>15. CASE Unwind
  BY <1>15, NothingHappens DEF Unwind
<1>16. CASE Caught
  BY <1>16, NothingHappens DEF Caught
<1>17. CASE UNCHANGED vars
  BY <1>17, NothingHappens DEF vars
<1> QED
  BY <1>1, <1>2, <1>3, <1>4, <1>5, <1>6, <1>7, <1>8, <1>9, <1>10, <1>11, <1>12,
     <1>13, <1>14, <1>15, <1>16, <1>17 DEF Next

LEMMA InvariantKillsDead == IInv => DeadStaysDead
<1> SUFFICES ASSUME IInv, NEW e \in killed PROVE ~Exists(ents, e)
  BY DEF IInv, DeadStaysDead
<1> QED
  BY DEF IInv, Behind, Exists

\* The allocator is sound and ahead of every id that was destroyed.
THEOREM AllocatorInvariant == Spec => []IInv
<1>1. Init => IInv
  BY NewSound DEF Init, IInv
<1> QED
  BY <1>1, NextIInv, PTL DEF Spec

\* A handle that was destroyed never means an entity again (Entities::free).
THEOREM DestroyedForGood == Spec => []DeadStaysDead
<1> QED
  BY AllocatorInvariant, InvariantKillsDead, PTL

-----------------------------------------------------------------------------
(***************************************************************************)
(* 2. The handles: of the free list and of the indices in use.             *)
(***************************************************************************)
Tidy(a) ==
  /\ \A k \in 1 .. Len(a.pending) : a.pending[k] \in 1 .. Len(a.meta)
  /\ \A k, l \in 1 .. Len(a.pending) : a.pending[k] = a.pending[l] => k = l
  /\ \A i \in 1 .. Len(a.meta) :
       a.meta[i].location = NoLocation <=> \E k \in 1 .. Len(a.pending) : a.pending[k] = i

Occupied(a) == {i \in 1 .. Len(a.meta) : a.meta[i].location # NoLocation}

Ids(a, indices) == {ResolveFromIndex(a, i) : i \in indices}

\* The handles are those of the indices in use.
HandlesInv == Tidy(ents) /\ held = Ids(ents, Occupied(ents) \cup Awaiting(ents))

\* The length of `meta` that the cursor promises, and what it leaves of the free list.
Grown(a) == Len(a.meta) - AtMostZero(a.cursor)
Kept(a) == AtLeastZero(a.cursor)

LEMMA AwaitingForm ==
  ASSUME NEW a, Sound(a)
  PROVE  /\ Grown(a) \in Nat /\ Grown(a) >= Len(a.meta)
         /\ Kept(a) \in Nat /\ Kept(a) <= Len(a.pending)
         /\ Len(a.meta) \in Nat /\ Len(a.pending) \in Nat
         /\ Awaiting(a) = {a.pending[k] : k \in Kept(a) + 1 .. Len(a.pending)}
                            \cup (Len(a.meta) + 1 .. Grown(a))
         /\ a.cursor = Len(a.pending) => Awaiting(a) = {} /\ Grown(a) = Len(a.meta)
<1>1. /\ a.cursor \in Int /\ Len(a.meta) \in Nat /\ Len(a.pending) \in Nat
      /\ a.cursor <= Len(a.pending)
  BY EntitiesFields DEF Sound
<1>2. /\ AtLeastZero(Len(a.pending)) = Len(a.pending)
      /\ Len(a.meta) - AtMostZero(Len(a.pending)) + 1 = Len(a.meta) + 1
  <2>1. AtLeastZero(Len(a.pending)) = Len(a.pending) /\ AtMostZero(Len(a.pending)) = 0
    BY <1>1 DEF AtLeastZero, AtMostZero
  <2> QED
    BY <1>1, <2>1
<1>3. Awaiting(a) = {a.pending[k] : k \in Kept(a) + 1 .. Len(a.pending)}
                      \cup (Len(a.meta) + 1 .. Grown(a))
  BY <1>2 DEF Awaiting, IndicesBetween, Kept, Grown
<1>4. /\ Grown(a) \in Nat /\ Grown(a) >= Len(a.meta)
      /\ Kept(a) \in Nat /\ Kept(a) <= Len(a.pending)
      /\ a.cursor = Len(a.pending) => Kept(a) = Len(a.pending) /\ Grown(a) = Len(a.meta)
  BY <1>1 DEF Kept, Grown, AtLeastZero, AtMostZero
<1>5. ASSUME a.cursor = Len(a.pending) PROVE Awaiting(a) = {}
  <2>1. Kept(a) + 1 .. Len(a.pending) = {} /\ Len(a.meta) + 1 .. Grown(a) = {}
    BY <1>1, <1>4, <1>5
  <2> QED
    BY <1>3, <2>1
<1> QED
  BY <1>1, <1>3, <1>4, <1>5

\* An index in use is free for no one, and has a place or waits for one.
LEMMA InUse ==
  ASSUME NEW a, Sound(a), Tidy(a)
  PROVE  /\ Occupied(a) \cap Awaiting(a) = {}
         /\ Occupied(a) \cup Awaiting(a) \subseteq 1 .. Grown(a)
<1>1. /\ Grown(a) \in Nat /\ Grown(a) >= Len(a.meta) /\ Kept(a) \in Nat
      /\ Len(a.meta) \in Nat /\ Len(a.pending) \in Nat
      /\ Awaiting(a) = {a.pending[k] : k \in Kept(a) + 1 .. Len(a.pending)}
                         \cup (Len(a.meta) + 1 .. Grown(a))
  BY AwaitingForm
<1>2. ASSUME NEW i \in Awaiting(a) PROVE i \in 1 .. Grown(a) /\ i \notin Occupied(a)
  <2>1. CASE i \in Len(a.meta) + 1 .. Grown(a)
    BY <1>1, <2>1 DEF Occupied
  <2>2. CASE i \in {a.pending[k] : k \in Kept(a) + 1 .. Len(a.pending)}
    <3>1. PICK k \in Kept(a) + 1 .. Len(a.pending) : i = a.pending[k]
      BY <2>2
    <3>2. k \in 1 .. Len(a.pending)
      BY <1>1, <3>1
    <3>3. i \in 1 .. Len(a.meta) /\ a.meta[i].location = NoLocation
      BY <3>1, <3>2 DEF Tidy
    <3> QED
      BY <1>1, <3>3 DEF Occupied
  <2> QED
    BY <1>1, <2>1, <2>2
<1>3. Occupied(a) \subseteq 1 .. Grown(a)
  BY <1>1 DEF Occupied
<1> QED
  BY <1>2, <1>3

LEMMA NewTidy == Tidy(NewEntities) /\ Occupied(NewEntities) = {} /\ Awaiting(NewEntities) = {}
<1>1. NewEntities.cursor = Len(NewEntities.pending) /\ Len(NewEntities.meta) = 0
      /\ Len(NewEntities.pending) = 0
  BY DEF NewEntities
<1>2. Awaiting(NewEntities) = {}
  BY <1>1, NewSound, AwaitingForm
<1> QED
  BY <1>1, <1>2 DEF Tidy, Occupied

LEMMA ReserveTidy ==
  ASSUME NEW a, Sound(a), Tidy(a), NEW b, b = reserve_entity(a)
  PROVE  /\ Tidy(b) /\ Occupied(b) = Occupied(a) /\ Awaiting(b) = Awaiting(a) \cup {NextIndex(a)}
         /\ \A i : ResolveFromIndex(b, i) = ResolveFromIndex(a, i)
<1>1. /\ a.cursor \in Int /\ b.cursor = a.cursor - 1 /\ b.meta = a.meta /\ b.pending = a.pending
      /\ a.cursor <= Len(a.pending)
  BY DEF Sound, Entities, reserve_entity, reserve_entities
<1>0. Len(a.meta) \in Nat /\ Len(a.pending) \in Nat
  BY AwaitingForm
<1>2. Sound(b)
  BY ReserveSound
<1>3. Tidy(b) /\ Occupied(b) = Occupied(a) /\ \A i : ResolveFromIndex(b, i) = ResolveFromIndex(a, i)
  BY <1>1 DEF Tidy, Occupied, ResolveFromIndex, Known
<1>4. /\ Len(a.meta) \in Nat /\ Len(a.pending) \in Nat
      /\ Awaiting(a) = {a.pending[k] : k \in Kept(a) + 1 .. Len(a.pending)}
                         \cup (Len(a.meta) + 1 .. Grown(a))
      /\ Awaiting(b) = {a.pending[k] : k \in Kept(b) + 1 .. Len(a.pending)}
                         \cup (Len(a.meta) + 1 .. Grown(b))
  BY <1>1, <1>2, AwaitingForm
<1>5. CASE a.cursor > 0
  <2>1. Kept(a) = a.cursor /\ Kept(b) = a.cursor - 1 /\ Grown(b) = Grown(a)
    BY <1>1, <1>5 DEF Kept, Grown, AtLeastZero, AtMostZero
  <2>2. Kept(b) + 1 .. Len(a.pending) = (Kept(a) + 1 .. Len(a.pending)) \cup {a.cursor}
    <3> DEFINE first == a.cursor + 1
    <3>1. first \in Int /\ Len(a.pending) \in Int /\ first <= Len(a.pending) + 1
          /\ a.cursor = first - 1
      BY <1>0, <1>1
    <3>2. Kept(b) + 1 = a.cursor /\ Kept(a) + 1 = first
      BY <1>1, <2>1
    <3> HIDE DEF first
    <3>3. a.cursor .. Len(a.pending) = (first .. Len(a.pending)) \cup {a.cursor}
      BY <3>1, SMTT(30)
    <3> QED
      BY <3>2, <3>3, Zenon
  <2>3. NextIndex(a) = a.pending[a.cursor]
    BY <1>5 DEF NextIndex
  <2>4. Awaiting(b) = Awaiting(a) \cup {NextIndex(a)}
    BY <1>4, <2>1, <2>2, <2>3
  <2> QED
    BY <1>3, <2>4
<1>6. CASE ~(a.cursor > 0)
  <2>1. Kept(a) = 0 /\ Kept(b) = 0 /\ Grown(a) = Len(a.meta) - a.cursor
        /\ Grown(b) = Len(a.meta) - a.cursor + 1
    <3>1. a.cursor <= 0 /\ b.cursor < 0
      BY <1>1, <1>6
    <3>2. AtLeastZero(a.cursor) = 0 /\ AtLeastZero(b.cursor) = 0
          /\ AtMostZero(a.cursor) = a.cursor /\ AtMostZero(b.cursor) = a.cursor - 1
      BY <1>1, <3>1 DEF AtLeastZero, AtMostZero
    <3> QED
      BY <1>0, <1>1, <3>2 DEF Kept, Grown
  <2>2. Len(a.meta) + 1 .. Grown(b) = (Len(a.meta) + 1 .. Grown(a)) \cup {Grown(b)}
    <3> DEFINE first == Len(a.meta) + 1
    <3>1. /\ first \in Int /\ Grown(a) \in Int /\ Grown(b) = Grown(a) + 1
          /\ first <= Grown(a) + 1
      BY <1>0, <1>1, <1>6, <2>1
    <3> HIDE DEF first
    <3>2. first .. Grown(b) = (first .. Grown(a)) \cup {Grown(b)}
      BY <3>1, SMTT(30)
    <3> QED
      BY <3>2 DEF first
  <2>3. NextIndex(a) = Grown(b)
    BY <1>6, <2>1 DEF NextIndex
  <2>4. Awaiting(b) = Awaiting(a) \cup {NextIndex(a)}
    BY <1>4, <2>1, <2>2, <2>3
  <2> QED
    BY <1>3, <2>4
<1> QED
  BY <1>5, <1>6

LEMMA FlushForm ==
  ASSUME NEW a, Sound(a), NEW b, b = flush(a, [i \in Awaiting(a) |-> Placed])
  PROVE  /\ Len(b.meta) = Grown(a) /\ Len(b.pending) = Kept(a) /\ b.cursor = Kept(a)
         /\ \A k \in 1 .. Kept(a) : b.pending[k] = a.pending[k]
         /\ \A i \in 1 .. Grown(a) :
              /\ b.meta[i].location = IF i \in Awaiting(a) THEN Placed ELSE a.meta[i].location
              /\ b.meta[i].generation = IF i <= Len(a.meta) THEN a.meta[i].generation ELSE 1
<1> DEFINE old(i) == IF i > Len(a.meta) THEN EMPTY ELSE a.meta[i]
           place == [i \in Awaiting(a) |-> Placed]
           new(i) == IF i \in Awaiting(a) THEN [old(i) EXCEPT !.location = place[i]]
                     ELSE a.meta[i]
<1>1. /\ a.meta \in Seq(Meta) /\ a.pending \in Seq(Int)
      /\ Len(a.meta) \in Nat /\ Len(a.pending) \in Nat
      /\ Grown(a) \in Nat /\ Grown(a) >= Len(a.meta) /\ Kept(a) \in Nat /\ Kept(a) <= Len(a.pending)
      /\ Awaiting(a) = {a.pending[k] : k \in Kept(a) + 1 .. Len(a.pending)}
                         \cup (Len(a.meta) + 1 .. Grown(a))
  BY EntitiesFields, AwaitingForm DEF Sound
<1>2. /\ b.meta = [i \in 1 .. Grown(a) |-> new(i)]
      /\ b.pending = SubSeq(a.pending, 1, Kept(a)) /\ b.cursor = Kept(a)
  BY DEF flush, Grown, Kept
<1>3. b \in Entities
  BY FlushSound DEF Sound
<1>4. /\ Len(b.meta) = Grown(a)
      /\ \A i \in 1 .. Grown(a) : b.meta[i] = new(i)
  <2>1. DOMAIN b.meta = 1 .. Grown(a)
    BY <1>2
  <2>2. b.meta \in Seq(Meta)
    BY <1>3, EntitiesFields
  <2>3. DOMAIN b.meta = 1 .. Len(b.meta) /\ Len(b.meta) \in Nat
    BY <2>2, LenProperties
  <2>4. Len(b.meta) = Grown(a)
    BY <1>1, <2>1, <2>3
  <2> QED
    BY <1>2, <2>4
<1>5. /\ Len(b.pending) = Kept(a)
      /\ \A k \in 1 .. Kept(a) : b.pending[k] = a.pending[k]
  <2>1. \A k \in 1 .. Kept(a) : a.pending[k] \in Int
    BY <1>1, ElementOfSeq
  <2>2. /\ Len(SubSeq(a.pending, 1, Kept(a))) = Kept(a)
        /\ \A k \in 1 .. Kept(a) : SubSeq(a.pending, 1, Kept(a))[k] = a.pending[1 + k - 1]
    BY <1>1, <2>1, SubSeqProperties
  <2>3. \A k \in 1 .. Kept(a) : 1 + k - 1 = k
    BY <1>1
  <2> QED
    BY <1>2, <2>2, <2>3
<1>6. ASSUME NEW i \in 1 .. Grown(a)
      PROVE  /\ new(i).location = IF i \in Awaiting(a) THEN Placed ELSE a.meta[i].location
             /\ new(i).generation = IF i <= Len(a.meta) THEN a.meta[i].generation ELSE 1
  <2>1. i > Len(a.meta) => i \in Awaiting(a)
    BY <1>1
  <2>2. old(i) \in Meta
    BY <1>1, EmptyMeta, Generations
  <2>3. \A r \in Meta : [r EXCEPT !.location = Placed].location = Placed
                        /\ [r EXCEPT !.location = Placed].generation = r.generation
    BY DEF Meta
  <2>4. i > Len(a.meta) => old(i).generation = 1
    BY DEF EMPTY
  <2>5. i <= Len(a.meta) => old(i) = a.meta[i]
    BY <1>1
  <2>6. CASE i \in Awaiting(a)
    <3>1. new(i) = [old(i) EXCEPT !.location = Placed]
      BY <2>6
    <3> HIDE DEF new, old
    <3> QED
      BY <1>1, <2>2, <2>3, <2>4, <2>5, <2>6, <3>1
  <2>7. CASE i \notin Awaiting(a)
    <3>1. new(i) = a.meta[i] /\ i <= Len(a.meta)
      BY <1>1, <2>1, <2>7
    <3> HIDE DEF new
    <3> QED
      BY <2>7, <3>1
  <2> QED
    BY <2>6, <2>7
<1> HIDE DEF new
<1> QED
  BY <1>2, <1>4, <1>5, <1>6

LEMMA FlushTidy ==
  ASSUME NEW a, Sound(a), Tidy(a), NEW b, b = flush(a, [i \in Awaiting(a) |-> Placed])
  PROVE  /\ Tidy(b) /\ ~needs_flush(b) /\ Awaiting(b) = {}
         /\ Occupied(b) = Occupied(a) \cup Awaiting(a)
         /\ \A i \in 1 .. Grown(a) : ResolveFromIndex(b, i) = ResolveFromIndex(a, i)
<1>1. /\ Len(a.meta) \in Nat /\ Len(a.pending) \in Nat
      /\ Grown(a) \in Nat /\ Grown(a) >= Len(a.meta) /\ Kept(a) \in Nat /\ Kept(a) <= Len(a.pending)
      /\ Awaiting(a) = {a.pending[k] : k \in Kept(a) + 1 .. Len(a.pending)}
                         \cup (Len(a.meta) + 1 .. Grown(a))
  BY AwaitingForm
<1>2. /\ Len(b.meta) = Grown(a) /\ Len(b.pending) = Kept(a) /\ b.cursor = Kept(a)
      /\ \A k \in 1 .. Kept(a) : b.pending[k] = a.pending[k]
      /\ \A i \in 1 .. Grown(a) :
           /\ b.meta[i].location = IF i \in Awaiting(a) THEN Placed ELSE a.meta[i].location
           /\ b.meta[i].generation = IF i <= Len(a.meta) THEN a.meta[i].generation ELSE 1
  BY FlushForm
<1>3. Sound(b)
  BY FlushSound
<1>4. ~needs_flush(b) /\ Awaiting(b) = {}
  BY <1>2, <1>3, AwaitingForm DEF needs_flush
<1>5. Occupied(a) \cap Awaiting(a) = {} /\ Occupied(a) \cup Awaiting(a) \subseteq 1 .. Grown(a)
  BY InUse
<1>6. Occupied(b) = Occupied(a) \cup Awaiting(a)
  <2>1. ASSUME NEW i \in 1 .. Grown(a), i \notin Awaiting(a) PROVE i \in 1 .. Len(a.meta)
    BY <1>1, <2>1
  <2> QED
    BY <1>2, <1>5, <2>1, PlacedAssumption DEF Occupied
<1>7. \A i \in 1 .. Grown(a) : ResolveFromIndex(b, i) = ResolveFromIndex(a, i)
  BY <1>1, <1>2 DEF ResolveFromIndex, Known
<1>8. /\ 1 .. Kept(a) \subseteq 1 .. Len(a.pending) /\ 1 .. Len(a.meta) \subseteq 1 .. Grown(a)
      /\ \A k \in 1 .. Len(a.pending) : k \in 1 .. Kept(a) \/ k \in Kept(a) + 1 .. Len(a.pending)
      /\ (1 .. Kept(a)) \cap (Kept(a) + 1 .. Len(a.pending)) = {}
      /\ Kept(a) + 1 .. Len(a.pending) \subseteq 1 .. Len(a.pending)
  BY <1>1
<1>9. ASSUME NEW i \in 1 .. Grown(a)
      PROVE  b.meta[i].location = NoLocation <=> \E k \in 1 .. Kept(a) : b.pending[k] = i
  <2>1. CASE i \in Awaiting(a)
    <3>1. b.meta[i].location # NoLocation
      BY <1>2, <2>1, PlacedAssumption
    <3>2. ASSUME NEW k \in 1 .. Kept(a), b.pending[k] = i PROVE FALSE
      <4>1. a.pending[k] = i /\ i \in 1 .. Len(a.meta)
        BY <1>2, <1>8, <3>2 DEF Tidy
      <4>2. PICK l \in Kept(a) + 1 .. Len(a.pending) : i = a.pending[l]
        BY <1>1, <2>1, <4>1
      <4>3. k = l
        BY <1>8, <4>1, <4>2 DEF Tidy
      <4> QED
        BY <1>8, <4>2, <4>3
    <3> QED
      BY <3>1, <3>2
  <2>2. CASE i \notin Awaiting(a)
    <3>1. i \in 1 .. Len(a.meta) /\ b.meta[i].location = a.meta[i].location
      BY <1>1, <1>2, <2>2
    <3>2. ASSUME NEW k \in 1 .. Len(a.pending), a.pending[k] = i PROVE k \in 1 .. Kept(a)
      BY <1>1, <1>8, <2>2, <3>2
    <3>3. (\E k \in 1 .. Len(a.pending) : a.pending[k] = i)
            <=> \E k \in 1 .. Kept(a) : b.pending[k] = i
      BY <1>2, <1>8, <3>2
    <3> QED
      BY <3>1, <3>3 DEF Tidy
  <2> QED
    BY <2>1, <2>2
<1>10. Tidy(b)
  <2>1. \A k \in 1 .. Kept(a) : a.pending[k] \in 1 .. Grown(a)
    BY <1>8 DEF Tidy
  <2>2. \A k, l \in 1 .. Kept(a) : a.pending[k] = a.pending[l] => k = l
    BY <1>8 DEF Tidy
  <2> QED
    BY <1>2, <1>9, <2>1, <2>2 DEF Tidy
<1> QED
  BY <1>4, <1>6, <1>7, <1>10

LEMMA SpawnTidy ==
  ASSUME NEW a, Sound(a), Tidy(a), ~needs_flush(a),
         NEW b, b = set(alloc(a), AllocIndex(a), Placed)
  PROVE  /\ Tidy(b) /\ ~needs_flush(b) /\ Awaiting(b) = {}
         /\ Occupied(b) = Occupied(a) \cup {AllocIndex(a)}
         /\ \A i : ResolveFromIndex(b, i) = ResolveFromIndex(a, i)
<1> DEFINE i == AllocIndex(a)
<1>1. /\ a.cursor = Len(a.pending)
      /\ a.meta \in Seq(Meta) /\ a.pending \in Seq(Int)
      /\ Len(a.meta) \in Nat /\ Len(a.pending) \in Nat
  BY EntitiesFields DEF Sound, needs_flush
<1>2. Sound(b)
  BY <1>1, SpawnSound
<1>3. ASSUME ~needs_flush(b), \A j : ResolveFromIndex(b, j) = ResolveFromIndex(a, j),
             Tidy(b), Occupied(b) = Occupied(a) \cup {i}
      PROVE  /\ Tidy(b) /\ ~needs_flush(b) /\ Awaiting(b) = {}
             /\ Occupied(b) = Occupied(a) \cup {i}
             /\ \A j : ResolveFromIndex(b, j) = ResolveFromIndex(a, j)
  BY <1>2, <1>3, AwaitingForm DEF needs_flush
<1>4. CASE a.pending # <<>>
  <2> DEFINE meta == [a.meta EXCEPT ![i].location = Placed]
             m == Len(a.pending) - 1
             pending == SubSeq(a.pending, 1, m)
  <2>0. Len(a.pending) \in 1 .. Len(a.pending) /\ m \in Nat /\ m <= Len(a.pending)
    BY <1>1, <1>4, EmptySeq
  <2>1. b.meta = meta /\ b.pending = pending /\ b.cursor = m
    BY <1>4 DEF alloc, set, Sound, Entities
  <2>2. i = a.pending[Len(a.pending)] /\ i \in 1 .. Len(a.meta) /\ a.meta[i].location = NoLocation
    BY <1>4, <2>0 DEF AllocIndex, Tidy
  <2>3. /\ Len(meta) = Len(a.meta)
        /\ \A j \in 1 .. Len(a.meta) :
             /\ meta[j].generation = a.meta[j].generation
             /\ meta[j].location = IF j = i THEN Placed ELSE a.meta[j].location
    <3>1. \A r \in Meta : /\ [r EXCEPT !.location = Placed] \in Meta
                          /\ [r EXCEPT !.location = Placed].generation = r.generation
                          /\ [r EXCEPT !.location = Placed].location = Placed
      BY SameGeneration DEF Meta
    <3>2. a.meta[i] \in Meta
      BY <1>1, <2>2, Generations
    <3>3. meta = [a.meta EXCEPT ![i] = [a.meta[i] EXCEPT !.location = Placed]]
      OBVIOUS
    <3>4. /\ Len(meta) = Len(a.meta)
          /\ \A j \in 1 .. Len(a.meta) :
               meta[j] = IF j = i THEN [a.meta[i] EXCEPT !.location = Placed] ELSE a.meta[j]
      BY <1>1, <2>2, <3>1, <3>2, <3>3, ExceptSeq
    <3> HIDE DEF meta
    <3> QED
      BY <3>1, <3>2, <3>4
  <2>4. Len(pending) = m /\ \A k \in 1 .. m : pending[k] = a.pending[k]
    <3>1. \A k \in 1 .. m : a.pending[k] \in Int
      BY <1>1, <2>0, ElementOfSeq
    <3> QED
      BY <1>1, <2>0, <3>1, SubSeqProperties
  <2>5. /\ 1 .. m \subseteq 1 .. Len(a.pending) /\ Len(a.pending) \notin 1 .. m
        /\ \A k \in 1 .. Len(a.pending) : k \in 1 .. m \/ k = Len(a.pending)
    BY <1>1, <2>0
  <2> HIDE DEF meta, pending, m, i
  <2>6. \A j : ResolveFromIndex(b, j) = ResolveFromIndex(a, j)
    BY <2>1, <2>3 DEF ResolveFromIndex, Known
  <2>7. Occupied(b) = Occupied(a) \cup {i}
    BY <2>1, <2>2, <2>3, PlacedAssumption DEF Occupied
  <2>8. ASSUME NEW j \in 1 .. Len(a.meta)
        PROVE  meta[j].location = NoLocation <=> \E k \in 1 .. m : pending[k] = j
    <3>1. CASE j = i
      <4>1. \A k \in 1 .. m : a.pending[k] # i
        BY <2>0, <2>2, <2>5 DEF Tidy
      <4> QED
        BY <2>3, <2>4, <3>1, <4>1, PlacedAssumption
    <3>2. CASE j # i
      <4>1. (\E k \in 1 .. Len(a.pending) : a.pending[k] = j) <=> \E k \in 1 .. m : pending[k] = j
        BY <2>2, <2>4, <2>5, <3>2
      <4> QED
        BY <2>3, <3>2, <4>1 DEF Tidy
    <3> QED
      BY <3>1, <3>2
  <2>9. Tidy(b)
    <3>1. \A k \in 1 .. m : pending[k] \in 1 .. Len(a.meta)
      BY <2>4, <2>5 DEF Tidy
    <3>2. \A k, l \in 1 .. m : pending[k] = pending[l] => k = l
      BY <2>4, <2>5 DEF Tidy
    <3> QED
      BY <2>1, <2>3, <2>4, <2>8, <3>1, <3>2 DEF Tidy
  <2>10. ~needs_flush(b)
    BY <2>1, <2>4 DEF needs_flush
  <2> QED
    BY <1>3, <2>6, <2>7, <2>9, <2>10 DEF i
<1>5. CASE a.pending = <<>>
  <2> DEFINE grown == Append(a.meta, EMPTY)
             meta == [grown EXCEPT ![i].location = Placed]
             n == Len(a.meta) + 1
  <2>1. b.meta = meta /\ b.pending = a.pending /\ b.cursor = a.cursor /\ Len(a.pending) = 0
    BY <1>5 DEF alloc, set, Sound, Entities
  <2>2. /\ i = n /\ n \in 1 .. n /\ n \notin 1 .. Len(a.meta) /\ n \in Nat
        /\ \A j \in 1 .. n : j \in 1 .. Len(a.meta) \/ j = n
        /\ 1 .. Len(a.meta) \subseteq 1 .. n
    BY <1>1, <1>5 DEF AllocIndex
  <2>3. /\ grown \in Seq(Meta) /\ Len(grown) = n
        /\ \A j \in 1 .. Len(a.meta) : grown[j] = a.meta[j]
        /\ grown[n] = EMPTY
    BY <1>1, EmptyMeta
  <2>4. /\ Len(meta) = n
        /\ \A j \in 1 .. n :
             /\ meta[j].generation = grown[j].generation
             /\ meta[j].location = IF j = i THEN Placed ELSE grown[j].location
    <3> HIDE DEF grown, n
    <3>1. \A r \in Meta : /\ [r EXCEPT !.location = Placed] \in Meta
                          /\ [r EXCEPT !.location = Placed].generation = r.generation
                          /\ [r EXCEPT !.location = Placed].location = Placed
      BY SameGeneration DEF Meta
    <3>2. grown[i] \in Meta
      BY <2>2, <2>3, Generations
    <3>3. meta = [grown EXCEPT ![i] = [grown[i] EXCEPT !.location = Placed]]
      OBVIOUS
    <3>4. /\ Len(meta) = n
          /\ \A j \in 1 .. n :
               meta[j] = IF j = i THEN [grown[i] EXCEPT !.location = Placed] ELSE grown[j]
      BY <2>2, <2>3, <3>1, <3>2, <3>3, ExceptSeq
    <3> HIDE DEF meta
    <3> QED
      BY <3>1, <3>2, <3>4
  <2> HIDE DEF meta, grown, i, n
  <2>5. \A j \in 1 .. Len(a.meta) : /\ meta[j].generation = a.meta[j].generation
                                    /\ meta[j].location = a.meta[j].location
    BY <2>2, <2>3, <2>4
  <2>6. meta[n].generation = 1 /\ meta[n].location = Placed
    BY <2>2, <2>3, <2>4 DEF EMPTY
  <2>7. \A j : ResolveFromIndex(b, j) = ResolveFromIndex(a, j)
    BY <2>1, <2>2, <2>4, <2>5, <2>6 DEF ResolveFromIndex, Known
  <2>8. Occupied(b) = Occupied(a) \cup {i}
    BY <2>1, <2>2, <2>4, <2>5, <2>6, PlacedAssumption DEF Occupied
  <2>9. \A k : k \notin 1 .. Len(a.pending)
    BY <2>1
  <2>10. Tidy(b)
    BY <2>1, <2>2, <2>4, <2>5, <2>6, <2>9, PlacedAssumption DEF Tidy
  <2>11. ~needs_flush(b)
    BY <1>1, <2>1 DEF needs_flush
  <2> QED
    BY <1>3, <2>7, <2>8, <2>10, <2>11 DEF i
<1> QED
  BY <1>4, <1>5

LEMMA FreeTidy ==
  ASSUME NEW a, Sound(a), Tidy(a), Awaiting(a) = {}, NEW e, Exists(a, e),
         e.generation < MaxGeneration, NEW b, b = free(a, e)
  PROVE  /\ Tidy(b) /\ ~needs_flush(b) /\ Awaiting(b) = {}
         /\ Occupied(b) = Occupied(a) \ {e.index}
         /\ \A i \in Occupied(b) : ResolveFromIndex(b, i) = ResolveFromIndex(a, i)
<1> DEFINE x == e.index
           freed == [generation |-> inc_masked_high(e.generation), location |-> NoLocation]
           meta == [a.meta EXCEPT ![x] = freed]
           pending == Append(a.pending, x)
           p == Len(a.pending) + 1
<1>1. /\ a.meta \in Seq(Meta) /\ a.pending \in Seq(Int)
      /\ Len(a.meta) \in Nat /\ Len(a.pending) \in Nat
  BY EntitiesFields DEF Sound
<1>2. /\ x \in 1 .. Len(a.meta) /\ a.meta[x].generation = e.generation
      /\ a.meta[x].location # NoLocation
  BY DEF Exists, Known
<1>3. b.meta = meta /\ b.pending = pending /\ b.cursor = p
  BY <1>2 DEF free
<1>4. Sound(b)
  BY <1>2, FreeSound DEF Known
<1>5. /\ Len(meta) = Len(a.meta)
      /\ \A j \in 1 .. Len(a.meta) : meta[j] = IF j = x THEN freed ELSE a.meta[j]
  <2>1. Len(meta) = Len(a.meta)
    <3>1. DOMAIN meta = DOMAIN a.meta
      OBVIOUS
    <3>2. DOMAIN a.meta = 1 .. Len(a.meta) /\ b.meta \in Seq(Meta)
      BY <1>1, <1>4, LenProperties, EntitiesFields DEF Sound
    <3>3. DOMAIN meta = 1 .. Len(meta) /\ Len(meta) \in Nat
      BY <1>3, <3>2, LenProperties
    <3> QED
      BY <1>1, <3>1, <3>2, <3>3
  <2>2. \A j \in 1 .. Len(a.meta) : meta[j] = IF j = x THEN freed ELSE a.meta[j]
    BY <1>1
  <2> QED
    BY <2>1, <2>2
<1>6. /\ Len(pending) = p /\ pending[p] = x /\ p \in 1 .. p
      /\ \A k \in 1 .. Len(a.pending) : pending[k] = a.pending[k]
      /\ \A k \in 1 .. p : k \in 1 .. Len(a.pending) \/ k = p
      /\ 1 .. Len(a.pending) \subseteq 1 .. p /\ p \notin 1 .. Len(a.pending)
  BY <1>1
<1>7. freed.location = NoLocation
  OBVIOUS
<1> HIDE DEF meta, pending, freed, p
<1>8. ~needs_flush(b) /\ Awaiting(b) = {}
  BY <1>3, <1>4, <1>6, AwaitingForm DEF needs_flush
<1>9. Occupied(b) = Occupied(a) \ {x}
  BY <1>3, <1>5, <1>7 DEF Occupied
<1>10. \A i \in Occupied(b) : ResolveFromIndex(b, i) = ResolveFromIndex(a, i)
  BY <1>3, <1>5, <1>9 DEF Occupied, ResolveFromIndex, Known
<1>11. \A k \in 1 .. Len(a.pending) : a.pending[k] \in 1 .. Len(a.meta) /\ a.pending[k] # x
  BY <1>2 DEF Tidy
<1>12. ASSUME NEW j \in 1 .. Len(a.meta)
       PROVE  meta[j].location = NoLocation <=> \E k \in 1 .. p : pending[k] = j
  <2>1. CASE j = x
    BY <1>5, <1>6, <1>7, <2>1
  <2>2. CASE j # x
    <3>1. (\E k \in 1 .. p : pending[k] = j) <=> \E k \in 1 .. Len(a.pending) : a.pending[k] = j
      BY <1>6, <2>2
    <3> QED
      BY <1>5, <2>2, <3>1 DEF Tidy
  <2> QED
    BY <2>1, <2>2
<1>13. Tidy(b)
  <2>1. \A k \in 1 .. p : pending[k] \in 1 .. Len(a.meta)
    BY <1>2, <1>6, <1>11
  <2>2. \A k, l \in 1 .. p : pending[k] = pending[l] => k = l
    BY <1>6, <1>11 DEF Tidy
  <2> QED
    BY <1>3, <1>5, <1>6, <1>12, <2>1, <2>2 DEF Tidy
<1> QED
  BY <1>8, <1>9, <1>10, <1>13

\* The steps.
LEMMA SameIds ==
  ASSUME NEW a, NEW b, NEW S, \A i \in S : ResolveFromIndex(b, i) = ResolveFromIndex(a, i)
  PROVE  Ids(b, S) = Ids(a, S)
BY DEF Ids

LEMMA HandlesStay ==
  ASSUME HandlesInv, ents' = ents, held' = held
  PROVE  HandlesInv'
BY DEF HandlesInv, Tidy, Ids, Occupied

LEMMA FlushHandles ==
  ASSUME IInv, HandlesInv, ents' = flush_entities, held' = held
  PROVE  HandlesInv' /\ ~needs_flush(ents')
<1>1. /\ Tidy(ents') /\ ~needs_flush(ents') /\ Awaiting(ents') = {}
      /\ Occupied(ents') = Occupied(ents) \cup Awaiting(ents)
      /\ \A i \in 1 .. Grown(ents) : ResolveFromIndex(ents', i) = ResolveFromIndex(ents, i)
      /\ Occupied(ents) \cup Awaiting(ents) \subseteq 1 .. Grown(ents)
  BY FlushTidy, InUse DEF IInv, HandlesInv, flush_entities
<1>2. Ids(ents', Occupied(ents')) = Ids(ents, Occupied(ents) \cup Awaiting(ents))
  BY <1>1, SameIds
<1>3. Occupied(ents') \cup Awaiting(ents') = Occupied(ents')
  BY <1>1
<1> QED
  BY <1>1, <1>2, <1>3 DEF HandlesInv

LEMMA QueueHandles ==
  ASSUME IInv, HandlesInv, NEW q, NEW name, Queue(q, name)
  PROVE  HandlesInv'
<1>1. CASE ents' = ents /\ held' = held
  BY <1>1, HandlesStay
<1>2. CASE ents' = reserve_entity(ents) /\ held' = held \cup {NextId(ents)}
  <2> DEFINE S == Occupied(ents) \cup Awaiting(ents)
             T == Occupied(ents') \cup Awaiting(ents')
  <2>1. /\ Tidy(ents') /\ T = S \cup {NextIndex(ents)}
        /\ \A i : ResolveFromIndex(ents', i) = ResolveFromIndex(ents, i)
    BY <1>2, ReserveTidy DEF IInv, HandlesInv
  <2>2. held = Ids(ents, S)
    BY DEF HandlesInv
  <2> HIDE DEF S, T
  <2>3. Ids(ents', T) = Ids(ents, T)
    BY <2>1, SameIds
  <2>4. held' = Ids(ents', T)
    BY <1>2, <2>1, <2>2, <2>3 DEF Ids, NextId
  <2> QED
    BY <2>1, <2>4 DEF HandlesInv, T
<1> QED
  BY <1>1, <1>2 DEF Queue

LEMMA SpawnHandles ==
  ASSUME IInv, HandlesInv, SpawnNow
  PROVE  HandlesInv' /\ ~needs_flush(ents')
<1> DEFINE S == Occupied(ents) \cup Awaiting(ents)
           T == Occupied(ents') \cup Awaiting(ents')
<1>1. /\ Tidy(ents') /\ ~needs_flush(ents') /\ Awaiting(ents') = {}
      /\ Occupied(ents') = Occupied(ents) \cup {AllocIndex(ents)}
      /\ \A i : ResolveFromIndex(ents', i) = ResolveFromIndex(ents, i)
      /\ Awaiting(ents) = {}
  BY SpawnTidy, AwaitingForm DEF IInv, HandlesInv, SpawnNow, needs_flush
<1>2. held = Ids(ents, S) /\ held' = held \cup {AllocId(ents)} /\ T = S \cup {AllocIndex(ents)}
  BY <1>1 DEF HandlesInv, SpawnNow
<1> HIDE DEF S, T
<1>3. Ids(ents', T) = Ids(ents, T)
  BY <1>1, SameIds
<1>4. held' = Ids(ents', T)
  BY <1>2, <1>3 DEF Ids, AllocId
<1> QED
  BY <1>1, <1>4 DEF HandlesInv, T

\* An entity that exists is a handle, unless it was destroyed.
LEMMA DespawnHandles ==
  ASSUME IInv, HandlesInv, NEW e \in held \cup killed, NEW below,
         e.generation < MaxGeneration, despawn(e, below)
  PROVE  HandlesInv' /\ ~needs_flush(ents')
<1>1. CASE ~Exists(ents, e)
  BY <1>1, FlushHandles DEF despawn
<1>2. CASE Exists(ents, e)
  <2> DEFINE S == Occupied(ents) \cup Awaiting(ents)
  <2>0. PICK a : a = flush_entities
    OBVIOUS
  <2>1. ents' = free(a, e) /\ held' = held \ {e} /\ held = Ids(ents, S)
    BY <1>2, <2>0 DEF despawn, BeforeDespawn, HandlesInv
  <2>2. /\ Sound(a) /\ Tidy(a) /\ Awaiting(a) = {} /\ Occupied(a) = S
        /\ \A i \in 1 .. Grown(ents) : ResolveFromIndex(a, i) = ResolveFromIndex(ents, i)
        /\ S \subseteq 1 .. Grown(ents)
    BY <2>0, FlushSound, FlushTidy, InUse DEF IInv, HandlesInv, flush_entities
  <2>3. e \in held
    <3>1. e \in killed => ~Exists(ents, e)
      BY InvariantKillsDead DEF DeadStaysDead
    <3> QED
      BY <1>2, <3>1
  <2> HIDE DEF S
  <2>4. PICK x \in S : e = ResolveFromIndex(ents, x)
    BY <2>1, <2>3 DEF Ids
  <2>5. e.index = x /\ e = ResolveFromIndex(a, x)
    BY <2>2, <2>4 DEF ResolveFromIndex, Id
  <2>6. Exists(a, e)
    <3>1. x \in 1 .. Len(a.meta) /\ a.meta[x].location # NoLocation
      BY <2>2 DEF Occupied
    <3> QED
      BY <2>5, <3>1 DEF Exists, Known, ResolveFromIndex, Id
  <2>7. /\ Tidy(ents') /\ ~needs_flush(ents') /\ Awaiting(ents') = {}
        /\ Occupied(ents') = S \ {x}
        /\ \A i \in Occupied(ents') : ResolveFromIndex(ents', i) = ResolveFromIndex(a, i)
    BY <2>1, <2>2, <2>5, <2>6, FreeTidy
  <2>8. Ids(ents', S \ {x}) = Ids(ents, S \ {x})
    <3>1. \A i \in S \ {x} : ResolveFromIndex(ents', i) = ResolveFromIndex(ents, i)
      BY <2>2, <2>7
    <3> QED
      BY <3>1, SameIds
  <2>9. Ids(ents, S \ {x}) = Ids(ents, S) \ {e}
    BY <2>4 DEF Ids, ResolveFromIndex, Id
  <2>10. Occupied(ents') \cup Awaiting(ents') = S \ {x}
    BY <2>7
  <2> QED
    BY <2>1, <2>7, <2>8, <2>9, <2>10 DEF HandlesInv
<1> QED
  BY <1>1, <1>2

LEMMA InitHandles == Init => HandlesInv
<1> SUFFICES ASSUME Init PROVE HandlesInv
  OBVIOUS
<1>1. ents = NewEntities /\ held = {}
  BY DEF Init
<1> QED
  BY <1>1, NewTidy DEF HandlesInv, Ids

\* As many ids as indices.
LEMMA IdsCount ==
  ASSUME NEW a, NEW S, IsFiniteSet(S)
  PROVE  IsFiniteSet(Ids(a, S)) /\ Cardinality(Ids(a, S)) = Cardinality(S)
<1> DEFINE f == [i \in S |-> ResolveFromIndex(a, i)]
<1>1. \A i, j \in S : f[i] = f[j] => i = j
  BY DEF ResolveFromIndex, Id
<1>2. f \in Bijection(S, Ids(a, S))
  <2>1. f \in [S -> Ids(a, S)]
    BY DEF Ids
  <2>2. \A e \in Ids(a, S) : \E i \in S : f[i] = e
    BY DEF Ids
  <2> HIDE DEF f
  <2> QED
    BY <1>1, <2>1, <2>2 DEF Bijection, Injection, Surjection, IsInjective
<1>3. ExistsBijection(S, Ids(a, S))
  BY <1>2 DEF ExistsBijection
<1> QED
  BY <1>3, FS_Bijection

LEMMA InvariantCountsHandles == IInv /\ HandlesInv => HandlesExact
<1> SUFFICES ASSUME IInv, HandlesInv PROVE HandlesExact
  OBVIOUS
<1>1. /\ Occupied(ents) \cap Awaiting(ents) = {} /\ Grown(ents) \in Nat
      /\ Occupied(ents) \cup Awaiting(ents) \subseteq 1 .. Grown(ents)
  BY InUse, AwaitingForm DEF IInv, HandlesInv
<1>2. IsFiniteSet(Occupied(ents)) /\ IsFiniteSet(Awaiting(ents))
  <2>1. IsFiniteSet(1 .. Grown(ents))
    BY <1>1, FS_Interval
  <2>2. Occupied(ents) \in SUBSET (1 .. Grown(ents)) /\ Awaiting(ents) \in SUBSET (1 .. Grown(ents))
    BY <1>1
  <2> QED
    BY <2>1, <2>2, FS_Subset
<1>3. Alive(ents) = Ids(ents, Occupied(ents))
  BY DEF Alive, Ids, Occupied, Exists, ResolveFromIndex, Id, Known
<1>4. Reserved(ents) = Ids(ents, Awaiting(ents))
  BY DEF Reserved, Ids
<1>5. held = Alive(ents) \cup Reserved(ents)
  BY <1>3, <1>4 DEF HandlesInv, Ids
<1>6. Alive(ents) \cap Reserved(ents) = {}
  BY <1>1, <1>3, <1>4 DEF Ids, ResolveFromIndex, Id
<1>7. /\ IsFiniteSet(Alive(ents)) /\ IsFiniteSet(Reserved(ents))
      /\ Cardinality(Reserved(ents)) = Cardinality(Awaiting(ents))
  BY <1>2, <1>3, <1>4, IdsCount
<1>8. Cardinality(held) = Cardinality(Alive(ents)) + Cardinality(Reserved(ents))
  <2>1. Cardinality({}) = 0
    BY FS_EmptySet
  <2>2. /\ Cardinality(held) = Cardinality(Alive(ents)) + Cardinality(Reserved(ents))
                                - Cardinality(Alive(ents) \cap Reserved(ents))
        /\ Cardinality(Alive(ents)) \in Nat /\ Cardinality(Reserved(ents)) \in Nat
    BY <1>5, <1>7, FS_Union, FS_CardinalityType
  <2>3. Cardinality(Alive(ents) \cap Reserved(ents)) = 0
    BY <1>6, <2>1
  <2> QED
    BY <2>2, <2>3
<1> QED
  BY <1>5, <1>7, <1>8 DEF HandlesExact

-----------------------------------------------------------------------------
(***************************************************************************)
(* 3. The vectors and the frames of the calls that are nested in them.     *)
(***************************************************************************)
FrameOf(C) == [queue : AllQueues, start : Nat, stop : Nat, local : Nat,
               run : {None} \cup C, kids : Nat]

QueueOf(C) == [bytes : Seq(C), cursor : Nat, panic_recovery : Seq(C)]

Topmost(S) == S[Len(S)]

\* Where the frames of S end in the vector of q.
EndOf(S, q) ==
  IF S = <<>> THEN 0
  ELSE IF Topmost(S).queue = q THEN Topmost(S).stop
  ELSE IF S[1].queue = q THEN S[1].stop ELSE 0

\* A frame has its part of a vector, and runs commands of it before it calls another.
FrameInOrder(Q, S, i) ==
  /\ S[i].start <= S[i].local /\ S[i].local <= S[i].stop
  /\ S[i].stop <= Len(Q[S[i].queue].bytes)
  /\ S[i].run # None \/ i < Len(S) => S[i].start < S[i].local
  /\ i < Len(S) => S[i].run = None \/ S[i].run.kind = "closure"
  /\ i = 1 => S[i].start = 0
  /\ i > 1 => S[i].queue = World

\* Frames of commands in C on vectors of them: each begins where another ends, and the
\* cursors are at the end of them.
InOrder(Q, S) ==
  /\ \A i \in 1 .. Len(S) : FrameInOrder(Q, S, i)
  /\ \A i, j \in 1 .. Len(S) : i < j /\ S[i].queue = S[j].queue => S[i].stop <= S[j].start
  /\ \A i, j \in 1 .. Len(S) : j = i + 1 =>
       S[j].start = IF S[i].queue = World THEN S[i].stop ELSE 0
  /\ \A q \in AllQueues : Q[q].cursor = EndOf(S, q)
  /\ S # <<>> /\ S[1].queue # World => Len(Q[S[1].queue].bytes) = S[1].stop

Shape(Q, S, C) ==
  /\ Q \in [AllQueues -> QueueOf(C)] /\ S \in Seq(FrameOf(C))
  /\ InOrder(Q, S)

\* A call begins on q.
CalledFrom(S, q) ==
  S # <<>> => /\ q = World /\ Topmost(S).start < Topmost(S).local
              /\ Topmost(S).run = None \/ Topmost(S).run.kind = "closure"

NewCall(Q, q) == [queue |-> q, start |-> Q[q].cursor, stop |-> Len(Q[q].bytes),
                  local |-> Q[q].cursor, run |-> None, kids |-> 0]

\* The topmost frame of S goes on as f.
Continues(S, f) ==
  /\ f.queue = Topmost(S).queue /\ f.start = Topmost(S).start /\ f.stop = Topmost(S).stop
  /\ Topmost(S).local <= f.local /\ f.local <= f.stop
  /\ f.run # None => f.start < f.local

\* The topmost frame of S is left, with v in the place of its queue.
Leaves(Q, S, v, R) ==
  /\ v.cursor = Topmost(S).start
  /\ Topmost(S).start > 0 => Len(v.bytes) = Topmost(S).start
  /\ R = [Q EXCEPT ![Topmost(S).queue] = v]

Popped(S, T) == Len(T) = Len(S) - 1 /\ \A i \in 1 .. Len(S) - 1 : T[i] = S[i]

WithoutTop(S, T) == T = SubSeq(S, 1, Len(S) - 1)

WithTop(S, f, T) == T = [S EXCEPT ![Len(S)] = f]

Refilled(Q, q, s, R) == R = [Q EXCEPT ![q].bytes = s]

Called(Q, S, q, R, T) ==
  /\ R = [Q EXCEPT ![q].cursor = Len(Q[q].bytes)]
  /\ T = Append(S, NewCall(Q, q))

-----------------------------------------------------------------------------
LEMMA StackForm ==
  ASSUME NEW C, NEW S \in Seq(FrameOf(C))
  PROVE  /\ Len(S) \in Nat /\ DOMAIN S = 1 .. Len(S)
         /\ \A i \in 1 .. Len(S) :
              /\ S[i] \in FrameOf(C)
              /\ S[i].queue \in AllQueues /\ S[i].start \in Nat /\ S[i].stop \in Nat
              /\ S[i].local \in Nat /\ S[i].run \in {None} \cup C /\ S[i].kids \in Nat
         /\ S = <<>> <=> Len(S) = 0
         /\ S # <<>> => Len(S) \in 1 .. Len(S) /\ 1 \in 1 .. Len(S)
<1>1. Len(S) \in Nat /\ DOMAIN S = 1 .. Len(S) /\ (S = <<>> <=> Len(S) = 0)
  BY LenProperties, EmptySeq
<1>2. ASSUME NEW i \in 1 .. Len(S)
      PROVE  /\ S[i] \in FrameOf(C)
             /\ S[i].queue \in AllQueues /\ S[i].start \in Nat /\ S[i].stop \in Nat
             /\ S[i].local \in Nat /\ S[i].run \in {None} \cup C /\ S[i].kids \in Nat
  <2>1. S[i] \in FrameOf(C)
    BY ElementOfSeq
  <2> QED
    BY <2>1 DEF FrameOf
<1> QED
  BY <1>1, <1>2

LEMMA VectorForm ==
  ASSUME NEW C, NEW Q \in [AllQueues -> QueueOf(C)], NEW q \in AllQueues
  PROVE  /\ Q[q] \in QueueOf(C)
         /\ Q[q].bytes \in Seq(C) /\ Q[q].cursor \in Nat /\ Q[q].panic_recovery \in Seq(C)
         /\ Len(Q[q].bytes) \in Nat /\ Len(Q[q].panic_recovery) \in Nat
         /\ \A k \in 1 .. Len(Q[q].bytes) : Q[q].bytes[k] \in C
         /\ \A k \in 1 .. Len(Q[q].panic_recovery) : Q[q].panic_recovery[k] \in C
         /\ Q[q] = [bytes |-> Q[q].bytes, cursor |-> Q[q].cursor,
                    panic_recovery |-> Q[q].panic_recovery]
<1>1. /\ Q[q] \in QueueOf(C)
      /\ Q[q].bytes \in Seq(C) /\ Q[q].cursor \in Nat /\ Q[q].panic_recovery \in Seq(C)
      /\ Q[q] = [bytes |-> Q[q].bytes, cursor |-> Q[q].cursor,
                 panic_recovery |-> Q[q].panic_recovery]
  BY DEF QueueOf
<1> QED
  BY <1>1, LenProperties, ElementOfSeq

\* Every cursor is within its vector.
LEMMA CursorWithin ==
  ASSUME NEW C, NEW Q, NEW S, Shape(Q, S, C), NEW q \in AllQueues
  PROVE  Q[q].cursor <= Len(Q[q].bytes)
<1>1. /\ Q \in [AllQueues -> QueueOf(C)] /\ S \in Seq(FrameOf(C))
      /\ \A i \in 1 .. Len(S) : S[i].stop <= Len(Q[S[i].queue].bytes)
      /\ Q[q].cursor = EndOf(S, q)
  BY DEF Shape, InOrder, FrameInOrder
<1>2. Len(Q[q].bytes) \in Nat
  BY <1>1, VectorForm
<1>3. S # <<>> => Len(S) \in 1 .. Len(S) /\ 1 \in 1 .. Len(S)
  BY <1>1, StackForm
<1> QED
  BY <1>1, <1>2, <1>3 DEF EndOf, Topmost

\* The topmost frame starts another command, or none: its place in the vector stays.
LEMMA TopRuns ==
  ASSUME NEW C, NEW Q, NEW S, Shape(Q, S, C), S # <<>>, NEW f \in FrameOf(C), NEW T,
         Continues(S, f), WithTop(S, f, T)
  PROVE  /\ Shape(Q, T, C) /\ Len(T) = Len(S) /\ Topmost(T) = f
         /\ \A i \in 1 .. Len(S) : i # Len(S) => T[i] = S[i]
<1> T = [S EXCEPT ![Len(S)] = f]
  BY DEF WithTop
<1> /\ f.queue = Topmost(S).queue /\ f.start = Topmost(S).start /\ f.stop = Topmost(S).stop
    /\ Topmost(S).local <= f.local /\ f.local <= f.stop
    /\ f.run # None => f.start < f.local
  BY DEF Continues
<1> DEFINE n == Len(S)
<1>1. /\ Q \in [AllQueues -> QueueOf(C)] /\ S \in Seq(FrameOf(C)) /\ InOrder(Q, S)
      /\ n \in Nat /\ n \in 1 .. n /\ 1 \in 1 .. n
  BY StackForm DEF Shape
<1>2. T \in Seq(FrameOf(C)) /\ Len(T) = n /\ \A j \in 1 .. n : T[j] = IF j = n THEN f ELSE S[j]
  BY <1>1, ExceptSeq
<1>3. \A j \in 1 .. n : /\ T[j].queue = S[j].queue /\ T[j].start = S[j].start
                        /\ T[j].stop = S[j].stop
  BY <1>2 DEF Topmost
<1>4. T # <<>>
  BY <1>1, <1>2, StackForm
<1>5. ASSUME NEW i \in 1 .. n PROVE FrameInOrder(Q, T, i)
  <2>1. FrameInOrder(Q, S, i)
    BY <1>1 DEF InOrder
  <2>2. CASE i # n
    BY <1>2, <2>1, <2>2 DEF FrameInOrder
  <2>3. CASE i = n
    <3>1. /\ T[i] = f /\ ~(i < n) /\ f.start \in Nat /\ f.local \in Nat
          /\ Topmost(S) = S[i] /\ S[i].start \in Nat /\ S[i].local \in Nat
      <4>1. f.start \in Nat /\ f.local \in Nat
        BY DEF FrameOf
      <4>2. S[n].start \in Nat /\ S[n].local \in Nat
        BY <1>1, StackForm
      <4> QED
        BY <1>1, <1>2, <2>3, <4>1, <4>2 DEF Topmost
    <3> QED
      BY <1>2, <2>1, <2>3, <3>1 DEF FrameInOrder
  <2> QED
    BY <2>2, <2>3
<1>6. \A q \in AllQueues : EndOf(T, q) = EndOf(S, q)
  BY <1>1, <1>2, <1>3, <1>4 DEF EndOf, Topmost
<1>7. InOrder(Q, T)
  <2> HIDE DEF n
  <2>1. \A i, j \in 1 .. n : i < j /\ T[i].queue = T[j].queue => T[i].stop <= T[j].start
    BY <1>1, <1>3 DEF InOrder, n
  <2>2. \A i, j \in 1 .. n : j = i + 1 =>
           T[j].start = IF T[i].queue = World THEN T[i].stop ELSE 0
    BY <1>1, <1>3 DEF InOrder, n
  <2>3. \A q \in AllQueues : Q[q].cursor = EndOf(T, q)
    BY <1>1, <1>6 DEF InOrder
  <2>4. T[1].queue # World => Len(Q[T[1].queue].bytes) = T[1].stop
    BY <1>1, <1>3 DEF InOrder
  <2>5. Len(T) = n
    BY <1>2
  <2> QED
    BY <1>5, <2>1, <2>2, <2>3, <2>4, <2>5 DEF InOrder
<1> QED
  BY <1>1, <1>2, <1>7 DEF Shape, Topmost

\* Another call, on top of a frame that has taken a command, or on no frame.
LEMMA CallBegins ==
  ASSUME NEW C, NEW Q, NEW S, Shape(Q, S, C), NEW q \in AllQueues, CalledFrom(S, q),
         NEW R, NEW T, Called(Q, S, q, R, T)
  PROVE  /\ Shape(R, T, C) /\ Len(T) = Len(S) + 1 /\ T[Len(S) + 1] = NewCall(Q, q)
         /\ \A i \in 1 .. Len(S) : T[i] = S[i]
<1> PICK f : f = NewCall(Q, q)
  OBVIOUS
<1> f = [queue |-> q, start |-> Q[q].cursor, stop |-> Len(Q[q].bytes),
         local |-> Q[q].cursor, run |-> None, kids |-> 0]
  BY DEF NewCall
<1> S # <<>> => /\ q = World /\ Topmost(S).start < Topmost(S).local
                /\ Topmost(S).run = None \/ Topmost(S).run.kind = "closure"
  BY DEF CalledFrom
<1> R = [Q EXCEPT ![q].cursor = Len(Q[q].bytes)]
  BY DEF Called
<1> T = Append(S, f)
  BY DEF Called
<1> DEFINE n == Len(S)
<1>1. /\ Q \in [AllQueues -> QueueOf(C)] /\ S \in Seq(FrameOf(C)) /\ InOrder(Q, S)
      /\ n \in Nat /\ (S = <<>> <=> n = 0) /\ (S # <<>> => n \in 1 .. n /\ 1 \in 1 .. n)
  BY StackForm DEF Shape
<1>2. Q[q].cursor \in Nat /\ Len(Q[q].bytes) \in Nat /\ Q[q].cursor <= Len(Q[q].bytes)
  BY <1>1, VectorForm, CursorWithin
<1>3. f \in FrameOf(C)
  BY <1>2 DEF FrameOf
<1>4. /\ T \in Seq(FrameOf(C)) /\ T # <<>> /\ Len(T) = n + 1 /\ T[n + 1] = f
      /\ \A i \in 1 .. n : T[i] = S[i]
  BY <1>1, <1>3, AppendProperties
<1>5. /\ R \in [AllQueues -> QueueOf(C)]
      /\ \A p \in AllQueues : R[p].bytes = Q[p].bytes /\ R[p].panic_recovery = Q[p].panic_recovery
      /\ \A p \in AllQueues : R[p].cursor = IF p = q THEN Len(Q[q].bytes) ELSE Q[p].cursor
  <2>0. Q[q] \in QueueOf(C)
    BY <1>1, VectorForm
  <2>1. [Q[q] EXCEPT !.cursor = Len(Q[q].bytes)] \in QueueOf(C)
    BY <1>2, <2>0 DEF QueueOf
  <2>2. R = [Q EXCEPT ![q] = [Q[q] EXCEPT !.cursor = Len(Q[q].bytes)]]
    OBVIOUS
  <2>3. /\ [Q[q] EXCEPT !.cursor = Len(Q[q].bytes)].bytes = Q[q].bytes
        /\ [Q[q] EXCEPT !.cursor = Len(Q[q].bytes)].panic_recovery = Q[q].panic_recovery
        /\ [Q[q] EXCEPT !.cursor = Len(Q[q].bytes)].cursor = Len(Q[q].bytes)
    BY <1>1, VectorForm DEF QueueOf
  <2> QED
    BY <1>1, <2>1, <2>2, <2>3
<1>6. /\ \A i \in 1 .. n + 1 : i \in 1 .. n \/ i = n + 1
      /\ \A i \in 1 .. n : i \in 1 .. n + 1 /\ i < n + 1
      /\ n + 1 \in 1 .. n + 1 /\ 1 \in 1 .. n + 1
  BY <1>1
<1>7. ASSUME NEW i \in 1 .. n
      PROVE  /\ S[i].stop \in Nat /\ S[i].start \in Nat /\ S[i].local \in Nat
             /\ S[i].queue \in AllQueues
             /\ S[i].queue = q => S[i].stop <= Q[q].cursor
  <2>1. /\ S[i].stop \in Nat /\ S[i].start \in Nat /\ S[i].local \in Nat
        /\ S[i].queue \in AllQueues
    BY <1>1, StackForm
  <2>2. ASSUME S[i].queue = q PROVE S[i].stop <= Q[q].cursor
    <3>1. S # <<>> /\ q = World /\ n \in 1 .. n /\ S[n].queue \in AllQueues
      <4>1. S # <<>>
        BY <1>1
      <4> QED
        BY <1>1, <4>1, StackForm
    <3>2. CASE i = n
      BY <1>1, <2>1, <2>2, <3>1, <3>2 DEF InOrder, EndOf, Topmost
    <3>3. CASE i # n
      <4>1. i < n /\ n > 1
        BY <1>1, <3>3
      <4>2. S[n].queue = World
        BY <1>1, <3>1, <4>1 DEF InOrder, FrameInOrder
      <4>3. S[i].stop <= S[n].start /\ S[n].start <= S[n].local /\ S[n].local <= S[n].stop
        BY <1>1, <2>2, <3>1, <4>1, <4>2 DEF InOrder, FrameInOrder
      <4>4. Q[q].cursor = S[n].stop
        BY <1>1, <3>1, <4>2 DEF InOrder, EndOf, Topmost
      <4>5. S[n].start \in Nat /\ S[n].local \in Nat /\ S[n].stop \in Nat
        BY <1>1, <3>1, StackForm
      <4> QED
        BY <2>1, <4>3, <4>4, <4>5
    <3> QED
      BY <3>2, <3>3
  <2> QED
    BY <2>1, <2>2
<1>8. ASSUME NEW i \in 1 .. n + 1 PROVE FrameInOrder(R, T, i)
  <2>1. CASE i \in 1 .. n
    <3>1. FrameInOrder(Q, S, i) /\ T[i] = S[i] /\ S[i].queue \in AllQueues
      BY <1>1, <1>4, <1>7, <2>1 DEF InOrder
    <3>2. i = n => S[i].start < S[i].local /\ (S[i].run = None \/ S[i].run.kind = "closure")
      BY <1>1, <2>1 DEF Topmost
    <3>3. i # n => i < n
      BY <1>1, <2>1
    <3> QED
      BY <1>4, <1>5, <3>1, <3>2, <3>3 DEF FrameInOrder
  <2>2. CASE i = n + 1
    <3>1. i = 1 => S = <<>>
      BY <1>1, <2>2
    <3>2. i = 1 => Q[q].cursor = 0
      BY <1>1, <3>1 DEF InOrder, EndOf
    <3>3. i > 1 => q = World
      BY <1>1, <2>2
    <3>4. ~(i < Len(T)) /\ T[i] = f
      BY <1>1, <1>4, <2>2
    <3> QED
      BY <1>2, <1>4, <1>5, <3>2, <3>3, <3>4 DEF FrameInOrder
  <2> QED
    BY <1>6, <2>1, <2>2
<1>9. ASSUME NEW i \in 1 .. n + 1, NEW j \in 1 .. n + 1, i < j, T[i].queue = T[j].queue
      PROVE  T[i].stop <= T[j].start
  <2>1. i \in 1 .. n
    BY <1>1, <1>9
  <2>2. CASE j \in 1 .. n
    BY <1>1, <1>4, <1>9, <2>1, <2>2 DEF InOrder
  <2>3. CASE j = n + 1
    BY <1>4, <1>7, <1>9, <2>1, <2>3
  <2> QED
    BY <1>6, <2>2, <2>3
<1>10. ASSUME NEW i \in 1 .. n + 1, NEW j \in 1 .. n + 1, j = i + 1
       PROVE  T[j].start = IF T[i].queue = World THEN T[i].stop ELSE 0
  <2>1. i \in 1 .. n /\ T[i] = S[i]
    BY <1>1, <1>4, <1>10
  <2>2. CASE j \in 1 .. n
    BY <1>1, <1>4, <1>10, <2>1, <2>2 DEF InOrder
  <2>3. CASE j = n + 1
    <3>1. i = n /\ S # <<>> /\ q = World /\ n \in 1 .. n /\ 1 \in 1 .. n
      BY <1>1, <1>10, <2>1, <2>3
    <3>2. T[j].start = EndOf(S, World)
      BY <1>1, <1>4, <2>3, <3>1 DEF InOrder
    <3>3. CASE S[n].queue = World
      BY <2>1, <3>1, <3>2, <3>3 DEF EndOf, Topmost
    <3>4. CASE S[n].queue # World
      <4>1. n = 1
        BY <1>1, <3>1, <3>4 DEF InOrder, FrameInOrder
      <4> QED
        BY <2>1, <3>1, <3>2, <3>4, <4>1 DEF EndOf, Topmost
    <3> QED
      BY <3>3, <3>4
  <2> QED
    BY <1>6, <2>2, <2>3
<1>11. ASSUME NEW p \in AllQueues PROVE R[p].cursor = EndOf(T, p)
  <2>1. Topmost(T) = f /\ f.queue = q /\ f.stop = Len(Q[q].bytes)
    BY <1>4 DEF Topmost
  <2>2. CASE p = q
    BY <1>4, <1>5, <2>1, <2>2 DEF EndOf
  <2>3. CASE p # q
    <3>1. R[p].cursor = EndOf(S, p)
      BY <1>1, <1>5, <2>3 DEF InOrder
    <3>2. CASE S = <<>>
      <4>1. T[1] = f
        BY <1>1, <1>4, <3>2
      <4> QED
        BY <1>4, <2>1, <2>3, <3>1, <3>2, <4>1 DEF EndOf
    <3>3. CASE S # <<>>
      <4>1. T[1] = S[1] /\ p # World /\ n \in 1 .. n /\ 1 \in 1 .. n
        BY <1>1, <1>4, <2>3, <3>3
      <4>2. S[n].queue = p => n = 1
        <5>1. n > 1 => S[n].queue = World
          BY <1>1, <4>1 DEF InOrder, FrameInOrder
        <5>2. n \in Nat /\ n \in 1 .. n
          BY <1>1, <4>1
        <5> HIDE DEF n
        <5>3. n = 1 \/ n > 1
          BY <5>2
        <5> QED
          BY <4>1, <5>1, <5>3
      <4>3. EndOf(S, p) = IF S[1].queue = p THEN S[1].stop ELSE 0
        BY <3>3, <4>2 DEF EndOf, Topmost
      <4> QED
        BY <1>4, <2>1, <2>3, <3>1, <4>1, <4>3 DEF EndOf
    <3> QED
      BY <3>2, <3>3
  <2> QED
    BY <2>2, <2>3
<1>12. T[1].queue # World => Len(R[T[1].queue].bytes) = T[1].stop
  <2>1. CASE S = <<>>
    <3>1. T[1] = f
      BY <1>1, <1>4, <2>1
    <3> QED
      BY <1>5, <3>1
  <2>2. CASE S # <<>>
    <3>1. T[1] = S[1] /\ S[1].queue \in AllQueues
      BY <1>1, <1>4, <1>7, <2>2
    <3> QED
      BY <1>1, <1>5, <2>2, <3>1 DEF InOrder
  <2> QED
    BY <2>1, <2>2
<1>13. InOrder(R, T)
  <2> HIDE DEF n
  <2>1. Len(T) = n + 1
    BY <1>4
  <2> QED
    BY <1>8, <1>9, <1>10, <1>11, <1>12, <2>1 DEF InOrder
<1> QED
  BY <1>4, <1>5, <1>13 DEF Shape

\* The topmost frame ends or unwinds, and leaves the vector as it found it, or, if it was
\* the first of the vector, with nothing applied.
LEMMA CallEnds ==
  ASSUME NEW C, NEW Q, NEW S, Shape(Q, S, C), S # <<>>, NEW v \in QueueOf(C), NEW R, NEW T,
         Leaves(Q, S, v, R), WithoutTop(S, T)
  PROVE  Shape(R, T, C) /\ Popped(S, T)
<1> /\ v.cursor = Topmost(S).start
    /\ Topmost(S).start > 0 => Len(v.bytes) = Topmost(S).start
    /\ R = [Q EXCEPT ![Topmost(S).queue] = v]
  BY DEF Leaves
<1> T = SubSeq(S, 1, Len(S) - 1)
  BY DEF WithoutTop
<1> DEFINE n == Len(S)
           q == S[n].queue
<1>1. /\ Q \in [AllQueues -> QueueOf(C)] /\ S \in Seq(FrameOf(C)) /\ InOrder(Q, S)
      /\ n \in Nat /\ n \in 1 .. n /\ 1 \in 1 .. n /\ n - 1 \in Nat
      /\ q \in AllQueues /\ S[n].start \in Nat
      /\ \A i \in 1 .. n : S[i] \in FrameOf(C) /\ S[i].queue \in AllQueues
  <2>1. Q \in [AllQueues -> QueueOf(C)] /\ S \in Seq(FrameOf(C)) /\ InOrder(Q, S)
    BY DEF Shape
  <2>2. n \in Nat /\ n \in 1 .. n /\ 1 \in 1 .. n
    BY <2>1, StackForm
  <2>3. n - 1 \in Nat
    BY <2>2
  <2>4. /\ q \in AllQueues /\ S[n].start \in Nat
        /\ \A i \in 1 .. n : S[i] \in FrameOf(C) /\ S[i].queue \in AllQueues
    BY <2>1, <2>2, StackForm
  <2> QED
    BY <2>1, <2>2, <2>3, <2>4
<1>2. T \in Seq(FrameOf(C)) /\ Len(T) = n - 1 /\ \A i \in 1 .. n - 1 : T[i] = S[i]
  <2>1. \A i \in 1 .. n - 1 : S[i] \in FrameOf(C)
    BY <1>1
  <2>2. /\ T \in Seq(FrameOf(C)) /\ Len(T) = n - 1
        /\ \A i \in 1 .. n - 1 : T[i] = S[1 + i - 1]
    <3>1. PICK k \in Nat : k = n - 1
      BY <1>1
    <3>2. /\ SubSeq(S, 1, k) \in Seq(FrameOf(C)) /\ Len(SubSeq(S, 1, k)) = k
          /\ \A i \in 1 .. k : SubSeq(S, 1, k)[i] = S[1 + i - 1]
      BY <2>1, <3>1, SubSeqProperties
    <3> QED
      BY <3>1, <3>2
  <2>3. \A i \in 1 .. n - 1 : 1 + i - 1 = i
    OBVIOUS
  <2> QED
    BY <2>2, <2>3
<1>3. R \in [AllQueues -> QueueOf(C)] /\ R[q] = v /\ \A p \in AllQueues : p # q => R[p] = Q[p]
  BY <1>1 DEF Topmost
<1>4. /\ \A i \in 1 .. n - 1 : i \in 1 .. n /\ i < n
      /\ n > 1 => n - 1 \in 1 .. n - 1 /\ 1 \in 1 .. n - 1 /\ q = World
      /\ n = 1 => S[n].start = 0
      /\ T = <<>> <=> n = 1
  <2>1. T = <<>> <=> n = 1
    <3>1. T = <<>> <=> Len(T) = 0
      BY <1>2, StackForm
    <3> QED
      BY <1>1, <1>2, <3>1
  <2> QED
    BY <1>1, <2>1 DEF InOrder, FrameInOrder
<1>5. ASSUME NEW i \in 1 .. n - 1
      PROVE  /\ S[i].queue = q => S[i].stop <= Len(v.bytes)
             /\ S[i].stop \in Nat /\ S[i].local \in Nat /\ S[i].start \in Nat
  <2>1. S[i].stop \in Nat /\ S[i].local \in Nat /\ S[i].start \in Nat
    BY <1>1, <1>4, StackForm
  <2>2. ASSUME S[i].queue = q PROVE S[i].stop <= Len(v.bytes)
    <3>1. FrameInOrder(Q, S, i) /\ S[i].stop <= S[n].start
      BY <1>1, <1>4, <2>2 DEF InOrder
    <3>2. S[i].start < S[i].local /\ S[i].local <= S[i].stop
      BY <1>4, <3>1 DEF FrameInOrder
    <3>3. S[n].start > 0
      BY <1>1, <2>1, <3>1, <3>2
    <3> QED
      BY <2>1, <3>1, <3>3 DEF Topmost
  <2> QED
    BY <2>1, <2>2
<1>6. ASSUME NEW i \in 1 .. n - 1 PROVE FrameInOrder(R, T, i)
  <2>1. FrameInOrder(Q, S, i) /\ T[i] = S[i] /\ S[i].queue \in AllQueues
    BY <1>1, <1>2, <1>4 DEF InOrder
  <2>2. S[i].stop <= Len(R[S[i].queue].bytes)
    BY <1>3, <1>5, <2>1 DEF FrameInOrder
  <2>3. i < n
    BY <1>4
  <2> QED
    BY <1>2, <2>1, <2>2, <2>3 DEF FrameInOrder
<1>7. ASSUME NEW p \in AllQueues PROVE R[p].cursor = EndOf(T, p)
  <2>1. CASE n = 1
    <3>1. T = <<>> /\ EndOf(T, p) = 0 /\ S[n].start = 0
      BY <1>4, <2>1 DEF EndOf
    <3>2. p # q => EndOf(S, p) = 0
      BY <2>1 DEF EndOf, Topmost
    <3> QED
      BY <1>1, <1>3, <3>1, <3>2 DEF InOrder, Topmost
  <2>2. CASE n > 1
    <3>1. /\ T # <<>> /\ Topmost(T) = S[n - 1] /\ T[1] = S[1] /\ q = World
          /\ n - 1 \in 1 .. n - 1 /\ 1 \in 1 .. n - 1 /\ n - 1 \in 1 .. n /\ n = (n - 1) + 1
      BY <1>1, <1>2, <1>4, <2>2 DEF Topmost
    <3>2. S[n].start = IF S[n - 1].queue = World THEN S[n - 1].stop ELSE 0
      BY <1>1, <3>1 DEF InOrder
    <3>3. S[n - 1].queue # World => n - 1 = 1
      BY <1>1, <3>1 DEF InOrder, FrameInOrder
    <3>4. CASE p = World
      BY <1>3, <3>1, <3>2, <3>3, <3>4 DEF EndOf, Topmost
    <3>5. CASE p # World
      <4>1. R[p].cursor = EndOf(S, p)
        BY <1>1, <1>3, <3>1, <3>5 DEF InOrder
      <4>2. EndOf(S, p) = IF S[1].queue = p THEN S[1].stop ELSE 0
        BY <3>1, <3>5 DEF EndOf, Topmost
      <4>3. EndOf(T, p) = IF S[1].queue = p THEN S[1].stop ELSE 0
        BY <3>1, <3>3, <3>5 DEF EndOf
      <4> QED
        BY <4>1, <4>2, <4>3
    <3> QED
      BY <3>4, <3>5
  <2>3. n = 1 \/ n > 1
    <3>1. n \in Nat /\ n \in 1 .. n
      BY <1>1
    <3> HIDE DEF n
    <3> QED
      BY <3>1
  <2> QED
    BY <2>1, <2>2, <2>3
<1>8. T # <<>> /\ T[1].queue # World => Len(R[T[1].queue].bytes) = T[1].stop
  <2> SUFFICES ASSUME T # <<>>, T[1].queue # World PROVE Len(R[T[1].queue].bytes) = T[1].stop
    OBVIOUS
  <2>1. n > 1 /\ T[1] = S[1] /\ q = World /\ S[1].queue \in AllQueues
    BY <1>1, <1>2, <1>4
  <2> QED
    BY <1>1, <1>3, <2>1 DEF InOrder
<1>9. InOrder(R, T)
  <2>1. \A i, j \in 1 .. n - 1 : i < j /\ T[i].queue = T[j].queue => T[i].stop <= T[j].start
    BY <1>1, <1>2, <1>4 DEF InOrder
  <2>2. \A i, j \in 1 .. n - 1 : j = i + 1 =>
           T[j].start = IF T[i].queue = World THEN T[i].stop ELSE 0
    BY <1>1, <1>2, <1>4 DEF InOrder
  <2> HIDE DEF n, q
  <2>3. Len(T) = n - 1
    BY <1>2
  <2> QED
    BY <1>6, <1>7, <1>8, <2>1, <2>2, <2>3 DEF InOrder
<1> QED
  BY <1>2, <1>3, <1>9 DEF Shape, Popped

\* A command is queued: on the queue of the world, or while nothing is applied.
LEMMA QueueGrows ==
  ASSUME NEW C, NEW Q, NEW S, Shape(Q, S, C), NEW q \in AllQueues, q = World \/ S = <<>>,
         NEW s \in Seq(C), Len(Q[q].bytes) <= Len(s),
         NEW R, Refilled(Q, q, s, R)
  PROVE  /\ Shape(R, S, C)
         /\ \A p \in AllQueues : /\ R[p].bytes = IF p = q THEN s ELSE Q[p].bytes
                                 /\ R[p].cursor = Q[p].cursor
                                 /\ R[p].panic_recovery = Q[p].panic_recovery
<1>1. /\ Q \in [AllQueues -> QueueOf(C)] /\ S \in Seq(FrameOf(C)) /\ InOrder(Q, S)
  BY DEF Shape
<1>2. /\ Q[q] \in QueueOf(C) /\ Len(Q[q].bytes) \in Nat /\ Len(s) \in Nat
  BY <1>1, VectorForm, LenProperties
<1>3. /\ R \in [AllQueues -> QueueOf(C)]
      /\ \A p \in AllQueues : /\ R[p].bytes = IF p = q THEN s ELSE Q[p].bytes
                              /\ R[p].cursor = Q[p].cursor
                              /\ R[p].panic_recovery = Q[p].panic_recovery
  <2>1. [Q[q] EXCEPT !.bytes = s] \in QueueOf(C)
    BY <1>2 DEF QueueOf
  <2>2. R = [Q EXCEPT ![q] = [Q[q] EXCEPT !.bytes = s]]
    BY DEF Refilled
  <2>3. /\ [Q[q] EXCEPT !.bytes = s].bytes = s
        /\ [Q[q] EXCEPT !.bytes = s].panic_recovery = Q[q].panic_recovery
        /\ [Q[q] EXCEPT !.bytes = s].cursor = Q[q].cursor
    BY <1>2 DEF QueueOf
  <2> QED
    BY <1>1, <2>1, <2>2, <2>3
<1>4. ASSUME NEW i \in 1 .. Len(S) PROVE FrameInOrder(R, S, i)
  <2>1. FrameInOrder(Q, S, i) /\ S[i].queue \in AllQueues /\ S[i].stop \in Nat
    BY <1>1, StackForm DEF InOrder
  <2>2. S[i].stop <= Len(R[S[i].queue].bytes)
    BY <1>2, <1>3, <2>1 DEF FrameInOrder
  <2> QED
    BY <2>1, <2>2 DEF FrameInOrder
<1>5. S # <<>> /\ S[1].queue # World => Len(R[S[1].queue].bytes) = S[1].stop
  <2>1. S # <<>> => S[1].queue \in AllQueues
    BY <1>1, StackForm
  <2> QED
    BY <1>1, <1>3, <2>1 DEF InOrder
<1>6. InOrder(R, S)
  BY <1>1, <1>3, <1>4, <1>5 DEF InOrder
<1> QED
  BY <1>1, <1>3, <1>6 DEF Shape

\* The commands whose entity was handed out.
KnownCommand == {c \in Command : c.kind # "closure" => c.entity \in held \cup killed}

\* Something is saved only while the frames of the vector it belongs to unwind.
RecoveryInOrder ==
  \A q \in AllQueues : queues[q].panic_recovery # <<>> =>
    /\ q = World /\ unwinding /\ stack # <<>> /\ Topmost(stack).queue = World
    /\ Len(queues[World].bytes) = queues[World].cursor

\* Every frame is between two commands, or in a closure.
Quiet(S) == \A i \in 1 .. Len(S) : S[i].run = None \/ S[i].run.kind = "closure"

\* Something is being applied, and no closure is at work that could have reserved ids or
\* queued commands since the last flush.
Settled ==
  /\ ~unwinding /\ ~Idle
  /\ ~(stack # <<>> /\ Topmost(stack).run # None /\ Topmost(stack).run.kind = "closure")

NothingPending ==
  Settled => ~needs_flush(ents) /\ queues[World].cursor = Len(queues[World].bytes)

CommandsInv ==
  /\ Shape(queues, stack, KnownCommand)
  /\ applying \in Queues \cup {None} /\ unwinding \in BOOLEAN /\ roots \in [AllQueues -> Nat]
  /\ RecoveryInOrder /\ NothingPending /\ SpawnFindsItsEntity

AllInv == IInv /\ HandlesInv /\ CommandsInv

-----------------------------------------------------------------------------
LEMMA TopIsTopmost == Top = Topmost(stack)
BY DEF Top, Topmost

LEMMA WorldIsOther == World \in AllQueues /\ None \notin AllQueues /\ Queues \subseteq AllQueues
                      /\ World \notin Queues
BY QueuesAssumption DEF AllQueues

LEMMA ShapeMonotonic ==
  ASSUME NEW C, NEW D, C \subseteq D, NEW Q, NEW S, Shape(Q, S, C)
  PROVE  Shape(Q, S, D)
<1>1. FrameOf(C) \subseteq FrameOf(D)
  BY DEF FrameOf
<1>2. Q \in [AllQueues -> QueueOf(C)] /\ S \in Seq(FrameOf(C))
  BY DEF Shape
<1>3. S \in Seq(FrameOf(D))
  BY <1>1, <1>2, SeqMonotonic
<1>4. \A v \in QueueOf(C) : v \in QueueOf(D)
  <2>1. \A s \in Seq(C) : s \in Seq(D)
    BY SeqMonotonic
  <2> QED
    BY <2>1 DEF QueueOf
<1> QED
  BY <1>2, <1>3, <1>4 DEF Shape

LEMMA KnownGrows ==
  ASSUME held \cup killed \subseteq held' \cup killed'
  PROVE  KnownCommand \subseteq KnownCommand'
BY DEF KnownCommand

\* What runs is a command that is known.
LEMMA Runs ==
  ASSUME NEW S \in Seq(FrameOf(KnownCommand)), NEW i \in 1 .. Len(S), S[i].run # None
  PROVE  /\ S[i].run \in KnownCommand /\ S[i].run \in Command /\ S[i].run.name \in Name
         /\ S[i].run.kind \in {"insert", "despawn", "closure"}
<1>1. S[i].run \in KnownCommand
  BY StackForm
<1> QED
  BY <1>1 DEF KnownCommand, Command

\* A name, and those that are made of it.
LEMMA NamesForm ==
  ASSUME NEW x \in Name, NEW k \in Nat
  PROVE  /\ x.key \in Seq(Nat) /\ x.home \in AllQueues /\ Len(x.key) \in Nat
         /\ [home |-> x.home, key |-> Append(x.key, k)] \in Name
         /\ [home |-> World, key |-> <<k>> \o x.key] \in Name
         /\ \A i \in 1 .. Len(x.key) : x.key[i] \in Nat
<1>1. x.key \in Seq(Nat) /\ x.home \in AllQueues
  BY DEF Name
<1>2. /\ Len(x.key) \in Nat /\ \A i \in 1 .. Len(x.key) : x.key[i] \in Nat
      /\ Append(x.key, k) \in Seq(Nat)
  BY <1>1, LenProperties, ElementOfSeq, AppendProperties
<1>3. <<k>> \in Seq(Nat)
  OBVIOUS
<1>4. <<k>> \o x.key \in Seq(Nat)
  BY <1>1, <1>3, ConcatProperties
<1> QED
  BY <1>1, <1>2, <1>4, WorldIsOther DEF Name

LEMMA RootForm == ASSUME NEW q \in AllQueues, NEW k \in Nat
                  PROVE  [home |-> q, key |-> <<k>>] \in Name
<1>1. <<k>> \in Seq(Nat)
  OBVIOUS
<1> QED
  BY <1>1 DEF Name

\* The ids of commands.
LEMMA NextIdForm ==
  ASSUME IInv
  PROVE  NextId(ents) \in [index : Int, generation : Int]
<1>1. /\ ents.meta \in Seq(Meta) /\ ents.pending \in Seq(Int) /\ ents.cursor \in Int
      /\ Len(ents.meta) \in Nat /\ Len(ents.pending) \in Nat /\ ents.cursor <= Len(ents.pending)
  BY EntitiesFields DEF IInv, Sound
<1>2. NextIndex(ents) \in Int
  <2>1. CASE ents.cursor > 0
    <3>1. ents.cursor \in 1 .. Len(ents.pending)
      BY <1>1, <2>1
    <3>2. ents.pending[ents.cursor] \in Int
      BY <1>1, <3>1, ElementOfSeq
    <3> QED
      BY <2>1, <3>2 DEF NextIndex
  <2>2. CASE ~(ents.cursor > 0)
    BY <1>1, <2>2 DEF NextIndex
  <2> QED
    BY <2>1, <2>2
<1>3. \A i : Known(ents, i) => ents.meta[i].generation \in Int
  BY <1>1, Generations DEF Known
<1> QED
  BY <1>2, <1>3 DEF NextId, ResolveFromIndex, Id

LEMMA ContainedForm ==
  ASSUME IInv, NEW e, contains(ents, e)
  PROVE  e \in [index : Int, generation : Int]
<1>1. /\ ents.meta \in Seq(Meta) /\ ents.cursor \in Int /\ Len(ents.meta) \in Nat
  BY EntitiesFields DEF IInv, Sound
<1>2. e.index \in Int /\ e = ResolveFromIndex(ents, e.index)
  BY <1>1 DEF contains, AtMostZero
<1>3. \A i : Known(ents, i) => ents.meta[i].generation \in Int
  BY <1>1, Generations DEF Known
<1> QED
  BY <1>2, <1>3 DEF ResolveFromIndex, Id

\* Whatever is queued is a command, with an id that was handed out.
LEMMA QueuedForm ==
  ASSUME IInv, NEW q, NEW name \in Name, Queue(q, name), killed' = killed
  PROVE  /\ \E c \in KnownCommand' : Push(q, c) /\ c.name = name
         /\ held \subseteq held'
<1>1. CASE Push(q, [name |-> name, kind |-> "insert", entity |-> NextId(ents)])
           /\ held' = held \cup {NextId(ents)}
  <2> DEFINE c == [name |-> name, kind |-> "insert", entity |-> NextId(ents)]
  <2>1. c \in KnownCommand' /\ c.name = name
    BY <1>1, NextIdForm DEF KnownCommand, Command
  <2> HIDE DEF c
  <2> QED
    BY <1>1, <2>1 DEF c
<1>2. ASSUME NEW e \in held \cup killed, NEW kind \in {"insert", "despawn"}, contains(ents, e),
             Push(q, [name |-> name, kind |-> kind, entity |-> e]), UNCHANGED <<ents, held>>
      PROVE  /\ \E c \in KnownCommand' : Push(q, c) /\ c.name = name
             /\ held \subseteq held'
  <2> DEFINE c == [name |-> name, kind |-> kind, entity |-> e]
  <2>1. c \in KnownCommand' /\ c.name = name
    BY <1>2, ContainedForm DEF KnownCommand, Command
  <2> HIDE DEF c
  <2> QED
    BY <1>2, <2>1 DEF c
<1>3. CASE Push(q, [name |-> name, kind |-> "closure", entity |-> None]) /\ held' = held
  <2> DEFINE c == [name |-> name, kind |-> "closure", entity |-> None]
  <2>1. c \in KnownCommand' /\ c.name = name
    BY <1>3 DEF KnownCommand, Command
  <2> HIDE DEF c
  <2> QED
    BY <1>3, <2>1 DEF c
<1> QED
  BY <1>1, <1>2, <1>3 DEF Queue

\* A handle in a flushed world is an entity.
LEMMA HeldExists ==
  ASSUME IInv, HandlesInv, ~needs_flush(ents), NEW e \in held
  PROVE  Exists(ents, e)
<1>1. Awaiting(ents) = {}
  BY AwaitingForm DEF IInv, needs_flush
<1>2. PICK i \in Occupied(ents) : e = ResolveFromIndex(ents, i)
  BY <1>1 DEF HandlesInv, Ids
<1> QED
  BY <1>2 DEF Occupied, Exists, Known, ResolveFromIndex, Id

LEMMA NothingSaved ==
  ASSUME CommandsInv, ~unwinding
  PROVE  \A q \in AllQueues : queues[q].panic_recovery = <<>>
BY DEF CommandsInv, RecoveryInOrder

\* flush_commands begins a call if there is something to apply; then nothing is pending.
LEMMA FlushCommandsForm ==
  ASSUME NEW C, NEW below, Shape(queues, below, C), flush_commands(below), Quiet(below),
         below # <<>> => Topmost(below).start < Topmost(below).local
  PROVE  /\ Shape(queues', stack', C) /\ Quiet(stack')
         /\ queues'[World].cursor = Len(queues'[World].bytes)
         /\ \A q \in AllQueues : /\ queues'[q].bytes = queues[q].bytes
                                 /\ queues'[q].panic_recovery = queues[q].panic_recovery
<1>0. /\ below \in Seq(FrameOf(C)) /\ queues \in [AllQueues -> QueueOf(C)]
      /\ Len(below) \in Nat /\ (below # <<>> => Len(below) \in 1 .. Len(below))
  BY StackForm DEF Shape
<1>1. CASE is_empty(World)
  <2>1. stack' = below /\ queues' = queues
    BY <1>1 DEF flush_commands
  <2>2. queues[World].cursor = Len(queues[World].bytes)
    <3>1. queues[World].cursor \in Nat /\ Len(queues[World].bytes) \in Nat
      BY <1>0, VectorForm, WorldIsOther
    <3>2. queues[World].cursor <= Len(queues[World].bytes)
      BY CursorWithin, WorldIsOther
    <3> QED
      BY <1>1, <3>1, <3>2 DEF is_empty
  <2> QED
    BY <2>1, <2>2
<1>2. CASE ~is_empty(World)
  <2> DEFINE f == [queue |-> World, start |-> queues[World].cursor,
                   stop |-> Len(queues[World].bytes),
                   local |-> queues[World].cursor, run |-> None, kids |-> 0]
  <2>1. /\ stack' = Append(below, f)
        /\ queues' = [queues EXCEPT ![World].cursor = Len(queues[World].bytes)]
    BY <1>2 DEF flush_commands, Begin
  <2>2. below # <<>> => Topmost(below).run = None \/ Topmost(below).run.kind = "closure"
    BY <1>0 DEF Quiet, Topmost
  <2>3. /\ Shape(queues', stack', C) /\ Len(stack') = Len(below) + 1
        /\ stack'[Len(below) + 1] = f
        /\ \A i \in 1 .. Len(below) : stack'[i] = below[i]
    <3>1. f = [queue |-> World, start |-> queues[World].cursor,
               stop |-> Len(queues[World].bytes),
               local |-> queues[World].cursor, run |-> None, kids |-> 0]
      OBVIOUS
    <3> HIDE DEF f
    <3>2. CalledFrom(below, World)
      BY <2>2 DEF CalledFrom
    <3>3. PICK R : R = queues'
      OBVIOUS
    <3>4. PICK T : T = stack'
      OBVIOUS
    <3>6. Called(queues, below, World, R, T) /\ f = NewCall(queues, World)
      BY <2>1, <3>1, <3>3, <3>4 DEF Called, NewCall
    <3>7. World \in AllQueues
      BY WorldIsOther
    <3>5. /\ Shape(R, T, C) /\ Len(T) = Len(below) + 1 /\ T[Len(below) + 1] = f
          /\ \A i \in 1 .. Len(below) : T[i] = below[i]
      BY <3>2, <3>6, <3>7, CallBegins
    <3> QED
      BY <3>3, <3>4, <3>5
  <2>4. f.run = None
    OBVIOUS
  <2>5. Quiet(stack')
    <3> HIDE DEF f
    <3>1. \A i \in 1 .. Len(below) + 1 : i \in 1 .. Len(below) \/ i = Len(below) + 1
      BY <1>0
    <3> QED
      BY <2>3, <2>4, <3>1 DEF Quiet
  <2>6. \A q \in AllQueues : /\ queues'[q].bytes = queues[q].bytes
                             /\ queues'[q].panic_recovery = queues[q].panic_recovery
    <3>1. \A v \in QueueOf(C) : \A k :
             /\ [v EXCEPT !.cursor = k].bytes = v.bytes
             /\ [v EXCEPT !.cursor = k].panic_recovery = v.panic_recovery
      BY DEF QueueOf
    <3>2. queues' = [queues EXCEPT ![World] =
                       [queues[World] EXCEPT !.cursor = Len(queues[World].bytes)]]
      BY <2>1
    <3>3. queues[World] \in QueueOf(C)
      BY <1>0, VectorForm, WorldIsOther
    <3> QED
      BY <1>0, <3>1, <3>2, <3>3
  <2>7. queues'[World].cursor = Len(queues'[World].bytes)
    <3>1. \A v \in QueueOf(C) : \A k : [v EXCEPT !.cursor = k].cursor = k
      BY DEF QueueOf
    <3>2. queues' = [queues EXCEPT ![World] =
                       [queues[World] EXCEPT !.cursor = Len(queues[World].bytes)]]
      BY <2>1
    <3>3. queues[World] \in QueueOf(C)
      BY <1>0, VectorForm, WorldIsOther
    <3>4. queues'[World].cursor = Len(queues[World].bytes)
      BY <1>0, <3>1, <3>2, <3>3, WorldIsOther
    <3> QED
      BY <2>6, <3>4, WorldIsOther
  <2> QED
    BY <2>3, <2>5, <2>6, <2>7
<1> QED
  BY <1>1, <1>2

\* While no frame is in an insert, the entities may change.
LEMMA QuietSpawns ==
  ASSUME Quiet(stack'), NEW C, stack' \in Seq(FrameOf(C))
  PROVE  SpawnFindsItsEntity'
<1>1. DOMAIN stack' = 1 .. Len(stack')
  BY StackForm
<1> QED
  BY <1>1 DEF Quiet, SpawnFindsItsEntity

\* The steps that flush the world.
LEMMA FlushedCommands ==
  ASSUME CommandsInv, NEW below, Shape(queues, below, KnownCommand), Quiet(below),
         below # <<>> => Topmost(below).start < Topmost(below).local,
         flush_commands(below), ~needs_flush(ents'), ~unwinding, unwinding' = unwinding,
         applying' \in Queues \cup {None}, roots' = roots,
         held \cup killed \subseteq held' \cup killed'
  PROVE  CommandsInv'
<1>1. /\ Shape(queues', stack', KnownCommand) /\ Quiet(stack')
      /\ queues'[World].cursor = Len(queues'[World].bytes)
      /\ \A q \in AllQueues : /\ queues'[q].bytes = queues[q].bytes
                              /\ queues'[q].panic_recovery = queues[q].panic_recovery
  BY FlushCommandsForm
<1>2. Shape(queues', stack', KnownCommand')
  BY <1>1, KnownGrows, ShapeMonotonic
<1>3. SpawnFindsItsEntity'
  BY <1>1, QuietSpawns DEF Shape
<1>4. RecoveryInOrder'
  BY <1>1, NothingSaved DEF RecoveryInOrder
<1>5. NothingPending'
  BY <1>1 DEF NothingPending
<1>6. unwinding' \in BOOLEAN
  BY DEF CommandsInv
<1> QED
  BY <1>2, <1>3, <1>4, <1>5, <1>6 DEF CommandsInv

\* Between two steps of a quiet stack.
LEMMA QuietStack ==
  ASSUME CommandsInv, stack = <<>> \/ Topmost(stack).run = None
                                   \/ Topmost(stack).run.kind = "closure"
  PROVE  Quiet(stack)
<1>1. /\ stack \in Seq(FrameOf(KnownCommand)) /\ Len(stack) \in Nat
      /\ stack = <<>> <=> Len(stack) = 0
      /\ \A i \in 1 .. Len(stack) : FrameInOrder(queues, stack, i)
  BY StackForm DEF CommandsInv, Shape, InOrder
<1>2. ASSUME NEW i \in 1 .. Len(stack) PROVE stack[i].run = None \/ stack[i].run.kind = "closure"
  <2>1. CASE i < Len(stack)
    BY <1>1, <2>1 DEF FrameInOrder
  <2>2. CASE i = Len(stack)
    <3>1. stack # <<>>
      BY <1>1
    <3> QED
      BY <2>2, <3>1 DEF Topmost
  <2> QED
    BY <1>1, <2>1, <2>2
<1> QED
  BY <1>2 DEF Quiet

\* A frame that runs a command has taken it.
LEMMA RunningTop ==
  ASSUME CommandsInv, stack # <<>>
  PROVE  /\ Len(stack) \in 1 .. Len(stack) /\ Len(stack) \in Nat
         /\ Topmost(stack) \in FrameOf(KnownCommand)
         /\ FrameInOrder(queues, stack, Len(stack))
         /\ Topmost(stack).queue \in AllQueues /\ Topmost(stack).start \in Nat
         /\ Topmost(stack).local \in Nat /\ Topmost(stack).stop \in Nat
         /\ Topmost(stack).run \in {None} \cup KnownCommand /\ Topmost(stack).kids \in Nat
         /\ Topmost(stack).run # None =>
              /\ Topmost(stack).start < Topmost(stack).local
              /\ Topmost(stack).run \in KnownCommand /\ Topmost(stack).run.name \in Name
              /\ Topmost(stack).run.kind \in {"insert", "despawn", "closure"}
<1>1. /\ stack \in Seq(FrameOf(KnownCommand)) /\ Len(stack) \in 1 .. Len(stack)
      /\ Len(stack) \in Nat
  BY StackForm DEF CommandsInv, Shape
<1>2. FrameInOrder(queues, stack, Len(stack))
  BY <1>1 DEF CommandsInv, Shape, InOrder
<1>3. /\ Topmost(stack) \in FrameOf(KnownCommand)
      /\ Topmost(stack).queue \in AllQueues /\ Topmost(stack).start \in Nat
      /\ Topmost(stack).local \in Nat /\ Topmost(stack).stop \in Nat
      /\ Topmost(stack).run \in {None} \cup KnownCommand /\ Topmost(stack).kids \in Nat
  BY <1>1, StackForm DEF Topmost
<1>4. Topmost(stack).run # None =>
        /\ Topmost(stack).start < Topmost(stack).local
        /\ Topmost(stack).run \in KnownCommand /\ Topmost(stack).run.name \in Name
        /\ Topmost(stack).run.kind \in {"insert", "despawn", "closure"}
  BY <1>1, <1>2, Runs DEF FrameInOrder, Topmost
<1> QED
  BY <1>1, <1>2, <1>3, <1>4

\* The frame of a command that returns.
LEMMA ReturnedTop ==
  ASSUME CommandsInv, stack # <<>>, Topmost(stack).run # None,
         NEW below, below = SetTop([Top EXCEPT !.run = None])
  PROVE  /\ Shape(queues, below, KnownCommand) /\ Quiet(below) /\ below # <<>>
         /\ Len(below) = Len(stack)
         /\ Topmost(below) = [Topmost(stack) EXCEPT !.run = None]
         /\ \A i \in 1 .. Len(stack) : i # Len(stack) => below[i] = stack[i]
         /\ Topmost(below).start < Topmost(below).local
<1> DEFINE f == [Topmost(stack) EXCEPT !.run = None]
<1>1. /\ Topmost(stack) \in FrameOf(KnownCommand) /\ Len(stack) \in 1 .. Len(stack)
      /\ Len(stack) \in Nat
      /\ FrameInOrder(queues, stack, Len(stack))
      /\ Topmost(stack).start < Topmost(stack).local
  BY RunningTop
<1>2. /\ f \in FrameOf(KnownCommand)
      /\ f.queue = Topmost(stack).queue /\ f.start = Topmost(stack).start
      /\ f.stop = Topmost(stack).stop /\ f.local = Topmost(stack).local /\ f.run = None
      /\ f.local \in Nat
  BY <1>1 DEF FrameOf
<1>3. below = [stack EXCEPT ![Len(stack)] = f]
  BY TopIsTopmost DEF SetTop
<1>4. f.local <= f.stop /\ f.local <= f.local
  BY <1>1, <1>2 DEF FrameInOrder, Topmost
<1> HIDE DEF f
<1>5. /\ Shape(queues, below, KnownCommand) /\ Len(below) = Len(stack) /\ Topmost(below) = f
      /\ \A i \in 1 .. Len(stack) : i # Len(stack) => below[i] = stack[i]
  <2>1. WithTop(stack, f, below) /\ Continues(stack, f)
    BY <1>2, <1>3, <1>4 DEF WithTop, Continues
  <2>2. Shape(queues, stack, KnownCommand)
    BY DEF CommandsInv
  <2> QED
    BY <1>2, <2>1, <2>2, TopRuns
<1>6. Quiet(below)
  <2>1. ASSUME NEW i \in 1 .. Len(stack), i # Len(stack)
        PROVE  below[i].run = None \/ below[i].run.kind = "closure"
    <3>1. i < Len(stack)
      BY <1>1, <2>1
    <3> QED
      BY <1>5, <2>1, <3>1 DEF CommandsInv, Shape, InOrder, FrameInOrder
  <2>2. below[Len(below)].run = None
    BY <1>2, <1>5 DEF Topmost
  <2> QED
    BY <1>5, <2>1, <2>2 DEF Quiet
<1>7. below # <<>>
  BY <1>1, <1>5, StackForm DEF Shape
<1> QED
  BY <1>1, <1>2, <1>5, <1>6, <1>7 DEF f

\* One more command in a vector.
LEMMA PushGrows ==
  ASSUME Shape(queues, stack, KnownCommand), held \cup killed \subseteq held' \cup killed',
         NEW q \in AllQueues, q = World \/ stack = <<>>, NEW c \in KnownCommand', Push(q, c)
  PROVE  /\ Shape(queues', stack, KnownCommand')
         /\ \A p \in AllQueues :
              /\ queues'[p].bytes = IF p = q THEN Append(queues[q].bytes, c) ELSE queues[p].bytes
              /\ queues'[p].cursor = queues[p].cursor
              /\ queues'[p].panic_recovery = queues[p].panic_recovery
<1>1. Shape(queues, stack, KnownCommand')
  BY KnownGrows, ShapeMonotonic
<1>2. /\ Append(queues[q].bytes, c) \in Seq(KnownCommand')
      /\ Len(queues[q].bytes) <= Len(Append(queues[q].bytes, c))
  <2>1. queues[q].bytes \in Seq(KnownCommand') /\ Len(queues[q].bytes) \in Nat
    BY <1>1, VectorForm DEF Shape
  <2> QED
    BY <2>1, AppendProperties
<1>3. PICK s : s = Append(queues[q].bytes, c)
  OBVIOUS
<1>4. queues' = [queues EXCEPT ![q].bytes = s]
  BY <1>3 DEF Push
<1>5. PICK R : R = queues'
  OBVIOUS
<1>6. Refilled(queues, q, s, R)
  BY <1>4, <1>5 DEF Refilled
<1>7. s \in Seq(KnownCommand') /\ Len(queues[q].bytes) <= Len(s)
  BY <1>2, <1>3
<1>8. /\ Shape(R, stack, KnownCommand')
      /\ \A p \in AllQueues : /\ R[p].bytes = IF p = q THEN s ELSE queues[p].bytes
                              /\ R[p].cursor = queues[p].cursor
                              /\ R[p].panic_recovery = queues[p].panic_recovery
  BY <1>1, <1>6, <1>7, QueueGrows
<1> QED
  BY <1>3, <1>5, <1>8

\* Nothing is called.
LEMMA NoCalls ==
  ASSUME NEW C, NEW Q \in [AllQueues -> QueueOf(C)], \A q \in AllQueues : Q[q].cursor = 0
  PROVE  Shape(Q, <<>>, C)
<1>1. Len(<<>>) = 0 /\ 1 .. 0 = {}
  OBVIOUS
<1>2. InOrder(Q, <<>>)
  BY <1>1 DEF InOrder, EndOf
<1>3. <<>> \in Seq(FrameOf(C))
  OBVIOUS
<1> QED
  BY <1>2, <1>3 DEF Shape

\* A command is queued by whoever has the queue.
LEMMA OutsideStep ==
  ASSUME AllInv, NEW q \in AllQueues, QueueFromOutside(q)
  PROVE  CommandsInv'
<1>1. /\ stack = <<>> /\ ~unwinding /\ applying = None /\ stack' = stack
      /\ applying' = applying /\ unwinding' = unwinding /\ killed' = killed
      /\ roots' = [roots EXCEPT ![q] = @ + 1] /\ Queue(q, RootName(q))
  BY DEF QueueFromOutside, Idle
<1>2. roots \in [AllQueues -> Nat] /\ Shape(queues, stack, KnownCommand)
  BY DEF AllInv, CommandsInv
<1>3. RootName(q) \in Name
  <2>1. roots[q] + 1 \in Nat
    BY <1>2
  <2> QED
    BY <2>1, RootForm DEF RootName
<1>4. PICK c \in KnownCommand' : Push(q, c)
  BY <1>1, <1>3, QueuedForm DEF AllInv
<1>5. held \cup killed \subseteq held' \cup killed'
  BY <1>1, <1>3, QueuedForm DEF AllInv
<1>6. /\ Shape(queues', stack, KnownCommand')
      /\ \A p \in AllQueues : queues'[p].panic_recovery = queues[p].panic_recovery
  BY <1>1, <1>2, <1>4, <1>5, PushGrows
<1>7. \A p \in AllQueues : queues'[p].panic_recovery = <<>>
  BY <1>1, <1>6, NothingSaved DEF AllInv
<1>8. SpawnFindsItsEntity'
  BY <1>1 DEF SpawnFindsItsEntity
<1>9. NothingPending'
  BY <1>1 DEF NothingPending, Settled, Idle
<1>10. RecoveryInOrder'
  BY <1>7 DEF RecoveryInOrder
<1>11. /\ applying' \in Queues \cup {None} /\ unwinding' \in BOOLEAN
       /\ roots' \in [AllQueues -> Nat]
  BY <1>1, <1>2 DEF AllInv, CommandsInv
<1>12. Shape(queues', stack', KnownCommand')
  BY <1>1, <1>6
<1> QED
  BY <1>8, <1>9, <1>10, <1>11, <1>12 DEF CommandsInv

\* The name that x has in the queue of the world, where its queue is the m-th root.
Renamed(m, x) == [home |-> World, key |-> <<m>> \o x.key]

MovedTo(s, k, t) == t = [i \in DOMAIN s |-> [s[i] EXCEPT !.name = Renamed(k, s[i].name)]]

\* What is moved is still commands.
LEMMA MovedForm ==
  ASSUME NEW s \in Seq(KnownCommand), NEW k \in Nat, NEW t, MovedTo(s, k, t)
  PROVE  /\ t \in Seq(KnownCommand) /\ Len(t) = Len(s)
         /\ \A i \in 1 .. Len(s) : t[i].name = Renamed(k, s[i].name)
<1>0. t = [i \in DOMAIN s |-> [s[i] EXCEPT !.name =
             [home |-> World, key |-> <<k>> \o s[i].name.key]]]
  BY DEF MovedTo, Renamed
<1>1. Len(s) \in Nat /\ DOMAIN s = 1 .. Len(s) /\ \A i \in 1 .. Len(s) : s[i] \in KnownCommand
  BY LenProperties, ElementOfSeq
<1>2. \A c \in KnownCommand : \A x \in Name :
         [c EXCEPT !.name = x] \in KnownCommand /\ [c EXCEPT !.name = x].name = x
  BY DEF KnownCommand, Command
<1>3. ASSUME NEW i \in 1 .. Len(s)
      PROVE  [home |-> World, key |-> <<k>> \o s[i].name.key] \in Name
  <2>1. s[i].name \in Name
    BY <1>1 DEF KnownCommand, Command
  <2>2. PICK x \in Name : x = s[i].name
    BY <2>1
  <2> QED
    BY <2>2, NamesForm
<1>4. ASSUME NEW i \in 1 .. Len(s)
      PROVE  /\ t[i] \in KnownCommand
             /\ t[i].name = [home |-> World, key |-> <<k>> \o s[i].name.key]
  <2>1. PICK x : x = [home |-> World, key |-> <<k>> \o s[i].name.key]
    OBVIOUS
  <2>2. x \in Name /\ s[i] \in KnownCommand
    BY <1>1, <1>3, <2>1
  <2>3. PICK c \in KnownCommand : c = s[i]
    BY <2>2
  <2>4. [c EXCEPT !.name = x] \in KnownCommand /\ [c EXCEPT !.name = x].name = x
    BY <1>2, <2>2
  <2>5. t[i] = [c EXCEPT !.name = x]
    BY <1>0, <1>1, <2>1, <2>3
  <2> QED
    BY <2>1, <2>4, <2>5
<1>5. t = [i \in 1 .. Len(s) |-> t[i]]
  BY <1>0, <1>1
<1>6. t \in Seq(KnownCommand) /\ Len(t) = Len(s)
  <2>1. DOMAIN t = 1 .. Len(s)
    BY <1>0, <1>1
  <2>2. t \in [1 .. Len(s) -> KnownCommand]
    BY <1>4, <1>5, <2>1
  <2> QED
    BY <1>1, <2>1, <2>2, SeqDef, LenProperties
<1> QED
  BY <1>4, <1>6 DEF Renamed

\* A queue is appended to that of the world.
LEMMA AppendStep ==
  ASSUME AllInv, NEW q \in Queues, AppendToWorld(q)
  PROVE  CommandsInv'
<1> DEFINE new(name) == [home |-> World, key |-> <<roots[World] + 1>> \o name.key]
           moved == queues[q].bytes
<1>1. /\ stack = <<>> /\ ~unwinding /\ applying = None /\ stack' = stack
      /\ applying' = applying /\ unwinding' = unwinding /\ killed' = killed /\ held' = held
      /\ roots' = [roots EXCEPT ![World] = @ + 1]
  BY DEF AppendToWorld, Idle
<1>2. /\ roots \in [AllQueues -> Nat] /\ queues \in [AllQueues -> QueueOf(KnownCommand)]
      /\ \A p \in AllQueues : queues[p].cursor = 0 /\ queues[p].panic_recovery = <<>>
      /\ q \in AllQueues /\ World \in AllQueues /\ q # World
  <2>1. \A p \in AllQueues : queues[p].cursor = 0
    BY <1>1 DEF AllInv, CommandsInv, Shape, InOrder, EndOf
  <2> QED
    BY <1>1, <2>1, NothingSaved, WorldIsOther DEF AllInv, CommandsInv, Shape
<1>3. PICK t : t = [i \in DOMAIN moved |-> [moved[i] EXCEPT !.name = new(@)]]
  OBVIOUS
<1>4. t \in Seq(KnownCommand)
  <2>1. moved \in Seq(KnownCommand) /\ roots[World] + 1 \in Nat
    <3>1. roots[World] \in Nat
      BY <1>2
    <3>2. moved \in Seq(KnownCommand)
      BY <1>2, VectorForm
    <3> QED
      BY <3>1, <3>2
  <2>2. PICK s \in Seq(KnownCommand) : s = moved
    BY <2>1
  <2>3. PICK k \in Nat : k = roots[World] + 1
    BY <2>1
  <2>4. MovedTo(s, k, t)
    BY <1>3, <2>2, <2>3 DEF MovedTo, Renamed
  <2> QED
    BY <2>2, <2>3, <2>4, MovedForm
<1>5. PICK s \in Seq(KnownCommand) : s = queues[World].bytes \o t
  <2>1. queues[World].bytes \in Seq(KnownCommand)
    BY <1>2, VectorForm
  <2> QED
    BY <1>4, <2>1, ConcatProperties
<1>6. queues' = [queues EXCEPT ![World].bytes = s, ![q].bytes = <<>>]
  BY <1>3, <1>5 DEF AppendToWorld
<1>7. \A v \in QueueOf(KnownCommand) : \A b \in Seq(KnownCommand) :
        /\ [v EXCEPT !.bytes = b] \in QueueOf(KnownCommand)
        /\ [v EXCEPT !.bytes = b].cursor = v.cursor
        /\ [v EXCEPT !.bytes = b].panic_recovery = v.panic_recovery
  BY DEF QueueOf
<1>8. /\ queues' \in [AllQueues -> QueueOf(KnownCommand)]
      /\ \A p \in AllQueues : queues'[p].cursor = 0 /\ queues'[p].panic_recovery = <<>>
  <2>1. queues' = [queues EXCEPT ![World] = [queues[World] EXCEPT !.bytes = s],
                                 ![q] = [queues[q] EXCEPT !.bytes = <<>>]]
    BY <1>2, <1>6
  <2>2. <<>> \in Seq(KnownCommand)
    OBVIOUS
  <2>3. queues[World] \in QueueOf(KnownCommand) /\ queues[q] \in QueueOf(KnownCommand)
    BY <1>2
  <2>4. PICK v : v = [queues[World] EXCEPT !.bytes = s]
    OBVIOUS
  <2>5. PICK w : w = [queues[q] EXCEPT !.bytes = <<>>]
    OBVIOUS
  <2>6. /\ v \in QueueOf(KnownCommand) /\ v.cursor = 0 /\ v.panic_recovery = <<>>
        /\ w \in QueueOf(KnownCommand) /\ w.cursor = 0 /\ w.panic_recovery = <<>>
    BY <1>2, <1>7, <2>2, <2>3, <2>4, <2>5
  <2>7. queues' = [queues EXCEPT ![World] = v, ![q] = w]
    BY <2>1, <2>4, <2>5
  <2> QED
    BY <1>2, <2>6, <2>7
<1>9. KnownCommand' = KnownCommand
  BY <1>1 DEF KnownCommand
<1>10. Shape(queues', <<>>, KnownCommand)
  BY <1>8, NoCalls
<1>11. SpawnFindsItsEntity' /\ NothingPending' /\ RecoveryInOrder'
  BY <1>1, <1>8 DEF SpawnFindsItsEntity, NothingPending, Settled, Idle, RecoveryInOrder
<1>12. /\ applying' \in Queues \cup {None} /\ unwinding' \in BOOLEAN
       /\ roots' \in [AllQueues -> Nat]
  BY <1>1, <1>2 DEF AllInv, CommandsInv
<1> QED
  BY <1>1, <1>9, <1>10, <1>11, <1>12 DEF CommandsInv

\* The world is flushed, from outside or in the middle of a command.
LEMMA FlushStepCommands ==
  ASSUME AllInv, Flush
  PROVE  HandlesInv' /\ CommandsInv'
<1>1. /\ \/ stack = <<>> /\ ~unwinding
         \/ Running /\ Top.run.kind = "closure"
      /\ ents' = flush_entities /\ flush_commands(stack)
      /\ applying' = applying /\ unwinding' = unwinding /\ held' = held /\ killed' = killed
      /\ roots' = roots
  BY DEF Flush, Idle, history
<1>2. HandlesInv' /\ ~needs_flush(ents')
  BY <1>1, FlushHandles DEF AllInv
<1>3. /\ ~unwinding /\ Quiet(stack)
      /\ stack # <<>> => Topmost(stack).start < Topmost(stack).local
  BY <1>1, QuietStack, RunningTop, TopIsTopmost DEF AllInv, Running
<1> QED
  BY <1>1, <1>2, <1>3, FlushedCommands DEF AllInv, CommandsInv

\* A queue is applied: first the world is flushed.
LEMMA ApplyStep ==
  ASSUME AllInv, NEW q \in Queues, Apply(q)
  PROVE  HandlesInv' /\ CommandsInv'
<1>1. /\ stack = <<>> /\ ~unwinding /\ ents' = flush_entities /\ flush_commands(<<>>)
      /\ applying' = q /\ unwinding' = unwinding /\ held' = held /\ killed' = killed
      /\ roots' = roots
  BY DEF Apply, Idle, history
<1>2. HandlesInv' /\ ~needs_flush(ents')
  BY <1>1, FlushHandles DEF AllInv
<1>3. Shape(queues, <<>>, KnownCommand) /\ Quiet(<<>>)
  BY <1>1, QuietStack DEF AllInv, CommandsInv
<1>4. applying' \in Queues \cup {None}
  BY <1>1
<1>5. PICK below : below = <<>>
  OBVIOUS
<1>6. /\ Shape(queues, below, KnownCommand) /\ Quiet(below) /\ flush_commands(below)
      /\ below # <<>> => Topmost(below).start < Topmost(below).local
  BY <1>1, <1>3, <1>5
<1>7. held \cup killed \subseteq held' \cup killed' /\ CommandsInv
  BY <1>1 DEF AllInv
<1> QED
  BY <1>1, <1>2, <1>4, <1>6, <1>7, FlushedCommands

\* A command returns.
LEMMA ReturnStepCommands ==
  ASSUME AllInv, stack # <<>>, Topmost(stack).run # None, ~unwinding, Return,
         held' = held, killed' = killed
  PROVE  HandlesInv' /\ CommandsInv'
<1>1. /\ ents' = flush_entities /\ flush_commands(SetTop([Top EXCEPT !.run = None]))
      /\ applying' = applying /\ unwinding' = unwinding /\ roots' = roots
  BY DEF Return
<1>2. HandlesInv' /\ ~needs_flush(ents')
  BY <1>1, FlushHandles DEF AllInv
<1>3. PICK below : below = SetTop([Top EXCEPT !.run = None])
  OBVIOUS
<1>4. /\ Shape(queues, below, KnownCommand) /\ Quiet(below)
      /\ Topmost(below).start < Topmost(below).local
  BY <1>3, ReturnedTop DEF AllInv
<1>5. applying' \in Queues \cup {None} /\ held \cup killed \subseteq held' \cup killed'
  BY <1>1 DEF AllInv, CommandsInv
<1> QED
  BY <1>1, <1>2, <1>3, <1>4, <1>5, FlushedCommands DEF AllInv

\* A command despawns its entity and returns.
LEMMA DespawnStepCommands ==
  ASSUME AllInv, DespawnCommand
  PROVE  HandlesInv' /\ CommandsInv'
<1>1. /\ stack # <<>> /\ Topmost(stack).run # None /\ ~unwinding
      /\ Topmost(stack).run.kind = "despawn"
      /\ Top.run.entity.generation < MaxGeneration
      /\ applying' = applying /\ unwinding' = unwinding /\ roots' = roots
  BY TopIsTopmost DEF DespawnCommand, Running, history
<1>2. PICK below : below = SetTop([Top EXCEPT !.run = None])
  OBVIOUS
<1>3. PICK e \in held \cup killed : e = Top.run.entity
  <2>1. Topmost(stack).run \in KnownCommand
    BY <1>1, RunningTop DEF AllInv
  <2> QED
    BY <1>1, <2>1, TopIsTopmost DEF KnownCommand
<1>4. despawn(e, below) /\ e.generation < MaxGeneration
  BY <1>1, <1>2, <1>3 DEF DespawnCommand
<1>5. HandlesInv' /\ ~needs_flush(ents')
  BY <1>4, DespawnHandles DEF AllInv
<1>6. flush_commands(below) /\ held \cup killed \subseteq held' \cup killed'
  BY <1>3, <1>4 DEF despawn
<1>7. /\ Shape(queues, below, KnownCommand) /\ Quiet(below)
      /\ Topmost(below).start < Topmost(below).local
  BY <1>1, <1>2, ReturnedTop DEF AllInv
<1>8. applying' \in Queues \cup {None}
  BY <1>1 DEF AllInv, CommandsInv
<1> QED
  BY <1>1, <1>5, <1>6, <1>7, <1>8, FlushedCommands DEF AllInv

\* Whoever has the world despawns an entity.
LEMMA DespawnNowStep ==
  ASSUME AllInv, DespawnNow
  PROVE  HandlesInv' /\ CommandsInv'
<1>1. /\ \/ stack = <<>> /\ ~unwinding
         \/ Running /\ Top.run.kind = "closure"
      /\ applying' = applying /\ unwinding' = unwinding /\ roots' = roots
  BY DEF DespawnNow, Idle, history
<1>2. PICK e \in held : e.generation < MaxGeneration /\ despawn(e, stack)
  BY DEF DespawnNow
<1>3. HandlesInv' /\ ~needs_flush(ents')
  BY <1>2, DespawnHandles DEF AllInv
<1>4. flush_commands(stack) /\ held \cup killed \subseteq held' \cup killed'
  BY <1>2 DEF despawn
<1>5. /\ ~unwinding /\ Quiet(stack)
      /\ stack # <<>> => Topmost(stack).start < Topmost(stack).local
  BY <1>1, QuietStack, RunningTop, TopIsTopmost DEF AllInv, Running
<1>6. applying' \in Queues \cup {None} /\ Shape(queues, stack, KnownCommand)
  BY <1>1 DEF AllInv, CommandsInv
<1> QED
  BY <1>1, <1>3, <1>4, <1>5, <1>6, FlushedCommands DEF AllInv

\* Whoever has the world spawns an entity.
LEMMA SpawnNowStepCommands ==
  ASSUME AllInv, SpawnNow
  PROVE  HandlesInv' /\ CommandsInv'
<1>1. /\ Idle \/ (Running /\ Top.run.kind = "closure")
      /\ stack' = stack /\ queues' = queues /\ applying' = applying
      /\ unwinding' = unwinding /\ roots' = roots /\ killed' = killed /\ held \subseteq held'
  BY DEF SpawnNow, commands, history
<1>2. Quiet(stack)
  BY <1>1, QuietStack, TopIsTopmost DEF AllInv, Running, Idle
<1>3. Shape(queues, stack, KnownCommand) /\ Shape(queues, stack, KnownCommand')
  BY <1>1, KnownGrows, ShapeMonotonic DEF AllInv, CommandsInv
<1>4. SpawnFindsItsEntity'
  <2>1. stack' \in Seq(FrameOf(KnownCommand)) /\ Quiet(stack')
    BY <1>1, <1>2, <1>3 DEF Shape
  <2> QED
    BY <2>1, QuietSpawns
<1>5. NothingPending'
  BY <1>1, TopIsTopmost DEF NothingPending, Settled, Idle, Running
<1>6. RecoveryInOrder'
  BY <1>1 DEF AllInv, CommandsInv, RecoveryInOrder
<1>7. /\ applying' \in Queues \cup {None} /\ unwinding' \in BOOLEAN
      /\ roots' \in [AllQueues -> Nat]
  BY <1>1 DEF AllInv, CommandsInv
<1>8. Shape(queues', stack', KnownCommand')
  BY <1>1, <1>3
<1> QED
  BY <1>4, <1>5, <1>6, <1>7, <1>8, SpawnHandles DEF CommandsInv, AllInv

\* The queue of a system is applied.
LEMMA ApplyItselfStep ==
  ASSUME AllInv, ApplyItself
  PROVE  CommandsInv'
<1>1. /\ stack = <<>> /\ applying # None /\ ~unwinding /\ Begin(applying, <<>>)
      /\ applying' = None /\ ents' = ents /\ unwinding' = unwinding
      /\ held' = held /\ killed' = killed /\ roots' = roots
  BY DEF ApplyItself, history
<1>2. applying \in AllQueues /\ applying # World /\ World \in AllQueues
  BY <1>1, WorldIsOther DEF AllInv, CommandsInv
<1>3. Shape(queues, <<>>, KnownCommand) /\ CalledFrom(<<>>, applying)
  BY <1>1 DEF AllInv, CommandsInv, CalledFrom
<1>4. Called(queues, <<>>, applying, queues', stack')
  BY <1>1 DEF Called, NewCall, Begin
<1>5. PICK S : S = <<>>
  OBVIOUS
<1>6. PICK R : R = queues'
  OBVIOUS
<1>7. PICK T : T = stack'
  OBVIOUS
<1>8. Shape(R, T, KnownCommand) /\ Len(T) = Len(S) + 1
      /\ T[Len(S) + 1] = NewCall(queues, applying)
  <2>1. Shape(queues, S, KnownCommand) /\ CalledFrom(S, applying)
        /\ Called(queues, S, applying, R, T)
    BY <1>3, <1>4, <1>5, <1>6, <1>7
  <2> QED
    BY <1>2, <2>1, CallBegins
<1>9. KnownCommand' = KnownCommand
  BY <1>1 DEF KnownCommand
<1>10. Shape(queues', stack', KnownCommand')
  BY <1>6, <1>7, <1>8, <1>9
<1>11. Len(stack') = 1 /\ stack'[1].run = None
  <2>1. Len(S) = 0
    BY <1>5
  <2>2. NewCall(queues, applying).run = None
    BY DEF NewCall
  <2> QED
    BY <1>7, <1>8, <2>1, <2>2
<1>12. SpawnFindsItsEntity'
  <2>1. Quiet(stack')
    BY <1>11 DEF Quiet
  <2>2. stack' \in Seq(FrameOf(KnownCommand))
    BY <1>9, <1>10 DEF Shape
  <2> QED
    BY <2>1, <2>2, QuietSpawns
<1>13. \A p \in AllQueues : /\ queues'[p].panic_recovery = <<>>
                            /\ p # applying => queues'[p] = queues[p]
  <2>1. \A p \in AllQueues : queues[p].panic_recovery = <<>>
    BY <1>1, NothingSaved DEF AllInv
  <2>2. \A v \in QueueOf(KnownCommand) : \A k : 
           [v EXCEPT !.cursor = k].panic_recovery = v.panic_recovery
    BY DEF QueueOf
  <2>3. queues' = [queues EXCEPT ![applying] =
                     [queues[applying] EXCEPT !.cursor = Len(queues[applying].bytes)]]
    BY <1>4 DEF Called
  <2>4. queues \in [AllQueues -> QueueOf(KnownCommand)]
    BY <1>3 DEF Shape
  <2> QED
    BY <1>2, <2>1, <2>2, <2>3, <2>4
<1>14. NothingPending'
  <2>1. Settled
    BY <1>1 DEF Settled, Idle
  <2>2. ~needs_flush(ents) /\ queues[World].cursor = Len(queues[World].bytes)
    BY <2>1 DEF AllInv, CommandsInv, NothingPending
  <2> QED
    BY <1>1, <1>2, <1>13, <2>2 DEF NothingPending
<1>15. RecoveryInOrder'
  BY <1>13 DEF RecoveryInOrder
<1>16. /\ applying' \in Queues \cup {None} /\ unwinding' \in BOOLEAN
       /\ roots' \in [AllQueues -> Nat]
  BY <1>1 DEF AllInv, CommandsInv
<1> QED
  BY <1>10, <1>12, <1>14, <1>15, <1>16 DEF CommandsInv

\* The next command of a frame is there, and the frame with it is one.
LEMMA StartedTop ==
  ASSUME CommandsInv, stack # <<>>, Topmost(stack).local < Topmost(stack).stop
  PROVE  /\ Topmost(stack).local + 1 \in 1 .. Len(queues[Topmost(stack).queue].bytes)
         /\ queues[Topmost(stack).queue].bytes[Topmost(stack).local + 1] \in KnownCommand
<1>1. /\ Topmost(stack).queue \in AllQueues /\ Topmost(stack).local \in Nat
      /\ Topmost(stack).stop \in Nat
      /\ FrameInOrder(queues, stack, Len(stack))
  BY RunningTop
<1>2. queues \in [AllQueues -> QueueOf(KnownCommand)]
  BY DEF CommandsInv, Shape
<1>3. Topmost(stack).stop <= Len(queues[Topmost(stack).queue].bytes)
  BY <1>1 DEF FrameInOrder, Topmost
<1>4. Len(queues[Topmost(stack).queue].bytes) \in Nat
  BY <1>1, <1>2, VectorForm
<1>5. Topmost(stack).local + 1 \in 1 .. Len(queues[Topmost(stack).queue].bytes)
  BY <1>1, <1>3, <1>4
<1> QED
  BY <1>1, <1>2, <1>5, VectorForm

\* A command is started.
LEMMA StartStep ==
  ASSUME AllInv, Start
  PROVE  CommandsInv'
<1> DEFINE c == queues[Topmost(stack).queue].bytes[Topmost(stack).local + 1]
           f == [Topmost(stack) EXCEPT !.local = @ + 1, !.run = c, !.kids = 0]
<1>1. /\ stack # <<>> /\ ~unwinding /\ Topmost(stack).run = None
      /\ Topmost(stack).local < Topmost(stack).stop
      /\ stack' = [stack EXCEPT ![Len(stack)] = f]
      /\ ents' = ents /\ queues' = queues /\ applying' = applying
      /\ unwinding' = unwinding /\ held' = held /\ killed' = killed /\ roots' = roots
  BY TopIsTopmost DEF Start, SetTop
<1>2. /\ Topmost(stack) \in FrameOf(KnownCommand) /\ Len(stack) \in 1 .. Len(stack)
      /\ Len(stack) \in Nat /\ FrameInOrder(queues, stack, Len(stack))
      /\ Topmost(stack).start \in Nat /\ Topmost(stack).local \in Nat
      /\ Topmost(stack).stop \in Nat /\ CommandsInv
  BY <1>1, RunningTop DEF AllInv
<1>3. c \in KnownCommand /\ c # None
  <2>1. c \in KnownCommand
    BY <1>1, <1>2, StartedTop
  <2> QED
    BY <2>1, NoneAssumption DEF KnownCommand
<1> HIDE DEF c
<1>4. /\ f \in FrameOf(KnownCommand)
      /\ f.queue = Topmost(stack).queue /\ f.start = Topmost(stack).start
      /\ f.stop = Topmost(stack).stop /\ f.local = Topmost(stack).local + 1 /\ f.run = c
  <2>1. PICK t \in FrameOf(KnownCommand) : t = Topmost(stack)
    BY <1>2
  <2>2. PICK k \in Nat : k = t.local + 1
    BY <1>2, <2>1
  <2>3. f = [t EXCEPT !.local = k, !.run = c, !.kids = 0]
    BY <2>1, <2>2
  <2>4. PICK g : g = [t EXCEPT !.local = k, !.run = c, !.kids = 0]
    OBVIOUS
  <2>5. g \in FrameOf(KnownCommand)
    BY <1>3, <2>4 DEF FrameOf
  <2>6. /\ g.queue = t.queue /\ g.start = t.start /\ g.stop = t.stop
        /\ g.local = k /\ g.run = c
    BY <2>4 DEF FrameOf
  <2> QED
    BY <2>1, <2>2, <2>3, <2>4, <2>5, <2>6
<1> HIDE DEF f
<1>5. Topmost(stack).local <= f.local /\ f.local <= f.stop /\ f.start < f.local
  BY <1>1, <1>2, <1>4 DEF FrameInOrder, Topmost
<1>6. /\ Shape(queues, stack', KnownCommand) /\ Len(stack') = Len(stack)
      /\ Topmost(stack') = f
      /\ \A i \in 1 .. Len(stack) : i # Len(stack) => stack'[i] = stack[i]
  <2>1. PICK T : T = stack'
    OBVIOUS
  <2>2. WithTop(stack, f, T) /\ Continues(stack, f)
    BY <1>1, <1>4, <1>5, <2>1 DEF WithTop, Continues
  <2>4. Shape(queues, stack, KnownCommand)
    BY <1>2 DEF CommandsInv
  <2>3. /\ Shape(queues, T, KnownCommand) /\ Len(T) = Len(stack) /\ Topmost(T) = f
        /\ \A i \in 1 .. Len(stack) : i # Len(stack) => T[i] = stack[i]
    BY <1>1, <1>4, <2>2, <2>4, TopRuns
  <2> QED
    BY <2>1, <2>3 DEF Topmost
<1>7. KnownCommand' = KnownCommand
  BY <1>1 DEF KnownCommand
<1>8. ~needs_flush(ents) /\ queues[World].cursor = Len(queues[World].bytes)
  BY <1>1 DEF AllInv, CommandsInv, NothingPending, Settled, Idle
<1>9. SpawnFindsItsEntity'
  <2>1. DOMAIN stack' = 1 .. Len(stack)
    BY <1>6, StackForm DEF Shape
  <2>2. ASSUME NEW i \in 1 .. Len(stack), stack'[i].run # None,
               stack'[i].run.kind = "insert"
        PROVE  Exists(ents, stack'[i].run.entity) \/ stack'[i].run.entity \in killed
    <3>1. CASE i # Len(stack)
      <4>1. i < Len(stack) /\ stack'[i] = stack[i]
        BY <1>2, <1>6, <3>1
      <4> QED
        BY <1>2, <2>2, <4>1 DEF CommandsInv, Shape, InOrder, FrameInOrder
    <3>2. CASE i = Len(stack)
      <4>1. stack'[i].run = c
        BY <1>4, <1>6, <3>2 DEF Topmost
      <4>2. c.entity \in held \cup killed
        BY <1>3, <2>2, <4>1 DEF KnownCommand
      <4>3. c.entity \in held => Exists(ents, c.entity)
        BY <1>8, HeldExists DEF AllInv
      <4> QED
        BY <4>1, <4>2, <4>3
    <3> QED
      BY <3>1, <3>2
  <2> QED
    BY <1>1, <2>1, <2>2 DEF SpawnFindsItsEntity
<1>10. NothingPending'
  BY <1>1, <1>8 DEF NothingPending
<1>11. RecoveryInOrder'
  BY <1>1, NothingSaved DEF AllInv, RecoveryInOrder
<1>12. /\ applying' \in Queues \cup {None} /\ unwinding' \in BOOLEAN
       /\ roots' \in [AllQueues -> Nat]
  BY <1>1, <1>2 DEF CommandsInv
<1>13. Shape(queues', stack', KnownCommand')
  BY <1>1, <1>6, <1>7
<1> QED
  BY <1>9, <1>10, <1>11, <1>12, <1>13 DEF CommandsInv

\* The frames under the topmost one.
LEMMA FramesBelow ==
  ASSUME CommandsInv, stack # <<>>, NEW C, NEW Q, NEW T, Shape(Q, T, C),
         Len(T) = Len(stack) - 1, \A i \in 1 .. Len(stack) - 1 : T[i] = stack[i]
  PROVE  Quiet(T)
<1>1. Len(stack) \in Nat /\ Len(stack) \in 1 .. Len(stack)
  BY RunningTop
<1>2. ASSUME NEW i \in 1 .. Len(T) PROVE T[i].run = None \/ T[i].run.kind = "closure"
  <2>1. i \in 1 .. Len(stack) /\ i < Len(stack) /\ T[i] = stack[i]
    BY <1>1
  <2>2. FrameInOrder(queues, stack, i)
    BY <2>1 DEF CommandsInv, Shape, InOrder
  <2> QED
    BY <2>1, <2>2 DEF FrameInOrder
<1> QED
  BY <1>2 DEF Quiet

\* A part of a vector is one.
LEMMA PartForm ==
  ASSUME NEW C, NEW s \in Seq(C), NEW m \in Nat, NEW n \in Nat, m <= n, n <= Len(s)
  PROVE  /\ SubSeq(s, m + 1, n) \in Seq(C) /\ Len(SubSeq(s, m + 1, n)) = n - m
         /\ \A i \in 1 .. n - m : SubSeq(s, m + 1, n)[i] = s[m + i]
<1>1. Len(s) \in Nat /\ \A i \in 1 .. Len(s) : s[i] \in C
  BY LenProperties, ElementOfSeq
<1>2. \A i \in m + 1 .. n : s[i] \in C
  BY <1>1
<1>3. PICK k \in Nat : k = m + 1
  OBVIOUS
<1>4. /\ SubSeq(s, k, n) \in Seq(C)
      /\ Len(SubSeq(s, k, n)) = IF k <= n THEN n - k + 1 ELSE 0
      /\ \A i \in 1 .. n - k + 1 : SubSeq(s, k, n)[i] = s[k + i - 1]
  BY <1>2, <1>3, SubSeqProperties
<1>5. n - k + 1 = n - m /\ \A i \in 1 .. n - m : k + i - 1 = m + i
  BY <1>3
<1>6. Len(SubSeq(s, k, n)) = n - m
  BY <1>3, <1>4
<1> QED
  BY <1>3, <1>4, <1>5, <1>6

\* The vector of the topmost frame, and the frame's part of it.
LEMMA TopVector ==
  ASSUME CommandsInv, stack # <<>>, NEW q, q = Topmost(stack).queue
  PROVE  /\ q \in AllQueues /\ queues \in [AllQueues -> QueueOf(KnownCommand)]
         /\ queues[q] \in QueueOf(KnownCommand)
         /\ queues[q].bytes \in Seq(KnownCommand) /\ Len(queues[q].bytes) \in Nat
         /\ queues[q].panic_recovery \in Seq(KnownCommand)
         /\ Topmost(stack).start \in Nat /\ Topmost(stack).local \in Nat
         /\ Topmost(stack).stop \in Nat
         /\ Topmost(stack).start <= Topmost(stack).local
         /\ Topmost(stack).local <= Topmost(stack).stop
         /\ Topmost(stack).stop <= Len(queues[q].bytes)
<1>1. /\ Topmost(stack).queue \in AllQueues /\ Topmost(stack).local \in Nat
      /\ Topmost(stack).stop \in Nat /\ Topmost(stack).start \in Nat
      /\ FrameInOrder(queues, stack, Len(stack))
  BY RunningTop
<1>2. queues \in [AllQueues -> QueueOf(KnownCommand)]
  BY DEF CommandsInv, Shape
<1>3. /\ Topmost(stack).start <= Topmost(stack).local
      /\ Topmost(stack).local <= Topmost(stack).stop
      /\ Topmost(stack).stop <= Len(queues[q].bytes)
  BY <1>1 DEF FrameInOrder, Topmost
<1> QED
  BY <1>1, <1>2, <1>3, VectorForm

\* A call is left, and v is what it leaves in its queue.
LEMMA CallLeft ==
  ASSUME CommandsInv, stack # <<>>, NEW q, q = Topmost(stack).queue,
         NEW v \in QueueOf(KnownCommand), Leaves(queues, stack, v, queues'),
         WithoutTop(stack, stack'),
         held' = held, killed' = killed
  PROVE  /\ Shape(queues', stack', KnownCommand') /\ SpawnFindsItsEntity'
         /\ Len(stack') = Len(stack) - 1
         /\ \A i \in 1 .. Len(stack) - 1 : stack'[i] = stack[i]
         /\ queues'[q] = v /\ \A p \in AllQueues : p # q => queues'[p] = queues[p]
<1>1. PICK R : R = queues'
  OBVIOUS
<1>2. PICK T : T = stack'
  OBVIOUS
<1>3. Leaves(queues, stack, v, R) /\ WithoutTop(stack, T)
  BY <1>1, <1>2
<1>4. Shape(queues, stack, KnownCommand)
  BY DEF CommandsInv
<1>5. /\ Shape(R, T, KnownCommand) /\ Len(T) = Len(stack) - 1
      /\ \A i \in 1 .. Len(stack) - 1 : T[i] = stack[i]
  <2>1. PICK S : S = stack
    OBVIOUS
  <2>2. PICK Q : Q = queues
    OBVIOUS
  <2>3. PICK C : C = KnownCommand
    OBVIOUS
  <2>4. v \in QueueOf(C) /\ Leaves(Q, S, v, R) /\ WithoutTop(S, T) /\ Shape(Q, S, C)
    BY <1>3, <1>4, <2>1, <2>2, <2>3
  <2>5. S # <<>>
    BY <2>1
  <2>6. Shape(R, T, C) /\ Popped(S, T)
    BY <2>4, <2>5, CallEnds
  <2> QED
    BY <2>1, <2>3, <2>6 DEF Popped
<1>6. Quiet(T)
  BY <1>5, FramesBelow
<1>7. SpawnFindsItsEntity'
  <2>1. stack' \in Seq(FrameOf(KnownCommand)) /\ Quiet(stack')
    BY <1>2, <1>5, <1>6 DEF Shape, Quiet
  <2> QED
    BY <2>1, QuietSpawns
<1>8. KnownCommand' = KnownCommand
  BY DEF KnownCommand
<1>9. queues'[q] = v /\ \A p \in AllQueues : p # q => queues'[p] = queues[p]
  BY TopVector DEF Leaves
<1> QED
  BY <1>1, <1>2, <1>5, <1>7, <1>8, <1>9

\* A call ends.
LEMMA EndStep ==
  ASSUME AllInv, End
  PROVE  CommandsInv'
<1>1. PICK q : q = Topmost(stack).queue
  OBVIOUS
<1>2. PICK v : v = [queues[q] EXCEPT !.bytes = SubSeq(@, 1, Topmost(stack).start),
                                     !.cursor = Topmost(stack).start]
  OBVIOUS
<1>3. /\ stack # <<>> /\ ~unwinding /\ Topmost(stack).run = None
      /\ stack' = SubSeq(stack, 1, Len(stack) - 1)
      /\ ents' = ents /\ applying' = applying /\ unwinding' = unwinding
      /\ held' = held /\ killed' = killed /\ roots' = roots
  BY TopIsTopmost DEF End, history
<1>4. /\ q \in AllQueues /\ queues \in [AllQueues -> QueueOf(KnownCommand)]
      /\ queues[q] \in QueueOf(KnownCommand) /\ queues[q].bytes \in Seq(KnownCommand)
      /\ Topmost(stack).start \in Nat /\ Topmost(stack).start <= Len(queues[q].bytes)
  <2>1. /\ Topmost(stack).local \in Nat /\ Topmost(stack).stop \in Nat
        /\ Len(queues[q].bytes) \in Nat /\ Topmost(stack).start \in Nat
        /\ Topmost(stack).start <= Topmost(stack).local
        /\ Topmost(stack).local <= Topmost(stack).stop
        /\ Topmost(stack).stop <= Len(queues[q].bytes)
    BY <1>1, <1>3, TopVector DEF AllInv
  <2>2. Topmost(stack).start <= Len(queues[q].bytes)
    BY <2>1
  <2> QED
    BY <1>1, <1>3, <2>1, <2>2, TopVector DEF AllInv
<1>5. queues' = [queues EXCEPT ![q] = v]
  <2>1. queues' = [queues EXCEPT ![q].bytes = SubSeq(@, 1, Topmost(stack).start),
                                 ![q].cursor = Topmost(stack).start]
    BY <1>1, TopIsTopmost DEF End
  <2> QED
    BY <1>2, <1>4, <2>1
<1>6. /\ v \in QueueOf(KnownCommand) /\ v.cursor = Topmost(stack).start
      /\ Len(v.bytes) = Topmost(stack).start /\ v.panic_recovery = queues[q].panic_recovery
  <2>1. PICK s \in Seq(KnownCommand) : s = SubSeq(queues[q].bytes, 1, Topmost(stack).start)
                                       /\ Len(s) = Topmost(stack).start
    <3>1. PICK n \in Nat : n = Topmost(stack).start
      BY <1>4
    <3>2. PICK b \in Seq(KnownCommand) : b = queues[q].bytes
      BY <1>4
    <3>3. 0 + 1 = 1 /\ 0 <= n /\ n <= Len(b) /\ n - 0 = n
      BY <1>4, <3>1, <3>2
    <3>4. SubSeq(b, 0 + 1, n) \in Seq(KnownCommand) /\ Len(SubSeq(b, 0 + 1, n)) = n - 0
      BY <3>3, PartForm
    <3> QED
      BY <3>1, <3>2, <3>3, <3>4
  <2>2. PICK k \in Nat : k = Topmost(stack).start
    BY <1>4
  <2>3. PICK w \in QueueOf(KnownCommand) : w = queues[q]
    BY <1>4
  <2>4. v = [w EXCEPT !.bytes = s, !.cursor = k]
    BY <1>2, <2>1, <2>2, <2>3
  <2>5. v \in QueueOf(KnownCommand)
    BY <2>4 DEF QueueOf
  <2>6. v.cursor = k /\ v.bytes = s /\ v.panic_recovery = w.panic_recovery
    BY <2>4 DEF QueueOf
  <2> QED
    BY <2>1, <2>2, <2>3, <2>5, <2>6
<1>7. /\ Shape(queues', stack', KnownCommand') /\ SpawnFindsItsEntity'
      /\ queues'[q] = v /\ \A p \in AllQueues : p # q => queues'[p] = queues[p]
  <2>1. Leaves(queues, stack, v, queues') /\ WithoutTop(stack, stack')
    BY <1>1, <1>3, <1>5, <1>6 DEF Leaves, WithoutTop
  <2> QED
    BY <1>1, <1>3, <1>6, <2>1, CallLeft DEF AllInv
<1>8. RecoveryInOrder'
  BY <1>3, <1>4, <1>6, <1>7, NothingSaved DEF AllInv, RecoveryInOrder
<1>9. NothingPending'
  <2>1. ~needs_flush(ents) /\ queues[World].cursor = Len(queues[World].bytes)
    BY <1>3 DEF AllInv, CommandsInv, NothingPending, Settled, Idle
  <2>2. queues'[World].cursor = Len(queues'[World].bytes)
    BY <1>6, <1>7, <2>1, WorldIsOther
  <2> QED
    BY <1>3, <2>1, <2>2 DEF NothingPending
<1>10. /\ applying' \in Queues \cup {None} /\ unwinding' \in BOOLEAN
       /\ roots' \in [AllQueues -> Nat]
  BY <1>3 DEF AllInv, CommandsInv
<1> QED
  BY <1>7, <1>8, <1>9, <1>10 DEF CommandsInv

\* A command panics.
LEMMA PanicStep ==
  ASSUME AllInv, ~unwinding, Panic
  PROVE  CommandsInv'
<1>1. /\ unwinding' = TRUE /\ ents' = ents /\ queues' = queues /\ stack' = stack
      /\ applying' = applying /\ held' = held /\ killed' = killed /\ roots' = roots
  BY DEF Panic
<1>2. KnownCommand' = KnownCommand
  BY <1>1 DEF KnownCommand
<1>3. Shape(queues', stack', KnownCommand') /\ SpawnFindsItsEntity'
  BY <1>1, <1>2 DEF AllInv, CommandsInv, SpawnFindsItsEntity
<1>4. NothingPending' /\ RecoveryInOrder'
  BY <1>1, NothingSaved DEF AllInv, NothingPending, Settled, RecoveryInOrder
<1>5. /\ applying' \in Queues \cup {None} /\ unwinding' \in BOOLEAN
      /\ roots' \in [AllQueues -> Nat]
  BY <1>1 DEF AllInv, CommandsInv
<1> QED
  BY <1>3, <1>4, <1>5 DEF CommandsInv

\* The unwinding leaves a call.
LEMMA UnwindStep ==
  ASSUME AllInv, Unwind
  PROVE  CommandsInv'
<1>1. PICK q : q = Topmost(stack).queue
  OBVIOUS
<1> DEFINE v == IF Topmost(stack).start = 0
                THEN [bytes |-> Saved(q), cursor |-> 0, panic_recovery |-> <<>>]
                ELSE [bytes |-> SubSeq(queues[q].bytes, 1, Topmost(stack).start),
                      cursor |-> Topmost(stack).start, panic_recovery |-> Saved(q)]
<1>2. /\ stack # <<>> /\ unwinding
      /\ stack' = SubSeq(stack, 1, Len(stack) - 1) /\ queues' = [queues EXCEPT ![q] = v]
      /\ ents' = ents /\ applying' = applying /\ unwinding' = unwinding
      /\ held' = held /\ killed' = killed /\ roots' = roots
  BY <1>1, TopIsTopmost DEF Unwind, history
<1>3. /\ q \in AllQueues
      /\ queues[q].bytes \in Seq(KnownCommand) /\ Len(queues[q].bytes) \in Nat
      /\ queues[q].panic_recovery \in Seq(KnownCommand)
      /\ Topmost(stack).start \in Nat /\ Topmost(stack).local \in Nat
      /\ Topmost(stack).start <= Len(queues[q].bytes)
      /\ Topmost(stack).local <= Len(queues[q].bytes)
  <2>1. /\ Topmost(stack).local \in Nat /\ Topmost(stack).stop \in Nat
        /\ Len(queues[q].bytes) \in Nat /\ Topmost(stack).start \in Nat
        /\ Topmost(stack).start <= Topmost(stack).local
        /\ Topmost(stack).local <= Topmost(stack).stop
        /\ Topmost(stack).stop <= Len(queues[q].bytes)
    BY <1>1, <1>2, TopVector DEF AllInv
  <2>2. Topmost(stack).start <= Len(queues[q].bytes)
        /\ Topmost(stack).local <= Len(queues[q].bytes)
    BY <2>1
  <2> QED
    BY <1>1, <1>2, <2>1, <2>2, TopVector DEF AllInv
<1>4. Saved(q) \in Seq(KnownCommand)
  <2>1. PICK s \in Seq(KnownCommand) : s = queues[q].bytes
    BY <1>3
  <2>2. PICK m \in Nat : m = Topmost(stack).local
    BY <1>3
  <2>3. PICK n \in Nat : n = Len(s)
    BY <1>3, <2>1
  <2>4. SubSeq(s, m + 1, n) \in Seq(KnownCommand)
    BY <1>3, <2>1, <2>2, <2>3, PartForm
  <2>5. Unrun(q) = SubSeq(s, m + 1, n)
    BY <2>1, <2>2, <2>3, TopIsTopmost DEF Unrun
  <2> QED
    BY <1>3, <2>4, <2>5, ConcatProperties DEF Saved
<1>5. /\ SubSeq(queues[q].bytes, 1, Topmost(stack).start) \in Seq(KnownCommand)
      /\ Len(SubSeq(queues[q].bytes, 1, Topmost(stack).start)) = Topmost(stack).start
  <2>1. PICK n \in Nat : n = Topmost(stack).start
    BY <1>3
  <2>2. PICK b \in Seq(KnownCommand) : b = queues[q].bytes
    BY <1>3
  <2>3. 0 + 1 = 1 /\ 0 <= n /\ n <= Len(b) /\ n - 0 = n
    BY <1>3, <2>1, <2>2
  <2>4. SubSeq(b, 0 + 1, n) \in Seq(KnownCommand) /\ Len(SubSeq(b, 0 + 1, n)) = n - 0
    BY <2>3, PartForm
  <2> QED
    BY <2>1, <2>2, <2>3, <2>4
<1>6. /\ v \in QueueOf(KnownCommand) /\ v.cursor = Topmost(stack).start
      /\ Topmost(stack).start > 0 => Len(v.bytes) = Topmost(stack).start
      /\ Topmost(stack).start = 0 => v.panic_recovery = <<>>
  <2>1. CASE Topmost(stack).start = 0
    <3>1. <<>> \in Seq(KnownCommand) /\ 0 \in Nat
      OBVIOUS
    <3> QED
      BY <1>4, <2>1, <3>1 DEF QueueOf
  <2>2. CASE Topmost(stack).start # 0
    BY <1>3, <1>4, <1>5, <2>2 DEF QueueOf
  <2> QED
    BY <2>1, <2>2
<1> HIDE DEF v
<1>7. /\ Shape(queues', stack', KnownCommand') /\ SpawnFindsItsEntity'
      /\ Len(stack') = Len(stack) - 1
      /\ \A i \in 1 .. Len(stack) - 1 : stack'[i] = stack[i]
      /\ queues'[q] = v /\ \A p \in AllQueues : p # q => queues'[p] = queues[p]
  <2>1. PICK w \in QueueOf(KnownCommand) : w = v
    BY <1>6
  <2>2. Leaves(queues, stack, w, queues') /\ WithoutTop(stack, stack')
    BY <1>1, <1>2, <1>6, <2>1 DEF Leaves, WithoutTop
  <2>3. stack # <<>> /\ held' = held /\ killed' = killed /\ CommandsInv
    BY <1>2 DEF AllInv
  <2> QED
    BY <1>1, <2>1, <2>2, <2>3, CallLeft
<1>8. \A p \in AllQueues : queues[p].panic_recovery # <<>> => p = q
  BY <1>1, <1>2 DEF AllInv, CommandsInv, RecoveryInOrder
<1>9. Topmost(stack).start > 0 =>
        /\ q = World /\ Len(stack) - 1 \in 1 .. Len(stack) - 1
        /\ stack[Len(stack) - 1].queue = World
  <2>1. PICK n \in Nat : n = Len(stack) /\ n \in 1 .. n
    BY <1>2, RunningTop DEF AllInv
  <2>2. /\ n = 1 => stack[n].start = 0
        /\ n > 1 => stack[n].queue = World
    BY <1>2, <2>1, RunningTop DEF AllInv, FrameInOrder
  <2>3. ASSUME stack[n].start > 0
        PROVE  stack[n].queue = World /\ n - 1 \in 1 .. n - 1 /\ stack[n - 1].queue = World
    <3>1. n > 1 /\ n - 1 \in 1 .. n - 1 /\ n - 1 \in 1 .. n /\ n = (n - 1) + 1
      BY <2>1, <2>2, <2>3
    <3>2. stack[n].start = IF stack[n - 1].queue = World THEN stack[n - 1].stop ELSE 0
      BY <2>1, <3>1 DEF AllInv, CommandsInv, Shape, InOrder
    <3> QED
      BY <2>2, <2>3, <3>1, <3>2
  <2> QED
    BY <1>1, <2>1, <2>3 DEF Topmost
<1>10. RecoveryInOrder'
  <2>1. SUFFICES ASSUME NEW p \in AllQueues, queues'[p].panic_recovery # <<>>
                 PROVE  /\ p = World /\ unwinding' /\ stack' # <<>>
                        /\ Topmost(stack').queue = World
                        /\ Len(queues'[World].bytes) = queues'[World].cursor
    BY DEF RecoveryInOrder, Topmost
  <2>2. p = q /\ Topmost(stack).start > 0
    BY <1>3, <1>6, <1>7, <1>8, <2>1
  <2>3. /\ Len(stack') \in 1 .. Len(stack) - 1
        /\ Topmost(stack').queue = World
    BY <1>7, <1>9, <2>2 DEF Topmost
  <2>4. stack' # <<>>
    <3>1. Len(stack') # 0
      BY <2>3
    <3> QED
      BY <3>1
  <2> QED
    BY <1>2, <1>6, <1>7, <1>9, <2>2, <2>3, <2>4
<1>11. NothingPending'
  BY <1>2 DEF NothingPending, Settled
<1>12. /\ applying' \in Queues \cup {None} /\ unwinding' \in BOOLEAN
       /\ roots' \in [AllQueues -> Nat]
  BY <1>2 DEF AllInv, CommandsInv
<1> QED
  BY <1>7, <1>10, <1>11, <1>12 DEF CommandsInv

\* The panic is caught.
LEMMA CaughtStep ==
  ASSUME AllInv, Caught
  PROVE  CommandsInv'
<1>1. /\ stack = <<>> /\ unwinding' = FALSE /\ applying' = None /\ ents' = ents
      /\ queues' = queues /\ stack' = stack /\ held' = held /\ killed' = killed
      /\ roots' = roots
  BY DEF Caught, history
<1>2. KnownCommand' = KnownCommand
  BY <1>1 DEF KnownCommand
<1>3. Shape(queues', stack', KnownCommand') /\ SpawnFindsItsEntity'
  BY <1>1, <1>2 DEF AllInv, CommandsInv, SpawnFindsItsEntity
<1>4. NothingPending' /\ RecoveryInOrder'
  BY <1>1 DEF AllInv, CommandsInv, NothingPending, Settled, Idle, RecoveryInOrder
<1>5. /\ applying' \in Queues \cup {None} /\ unwinding' \in BOOLEAN
      /\ roots' \in [AllQueues -> Nat]
  BY <1>1 DEF AllInv, CommandsInv
<1> QED
  BY <1>3, <1>4, <1>5 DEF CommandsInv

\* Nothing that matters changes.
LEMMA CommandsStay ==
  ASSUME AllInv, UNCHANGED vars
  PROVE  CommandsInv'
<1>1. /\ ents' = ents /\ queues' = queues /\ stack' = stack /\ applying' = applying
      /\ unwinding' = unwinding /\ held' = held /\ killed' = killed /\ roots' = roots
  BY DEF vars, commands, history
<1>2. KnownCommand' = KnownCommand
  BY <1>1 DEF KnownCommand
<1> QED
  BY <1>1, <1>2 DEF AllInv, CommandsInv, SpawnFindsItsEntity, NothingPending, Settled, Idle,
                    RecoveryInOrder

\* A closure queues a command.
LEMMA ClosureQueuesStep ==
  ASSUME AllInv, ClosureQueues
  PROVE  HandlesInv' /\ CommandsInv'
<1> DEFINE f == [Topmost(stack) EXCEPT !.kids = @ + 1]
<1>1. /\ stack # <<>> /\ ~unwinding /\ Topmost(stack).run # None
      /\ Topmost(stack).run.kind = "closure" /\ Queue(World, ChildName)
      /\ stack' = [stack EXCEPT ![Len(stack)] = f]
      /\ applying' = applying /\ unwinding' = unwinding /\ killed' = killed /\ roots' = roots
  BY TopIsTopmost DEF ClosureQueues, Running, SetTop
<1>2. HandlesInv'
  BY <1>1, QueueHandles DEF AllInv
<1>3. /\ Topmost(stack) \in FrameOf(KnownCommand) /\ Len(stack) \in 1 .. Len(stack)
      /\ Len(stack) \in Nat /\ FrameInOrder(queues, stack, Len(stack))
      /\ Topmost(stack).kids \in Nat /\ Topmost(stack).run.name \in Name
      /\ Topmost(stack).start \in Nat /\ Topmost(stack).local \in Nat
      /\ Topmost(stack).stop \in Nat /\ Topmost(stack).start < Topmost(stack).local
      /\ CommandsInv
  BY <1>1, RunningTop DEF AllInv
<1>4. ChildName \in Name
  <2>1. PICK x \in Name : x = Topmost(stack).run.name
    BY <1>3
  <2>2. PICK k \in Nat : k = Topmost(stack).kids + 1
    BY <1>3
  <2>3. ChildName = [home |-> x.home, key |-> Append(x.key, k)]
    BY <2>1, <2>2, TopIsTopmost DEF ChildName
  <2> QED
    BY <2>3, NamesForm
<1>5. (\E c \in KnownCommand' : Push(World, c)) /\ held \cup killed \subseteq held' \cup killed'
  <2>1. PICK x \in Name : x = ChildName
    BY <1>4
  <2>2. Queue(World, x)
    BY <1>1, <2>1
  <2> QED
    BY <1>1, <2>2, QueuedForm DEF AllInv
<1>6. PICK c \in KnownCommand' : Push(World, c)
  BY <1>5
<1>7. /\ Shape(queues', stack, KnownCommand')
      /\ \A p \in AllQueues : queues'[p].panic_recovery = queues[p].panic_recovery
  <2>1. Shape(queues, stack, KnownCommand)
    BY <1>3 DEF CommandsInv
  <2> QED
    BY <1>5, <1>6, <2>1, PushGrows, WorldIsOther
<1>8. KnownCommand \subseteq KnownCommand'
  BY <1>5, KnownGrows
<1>9. /\ f \in FrameOf(KnownCommand')
      /\ f.queue = Topmost(stack).queue /\ f.start = Topmost(stack).start
      /\ f.stop = Topmost(stack).stop /\ f.local = Topmost(stack).local
      /\ f.run = Topmost(stack).run
  <2>1. PICK t \in FrameOf(KnownCommand) : t = Topmost(stack)
    BY <1>3
  <2>2. PICK k \in Nat : k = t.kids + 1
    BY <1>3, <2>1
  <2>3. PICK g : g = [t EXCEPT !.kids = k]
    OBVIOUS
  <2>4. /\ g \in FrameOf(KnownCommand)
        /\ g.queue = t.queue /\ g.start = t.start /\ g.stop = t.stop
        /\ g.local = t.local /\ g.run = t.run
    BY <2>3 DEF FrameOf
  <2>5. g \in FrameOf(KnownCommand')
    BY <1>8, <2>4 DEF FrameOf
  <2>6. f = g
    BY <2>1, <2>2, <2>3
  <2> QED
    BY <2>1, <2>4, <2>5, <2>6
<1> HIDE DEF f
<1>10. Continues(stack, f)
  <2>1. Topmost(stack).local <= Topmost(stack).stop
    BY <1>3 DEF FrameInOrder, Topmost
  <2> QED
    BY <1>3, <1>9, <2>1 DEF Continues
<1>11. /\ Shape(queues', stack', KnownCommand') /\ Len(stack') = Len(stack)
       /\ Topmost(stack') = f
       /\ \A i \in 1 .. Len(stack) : i # Len(stack) => stack'[i] = stack[i]
  <2>1. PICK T : T = stack'
    OBVIOUS
  <2>2. PICK R : R = queues'
    OBVIOUS
  <2>3. PICK C : C = KnownCommand'
    OBVIOUS
  <2>4. WithTop(stack, f, T) /\ Shape(R, stack, C) /\ f \in FrameOf(C)
    BY <1>1, <1>7, <1>9, <2>1, <2>2, <2>3 DEF WithTop
  <2>5. /\ Shape(R, T, C) /\ Len(T) = Len(stack) /\ Topmost(T) = f
        /\ \A i \in 1 .. Len(stack) : i # Len(stack) => T[i] = stack[i]
    BY <1>1, <1>10, <2>4, TopRuns
  <2> QED
    BY <2>1, <2>2, <2>3, <2>5 DEF Topmost
<1>12. SpawnFindsItsEntity'
  <2>1. ASSUME NEW i \in 1 .. Len(stack')
        PROVE  stack'[i].run = None \/ stack'[i].run.kind = "closure"
    <3>1. CASE i # Len(stack)
      <4>1. i < Len(stack) /\ i \in 1 .. Len(stack) /\ stack'[i] = stack[i]
        BY <1>3, <1>11, <3>1
      <4> QED
        BY <1>3, <4>1 DEF CommandsInv, Shape, InOrder, FrameInOrder
    <3>2. CASE i = Len(stack)
      BY <1>1, <1>9, <1>11, <3>2 DEF Topmost
    <3> QED
      BY <3>1, <3>2
  <2>2. Quiet(stack')
    BY <2>1 DEF Quiet
  <2>3. PICK C : C = KnownCommand'
    OBVIOUS
  <2>4. stack' \in Seq(FrameOf(C))
    BY <1>11, <2>3 DEF Shape
  <2> QED
    BY <2>2, <2>4, QuietSpawns
<1>13. NothingPending'
  <2>1. stack' # <<>>
    BY <1>3, <1>11, StackForm DEF Shape
  <2>2. Topmost(stack').run # None /\ Topmost(stack').run.kind = "closure"
    BY <1>1, <1>9, <1>11
  <2> QED
    BY <2>1, <2>2 DEF NothingPending, Settled, Topmost
<1>14. RecoveryInOrder'
  BY <1>1, <1>7, NothingSaved DEF AllInv, RecoveryInOrder
<1>15. /\ applying' \in Queues \cup {None} /\ unwinding' \in BOOLEAN
       /\ roots' \in [AllQueues -> Nat]
  BY <1>1, <1>3 DEF CommandsInv
<1> QED
  BY <1>2, <1>11, <1>12, <1>13, <1>14, <1>15 DEF CommandsInv

LEMMA InitAllInv == Init => AllInv
<1> SUFFICES ASSUME Init PROVE AllInv
  OBVIOUS
<1>1. IInv
  BY NewSound DEF Init, IInv
<1>2. KnownCommand \subseteq Command
  BY DEF KnownCommand
<1>3. \A p \in AllQueues : /\ queues[p].cursor = 0 /\ queues[p].panic_recovery = <<>>
  BY DEF Init, Empty
<1>4. queues \in [AllQueues -> QueueOf(KnownCommand)]
  <2>1. <<>> \in Seq(KnownCommand)
    OBVIOUS
  <2>2. Empty \in QueueOf(KnownCommand)
    BY <2>1 DEF Empty, QueueOf
  <2> QED
    BY <2>2 DEF Init
<1>5. stack = <<>>
  BY DEF Init
<1>6. Shape(queues, stack, KnownCommand)
  BY <1>3, <1>4, <1>5, NoCalls
<1>7. Settled => FALSE
  BY <1>5 DEF Settled, Init, Idle
<1>8. /\ applying \in Queues \cup {None} /\ unwinding \in BOOLEAN
      /\ roots \in [AllQueues -> Nat]
  BY DEF Init
<1>9. SpawnFindsItsEntity
  BY <1>5 DEF SpawnFindsItsEntity
<1>10. RecoveryInOrder /\ NothingPending
  BY <1>3, <1>7 DEF RecoveryInOrder, NothingPending
<1> QED
  BY <1>1, <1>6, <1>8, <1>9, <1>10, InitHandles DEF AllInv, CommandsInv

LEMMA NextCommands ==
  ASSUME AllInv, [Next]_vars
  PROVE  HandlesInv' /\ CommandsInv'
<1>0. HandlesInv /\ IInv
  BY DEF AllInv
<1>1. ASSUME NEW q \in AllQueues, QueueFromOutside(q) PROVE HandlesInv' /\ CommandsInv'
  <2>1. HandlesInv'
    BY <1>0, <1>1, QueueHandles DEF QueueFromOutside
  <2> QED
    BY <1>1, <2>1, OutsideStep
<1>2. ASSUME NEW q \in Queues, AppendToWorld(q) PROVE HandlesInv' /\ CommandsInv'
  <2>1. HandlesInv'
    BY <1>0, <1>2, HandlesStay DEF AppendToWorld
  <2> QED
    BY <1>2, <2>1, AppendStep
<1>3. ASSUME NEW q \in Queues, Apply(q) PROVE HandlesInv' /\ CommandsInv'
  BY <1>3, ApplyStep
<1>4. CASE Flush
  BY <1>4, FlushStepCommands
<1>5. CASE ApplyItself
  <2>1. HandlesInv'
    BY <1>0, <1>5, HandlesStay DEF ApplyItself
  <2> QED
    BY <1>5, <2>1, ApplyItselfStep
<1>6. CASE Start
  <2>1. HandlesInv'
    BY <1>0, <1>6, HandlesStay DEF Start
  <2> QED
    BY <1>6, <2>1, StartStep
<1>7. CASE End
  <2>1. HandlesInv'
    BY <1>0, <1>7, HandlesStay DEF End
  <2> QED
    BY <1>7, <2>1, EndStep
<1>8. ASSUME ~unwinding, Panic PROVE HandlesInv' /\ CommandsInv'
  <2>1. HandlesInv'
    BY <1>0, <1>8, HandlesStay DEF Panic
  <2> QED
    BY <1>8, <2>1, PanicStep
<1>9. CASE Insert
  <2>1. stack # <<>> /\ Topmost(stack).run # None /\ ~unwinding
    BY <1>9, TopIsTopmost DEF Insert, Running
  <2>2. CASE Return /\ UNCHANGED <<held, killed>>
    BY <2>1, <2>2, ReturnStepCommands
  <2>3. CASE Panic
    BY <1>8, <2>1, <2>3
  <2> QED
    BY <1>9, <2>2, <2>3 DEF Insert
<1>10. CASE DespawnCommand
  BY <1>10, DespawnStepCommands
<1>11. CASE DespawnNow
  BY <1>11, DespawnNowStep
<1>12. CASE SpawnNow
  BY <1>12, SpawnNowStepCommands
<1>13. CASE ClosureQueues
  BY <1>13, ClosureQueuesStep
<1>14. CASE ClosureReturns
  <2>1. /\ stack # <<>> /\ Topmost(stack).run # None /\ ~unwinding /\ Return
        /\ held' = held /\ killed' = killed
    BY <1>14, TopIsTopmost DEF ClosureReturns, Running
  <2> QED
    BY <2>1, ReturnStepCommands
<1>15. CASE ClosurePanics
  BY <1>8, <1>15 DEF ClosurePanics, Running
<1>16. CASE Unwind
  <2>1. HandlesInv'
    BY <1>0, <1>16, HandlesStay DEF Unwind
  <2> QED
    BY <1>16, <2>1, UnwindStep
<1>17. CASE Caught
  <2>1. HandlesInv'
    BY <1>0, <1>17, HandlesStay DEF Caught
  <2> QED
    BY <1>17, <2>1, CaughtStep
<1>18. CASE UNCHANGED vars
  <2>1. HandlesInv'
    BY <1>0, <1>18, HandlesStay DEF vars
  <2> QED
    BY <1>18, <2>1, CommandsStay
<1> QED
  BY <1>1, <1>2, <1>3, <1>4, <1>5, <1>6, <1>7, <1>9, <1>10, <1>11, <1>12, <1>13, <1>14,
     <1>15, <1>16, <1>17, <1>18 DEF Next

\* The queues, the frames and the handles keep in step (RawCommandQueue).
THEOREM CommandsInvariant == Spec => []AllInv
<1>1. Init => AllInv
  BY InitAllInv
<1>2. AllInv /\ [Next]_vars => AllInv'
  BY NextIInv, NextCommands DEF AllInv
<1> QED
  BY <1>1, <1>2, PTL DEF Spec

\* The handles that were handed out are the entities and the reservations, each once
\* (Entities::reserve_entity, flush, alloc and free).
THEOREM HandlesAreAlwaysExact == Spec => []HandlesExact
<1>1. AllInv => HandlesExact
  BY InvariantCountsHandles DEF AllInv
<1> QED
  BY <1>1, CommandsInvariant, PTL

\* The insert that a spawn queued finds its entity, unless that was destroyed
\* (Commands::spawn and World::flush).
THEOREM SpawnAlwaysFindsItsEntity == Spec => []SpawnFindsItsEntity
<1>1. AllInv => SpawnFindsItsEntity
  BY DEF AllInv, CommandsInv
<1> QED
  BY <1>1, CommandsInvariant, PTL

-----------------------------------------------------------------------------
(***************************************************************************)
(* 4. What waits, where, and in which order.  N are the names that were    *)
(* queued, X those that ran, B those that panicked.                        *)
(***************************************************************************)
\* Row k of the vector of q is to be run, by a frame or by one that is still to come.
Waits(Q, S, q, k) ==
  \/ Q[q].cursor < k /\ k <= Len(Q[q].bytes)
  \/ \E i \in 1 .. Len(S) : S[i].queue = q /\ S[i].local < k /\ k <= S[i].stop

\* Where commands wait: in the rows of a vector, or saved by the unwinding.
Places(Q, S) ==
  {p \in [queue : AllQueues, saved : BOOLEAN, row : Nat] :
     IF p.saved THEN p.row \in 1 .. Len(Q[p.queue].panic_recovery)
     ELSE Waits(Q, S, p.queue, p.row)}

NameAt(Q, p) ==
  IF p.saved THEN Q[p.queue].panic_recovery[p.row].name ELSE Q[p.queue].bytes[p.row].name

\* The part of a frame ends between rows k and l.
Between(S, q, k, l) ==
  \E i \in 1 .. Len(S) : S[i].queue = q /\ k <= S[i].stop /\ S[i].stop < l

\* p is to be run before r.
Ahead(S, p, r) ==
  \/ p.queue = World /\ r.queue # World
  \/ /\ p.queue = r.queue
     /\ \/ p.saved /\ ~r.saved
        \/ p.saved /\ r.saved /\ p.row < r.row
        \/ ~p.saved /\ ~r.saved /\ p.row < r.row /\ ~Between(S, p.queue, p.row, r.row)
        \/ ~p.saved /\ ~r.saved /\ r.row < p.row /\ Between(S, p.queue, r.row, p.row)

\* p is to be run before frame i goes on.
Above(S, p, i) ==
  p.queue = World /\ (p.saved \/ S[i].queue # World \/ S[i].stop < p.row)

\* A command that panicked has queued y or an ancestor of it.
Orphan(B, y) == \E x \in B : Descends(y, x)

\* x is to be run before y, if they have a home in common.
Ordered(B, x, y) == x.home = y.home => Before(x.key, y.key) \/ Orphan(B, y)

\* Each command that was queued ran or waits, in one place.
Accounted(Q, S, N, X) ==
  /\ N = X \cup {NameAt(Q, p) : p \in Places(Q, S)}
  /\ \A p \in Places(Q, S) : NameAt(Q, p) \notin X
  /\ \A p, r \in Places(Q, S) : NameAt(Q, p) = NameAt(Q, r) => p = r

\* What waits has queued nothing, and what waits in a system's queue was queued by it.
Childless(Q, S, N) ==
  \A p \in Places(Q, S) :
    /\ \A x \in N : ~Descends(x, NameAt(Q, p))
    /\ p.queue # World => NameAt(Q, p).home = p.queue /\ Len(NameAt(Q, p).key) = 1

\* The command r that frame i runs, among its ancestors, its children and the others.
RunsWell(Q, S, N, X, B, i, r) ==
  /\ r \in X
  /\ \A x \in N : Descends(x, r) => x.key[Len(r.key) + 1] <= S[i].kids
  /\ \A j \in 1 .. Len(S) : j > i /\ S[j].run # None => Descends(S[j].run.name, r)
  /\ \A p \in Places(Q, S) : Above(S, p, i) <=> Descends(NameAt(Q, p), r)
  /\ \A x \in X : x = r \/ Descends(x, r) \/ Ordered(B, x, r)

\* What ran is before what waits, and what waits is in order.
InTurn(Q, S, X, B) ==
  /\ \A x \in X : \A p \in Places(Q, S) : Ordered(B, x, NameAt(Q, p))
  /\ \A p, r \in Places(Q, S) : Ahead(S, p, r) => Ordered(B, NameAt(Q, p), NameAt(Q, r))

Tracked(Q, S, N, X, B) ==
  /\ N \subseteq Name /\ B \subseteq X
  /\ Accounted(Q, S, N, X) /\ Childless(Q, S, N) /\ InTurn(Q, S, X, B)
  /\ \A i \in 1 .. Len(S) : S[i].run # None => RunsWell(Q, S, N, X, B, i, S[i].run.name)

Ran == {done[i] : i \in DOMAIN done}

NamesInv ==
  /\ done \in Seq(Name) /\ \A i, j \in DOMAIN done : done[i] = done[j] => i = j
  /\ \A x \in names : Len(x.key) > 0 /\ x.key[1] <= roots[x.home]

\* What a command queued before it panicked.
PanickedInv ==
  unwinding /\ stack # <<>> /\ Topmost(stack).queue = World =>
    \A p \in Places(queues, stack) :
      p.queue = World /\ ~p.saved /\ queues[World].cursor < p.row =>
        Orphan(panicked, NameAt(queues, p))

OrderInv ==
  Tracked(queues, stack, names, Ran, panicked) /\ NamesInv /\ PanickedInv /\ DepthFirst

-----------------------------------------------------------------------------
(***************************************************************************)
(* Keys.                                                                   *)
(***************************************************************************)
LEMMA KeyForm ==
  ASSUME NEW k \in Seq(Nat)
  PROVE  Len(k) \in Nat /\ \A i \in 1 .. Len(k) : k[i] \in Nat
BY LenProperties, ElementOfSeq

LEMMA PrefixForm ==
  ASSUME NEW k \in Seq(Nat), NEW l \in Seq(Nat), NEW n \in Nat, n <= Len(k), n <= Len(l)
  PROVE  SubSeq(k, 1, n) = SubSeq(l, 1, n) <=> \A i \in 1 .. n : k[i] = l[i]
<1>0. 0 + 1 = 1 /\ 0 <= n /\ n - 0 = n /\ \A i \in 1 .. n : 0 + i = i
  OBVIOUS
<1>1. /\ SubSeq(k, 1, n) \in Seq(Nat) /\ Len(SubSeq(k, 1, n)) = n
      /\ \A i \in 1 .. n : SubSeq(k, 1, n)[i] = k[i]
  <2>1. /\ SubSeq(k, 0 + 1, n) \in Seq(Nat) /\ Len(SubSeq(k, 0 + 1, n)) = n - 0
        /\ \A i \in 1 .. n - 0 : SubSeq(k, 0 + 1, n)[i] = k[0 + i]
    BY <1>0, PartForm
  <2> QED
    BY <1>0, <2>1
<1>2. /\ SubSeq(l, 1, n) \in Seq(Nat) /\ Len(SubSeq(l, 1, n)) = n
      /\ \A i \in 1 .. n : SubSeq(l, 1, n)[i] = l[i]
  <2>1. /\ SubSeq(l, 0 + 1, n) \in Seq(Nat) /\ Len(SubSeq(l, 0 + 1, n)) = n - 0
        /\ \A i \in 1 .. n - 0 : SubSeq(l, 0 + 1, n)[i] = l[0 + i]
    BY <1>0, PartForm
  <2> QED
    BY <1>0, <2>1
<1>3. ASSUME \A i \in 1 .. n : k[i] = l[i] PROVE SubSeq(k, 1, n) = SubSeq(l, 1, n)
  <2>1. PICK s \in Seq(Nat) : s = SubSeq(k, 1, n)
    BY <1>1
  <2>2. PICK t \in Seq(Nat) : t = SubSeq(l, 1, n)
    BY <1>2
  <2>3. Len(s) = Len(t) /\ \A i \in 1 .. Len(s) : s[i] = t[i]
    BY <1>1, <1>2, <1>3, <2>1, <2>2
  <2>4. s = t
    BY <2>3, SeqEqual
  <2> QED
    BY <2>1, <2>2, <2>4
<1>4. ASSUME SubSeq(k, 1, n) = SubSeq(l, 1, n), NEW i \in 1 .. n PROVE k[i] = l[i]
  BY <1>1, <1>2, <1>4
<1> QED
  BY <1>3, <1>4

\* l goes on where k ends.
Extends(l, k) == Len(k) < Len(l) /\ \A i \in 1 .. Len(k) : k[i] = l[i]

\* k turns to the left of l at place n.
Turns(k, l, n) == n <= Len(l) /\ k[n] < l[n] /\ \A i \in 1 .. n - 1 : k[i] = l[i]

LEMMA BeforeForm ==
  ASSUME NEW k \in Seq(Nat), NEW l \in Seq(Nat)
  PROVE  Before(k, l) <=> Extends(l, k) \/ \E n \in 1 .. Len(k) : Turns(k, l, n)
<1>1. Len(k) \in Nat /\ Len(l) \in Nat
  BY KeyForm
<1>2. (Len(k) < Len(l) /\ SubSeq(l, 1, Len(k)) = k) <=> Extends(l, k)
  <2>1. ASSUME Len(k) < Len(l)
        PROVE  SubSeq(l, 1, Len(k)) = k <=> \A i \in 1 .. Len(k) : k[i] = l[i]
    <3>1. PICK n \in Nat : n = Len(k)
      BY <1>1
    <3>2. SubSeq(k, 1, n) = k
      BY <3>1, SubSeqFull
    <3>3. n <= Len(k) /\ n <= Len(l)
      BY <1>1, <2>1, <3>1
    <3>4. SubSeq(k, 1, n) = SubSeq(l, 1, n) <=> \A i \in 1 .. n : k[i] = l[i]
      BY <3>3, PrefixForm
    <3> QED
      BY <3>1, <3>2, <3>4
  <2> QED
    BY <2>1 DEF Extends
<1>3. ASSUME NEW n \in 1 .. Len(k)
      PROVE  (n <= Len(l) /\ k[n] < l[n] /\ SubSeq(k, 1, n - 1) = SubSeq(l, 1, n - 1))
               <=> Turns(k, l, n)
  <2>1. CASE n <= Len(l)
    <3>1. PICK m \in Nat : m = n - 1
      BY <1>1
    <3>2. m <= Len(k) /\ m <= Len(l)
      BY <1>1, <2>1, <3>1
    <3>3. SubSeq(k, 1, m) = SubSeq(l, 1, m) <=> \A i \in 1 .. m : k[i] = l[i]
      BY <3>2, PrefixForm
    <3> QED
      BY <2>1, <3>1, <3>3 DEF Turns
  <2>2. CASE ~(n <= Len(l))
    BY <2>2 DEF Turns
  <2> QED
    BY <2>1, <2>2
<1> QED
  BY <1>2, <1>3 DEF Before

LEMMA DescendsForm ==
  ASSUME NEW x \in Name, NEW y \in Name
  PROVE  Descends(x, y) <=> x.home = y.home /\ Extends(x.key, y.key)
<1>1. x.key \in Seq(Nat) /\ y.key \in Seq(Nat)
  BY NamesForm
<1>2. (Len(y.key) < Len(x.key) /\ SubSeq(x.key, 1, Len(y.key)) = y.key) => Before(y.key, x.key)
  BY DEF Before
<1>3. PICK k \in Seq(Nat) : k = y.key
  BY <1>1
<1>4. PICK l \in Seq(Nat) : l = x.key
  BY <1>1
<1>5. Len(k) \in Nat /\ Len(l) \in Nat
  BY KeyForm
<1>6. (Len(k) < Len(l) /\ SubSeq(l, 1, Len(k)) = k) <=> Extends(l, k)
  <2>1. ASSUME Len(k) < Len(l)
        PROVE  SubSeq(l, 1, Len(k)) = k <=> \A i \in 1 .. Len(k) : k[i] = l[i]
    <3>1. PICK n \in Nat : n = Len(k)
      BY <1>5
    <3>2. SubSeq(k, 1, n) = k
      BY <3>1, SubSeqFull
    <3>3. n <= Len(k) /\ n <= Len(l)
      BY <1>5, <2>1, <3>1
    <3>4. SubSeq(k, 1, n) = SubSeq(l, 1, n) <=> \A i \in 1 .. n : k[i] = l[i]
      BY <3>3, PrefixForm
    <3> QED
      BY <3>1, <3>2, <3>4
  <2> QED
    BY <2>1 DEF Extends
<1> QED
  BY <1>2, <1>3, <1>4, <1>6 DEF Descends

LEMMA ExtendsTwice ==
  ASSUME NEW k \in Seq(Nat), NEW l \in Seq(Nat), NEW m \in Seq(Nat),
         Extends(l, k), Extends(m, l)
  PROVE  Extends(m, k) /\ m[Len(k) + 1] = l[Len(k) + 1]
<1>1. Len(k) \in Nat /\ Len(l) \in Nat /\ Len(m) \in Nat
  BY KeyForm
<1> QED
  BY <1>1 DEF Extends

\* What is before a key is before all that extend it.
LEMMA BeforeExtends ==
  ASSUME NEW k \in Seq(Nat), NEW l \in Seq(Nat), NEW m \in Seq(Nat),
         Before(k, l), Extends(m, l)
  PROVE  Before(k, m)
<1>1. Len(k) \in Nat /\ Len(l) \in Nat /\ Len(m) \in Nat
  BY KeyForm
<1>2. CASE Extends(l, k)
  BY <1>2, ExtendsTwice, BeforeForm
<1>3. ASSUME NEW n \in 1 .. Len(k), Turns(k, l, n) PROVE Before(k, m)
  <2>1. Turns(k, m, n)
    BY <1>1, <1>3 DEF Turns, Extends
  <2> QED
    BY <2>1, BeforeForm
<1> QED
  BY <1>2, <1>3, BeforeForm

\* All that extends a key is before what the key is before and does not extend to.
LEMMA ExtendsBefore ==
  ASSUME NEW k \in Seq(Nat), NEW l \in Seq(Nat), NEW m \in Seq(Nat),
         Before(k, l), ~Extends(l, k), Extends(m, k)
  PROVE  Before(m, l)
<1>1. Len(k) \in Nat /\ Len(l) \in Nat /\ Len(m) \in Nat
  BY KeyForm
<1>2. PICK n \in 1 .. Len(k) : Turns(k, l, n)
  BY BeforeForm
<1>3. n \in 1 .. Len(m) /\ Turns(m, l, n)
  BY <1>1, <1>2 DEF Turns, Extends
<1> QED
  BY <1>3, BeforeForm

\* Two that extend one key by different numbers.
LEMMA SiblingsBefore ==
  ASSUME NEW k \in Seq(Nat), NEW l \in Seq(Nat), NEW m \in Seq(Nat),
         Extends(l, k), Extends(m, k), l[Len(k) + 1] < m[Len(k) + 1]
  PROVE  Before(l, m)
<1>1. Len(k) \in Nat /\ Len(l) \in Nat /\ Len(m) \in Nat
  BY KeyForm
<1>2. PICK n \in Nat : n = Len(k) + 1
  BY <1>1
<1>3. n \in 1 .. Len(l) /\ n <= Len(m) /\ l[n] < m[n]
  BY <1>1, <1>2 DEF Extends
<1>4. \A i \in 1 .. n - 1 : l[i] = m[i]
  BY <1>1, <1>2 DEF Extends
<1>5. Turns(l, m, n)
  BY <1>3, <1>4 DEF Turns
<1> QED
  BY <1>3, <1>5, BeforeForm

\* The keys of children.
LEMMA ChildKey ==
  ASSUME NEW k \in Seq(Nat), NEW n \in Nat, NEW m, m = Append(k, n)
  PROVE  /\ m \in Seq(Nat) /\ Extends(m, k) /\ Len(m) = Len(k) + 1 /\ m[Len(k) + 1] = n
         /\ \A l \in Seq(Nat) : Extends(m, l) => l = k \/ Extends(k, l)
<1>1. /\ m \in Seq(Nat) /\ Len(m) = Len(k) + 1 /\ m[Len(k) + 1] = n
      /\ \A i \in 1 .. Len(k) : m[i] = k[i]
  BY AppendProperties
<1>2. Len(k) \in Nat
  BY KeyForm
<1>3. ASSUME NEW l \in Seq(Nat), Extends(m, l) PROVE l = k \/ Extends(k, l)
  <2>1. Len(l) \in Nat /\ Len(l) <= Len(k) /\ \A i \in 1 .. Len(l) : l[i] = k[i]
    BY <1>1, <1>2, <1>3, KeyForm DEF Extends
  <2>2. CASE Len(l) = Len(k)
    BY <2>1, <2>2, SeqEqual
  <2>3. CASE Len(l) < Len(k)
    BY <2>1, <2>3 DEF Extends
  <2> QED
    BY <1>2, <2>1, <2>2, <2>3
<1> QED
  BY <1>1, <1>2, <1>3 DEF Extends

\* The keys of what is moved to another queue.
LEMMA MovedKey ==
  ASSUME NEW k \in Seq(Nat), NEW l \in Seq(Nat), NEW n \in Nat
  PROVE  /\ <<n>> \o k \in Seq(Nat) /\ Len(<<n>> \o k) = Len(k) + 1 /\ (<<n>> \o k)[1] = n
         /\ \A i \in 1 .. Len(k) : (<<n>> \o k)[i + 1] = k[i]
<1>1. PICK s \in Seq(Nat) : s = <<n>> /\ Len(s) = 1 /\ s[1] = n
  <2>1. <<n>> \in Seq(Nat)
    OBVIOUS
  <2>2. Len(<<n>>) = 1 /\ <<n>>[1] = n
    OBVIOUS
  <2> QED
    BY <2>1, <2>2
<1>2. Len(k) \in Nat
  BY KeyForm
<1>3. /\ s \o k \in Seq(Nat) /\ Len(s \o k) = Len(s) + Len(k)
      /\ \A i \in 1 .. Len(s) + Len(k) : (s \o k)[i] = IF i <= Len(s) THEN s[i] ELSE k[i - Len(s)]
  BY ConcatProperties
<1>4. Len(s \o k) = Len(k) + 1 /\ (s \o k)[1] = n
  BY <1>1, <1>2, <1>3
<1>5. \A i \in 1 .. Len(k) : (s \o k)[i + 1] = k[i]
  BY <1>1, <1>2, <1>3
<1> QED
  BY <1>1, <1>3, <1>4, <1>5

LEMMA DescendsTwice ==
  ASSUME NEW x \in Name, NEW y \in Name, NEW z \in Name, Descends(x, y), Descends(y, z)
  PROVE  Descends(x, z) /\ x.key[Len(z.key) + 1] = y.key[Len(z.key) + 1]
<1>1. x.key \in Seq(Nat) /\ y.key \in Seq(Nat) /\ z.key \in Seq(Nat)
  BY NamesForm
<1>2. Extends(x.key, y.key) /\ Extends(y.key, z.key) /\ x.home = z.home
  BY DescendsForm
<1>3. Extends(x.key, z.key) /\ x.key[Len(z.key) + 1] = y.key[Len(z.key) + 1]
  BY <1>1, <1>2, ExtendsTwice
<1> QED
  BY <1>2, <1>3, DescendsForm

LEMMA OrphanDescends ==
  ASSUME NEW B \in SUBSET Name, NEW x \in Name, NEW y \in Name, Descends(x, y), Orphan(B, y)
  PROVE  Orphan(B, x)
BY DescendsTwice DEF Orphan

\* What is before a command is before its descendants.
LEMMA OrderedDescends ==
  ASSUME NEW B \in SUBSET Name, NEW x \in Name, NEW y \in Name, NEW z \in Name,
         Ordered(B, x, y), Descends(z, y)
  PROVE  Ordered(B, x, z)
<1>1. x.key \in Seq(Nat) /\ y.key \in Seq(Nat) /\ z.key \in Seq(Nat)
  BY NamesForm
<1>2. z.home = y.home /\ Extends(z.key, y.key)
  BY DescendsForm
<1>3. Before(x.key, y.key) => Before(x.key, z.key)
  BY <1>1, <1>2, BeforeExtends
<1>4. Orphan(B, y) => Orphan(B, z)
  BY OrphanDescends
<1> QED
  BY <1>2, <1>3, <1>4 DEF Ordered

\* The descendants of a command are before what it is before.
LEMMA DescendantOrdered ==
  ASSUME NEW B \in SUBSET Name, NEW x \in Name, NEW y \in Name, NEW z \in Name,
         Ordered(B, x, y), ~Descends(y, x), Descends(z, x)
  PROVE  Ordered(B, z, y)
<1>1. x.key \in Seq(Nat) /\ y.key \in Seq(Nat) /\ z.key \in Seq(Nat)
  BY NamesForm
<1>2. z.home = x.home /\ Extends(z.key, x.key) /\ (x.home = y.home => ~Extends(y.key, x.key))
  BY DescendsForm
<1>3. x.home = y.home /\ Before(x.key, y.key) => Before(z.key, y.key)
  BY <1>1, <1>2, ExtendsBefore
<1> QED
  BY <1>2, <1>3 DEF Ordered

\* An elder sibling and its descendants.
LEMMA EldersOrdered ==
  ASSUME NEW B \in SUBSET Name, NEW r \in Name, NEW x \in Name, NEW y \in Name,
         Descends(x, r), Descends(y, r), x.key[Len(r.key) + 1] < y.key[Len(r.key) + 1]
  PROVE  Ordered(B, x, y)
<1>1. x.key \in Seq(Nat) /\ y.key \in Seq(Nat) /\ r.key \in Seq(Nat)
  BY NamesForm
<1>2. Extends(x.key, r.key) /\ Extends(y.key, r.key)
  BY DescendsForm
<1>3. Before(x.key, y.key)
  BY <1>1, <1>2, SiblingsBefore
<1> QED
  BY <1>3 DEF Ordered

LEMMA OrderedGrows ==
  ASSUME NEW B, NEW C, B \subseteq C, NEW x, NEW y, Ordered(B, x, y)
  PROVE  Ordered(C, x, y)
BY DEF Ordered, Orphan

\* A command and its child.
LEMMA ChildForm ==
  ASSUME NEW r \in Name, NEW n \in Nat, NEW c, c = [home |-> r.home, key |-> Append(r.key, n)]
  PROVE  /\ c \in Name /\ Descends(c, r) /\ c.key[Len(r.key) + 1] = n
         /\ Len(c.key) = Len(r.key) + 1 /\ c.home = r.home
         /\ \A B : Ordered(B, r, c)
         /\ \A x \in Name : Descends(c, x) => x = r \/ Descends(r, x)
<1>1. r.key \in Seq(Nat) /\ r.home \in AllQueues /\ c \in Name
  BY NamesForm
<1>2. PICK m : m = Append(r.key, n)
  OBVIOUS
<1>3. c.home = r.home /\ c.key = m
  BY <1>2
<1>4. /\ m \in Seq(Nat) /\ Extends(m, r.key) /\ Len(m) = Len(r.key) + 1 /\ m[Len(r.key) + 1] = n
      /\ \A l \in Seq(Nat) : Extends(m, l) => l = r.key \/ Extends(r.key, l)
  <2>1. PICK k \in Seq(Nat) : k = r.key
    BY <1>1
  <2>2. m = Append(k, n)
    BY <1>2, <2>1
  <2>3. /\ m \in Seq(Nat) /\ Extends(m, k) /\ Len(m) = Len(k) + 1 /\ m[Len(k) + 1] = n
        /\ \A l \in Seq(Nat) : Extends(m, l) => l = k \/ Extends(k, l)
    BY <2>2, ChildKey
  <2> QED
    BY <2>1, <2>3
<1>5. Descends(c, r)
  BY <1>1, <1>3, <1>4, DescendsForm
<1>6. ASSUME NEW x \in Name, Descends(c, x) PROVE x = r \/ Descends(r, x)
  <2>1. x.home = r.home /\ Extends(m, x.key) /\ x.key \in Seq(Nat)
    BY <1>1, <1>3, <1>6, DescendsForm, NamesForm
  <2>2. x.key = r.key => x = r
    BY <2>1 DEF Name
  <2> QED
    BY <1>4, <2>1, <2>2, DescendsForm
<1>7. Before(r.key, c.key)
  BY <1>1, <1>3, <1>4, BeforeForm
<1> QED
  BY <1>1, <1>3, <1>4, <1>5, <1>6, <1>7 DEF Ordered

LEMMA PlaceForm ==
  ASSUME NEW Q, NEW S, NEW p \in Places(Q, S)
  PROVE  /\ p.queue \in AllQueues /\ p.saved \in BOOLEAN /\ p.row \in Nat
         /\ p = [queue |-> p.queue, saved |-> p.saved, row |-> p.row]
         /\ IF p.saved THEN p.row \in 1 .. Len(Q[p.queue].panic_recovery)
            ELSE Waits(Q, S, p.queue, p.row)
BY DEF Places

\* Names of what waits.
LEMMA WaitingForm ==
  ASSUME NEW C, C \subseteq Command, NEW Q, NEW S, Shape(Q, S, C), NEW p \in Places(Q, S)
  PROVE  /\ NameAt(Q, p) \in Name
         /\ ~p.saved => p.row \in 1 .. Len(Q[p.queue].bytes)
<1>1. /\ p.queue \in AllQueues /\ p.saved \in BOOLEAN /\ p.row \in Nat
      /\ IF p.saved THEN p.row \in 1 .. Len(Q[p.queue].panic_recovery)
         ELSE Waits(Q, S, p.queue, p.row)
  BY PlaceForm
<1>2. Q \in [AllQueues -> QueueOf(C)] /\ S \in Seq(FrameOf(C)) /\ InOrder(Q, S)
  BY DEF Shape
<1>3. \A c \in C : c.name \in Name
  BY DEF Command
<1>4. CASE p.saved
  <2>1. Q[p.queue].panic_recovery[p.row] \in C
    BY <1>1, <1>2, <1>4, VectorForm
  <2> QED
    BY <1>3, <1>4, <2>1 DEF NameAt
<1>5. CASE ~p.saved
  <2>1. p.row \in 1 .. Len(Q[p.queue].bytes)
    <3>1. Q[p.queue].cursor \in Nat /\ Len(Q[p.queue].bytes) \in Nat
      BY <1>1, <1>2, VectorForm
    <3>2. CASE Q[p.queue].cursor < p.row /\ p.row <= Len(Q[p.queue].bytes)
      BY <1>1, <3>1, <3>2
    <3>3. ASSUME NEW i \in 1 .. Len(S), S[i].queue = p.queue, S[i].local < p.row,
                 p.row <= S[i].stop
          PROVE  p.row \in 1 .. Len(Q[p.queue].bytes)
      <4>1. S[i].stop <= Len(Q[p.queue].bytes) /\ S[i].local \in Nat /\ S[i].stop \in Nat
        BY <1>2, <3>3, StackForm DEF InOrder, FrameInOrder
      <4> QED
        BY <1>1, <3>1, <3>3, <4>1
    <3> QED
      BY <1>1, <1>5, <3>2, <3>3 DEF Waits
  <2>2. Q[p.queue].bytes[p.row] \in C
    BY <1>1, <1>2, <2>1, VectorForm
  <2> QED
    BY <1>3, <1>5, <2>1, <2>2 DEF NameAt
<1> QED
  BY <1>1, <1>4, <1>5

-----------------------------------------------------------------------------
(***************************************************************************)
(* Steps that leave everything where it is, or move what waits.            *)
(***************************************************************************)
\* o tells where what waits now was before.
Moved(Q, S, R, T, o) ==
  /\ o \in [Places(R, T) -> Places(Q, S)]
  /\ \A p \in Places(R, T) : NameAt(R, p) = NameAt(Q, o[p]) /\ o[p].queue = p.queue
  /\ \A p, r \in Places(R, T) : o[p] = o[r] => p = r
  /\ \A r \in Places(Q, S) : \E p \in Places(R, T) : o[p] = r

\* The order is that of before, but for what may come late.
SameOrder(R, S, T, P, B, o) ==
  \A p, r \in P : Ahead(T, p, r) => Ahead(S, o[p], o[r]) \/ Orphan(B, NameAt(R, r))

\* The frames of T that run a command are frames of S that do, and as high as before.
SameRuns(S, T, P, o) ==
  \A i \in 1 .. Len(T) : T[i].run # None =>
    /\ i \in 1 .. Len(S) /\ T[i].run = S[i].run /\ T[i].kids = S[i].kids
    /\ \A p \in P : Above(T, p, i) <=> Above(S, o[p], i)

LEMMA PlacesMove ==
  ASSUME NEW Q, NEW S, NEW N, NEW X, NEW B, Tracked(Q, S, N, X, B), NEW R, NEW T, NEW o,
         Moved(Q, S, R, T, o), SameRuns(S, T, Places(R, T), o), NEW C, B \subseteq C, C \subseteq X,
         SameOrder(R, S, T, Places(R, T), C, o)
  PROVE  Tracked(R, T, N, X, C)
<1>1. PICK P : P = Places(Q, S)
  OBVIOUS
<1>2. PICK P2 : P2 = Places(R, T)
  OBVIOUS
<1>3. /\ o \in [P2 -> P]
      /\ \A p \in P2 : NameAt(R, p) = NameAt(Q, o[p]) /\ o[p].queue = p.queue
      /\ \A p, r \in P2 : o[p] = o[r] => p = r
      /\ \A r \in P : \E p \in P2 : o[p] = r
  BY <1>1, <1>2 DEF Moved
<1>4. \A x, y : Ordered(B, x, y) => Ordered(C, x, y)
  BY OrderedGrows
<1>5. /\ N = X \cup {NameAt(Q, p) : p \in P}
      /\ \A p \in P : NameAt(Q, p) \notin X
      /\ \A p, r \in P : NameAt(Q, p) = NameAt(Q, r) => p = r
  BY <1>1 DEF Tracked, Accounted
<1>6. Accounted(R, T, N, X)
  <2>1. {NameAt(R, p) : p \in P2} = {NameAt(Q, p) : p \in P}
    BY <1>3
  <2>2. \A p \in P2 : NameAt(R, p) \notin X
    BY <1>3, <1>5
  <2>3. \A p, r \in P2 : NameAt(R, p) = NameAt(R, r) => p = r
    BY <1>3, <1>5
  <2> QED
    BY <1>2, <1>5, <2>1, <2>2, <2>3 DEF Accounted
<1>7. Childless(R, T, N)
  <2>1. ASSUME NEW p \in P2
        PROVE  /\ \A x \in N : ~Descends(x, NameAt(R, p))
               /\ p.queue # World => /\ NameAt(R, p).home = p.queue
                                     /\ Len(NameAt(R, p).key) = 1
    <3>1. PICK a \in P : a = o[p]
      BY <1>3
    <3>2. /\ \A x \in N : ~Descends(x, NameAt(Q, a))
          /\ a.queue # World => NameAt(Q, a).home = a.queue /\ Len(NameAt(Q, a).key) = 1
      BY <1>1 DEF Tracked, Childless
    <3> QED
      BY <1>3, <3>1, <3>2
  <2> QED
    BY <1>2, <2>1 DEF Childless
<1>8. ASSUME NEW i \in 1 .. Len(T), T[i].run # None
      PROVE  RunsWell(R, T, N, X, C, i, T[i].run.name)
  <2>1. /\ i \in 1 .. Len(S) /\ T[i].run = S[i].run /\ T[i].kids = S[i].kids
        /\ \A p \in P2 : Above(T, p, i) <=> Above(S, o[p], i)
    BY <1>2, <1>8 DEF SameRuns
  <2>2. PICK r : r = S[i].run.name /\ r = T[i].run.name
    BY <2>1
  <2>3. RunsWell(Q, S, N, X, B, i, r)
    BY <1>8, <2>1, <2>2 DEF Tracked
  <2>4. \A j \in 1 .. Len(T) : j > i /\ T[j].run # None => Descends(T[j].run.name, r)
    BY <2>3 DEF SameRuns, RunsWell
  <2>5. \A p \in P2 : Above(T, p, i) <=> Descends(NameAt(R, p), r)
    BY <1>1, <1>3, <2>1, <2>3 DEF RunsWell
  <2>6. /\ r \in X /\ \A x \in N : Descends(x, r) => x.key[Len(r.key) + 1] <= T[i].kids
        /\ \A x \in X : x = r \/ Descends(x, r) \/ Ordered(C, x, r)
    BY <1>4, <2>1, <2>3 DEF RunsWell
  <2> QED
    BY <1>2, <2>2, <2>4, <2>5, <2>6 DEF RunsWell
<1>9. InTurn(R, T, X, C)
  <2>0. /\ \A x \in X : \A p \in P : Ordered(B, x, NameAt(Q, p))
        /\ \A p, r \in P : Ahead(S, p, r) => Ordered(B, NameAt(Q, p), NameAt(Q, r))
    BY <1>1 DEF Tracked, InTurn
  <2>1. \A x \in X : \A p \in P2 : Ordered(C, x, NameAt(R, p))
    BY <1>3, <1>4, <2>0
  <2>2. ASSUME NEW p \in P2, NEW r \in P2, Ahead(T, p, r)
        PROVE  Ordered(C, NameAt(R, p), NameAt(R, r))
    <3>1. CASE Ahead(S, o[p], o[r])
      <4>1. Ordered(B, NameAt(Q, o[p]), NameAt(Q, o[r]))
        BY <1>3, <2>0, <3>1
      <4> QED
        BY <1>3, <1>4, <4>1
    <3>2. CASE Orphan(C, NameAt(R, r))
      BY <3>2 DEF Ordered
    <3> QED
      BY <1>2, <2>2, <3>1, <3>2 DEF SameOrder
  <2> QED
    BY <1>2, <2>1, <2>2 DEF InTurn
<1> QED
  BY <1>6, <1>7, <1>8, <1>9 DEF Tracked

\* Nothing moves.
LEMMA PlacesStay ==
  ASSUME NEW Q, NEW S, NEW N, NEW X, NEW B, Tracked(Q, S, N, X, B), NEW R, NEW T,
         Places(R, T) = Places(Q, S), \A p \in Places(Q, S) : NameAt(R, p) = NameAt(Q, p),
         \A p, r \in Places(Q, S) : Ahead(T, p, r) => Ahead(S, p, r),
         \A i \in 1 .. Len(T) : T[i].run # None =>
           /\ i \in 1 .. Len(S) /\ T[i].run = S[i].run /\ T[i].kids = S[i].kids
           /\ T[i].queue = S[i].queue /\ T[i].stop = S[i].stop,
         NEW C, B \subseteq C, C \subseteq X
  PROVE  Tracked(R, T, N, X, C)
<1>1. PICK P : P = Places(Q, S)
  OBVIOUS
<1>2. PICK o : o = [p \in P |-> p]
  OBVIOUS
<1>3. o \in [P -> P] /\ \A p \in P : o[p] = p
  BY <1>2
<1>4. Moved(Q, S, R, T, o)
  BY <1>1, <1>3 DEF Moved
<1>5. SameRuns(S, T, Places(R, T), o)
  BY <1>1, <1>3 DEF SameRuns, Above
<1>6. SameOrder(R, S, T, Places(R, T), C, o)
  BY <1>1, <1>3 DEF SameOrder
<1> QED
  BY <1>4, <1>5, <1>6, PlacesMove

-----------------------------------------------------------------------------
(***************************************************************************)
(* Frames that are done with their commands, calls that begin and calls that*)
(* end.                                                                    *)
(***************************************************************************)
LEMMA WaitsSame ==
  ASSUME NEW Q, NEW S, NEW R, NEW T,
         \A q \in AllQueues : R[q].panic_recovery = Q[q].panic_recovery,
         \A q \in AllQueues : \A k \in Nat : Waits(R, T, q, k) <=> Waits(Q, S, q, k),
         \A q \in AllQueues : \A k \in Nat : Waits(Q, S, q, k) => R[q].bytes[k] = Q[q].bytes[k]
  PROVE  /\ Places(R, T) = Places(Q, S)
         /\ \A p \in Places(Q, S) : NameAt(R, p) = NameAt(Q, p)
<1>1. Places(R, T) = Places(Q, S)
  <2>1. ASSUME NEW p \in [queue : AllQueues, saved : BOOLEAN, row : Nat]
        PROVE  (IF p.saved THEN p.row \in 1 .. Len(Q[p.queue].panic_recovery)
                ELSE Waits(Q, S, p.queue, p.row))
               <=> (IF p.saved THEN p.row \in 1 .. Len(R[p.queue].panic_recovery)
                    ELSE Waits(R, T, p.queue, p.row))
    <3>1. p.queue \in AllQueues /\ p.row \in Nat
      OBVIOUS
    <3> QED
      BY <3>1
  <2> QED
    BY <2>1 DEF Places
<1>2. ASSUME NEW p \in Places(Q, S) PROVE NameAt(R, p) = NameAt(Q, p)
  BY PlaceForm DEF NameAt
<1> QED
  BY <1>1, <1>2

LEMMA AheadSame ==
  ASSUME NEW S, NEW T, NEW P,
         \A p, r \in P : ~p.saved /\ ~r.saved /\ p.queue = r.queue =>
           (Between(T, p.queue, p.row, r.row) <=> Between(S, p.queue, p.row, r.row))
  PROVE  \A p, r \in P : Ahead(T, p, r) => Ahead(S, p, r)
BY DEF Ahead

\* The frames of U have the places of those of S, and may have done with their commands.
SameSlots(S, U) ==
  /\ Len(U) = Len(S)
  /\ \A i \in 1 .. Len(S) :
       /\ U[i].queue = S[i].queue /\ U[i].stop = S[i].stop /\ U[i].local = S[i].local
       /\ U[i].run # None => U[i].run = S[i].run /\ U[i].kids = S[i].kids

LEMMA SlotsTracked ==
  ASSUME NEW Q, NEW S, NEW U, SameSlots(S, U), NEW N, NEW X, NEW B, Tracked(Q, S, N, X, B)
  PROVE  Tracked(Q, U, N, X, B)
<1>1. /\ Len(U) = Len(S)
      /\ \A i \in 1 .. Len(S) :
           /\ U[i].queue = S[i].queue /\ U[i].stop = S[i].stop /\ U[i].local = S[i].local
           /\ U[i].run # None => U[i].run = S[i].run /\ U[i].kids = S[i].kids
  BY DEF SameSlots
<1>2. \A q, k : Waits(Q, U, q, k) <=> Waits(Q, S, q, k)
  BY <1>1 DEF Waits
<1>3. /\ Places(Q, U) = Places(Q, S)
      /\ \A p \in Places(Q, S) : NameAt(Q, p) = NameAt(Q, p)
  BY <1>2, WaitsSame
<1>4. \A q, k, l : Between(U, q, k, l) <=> Between(S, q, k, l)
  BY <1>1 DEF Between
<1>5. \A p, r \in Places(Q, S) : Ahead(U, p, r) => Ahead(S, p, r)
  BY <1>4, AheadSame
<1>6. \A i \in 1 .. Len(U) : U[i].run # None =>
         /\ i \in 1 .. Len(S) /\ U[i].run = S[i].run /\ U[i].kids = S[i].kids
         /\ U[i].queue = S[i].queue /\ U[i].stop = S[i].stop
  BY <1>1
<1>7. B \subseteq X
  BY DEF Tracked
<1> QED
  BY <1>3, <1>5, <1>6, <1>7, PlacesStay

\* A call begins: the rows behind the cursor become those of its frame.
LEMMA CallTracked ==
  ASSUME NEW C, C \subseteq Command, NEW Q, NEW S, Shape(Q, S, C),
         NEW N, NEW X, NEW B, Tracked(Q, S, N, X, B),
         NEW q \in AllQueues, NEW R, NEW T, Called(Q, S, q, R, T)
  PROVE  Tracked(R, T, N, X, B)
<1>1. /\ Q \in [AllQueues -> QueueOf(C)] /\ S \in Seq(FrameOf(C)) /\ Len(S) \in Nat
      /\ \A i \in 1 .. Len(S) : S[i].stop \in Nat /\ S[i].local \in Nat
  BY StackForm DEF Shape
<1>2. PICK f : f = NewCall(Q, q)
  OBVIOUS
<1>3. /\ f.queue = q /\ f.local = Q[q].cursor /\ f.stop = Len(Q[q].bytes) /\ f.run = None
  BY <1>2 DEF NewCall
<1>4. /\ Len(T) = Len(S) + 1 /\ T[Len(S) + 1] = f /\ \A i \in 1 .. Len(S) : T[i] = S[i]
  <2>1. T = Append(S, f)
    BY <1>2 DEF Called
  <2>2. f \in FrameOf(C)
    <3>1. /\ Q[q].cursor \in Nat /\ Len(Q[q].bytes) \in Nat /\ 0 \in Nat
      BY <1>1, VectorForm
    <3> QED
      BY <1>2, <3>1 DEF NewCall, FrameOf
  <2> QED
    BY <1>1, <2>1, <2>2, AppendProperties
<1>5. \A p \in AllQueues : /\ R[p].bytes = Q[p].bytes /\ R[p].panic_recovery = Q[p].panic_recovery
                           /\ R[p].cursor = IF p = q THEN Len(Q[q].bytes) ELSE Q[p].cursor
  <2>1. PICK v \in QueueOf(C) : v = Q[q]
    BY <1>1
  <2>2. PICK k : k = Len(Q[q].bytes)
    OBVIOUS
  <2>3. R = [Q EXCEPT ![q] = [v EXCEPT !.cursor = k]]
    BY <2>1, <2>2 DEF Called
  <2>4. PICK w : w = [v EXCEPT !.cursor = k]
    OBVIOUS
  <2>5. w.bytes = v.bytes /\ w.panic_recovery = v.panic_recovery /\ w.cursor = k
    BY <2>4 DEF QueueOf
  <2>6. \A p \in AllQueues : R[p] = IF p = q THEN w ELSE Q[p]
    BY <1>1, <2>3, <2>4
  <2> QED
    BY <2>1, <2>2, <2>5, <2>6
<1>6. \A i \in 1 .. Len(T) : i \in 1 .. Len(S) \/ i = Len(S) + 1
  BY <1>1, <1>4
<1>7. \A i \in 1 .. Len(S) : i \in 1 .. Len(T)
  BY <1>1, <1>4
<1>8. Len(S) + 1 \in 1 .. Len(T)
  BY <1>1, <1>4
<1>9. /\ Q[q].cursor \in Nat /\ Len(Q[q].bytes) \in Nat
  BY <1>1, VectorForm
<1>10. ASSUME NEW p \in AllQueues, NEW k \in Nat
       PROVE  Waits(R, T, p, k) <=> Waits(Q, S, p, k)
  <2>1. ASSUME Waits(Q, S, p, k) PROVE Waits(R, T, p, k)
    <3>1. CASE Q[p].cursor < k /\ k <= Len(Q[p].bytes)
      <4>1. CASE p = q
        BY <1>3, <1>4, <1>8, <3>1, <4>1 DEF Waits
      <4>2. CASE p # q
        BY <1>5, <3>1, <4>2 DEF Waits
      <4> QED
        BY <4>1, <4>2
    <3>2. ASSUME NEW i \in 1 .. Len(S), S[i].queue = p, S[i].local < k, k <= S[i].stop
          PROVE  Waits(R, T, p, k)
      BY <1>4, <1>7, <3>2 DEF Waits
    <3> QED
      BY <2>1, <3>1, <3>2 DEF Waits
  <2>2. ASSUME Waits(R, T, p, k) PROVE Waits(Q, S, p, k)
    <3>1. CASE R[p].cursor < k /\ k <= Len(R[p].bytes)
      <4>1. p # q
        BY <1>5, <1>9, <3>1
      <4> QED
        BY <1>5, <3>1, <4>1 DEF Waits
    <3>2. ASSUME NEW i \in 1 .. Len(T), T[i].queue = p, T[i].local < k, k <= T[i].stop
          PROVE  Waits(Q, S, p, k)
      <4>1. CASE i \in 1 .. Len(S)
        BY <1>4, <3>2, <4>1 DEF Waits
      <4>2. CASE i = Len(S) + 1
        BY <1>3, <1>4, <3>2, <4>2 DEF Waits
      <4> QED
        BY <1>6, <4>1, <4>2
    <3> QED
      BY <2>2, <3>1, <3>2 DEF Waits
  <2> QED
    BY <2>1, <2>2
<1>11. /\ Places(R, T) = Places(Q, S)
       /\ \A p \in Places(Q, S) : NameAt(R, p) = NameAt(Q, p)
  BY <1>5, <1>10, WaitsSame
<1>12. ASSUME NEW p \in Places(Q, S), NEW r \in Places(Q, S), ~p.saved, ~r.saved,
              p.queue = r.queue
       PROVE  Between(T, p.queue, p.row, r.row) <=> Between(S, p.queue, p.row, r.row)
  <2>1. r.row \in 1 .. Len(Q[p.queue].bytes)
    BY <1>12, WaitingForm
  <2>2. ASSUME NEW i \in 1 .. Len(T), T[i].queue = p.queue, p.row <= T[i].stop,
               T[i].stop < r.row
        PROVE  Between(S, p.queue, p.row, r.row)
    <3>1. i # Len(S) + 1
      <4>1. SUFFICES ASSUME i = Len(S) + 1 PROVE FALSE
        OBVIOUS
      <4>2. p.queue = q /\ Len(Q[q].bytes) < r.row
        BY <1>3, <1>4, <2>2, <4>1
      <4> QED
        BY <1>9, <2>1, <4>2
    <3>2. i \in 1 .. Len(S)
      BY <1>6, <3>1
    <3> QED
      BY <1>4, <2>2, <3>2 DEF Between
  <2>3. Between(S, p.queue, p.row, r.row) => Between(T, p.queue, p.row, r.row)
    BY <1>4, <1>7 DEF Between
  <2> QED
    BY <2>2, <2>3 DEF Between
<1>13. \A p, r \in Places(Q, S) : Ahead(T, p, r) => Ahead(S, p, r)
  BY <1>12, AheadSame
<1>14. ASSUME NEW i \in 1 .. Len(T), T[i].run # None
       PROVE  /\ i \in 1 .. Len(S) /\ T[i].run = S[i].run /\ T[i].kids = S[i].kids
              /\ T[i].queue = S[i].queue /\ T[i].stop = S[i].stop
  BY <1>3, <1>4, <1>6, <1>14
<1>15. B \subseteq X
  BY DEF Tracked
<1> QED
  BY <1>11, <1>13, <1>14, <1>15, PlacesStay

\* Of the queue of the topmost frame v leaves what is before the frame.
CutBack(Q, S, v) ==
  /\ v.bytes = SubSeq(Q[Topmost(S).queue].bytes, 1, Topmost(S).start)
  /\ v.panic_recovery = Q[Topmost(S).queue].panic_recovery

\* The topmost frame is left, with nothing to run in it and behind it.
LEMMA EndTracked ==
  ASSUME NEW C, C \subseteq Command, NEW Q, NEW S, Shape(Q, S, C), S # <<>>,
         NEW N, NEW X, NEW B, Tracked(Q, S, N, X, B),
         NEW q, q = Topmost(S).queue, Topmost(S).local = Topmost(S).stop,
         Q[q].cursor = Len(Q[q].bytes),
         NEW R, NEW T, Popped(S, T), NEW v, Leaves(Q, S, v, R), CutBack(Q, S, v)
  PROVE  Tracked(R, T, N, X, B)
<1>1. PICK n \in Nat : n = Len(S) /\ n \in 1 .. n
  BY StackForm DEF Shape
<1>2. /\ Q \in [AllQueues -> QueueOf(C)] /\ S \in Seq(FrameOf(C)) /\ InOrder(Q, S)
      /\ \A i \in 1 .. n : /\ S[i].stop \in Nat /\ S[i].local \in Nat /\ S[i].start \in Nat
                           /\ S[i].queue \in AllQueues
  BY <1>1, StackForm DEF Shape
<1>3. q \in AllQueues /\ S[n].queue = q /\ S[n].local = S[n].stop /\ Topmost(S) = S[n]
  BY <1>1, <1>2 DEF Topmost
<1>4. /\ S[n].start <= S[n].local /\ S[n].stop <= Len(Q[q].bytes)
  BY <1>1, <1>2, <1>3 DEF InOrder, FrameInOrder
<1>5. Len(T) = n - 1 /\ \A i \in 1 .. n - 1 : T[i] = S[i] /\ i \in 1 .. n /\ i < n
  BY <1>1 DEF Popped
<1>6. PICK a \in Nat : a = S[n].start /\ a <= S[n].stop
  BY <1>1, <1>2, <1>3, <1>4
<1>7. \A i \in 1 .. n - 1 : S[i].queue = q => S[i].stop <= a
  BY <1>1, <1>2, <1>3, <1>5, <1>6 DEF InOrder
<1>8. /\ \A p \in AllQueues : R[p] = IF p = q THEN v ELSE Q[p]
      /\ v.cursor = a /\ Len(v.bytes) = a /\ v.panic_recovery = Q[q].panic_recovery
      /\ \A k \in 1 .. a : v.bytes[k] = Q[q].bytes[k]
  <2>1. PICK s \in Seq(C) : s = Q[q].bytes /\ Len(s) \in Nat
    BY <1>2, <1>3, VectorForm
  <2>2. /\ v.bytes = SubSeq(s, 1, a) /\ v.cursor = a
        /\ v.panic_recovery = Q[q].panic_recovery
    BY <1>3, <1>6, <2>1 DEF Leaves, CutBack
  <2>3. 0 + 1 = 1 /\ 0 <= a /\ a <= Len(s) /\ a - 0 = a /\ \A k \in 1 .. a : 0 + k = k
    BY <1>1, <1>2, <1>3, <1>4, <1>6, <2>1
  <2>4. /\ Len(SubSeq(s, 0 + 1, a)) = a - 0
        /\ \A k \in 1 .. a - 0 : SubSeq(s, 0 + 1, a)[k] = s[0 + k]
    BY <2>3, PartForm
  <2>5. \A p \in AllQueues : R[p] = IF p = q THEN v ELSE Q[p]
    BY <1>2 DEF Leaves
  <2> QED
    BY <1>3, <1>6, <2>1, <2>2, <2>3, <2>4, <2>5
<1>9. ASSUME NEW p \in AllQueues, NEW k \in Nat, Waits(Q, S, p, k)
      PROVE  Waits(R, T, p, k) /\ (p = q => k <= a)
  <2>1. CASE Q[p].cursor < k /\ k <= Len(Q[p].bytes)
    <3>1. Len(Q[p].bytes) \in Nat
      BY <1>2, VectorForm
    <3>2. p # q
      BY <2>1, <3>1
    <3> QED
      BY <1>8, <2>1, <3>2 DEF Waits
  <2>2. ASSUME NEW i \in 1 .. n, S[i].queue = p, S[i].local < k, k <= S[i].stop
        PROVE  Waits(R, T, p, k) /\ (p = q => k <= a)
    <3>1. i # n
      <4>1. SUFFICES ASSUME i = n PROVE FALSE
        OBVIOUS
      <4> QED
        BY <1>2, <1>3, <2>2, <4>1
    <3>2. i \in 1 .. n - 1 /\ i \in 1 .. Len(T)
      BY <1>1, <1>5, <3>1
    <3>3. Waits(R, T, p, k)
      BY <1>5, <2>2, <3>2 DEF Waits
    <3>4. p = q => k <= a
      BY <1>2, <1>7, <2>2, <3>2
    <3> QED
      BY <3>3, <3>4
  <2> QED
    BY <1>1, <1>9, <2>1, <2>2 DEF Waits
<1>10. ASSUME NEW p \in AllQueues, NEW k \in Nat, Waits(R, T, p, k)
       PROVE  Waits(Q, S, p, k)
  <2>1. CASE R[p].cursor < k /\ k <= Len(R[p].bytes)
    <3>1. p # q
      BY <1>8, <2>1
    <3> QED
      BY <1>8, <2>1, <3>1 DEF Waits
  <2>2. ASSUME NEW i \in 1 .. Len(T), T[i].queue = p, T[i].local < k, k <= T[i].stop
        PROVE  Waits(Q, S, p, k)
    <3>1. i \in 1 .. Len(S) /\ T[i] = S[i]
      BY <1>1, <1>5
    <3> QED
      BY <2>2, <3>1 DEF Waits
  <2> QED
    BY <1>10, <2>1, <2>2 DEF Waits
<1>11. ASSUME NEW p \in AllQueues, NEW k \in Nat, Waits(Q, S, p, k)
       PROVE  R[p].bytes[k] = Q[p].bytes[k]
  <2>1. CASE p # q
    BY <1>8, <2>1
  <2>2. CASE p = q
    <3>1. k <= a
      BY <1>9, <1>11, <2>2
    <3>2. k > 0
      <4>1. Q[p].cursor \in Nat
        BY <1>2, VectorForm
      <4> QED
        BY <1>1, <1>2, <1>11, <4>1 DEF Waits
    <3> QED
      BY <1>8, <2>2, <3>1, <3>2
  <2> QED
    BY <2>1, <2>2
<1>12. \A p \in AllQueues : R[p].panic_recovery = Q[p].panic_recovery
  BY <1>8
<1>13. /\ Places(R, T) = Places(Q, S)
       /\ \A p \in Places(Q, S) : NameAt(R, p) = NameAt(Q, p)
  <2>1. \A p \in AllQueues : \A k \in Nat : Waits(R, T, p, k) <=> Waits(Q, S, p, k)
    BY <1>9, <1>10
  <2>2. \A p \in AllQueues : \A k \in Nat : Waits(Q, S, p, k) => R[p].bytes[k] = Q[p].bytes[k]
    BY <1>11
  <2> QED
    BY <1>12, <2>1, <2>2, WaitsSame
<1>14. ASSUME NEW p \in Places(Q, S), NEW r \in Places(Q, S), ~p.saved, ~r.saved,
              p.queue = r.queue
       PROVE  Between(T, p.queue, p.row, r.row) <=> Between(S, p.queue, p.row, r.row)
  <2>1. /\ p.queue \in AllQueues /\ p.row \in Nat /\ r.row \in Nat
        /\ Waits(Q, S, p.queue, r.row)
    BY <1>14, PlaceForm
  <2>2. p.queue = q => r.row <= a
    BY <1>9, <2>1
  <2>3. ASSUME NEW i \in 1 .. n, S[i].queue = p.queue, p.row <= S[i].stop,
               S[i].stop < r.row
        PROVE  Between(T, p.queue, p.row, r.row)
    <3>1. i # n
      <4>1. SUFFICES ASSUME i = n PROVE FALSE
        OBVIOUS
      <4>2. p.queue = q /\ S[n].stop < r.row /\ S[n].stop \in Nat
        BY <1>1, <1>2, <1>3, <2>3, <4>1
      <4> QED
        BY <1>6, <2>1, <2>2, <4>2
    <3>2. i \in 1 .. Len(T) /\ T[i] = S[i]
      BY <1>1, <1>5, <3>1
    <3> QED
      BY <2>3, <3>2 DEF Between
  <2>4. Between(T, p.queue, p.row, r.row) => Between(S, p.queue, p.row, r.row)
    BY <1>1, <1>5 DEF Between
  <2> QED
    BY <1>1, <2>3, <2>4 DEF Between
<1>15. \A p, r \in Places(Q, S) : Ahead(T, p, r) => Ahead(S, p, r)
  BY <1>14, AheadSame
<1>16. \A i \in 1 .. Len(T) : T[i].run # None =>
         /\ i \in 1 .. Len(S) /\ T[i].run = S[i].run /\ T[i].kids = S[i].kids
         /\ T[i].queue = S[i].queue /\ T[i].stop = S[i].stop
  BY <1>1, <1>5
<1>17. B \subseteq X
  BY DEF Tracked
<1> QED
  BY <1>13, <1>15, <1>16, <1>17, PlacesStay

-----------------------------------------------------------------------------
(***************************************************************************)
(* The unwinding of a call: what was saved, and what it saves.             *)
(***************************************************************************)
\* What the unwinding of the topmost frame puts in the place of its queue: it keeps what is
\* before the frame, unless that is nothing, and saves the rest behind what was saved.
Gathers(Q, S, v, R) ==
  LET f == Topmost(S)
      q == Q[f.queue]
      all == q.panic_recovery \o SubSeq(q.bytes, f.local + 1, Len(q.bytes))
  IN  /\ v = IF f.start = 0 THEN [bytes |-> all, cursor |-> 0, panic_recovery |-> <<>>]
             ELSE [bytes |-> SubSeq(q.bytes, 1, f.start), cursor |-> f.start,
                   panic_recovery |-> all]
      /\ R = [Q EXCEPT ![f.queue] = v]

Gathering(v, a) == IF a = 0 THEN v.bytes ELSE v.panic_recovery

\* s is d, followed by the rows of b behind row l.
Rejoined(s, d, b, l) ==
  /\ \A k \in 1 .. Len(d) : s[k] = d[k]
  /\ \A k \in Nat : l < k /\ k <= Len(b) => s[Len(d) + (k - l)] = b[k]

LEMMA TopNumbers ==
  ASSUME NEW C, NEW Q, NEW S, Shape(Q, S, C), S # <<>>, NEW q, q = Topmost(S).queue
  PROVE  /\ Len(Q[q].panic_recovery) \in Nat /\ Len(Q[q].bytes) \in Nat
         /\ Topmost(S).start \in Nat /\ Topmost(S).local \in Nat
         /\ Topmost(S).start <= Topmost(S).local /\ Topmost(S).local <= Len(Q[q].bytes)
<1>1. /\ Q \in [AllQueues -> QueueOf(C)] /\ S \in Seq(FrameOf(C)) /\ InOrder(Q, S)
      /\ Len(S) \in 1 .. Len(S)
  BY StackForm DEF Shape
<1>2. /\ q \in AllQueues /\ Topmost(S).start \in Nat /\ Topmost(S).local \in Nat
      /\ Topmost(S).stop \in Nat
  BY <1>1, StackForm DEF Topmost
<1>3. /\ Topmost(S).start <= Topmost(S).local /\ Topmost(S).local <= Topmost(S).stop
      /\ Topmost(S).stop <= Len(Q[q].bytes)
  BY <1>1 DEF InOrder, FrameInOrder, Topmost
<1>4. Len(Q[q].bytes) \in Nat /\ Len(Q[q].panic_recovery) \in Nat
  BY <1>1, <1>2, VectorForm
<1> QED
  BY <1>2, <1>3, <1>4

\* The topmost frame of S unwinds: v is put in the place of its queue q.  There were m
\* commands saved and n in the vector; the frame began at a and is at l.
Unwinds(Q, S, q, v, R, T, m, n, a, l) ==
  /\ S # <<>> /\ q = Topmost(S).queue /\ Gathers(Q, S, v, R) /\ Popped(S, T)
  /\ m = Len(Q[q].panic_recovery) /\ n = Len(Q[q].bytes)
  /\ a = Topmost(S).start /\ l = Topmost(S).local

\* What v is then: s was gathered, and what is before the frame is as it was.
GatheredInto(Q, q, v, R, s, m, n, a, l) ==
  /\ a <= l /\ l <= n /\ Len(s) = m + (n - l)
  /\ Rejoined(s, Q[q].panic_recovery, Q[q].bytes, l)
  /\ v.cursor = a /\ (a = 0 => v.panic_recovery = <<>>)
  /\ a # 0 => Len(v.bytes) = a /\ \A k \in 1 .. a : v.bytes[k] = Q[q].bytes[k]
  /\ \A p \in AllQueues : R[p] = IF p = q THEN v ELSE Q[p]

LEMMA GathersForm ==
  ASSUME NEW C, NEW Q, NEW S, Shape(Q, S, C), NEW q, NEW v, NEW R, NEW T,
         NEW m \in Nat, NEW n \in Nat, NEW a \in Nat, NEW l \in Nat,
         Unwinds(Q, S, q, v, R, T, m, n, a, l),
         NEW s, s = Gathering(v, a)
  PROVE  GatheredInto(Q, q, v, R, s, m, n, a, l)
<1>u. /\ S # <<>> /\ q = Topmost(S).queue /\ Gathers(Q, S, v, R) /\ Popped(S, T)
      /\ m = Len(Q[q].panic_recovery) /\ n = Len(Q[q].bytes)
      /\ a = Topmost(S).start /\ l = Topmost(S).local
  BY DEF Unwinds
<1>1. /\ Q \in [AllQueues -> QueueOf(C)] /\ S \in Seq(FrameOf(C)) /\ InOrder(Q, S)
      /\ Len(S) \in 1 .. Len(S)
  BY <1>u, StackForm DEF Shape
<1>2. /\ Topmost(S).queue \in AllQueues /\ Topmost(S).start \in Nat /\ Topmost(S).local \in Nat
      /\ Topmost(S).stop \in Nat
  BY <1>u, <1>1, StackForm DEF Topmost
<1>3. /\ Topmost(S).start <= Topmost(S).local /\ Topmost(S).local <= Topmost(S).stop
      /\ Topmost(S).stop <= Len(Q[q].bytes)
  BY <1>u, <1>1 DEF InOrder, FrameInOrder, Topmost
<1>a. q \in AllQueues
  BY <1>u, <1>2
<1>b. /\ Q[q].bytes \in Seq(C) /\ Len(Q[q].bytes) \in Nat
      /\ Q[q].panic_recovery \in Seq(C) /\ Len(Q[q].panic_recovery) \in Nat
  BY <1>1, <1>a, VectorForm
<1>4. PICK b \in Seq(C) : b = Q[q].bytes /\ Len(b) \in Nat
  BY <1>b
<1>5. PICK d \in Seq(C) : d = Q[q].panic_recovery /\ Len(d) \in Nat
  BY <1>b
<1>6. /\ m \in Nat /\ n \in Nat /\ a \in Nat /\ l \in Nat /\ a <= l /\ l <= n /\ a <= n
      /\ n = Len(b) /\ m = Len(d)
  BY <1>u, <1>2, <1>3, <1>4, <1>5
<1>7. PICK u : u = SubSeq(b, l + 1, n)
  OBVIOUS
<1>8. PICK w : w = SubSeq(b, 1, a)
  OBVIOUS
<1>9. v = IF a = 0 THEN [bytes |-> d \o u, cursor |-> 0, panic_recovery |-> <<>>]
          ELSE [bytes |-> w, cursor |-> a, panic_recovery |-> d \o u]
  BY <1>u, <1>4, <1>5, <1>7, <1>8 DEF Gathers
<1>10. R = [Q EXCEPT ![q] = v]
  BY <1>u DEF Gathers
<1>11. \A p \in AllQueues : R[p] = IF p = q THEN v ELSE Q[p]
  BY <1>1, <1>10
<1>12. s = d \o u
  BY <1>9 DEF Gathering
<1>13. u \in Seq(C) /\ Len(u) = n - l /\ \A k \in 1 .. n - l : u[k] = b[l + k]
  <2>1. n <= Len(b)
    BY <1>6
  <2> QED
    BY <1>6, <1>7, <2>1, PartForm
<1>14. Len(w) = a /\ \A k \in 1 .. a : w[k] = b[k]
  <2>1. 0 + 1 = 1 /\ 0 <= a /\ a <= Len(b) /\ a - 0 = a /\ \A k \in 1 .. a : 0 + k = k
    BY <1>4, <1>6
  <2>2. /\ Len(SubSeq(b, 0 + 1, a)) = a - 0
        /\ \A k \in 1 .. a - 0 : SubSeq(b, 0 + 1, a)[k] = b[0 + k]
    BY <1>6, <2>1, PartForm
  <2> QED
    BY <1>8, <2>1, <2>2
<1>15. /\ Len(d \o u) = Len(d) + Len(u)
       /\ \A k \in 1 .. Len(d) + Len(u) : (d \o u)[k] = IF k <= Len(d) THEN d[k] ELSE u[k - Len(d)]
  BY <1>13, ConcatProperties
<1>16. /\ Len(s) = m + (n - l) /\ \A k \in 1 .. m : s[k] = d[k]
  <2>1. Len(s) = m + (n - l)
    BY <1>6, <1>12, <1>13, <1>15
  <2>2. \A k \in 1 .. m : k \in 1 .. Len(d) + Len(u) /\ k <= Len(d)
    BY <1>6, <1>13
  <2> QED
    BY <1>6, <1>12, <1>15, <2>1, <2>2
<1>17. ASSUME NEW k \in 1 .. n - l PROVE s[m + k] = b[l + k]
  <2>0. PICK x \in Nat : x = Len(u) /\ x = n - l
    <3>1. Len(u) \in Nat
      BY <1>13, LenProperties
    <3> QED
      BY <1>13, <3>1
  <2>1. m + k \in 1 .. Len(d) + Len(u) /\ ~(m + k <= Len(d)) /\ (m + k) - Len(d) = k
    <3>1. k \in Nat /\ 0 < k /\ k <= x
      BY <2>0
    <3>2. m + k \in 1 .. m + x /\ ~(m + k <= m) /\ (m + k) - m = k
      BY <1>6, <3>1
    <3> QED
      BY <1>6, <2>0, <3>2
  <2>2. s[m + k] = u[k]
    BY <1>12, <1>15, <2>1
  <2> QED
    BY <1>13, <2>2
<1>18. /\ v.cursor = a /\ (a = 0 => v.panic_recovery = <<>>)
       /\ a # 0 => v.bytes = w
  BY <1>9
<1>19. Rejoined(s, d, b, l)
  <2>1. ASSUME NEW k \in Nat, l < k, k <= Len(b) PROVE s[Len(d) + (k - l)] = b[k]
    <3>0. n = Len(b)
      BY <1>6
    <3>1. PICK j \in Nat : j = k - l /\ j \in 1 .. n - l /\ l + j = k
      BY <2>1, <3>0
    <3> QED
      BY <1>6, <1>17, <3>1
  <2> QED
    BY <1>6, <1>16, <2>1 DEF Rejoined
<1> QED
  BY <1>4, <1>5, <1>6, <1>11, <1>14, <1>16, <1>18, <1>19 DEF GatheredInto

\* p is where something is that was gathered from queue q, that begins anew if a is 0.
Gathered(q, a, p) == p.queue = q /\ (p.saved \/ a = 0)

\* Where it was: m were saved before, and others from row l + 1 on were not.
Source(q, m, a, l, p) ==
  IF Gathered(q, a, p)
  THEN IF p.row <= m THEN [queue |-> q, saved |-> TRUE, row |-> p.row]
       ELSE [queue |-> q, saved |-> FALSE, row |-> l + (p.row - m)]
  ELSE p

\* What waits before and after the unwinding of a frame.
UnwoundAs(Q, S, q, R, T, m, n, a, l) ==
  /\ \A k \in Nat : Waits(Q, S, q, k) =>
       \/ l < k /\ k <= n
       \/ k <= a /\ a # 0 /\ \E i \in 1 .. Len(S) - 1 :
            S[i].queue = q /\ S[i].local < k /\ k <= S[i].stop
  /\ \A k \in Nat : l < k /\ k <= n => Waits(Q, S, q, k)
  /\ \A p \in Places(R, T) : Gathered(q, a, p) =>
       /\ p = [queue |-> q, saved |-> a # 0, row |-> p.row]
       /\ p.saved <=> a # 0
       /\ p.row \in 1 .. m + (n - l)
  /\ \A k \in 1 .. m + (n - l) : [queue |-> q, saved |-> a # 0, row |-> k] \in Places(R, T)
  /\ \A p \in Places(R, T) : ~Gathered(q, a, p) =>
       /\ p \in Places(Q, S) /\ NameAt(R, p) = NameAt(Q, p)
       /\ p.queue = q => /\ ~p.saved /\ p.row <= a
                         /\ \E i \in 1 .. Len(S) - 1 :
                              /\ S[i].queue = q
                              /\ S[i].local < p.row /\ p.row <= S[i].stop
  /\ \A p \in Places(Q, S) :
       p.queue # q \/ (~p.saved /\ p.row <= l) => p \in Places(R, T) /\ ~Gathered(q, a, p)

LEMMA UnwoundPlaces ==
  ASSUME NEW C, NEW Q, NEW S, Shape(Q, S, C), NEW q, NEW v, NEW R, NEW T,
         NEW m \in Nat, NEW n \in Nat, NEW a \in Nat, NEW l \in Nat,
         Unwinds(Q, S, q, v, R, T, m, n, a, l)
  PROVE  UnwoundAs(Q, S, q, R, T, m, n, a, l)
<1>u. /\ S # <<>> /\ q = Topmost(S).queue /\ Gathers(Q, S, v, R) /\ Popped(S, T)
      /\ m = Len(Q[q].panic_recovery) /\ n = Len(Q[q].bytes)
      /\ a = Topmost(S).start /\ l = Topmost(S).local
  BY DEF Unwinds
<1>0. PICK h \in Nat : h = Len(S) /\ h \in 1 .. h
  BY <1>u, StackForm DEF Shape
<1>1. /\ Q \in [AllQueues -> QueueOf(C)] /\ S \in Seq(FrameOf(C)) /\ InOrder(Q, S)
      /\ \A i \in 1 .. h : /\ S[i].stop \in Nat /\ S[i].local \in Nat /\ S[i].start \in Nat
                           /\ S[i].queue \in AllQueues
  BY <1>0, StackForm DEF Shape
<1>2. PICK s : s = Gathering(v, a)
  OBVIOUS
<1>s. s = IF a = 0 THEN v.bytes ELSE v.panic_recovery
  BY <1>2 DEF Gathering
<1>3. /\ a <= l /\ l <= n /\ Len(s) = m + (n - l)
      /\ v.cursor = a /\ (a = 0 => v.panic_recovery = <<>>)
      /\ a # 0 => Len(v.bytes) = a /\ \A k \in 1 .. a : v.bytes[k] = Q[q].bytes[k]
      /\ \A p \in AllQueues : R[p] = IF p = q THEN v ELSE Q[p]
  <2>1. GatheredInto(Q, q, v, R, s, m, n, a, l)
    BY <1>2, GathersForm
  <2> QED
    BY <2>1 DEF GatheredInto
<1>4. /\ q \in AllQueues /\ S[h].queue = q /\ S[h].start = a /\ S[h].local = l /\ Topmost(S) = S[h]
  BY <1>u, <1>0, <1>1 DEF Topmost
<1>5. S[h].local <= S[h].stop /\ S[h].stop <= n
  BY <1>u, <1>0, <1>1, <1>4 DEF InOrder, FrameInOrder
<1>6. Q[q].cursor = S[h].stop
  <2>1. Q[q].cursor = EndOf(S, q)
    BY <1>1, <1>4 DEF InOrder
  <2> QED
    BY <1>u, <1>4, <2>1 DEF EndOf
<1>7. Len(T) = h - 1 /\ \A i \in 1 .. h - 1 : T[i] = S[i] /\ i \in 1 .. h /\ i < h
  BY <1>u, <1>0 DEF Popped
<1>8. ASSUME NEW i \in 1 .. h - 1, S[i].queue = q PROVE S[i].stop <= a /\ a # 0
  <2>1. S[i].stop <= a
    BY <1>0, <1>1, <1>4, <1>7, <1>8 DEF InOrder
  <2>2. S[i].start < S[i].local /\ S[i].local <= S[i].stop
    BY <1>0, <1>1, <1>7 DEF InOrder, FrameInOrder
  <2> QED
    BY <1>1, <1>3, <1>7, <2>1, <2>2
<1>9. ASSUME NEW k \in Nat, Waits(Q, S, q, k)
      PROVE  \/ l < k /\ k <= n
             \/ k <= a /\ a # 0 /\ \E i \in 1 .. h - 1 :
                  S[i].queue = q /\ S[i].local < k /\ k <= S[i].stop
  <2>1. CASE Q[q].cursor < k /\ k <= Len(Q[q].bytes)
    BY <1>u, <1>0, <1>1, <1>3, <1>4, <1>5, <1>6, <2>1
  <2>2. ASSUME NEW i \in 1 .. h, S[i].queue = q, S[i].local < k, k <= S[i].stop
        PROVE  \/ l < k /\ k <= n
               \/ k <= a /\ a # 0 /\ \E j \in 1 .. h - 1 :
                    S[j].queue = q /\ S[j].local < k /\ k <= S[j].stop
    <3>1. CASE i = h
      BY <1>1, <1>3, <1>4, <1>5, <2>2, <3>1
    <3>2. CASE i # h
      <4>1. i \in 1 .. h - 1
        BY <1>0, <3>2
      <4>2. a # 0 /\ S[i].stop <= a /\ S[i].stop \in Nat
        BY <1>1, <1>8, <2>2, <3>2, <4>1
      <4>3. a \in Nat /\ k <= a
        BY <1>1, <1>4, <1>9, <2>2, <4>2
      <4> QED
        BY <2>2, <4>1, <4>2, <4>3
    <3> QED
      BY <3>1, <3>2
  <2> QED
    BY <1>0, <1>9, <2>1, <2>2 DEF Waits
<1>10. ASSUME NEW k \in Nat, l < k, k <= n PROVE Waits(Q, S, q, k)
  <2>1. CASE k <= S[h].stop
    BY <1>0, <1>4, <1>10, <2>1 DEF Waits
  <2>2. CASE ~(k <= S[h].stop)
    <3>1. Q[q].cursor < k /\ k <= Len(Q[q].bytes)
      BY <1>u, <1>0, <1>1, <1>6, <1>10, <2>2
    <3> QED
      BY <3>1 DEF Waits
  <2> QED
    BY <2>1, <2>2
<1>11. ASSUME NEW p \in Places(R, T), Gathered(q, a, p)
       PROVE  /\ p = [queue |-> q, saved |-> a # 0, row |-> p.row]
              /\ p.saved <=> a # 0
              /\ p.row \in 1 .. m + (n - l)
  <2>1. /\ p.queue = q /\ p.saved \in BOOLEAN /\ p.row \in Nat
        /\ p = [queue |-> p.queue, saved |-> p.saved, row |-> p.row]
        /\ IF p.saved THEN p.row \in 1 .. Len(R[q].panic_recovery) ELSE Waits(R, T, q, p.row)
    BY <1>11, PlaceForm DEF Gathered
  <2>2. R[q] = v
    BY <1>3, <1>4
  <2>3. CASE a = 0
    <3>1. ~p.saved
      <4>1. Len(<<>>) = 0 /\ 1 .. 0 = {}
        OBVIOUS
      <4> QED
        BY <1>3, <2>1, <2>2, <2>3, <4>1
    <3>2. ~(\E i \in 1 .. Len(T) : T[i].queue = q /\ T[i].local < p.row /\ p.row <= T[i].stop)
      BY <1>7, <1>8, <2>3
    <3>3. v.cursor < p.row /\ p.row <= Len(v.bytes)
      BY <2>1, <2>2, <3>1, <3>2 DEF Waits
    <3>4. p.row \in 1 .. m + (n - l)
      BY <1>s, <1>3, <2>1, <2>3, <3>3
    <3>5. p.saved = (a # 0)
      BY <2>1, <2>3, <3>1
    <3> QED
      BY <2>1, <2>3, <3>1, <3>4, <3>5
  <2>4. CASE a # 0
    <3>1. p.saved
      BY <1>11, <2>4 DEF Gathered
    <3>2. p.row \in 1 .. m + (n - l)
      BY <1>s, <1>3, <2>1, <2>2, <2>4, <3>1
    <3>3. p.saved = (a # 0)
      BY <2>1, <2>4, <3>1
    <3> QED
      BY <2>1, <2>4, <3>1, <3>2, <3>3
  <2> QED
    BY <2>3, <2>4
<1>12. ASSUME NEW k \in 1 .. m + (n - l)
       PROVE  [queue |-> q, saved |-> a # 0, row |-> k] \in Places(R, T)
  <2>1. k \in Nat /\ R[q] = v /\ k \in 1 .. Len(s)
    BY <1>3, <1>4
  <2>2. IF a # 0 THEN k \in 1 .. Len(R[q].panic_recovery) ELSE Waits(R, T, q, k)
    <3>1. CASE a # 0
      BY <1>s, <2>1, <3>1
    <3>2. CASE a = 0
      <4>1. v.cursor < k /\ k <= Len(v.bytes)
        BY <1>s, <1>3, <2>1, <3>2
      <4> QED
        BY <2>1, <3>2, <4>1 DEF Waits
    <3> QED
      BY <3>1, <3>2
  <2>3. PICK g \in BOOLEAN : g = (a # 0)
    OBVIOUS
  <2>4. PICK p : p = [queue |-> q, saved |-> g, row |-> k]
    OBVIOUS
  <2>5. p \in [queue : AllQueues, saved : BOOLEAN, row : Nat]
    BY <1>4, <2>1, <2>4
  <2>6. IF p.saved THEN p.row \in 1 .. Len(R[p.queue].panic_recovery)
        ELSE Waits(R, T, p.queue, p.row)
    BY <2>2, <2>3, <2>4
  <2>7. p \in Places(R, T)
    BY <2>5, <2>6 DEF Places
  <2> QED
    BY <2>3, <2>4, <2>7
<1>13. ASSUME NEW p \in Places(R, T), ~Gathered(q, a, p), p.queue = q
       PROVE  /\ ~p.saved /\ p.row <= a /\ a # 0
              /\ \E i \in 1 .. h - 1 :
                   S[i].queue = q /\ S[i].local < p.row /\ p.row <= S[i].stop
              /\ p.row \in 1 .. a
  <2>1. ~p.saved /\ a # 0 /\ p.row \in Nat /\ Waits(R, T, q, p.row) /\ R[q] = v
    BY <1>3, <1>4, <1>13, PlaceForm DEF Gathered
  <2>2. ~(v.cursor < p.row /\ p.row <= Len(v.bytes))
    BY <1>3, <2>1
  <2>3. PICK i \in 1 .. h - 1 : S[i].queue = q /\ S[i].local < p.row /\ p.row <= S[i].stop
    BY <1>7, <2>1, <2>2 DEF Waits
  <2>4. S[i].stop <= a /\ S[i].stop \in Nat /\ S[i].local \in Nat
    BY <1>1, <1>7, <1>8, <2>3
  <2>5. p.row <= a /\ p.row \in 1 .. a
    BY <1>3, <2>1, <2>3, <2>4
  <2> QED
    BY <2>1, <2>3, <2>5
<1>14. ASSUME NEW p \in Places(R, T), ~Gathered(q, a, p)
       PROVE  p \in Places(Q, S) /\ NameAt(R, p) = NameAt(Q, p)
  <2>1. /\ p.queue \in AllQueues /\ p.saved \in BOOLEAN /\ p.row \in Nat
        /\ p = [queue |-> p.queue, saved |-> p.saved, row |-> p.row]
        /\ IF p.saved THEN p.row \in 1 .. Len(R[p.queue].panic_recovery)
           ELSE Waits(R, T, p.queue, p.row)
    BY PlaceForm
  <2>2. p \in [queue : AllQueues, saved : BOOLEAN, row : Nat]
    BY <2>1
  <2>3. CASE p.queue = q
    <3>1. /\ ~p.saved /\ a # 0 /\ p.row \in 1 .. a
          /\ \E i \in 1 .. h - 1 : S[i].queue = q /\ S[i].local < p.row /\ p.row <= S[i].stop
      BY <1>13, <1>14, <2>3
    <3>2. Waits(Q, S, q, p.row)
      BY <1>0, <1>7, <3>1 DEF Waits
    <3>3. v.bytes[p.row] = Q[q].bytes[p.row] /\ R[q] = v
      BY <1>3, <1>4, <3>1
    <3>4. p \in Places(Q, S)
      BY <2>2, <2>3, <3>1, <3>2 DEF Places
    <3>5. NameAt(R, p) = R[q].bytes[p.row].name /\ NameAt(Q, p) = Q[q].bytes[p.row].name
      BY <2>3, <3>1 DEF NameAt
    <3> QED
      BY <3>3, <3>4, <3>5
  <2>4. CASE p.queue # q
    <3>1. R[p.queue] = Q[p.queue]
      BY <1>3, <2>1, <2>4
    <3>2. ~p.saved => Waits(Q, S, p.queue, p.row)
      BY <1>0, <1>7, <2>1, <3>1 DEF Waits
    <3>3. p \in Places(Q, S)
      BY <2>1, <2>2, <3>1, <3>2 DEF Places
    <3> QED
      BY <3>1, <3>3 DEF NameAt
  <2> QED
    BY <2>3, <2>4
<1>15. ASSUME NEW p \in Places(Q, S), p.queue # q \/ (~p.saved /\ p.row <= l)
       PROVE  p \in Places(R, T) /\ ~Gathered(q, a, p)
  <2>1. /\ p.queue \in AllQueues /\ p.saved \in BOOLEAN /\ p.row \in Nat
        /\ p = [queue |-> p.queue, saved |-> p.saved, row |-> p.row]
        /\ IF p.saved THEN p.row \in 1 .. Len(Q[p.queue].panic_recovery)
           ELSE Waits(Q, S, p.queue, p.row)
    BY PlaceForm
  <2>2. p \in [queue : AllQueues, saved : BOOLEAN, row : Nat]
    BY <2>1
  <2>3. CASE p.queue = q
    <3>1. ~p.saved /\ p.row <= l /\ Waits(Q, S, q, p.row)
      BY <1>15, <2>1, <2>3
    <3>2. /\ a # 0
          /\ \E i \in 1 .. h - 1 : S[i].queue = q /\ S[i].local < p.row /\ p.row <= S[i].stop
      <4>1. PICK k \in Nat : k = p.row
        BY <2>1
      <4>2. Waits(Q, S, q, k) /\ ~(l < k)
        BY <1>3, <3>1, <4>1
      <4>3. /\ a # 0
            /\ \E i \in 1 .. h - 1 : S[i].queue = q /\ S[i].local < k /\ k <= S[i].stop
        BY <1>9, <4>2
      <4> QED
        BY <4>1, <4>3
    <3>3. Waits(R, T, q, p.row)
      BY <1>7, <3>2 DEF Waits
    <3>4. p \in Places(R, T)
      BY <2>2, <2>3, <3>1, <3>3 DEF Places
    <3> QED
      BY <3>1, <3>2, <3>4 DEF Gathered
  <2>4. CASE p.queue # q
    <3>1. R[p.queue] = Q[p.queue]
      BY <1>3, <2>1, <2>4
    <3>2. ASSUME ~p.saved PROVE Waits(R, T, p.queue, p.row)
      <4>1. CASE Q[p.queue].cursor < p.row /\ p.row <= Len(Q[p.queue].bytes)
        BY <3>1, <4>1 DEF Waits
      <4>2. ASSUME NEW i \in 1 .. h, S[i].queue = p.queue, S[i].local < p.row,
                   p.row <= S[i].stop
            PROVE  Waits(R, T, p.queue, p.row)
        <5>1. i # h
          BY <1>4, <2>4, <4>2
        <5>2. i \in 1 .. Len(T) /\ T[i] = S[i]
          BY <1>0, <1>7, <5>1
        <5> QED
          BY <4>2, <5>2 DEF Waits
      <4> QED
        BY <1>0, <2>1, <3>2, <4>1, <4>2 DEF Waits
    <3>3. p \in Places(R, T)
      BY <2>1, <2>2, <3>1, <3>2 DEF Places
    <3> QED
      BY <2>4, <3>3 DEF Gathered
  <2> QED
    BY <2>3, <2>4
<1> QED
  BY <1>0, <1>9, <1>10, <1>11, <1>12, <1>13, <1>14, <1>15 DEF UnwoundAs

\* What is at p in R was at w in Q.
SourceIs(Q, R, p, q, m, l, w) ==
  /\ NameAt(Q, w) = NameAt(R, p) /\ w.queue = q
  /\ \/ p.row <= m /\ w.saved /\ w.row = p.row
     \/ m < p.row /\ l < w.row /\ ~w.saved /\ w.row = l + (p.row - m)

\* Where what was gathered was before.
LEMMA GatheredSource ==
  ASSUME NEW C, NEW Q, NEW S, Shape(Q, S, C), NEW q, NEW v, NEW R, NEW T,
         NEW m \in Nat, NEW n \in Nat, NEW a \in Nat, NEW l \in Nat,
         Unwinds(Q, S, q, v, R, T, m, n, a, l),
         NEW p \in Places(R, T), Gathered(q, a, p)
  PROVE  /\ Source(q, m, a, l, p) \in Places(Q, S)
         /\ SourceIs(Q, R, p, q, m, l, Source(q, m, a, l, p))
<1>u. m = Len(Q[q].panic_recovery) /\ n = Len(Q[q].bytes)
  BY DEF Unwinds
<1>1. PICK s : s = Gathering(v, a)
  OBVIOUS
<1>2. /\ a <= l /\ l <= n
      /\ Rejoined(s, Q[q].panic_recovery, Q[q].bytes, l)
      /\ \A b \in AllQueues : R[b] = IF b = q THEN v ELSE Q[b]
  <2>1. GatheredInto(Q, q, v, R, s, m, n, a, l)
    BY <1>1, GathersForm
  <2> QED
    BY <2>1 DEF GatheredInto
<1>3. /\ p = [queue |-> q, saved |-> a # 0, row |-> p.row] /\ p.row \in 1 .. m + (n - l)
      /\ p.saved <=> a # 0
      /\ \A k \in Nat : l < k /\ k <= n => Waits(Q, S, q, k)
  <2>1. UnwoundAs(Q, S, q, R, T, m, n, a, l)
    BY UnwoundPlaces
  <2> QED
    BY <2>1 DEF UnwoundAs
<1>4. q \in AllQueues
  BY PlaceForm DEF Gathered
<1>5. NameAt(R, p) = s[p.row].name
  <2>1. p.queue = q /\ (p.saved <=> a # 0) /\ R[q] = v
    BY <1>2, <1>3, <1>4
  <2> QED
    BY <1>1, <2>1 DEF NameAt, Gathering
<1>6. PICK w : w = Source(q, m, a, l, p)
  OBVIOUS
<1>7. CASE p.row <= m
  <2>1. w = [queue |-> q, saved |-> TRUE, row |-> p.row] /\ p.row \in 1 .. m
    BY <1>2, <1>3, <1>6, <1>7 DEF Source
  <2>2. w \in Places(Q, S)
    BY <1>u, <1>4, <2>1 DEF Places
  <2>3. s[p.row] = Q[q].panic_recovery[p.row]
    BY <1>u, <1>2, <2>1 DEF Rejoined
  <2>4. NameAt(Q, w) = NameAt(R, p)
    BY <1>5, <2>1, <2>3 DEF NameAt
  <2> QED
    BY <1>6, <1>7, <2>1, <2>2, <2>4 DEF SourceIs
<1>8. CASE ~(p.row <= m)
  <2>0. PICK x \in Nat : x = n - l /\ l + x = n
    BY <1>2
  <2>1. PICK y \in Nat : y = p.row /\ m < y /\ y <= m + x
    BY <1>2, <1>3, <1>8, <2>0
  <2>a. PICK z \in Nat : z = y - m /\ 0 < z /\ z <= x /\ m + z = y
    BY <2>1
  <2>2. PICK k \in Nat : k = l + (y - m) /\ l < k /\ k <= n /\ m + (k - l) = y
    <3>1. l + z \in Nat /\ l < l + z /\ l + z <= n /\ (l + z) - l = z
      BY <2>0, <2>a
    <3> QED
      BY <2>a, <3>1
  <2>3. w = [queue |-> q, saved |-> FALSE, row |-> k]
    BY <1>6, <1>8, <2>1, <2>2 DEF Source
  <2>4. w \in Places(Q, S)
    BY <1>3, <1>4, <2>2, <2>3 DEF Places
  <2>5. s[m + (k - l)] = Q[q].bytes[k]
    BY <1>u, <1>2, <2>2 DEF Rejoined
  <2>6. NameAt(Q, w) = NameAt(R, p)
    BY <1>5, <2>1, <2>2, <2>3, <2>5 DEF NameAt
  <2> QED
    BY <1>6, <2>1, <2>2, <2>3, <2>4, <2>6 DEF SourceIs
<1> QED
  BY <1>7, <1>8

\* The topmost frame unwinds: what it leaves keeps its order, but for what was queued by
\* the command that panicked.
LEMMA UnwindTracked ==
  ASSUME NEW C, NEW Q, NEW S, Shape(Q, S, C), S # <<>>,
         NEW N, NEW X, NEW B, Tracked(Q, S, N, X, B),
         NEW q, q = Topmost(S).queue, NEW v, NEW R, Gathers(Q, S, v, R), NEW T, Popped(S, T),
         \A p \in Places(Q, S) : p.queue = q /\ ~p.saved /\ Topmost(S).stop < p.row =>
           Orphan(B, NameAt(Q, p))
  PROVE  Tracked(R, T, N, X, B)
<1>0. PICK h \in Nat : h = Len(S) /\ h \in 1 .. h
  BY StackForm DEF Shape
<1>1. /\ S \in Seq(FrameOf(C)) /\ InOrder(Q, S)
      /\ \A i \in 1 .. h : /\ S[i].stop \in Nat /\ S[i].local \in Nat /\ S[i].start \in Nat
  BY <1>0, StackForm DEF Shape
<1>a. /\ Len(Q[q].panic_recovery) \in Nat /\ Len(Q[q].bytes) \in Nat
      /\ Topmost(S).start \in Nat /\ Topmost(S).local \in Nat
      /\ Topmost(S).start <= Topmost(S).local /\ Topmost(S).local <= Len(Q[q].bytes)
  BY TopNumbers
<1>2. PICK a \in Nat : a = Topmost(S).start
  BY <1>a
<1>3. PICK l \in Nat : l = Topmost(S).local
  BY <1>a
<1>4. PICK m \in Nat : m = Len(Q[q].panic_recovery)
  BY <1>a
<1>5. PICK n \in Nat : n = Len(Q[q].bytes)
  BY <1>a
<1>6. m \in Nat /\ n \in Nat /\ a \in Nat /\ l \in Nat /\ a <= l /\ l <= n
  BY <1>a, <1>2, <1>3, <1>4, <1>5
<1>b. Unwinds(Q, S, q, v, R, T, m, n, a, l)
  BY <1>2, <1>3, <1>4, <1>5 DEF Unwinds
<1>7. PICK P : P = Places(Q, S)
  OBVIOUS
<1>8. PICK P2 : P2 = Places(R, T)
  OBVIOUS
<1>9. /\ \A k \in Nat : Waits(Q, S, q, k) =>
           \/ l < k /\ k <= n
           \/ k <= a /\ a # 0 /\ \E i \in 1 .. h - 1 :
                S[i].queue = q /\ S[i].local < k /\ k <= S[i].stop
      /\ \A p \in P2 : Gathered(q, a, p) =>
           /\ p = [queue |-> q, saved |-> a # 0, row |-> p.row]
           /\ p.saved <=> a # 0
           /\ p.row \in 1 .. m + (n - l)
      /\ \A k \in 1 .. m + (n - l) : [queue |-> q, saved |-> a # 0, row |-> k] \in P2
      /\ \A p \in P2 : ~Gathered(q, a, p) =>
           /\ p \in P /\ NameAt(R, p) = NameAt(Q, p)
           /\ p.queue = q => /\ ~p.saved /\ p.row <= a
                             /\ \E i \in 1 .. h - 1 :
                                  S[i].queue = q /\ S[i].local < p.row /\ p.row <= S[i].stop
      /\ \A p \in P :
           p.queue # q \/ (~p.saved /\ p.row <= l) => p \in P2 /\ ~Gathered(q, a, p)
  <2>1. UnwoundAs(Q, S, q, R, T, m, n, a, l)
    BY <1>b, UnwoundPlaces
  <2> QED
    BY <1>0, <1>7, <1>8, <2>1 DEF UnwoundAs
<1>10. PICK o : o = [p \in P2 |-> Source(q, m, a, l, p)]
  OBVIOUS
<1>11. ASSUME NEW p \in P2, Gathered(q, a, p)
       PROVE  /\ o[p] \in P /\ NameAt(Q, o[p]) = NameAt(R, p) /\ o[p].queue = q
              /\ \/ p.row <= m /\ o[p].saved /\ o[p].row = p.row
                 \/ /\ m < p.row /\ l < o[p].row /\ ~o[p].saved
                    /\ o[p].row = l + (p.row - m)
              /\ p.queue = q /\ p.row \in Nat /\ (p.saved <=> a # 0)
  <2>1. o[p] = Source(q, m, a, l, p)
    BY <1>10
  <2>2. /\ Source(q, m, a, l, p) \in P
        /\ NameAt(Q, Source(q, m, a, l, p)) = NameAt(R, p)
        /\ Source(q, m, a, l, p).queue = q
        /\ \/ /\ p.row <= m
              /\ Source(q, m, a, l, p).saved /\ Source(q, m, a, l, p).row = p.row
           \/ /\ m < p.row /\ l < Source(q, m, a, l, p).row
              /\ ~Source(q, m, a, l, p).saved
              /\ Source(q, m, a, l, p).row = l + (p.row - m)
    <3>1. /\ Source(q, m, a, l, p) \in P
          /\ SourceIs(Q, R, p, q, m, l, Source(q, m, a, l, p))
      BY <1>b, <1>7, <1>8, <1>11, GatheredSource
    <3> QED
      BY <3>1 DEF SourceIs
  <2>3. p.queue = q /\ p.row \in Nat /\ (p.saved <=> a # 0)
    <3>1. p.queue = q
      BY <1>11 DEF Gathered
    <3>2. p.row \in Nat
      BY <1>8, PlaceForm
    <3> QED
      BY <1>9, <1>11, <3>1, <3>2
  <2> QED
    BY <2>1, <2>2, <2>3
<1>12. ASSUME NEW p \in P2, ~Gathered(q, a, p)
       PROVE  /\ o[p] = p /\ p \in P /\ NameAt(R, p) = NameAt(Q, p)
              /\ p.queue = q => /\ ~p.saved /\ p.row <= a /\ a # 0
                                /\ \E i \in 1 .. h - 1 :
                                     S[i].queue = q /\ S[i].local < p.row /\ p.row <= S[i].stop
  <2>1. o[p] = p
    BY <1>10, <1>12 DEF Source
  <2>2. p.queue = q => a # 0
    BY <1>12 DEF Gathered
  <2> QED
    BY <1>9, <1>12, <2>1, <2>2
<1>13. ASSUME NEW i \in 1 .. h - 1
       PROVE  /\ i \in 1 .. h /\ T[i] = S[i] /\ S[i].stop \in Nat
              /\ S[i].queue = q => S[i].stop <= a /\ a # 0
  <2>1. i \in 1 .. h /\ i < h /\ T[i] = S[i]
    BY <1>0 DEF Popped
  <2>2. ASSUME S[i].queue = q PROVE S[i].stop <= a
    BY <1>0, <1>1, <1>2, <2>1, <2>2 DEF InOrder, Topmost
  <2>3. S[i].start < S[i].local /\ S[i].local <= S[i].stop
    BY <1>0, <1>1, <2>1 DEF InOrder, FrameInOrder
  <2> QED
    BY <1>1, <1>6, <2>1, <2>2, <2>3
<1>14. Len(T) = h - 1
  BY <1>0 DEF Popped
<1>15. \A p \in P : /\ p.queue \in AllQueues /\ p.saved \in BOOLEAN /\ p.row \in Nat
                    /\ p = [queue |-> p.queue, saved |-> p.saved, row |-> p.row]
                    /\ p.saved => p.row \in 1 .. Len(Q[p.queue].panic_recovery)
                    /\ ~p.saved => Waits(Q, S, p.queue, p.row)
  BY <1>7, PlaceForm
<1>16. /\ o \in [P2 -> P] /\ DOMAIN o = P2
       /\ \A p \in P2 : NameAt(R, p) = NameAt(Q, o[p]) /\ o[p].queue = p.queue
  BY <1>10, <1>11, <1>12
<1>17. ASSUME NEW p \in P2, NEW r \in P2, o[p] = o[r] PROVE p = r
  <2>0. p.queue = r.queue
    BY <1>16, <1>17
  <2>1. CASE Gathered(q, a, p) /\ Gathered(q, a, r)
    <3>1. p.row = r.row
      <4>1. /\ p.row \in Nat /\ r.row \in Nat
            /\ \/ p.row <= m /\ o[p].saved /\ o[p].row = p.row
               \/ m < p.row /\ ~o[p].saved /\ o[p].row = l + (p.row - m)
            /\ \/ r.row <= m /\ o[r].saved /\ o[r].row = r.row
               \/ m < r.row /\ ~o[r].saved /\ o[r].row = l + (r.row - m)
        BY <1>11, <2>1
      <4>2. PICK x \in Nat : x = p.row
        BY <4>1
      <4>3. PICK y \in Nat : y = r.row
        BY <4>1
      <4>4. CASE o[p].saved
        BY <1>17, <4>1, <4>4
      <4>5. CASE ~o[p].saved
        <5>1. l + (x - m) = l + (y - m)
          BY <1>17, <4>1, <4>2, <4>3, <4>5
        <5> QED
          BY <1>6, <4>2, <4>3, <5>1
      <4> QED
        BY <4>4, <4>5
    <3> QED
      BY <1>9, <2>1, <3>1
  <2>2. CASE ~Gathered(q, a, p) /\ ~Gathered(q, a, r)
    BY <1>12, <1>17, <2>2
  <2>3. ASSUME NEW x \in P2, NEW y \in P2, Gathered(q, a, x), ~Gathered(q, a, y), o[x] = o[y]
        PROVE  FALSE
    <3>1. o[y] = y /\ y.queue = q /\ ~y.saved /\ y.row <= a /\ y.row \in Nat
      BY <1>11, <1>12, <1>15, <2>3
    <3>2. ~o[x].saved /\ o[x].row <= a
      BY <2>3, <3>1
    <3>3. l < o[x].row /\ o[x].row \in Nat
      BY <1>11, <2>3, <3>1, <3>2
    <3> QED
      BY <1>6, <3>2, <3>3
  <2> QED
    BY <1>17, <2>1, <2>2, <2>3
<1>18. ASSUME NEW r \in P PROVE \E p \in P2 : o[p] = r
  <2>1. CASE r.queue # q \/ (~r.saved /\ r.row <= l)
    <3>1. r \in P2 /\ ~Gathered(q, a, r)
      BY <1>9, <2>1
    <3> QED
      BY <1>12, <3>1
  <2>2. ASSUME r.queue = q, NEW k \in 1 .. m + (n - l),
               r = IF k <= m THEN [queue |-> q, saved |-> TRUE, row |-> k]
                   ELSE [queue |-> q, saved |-> FALSE, row |-> l + (k - m)]
        PROVE  \E p \in P2 : o[p] = r
    <3>1. PICK p : p = [queue |-> q, saved |-> a # 0, row |-> k]
      OBVIOUS
    <3>2. p \in P2
      BY <1>9, <3>1
    <3>3. Gathered(q, a, p) /\ p.row = k
      BY <3>1 DEF Gathered
    <3>4. o[p] = r
      BY <1>10, <2>2, <3>2, <3>3 DEF Source
    <3> QED
      BY <3>2, <3>4
  <2>3. CASE r.queue = q /\ r.saved
    <3>1. r.row \in 1 .. m /\ r = [queue |-> q, saved |-> TRUE, row |-> r.row]
      BY <1>4, <1>15, <2>3
    <3>2. r.row \in 1 .. m + (n - l) /\ r.row <= m
      BY <1>6, <3>1
    <3> QED
      BY <2>2, <2>3, <3>1, <3>2
  <2>4. CASE r.queue = q /\ ~r.saved /\ ~(r.row <= l)
    <3>1. /\ r = [queue |-> q, saved |-> FALSE, row |-> r.row] /\ r.row \in Nat
          /\ Waits(Q, S, q, r.row)
      BY <1>15, <2>4
    <3>2. l < r.row /\ r.row <= n
      BY <1>6, <1>9, <2>4, <3>1
    <3>3. PICK y \in Nat : y = r.row
      BY <3>1
    <3>4. PICK x \in Nat : x = n - l
      BY <1>6
    <3>5. PICK z \in Nat : z = y - l /\ 0 < z /\ z <= x /\ l + z = y
      BY <1>6, <3>2, <3>3, <3>4
    <3>6. PICK k \in Nat : k = m + z
      OBVIOUS
    <3>7. k \in 1 .. m + x /\ ~(k <= m) /\ l + (k - m) = y
      BY <3>5, <3>6
    <3> QED
      BY <2>2, <2>4, <3>1, <3>3, <3>4, <3>7
  <2> QED
    BY <2>1, <2>3, <2>4
<1>19. Moved(Q, S, R, T, o)
  BY <1>7, <1>8, <1>16, <1>17, <1>18 DEF Moved
<1>20. SameRuns(S, T, P2, o)
  <2>1. ASSUME NEW i \in 1 .. h - 1, NEW p \in P2 PROVE Above(T, p, i) <=> Above(S, o[p], i)
    <3>1. T[i] = S[i] /\ o[p].queue = p.queue
      BY <1>13, <1>16
    <3>2. CASE ~Gathered(q, a, p)
      BY <1>12, <3>1, <3>2 DEF Above
    <3>3. CASE Gathered(q, a, p) /\ S[i].queue = q
      <4>1. /\ S[i].stop <= a /\ a # 0 /\ S[i].stop \in Nat /\ p.saved
            /\ p.queue = q /\ o[p].queue = q
        BY <1>11, <1>13, <3>3
      <4>2. o[p].saved \/ S[i].stop < o[p].row
        <5>1. o[p].saved \/ (l < o[p].row /\ o[p].row \in Nat)
          BY <1>11, <1>15, <3>3
        <5> QED
          BY <1>6, <4>1, <5>1
      <4> QED
        BY <4>1, <4>2 DEF Above
    <3>4. CASE Gathered(q, a, p) /\ S[i].queue # q
      BY <1>11, <3>1, <3>4 DEF Above
    <3> QED
      BY <3>2, <3>3, <3>4
  <2> QED
    BY <1>0, <1>13, <1>14, <2>1 DEF SameRuns
<1>21. ASSUME NEW p \in P2, NEW r \in P2, Ahead(T, p, r)
       PROVE  Ahead(S, o[p], o[r]) \/ Orphan(B, NameAt(R, r))
  <2>1. CASE p.queue # r.queue
    BY <1>16, <1>21, <2>1 DEF Ahead
  <2>2. CASE p.queue = r.queue /\ ~Gathered(q, a, p) /\ ~Gathered(q, a, r)
    <3>1. o[p] = p /\ o[r] = r /\ p \in P /\ r \in P
      BY <1>12, <2>2
    <3>2. ASSUME ~p.saved, ~r.saved, NEW x \in P, NEW y \in P, x \in {p, r}, y \in {p, r}
          PROVE  Between(T, p.queue, x.row, y.row) <=> Between(S, p.queue, x.row, y.row)
      <4>1. Between(T, p.queue, x.row, y.row) => Between(S, p.queue, x.row, y.row)
        BY <1>0, <1>13, <1>14 DEF Between
      <4>2. ASSUME NEW i \in 1 .. h, S[i].queue = p.queue, x.row <= S[i].stop,
                   S[i].stop < y.row
            PROVE  Between(T, p.queue, x.row, y.row)
        <5>1. i # h
          <6>1. SUFFICES ASSUME i = h PROVE FALSE
            OBVIOUS
          <6>2. p.queue = q
            BY <1>0, <4>2, <6>1 DEF Topmost
          <6>3. y.row <= a /\ y.row \in Nat
            BY <1>12, <1>15, <2>2, <3>2, <6>2
          <6>4. a <= S[h].stop
            BY <1>0, <1>1, <1>2, <1>3, <1>6 DEF InOrder, FrameInOrder, Topmost
          <6> QED
            BY <1>0, <1>1, <1>6, <4>2, <6>1, <6>3, <6>4
        <5>2. i \in 1 .. h - 1
          BY <1>0, <5>1
        <5> QED
          BY <1>13, <1>14, <4>2, <5>2 DEF Between
      <4> QED
        BY <1>0, <4>1, <4>2 DEF Between
    <3>3. Ahead(S, p, r)
      BY <1>21, <2>2, <3>1, <3>2 DEF Ahead
    <3> QED
      BY <3>1, <3>3
  <2>3. CASE Gathered(q, a, p) /\ ~Gathered(q, a, r) /\ r.queue = q
    <3>1. /\ o[r] = r /\ r \in P /\ ~r.saved /\ r.row <= a
      BY <1>12, <2>3
    <3>2. PICK i \in 1 .. h - 1 : S[i].queue = q /\ r.row <= S[i].stop
      BY <1>12, <2>3
    <3>3. CASE o[p].saved
      BY <1>11, <2>3, <3>1, <3>3 DEF Ahead
    <3>4. CASE ~o[p].saved
      <4>1. l < o[p].row /\ o[p].row \in Nat /\ o[p].queue = q
        BY <1>11, <1>15, <2>3, <3>4
      <4>2. S[i].stop < o[p].row /\ r.row < o[p].row
        BY <1>6, <1>13, <1>15, <3>1, <3>2, <4>1
      <4>3. Between(S, q, r.row, o[p].row)
        BY <1>0, <1>13, <3>2, <4>2 DEF Between
      <4> QED
        BY <2>3, <3>1, <3>4, <4>1, <4>2, <4>3 DEF Ahead
    <3> QED
      BY <3>3, <3>4
  <2>4. CASE ~Gathered(q, a, p) /\ Gathered(q, a, r) /\ p.queue = q
    <3>1. ~p.saved /\ r.saved /\ r.queue = q
      BY <1>11, <1>12, <2>4
    <3> QED
      BY <1>21, <2>4, <3>1 DEF Ahead
  <2>5. CASE Gathered(q, a, p) /\ Gathered(q, a, r)
    <3>1. p.queue = q /\ r.queue = q /\ (p.saved <=> a # 0) /\ (r.saved <=> a # 0)
      BY <1>11, <2>5
    <3>2. p.row < r.row
      <4>1. CASE a # 0
        BY <1>21, <3>1, <4>1 DEF Ahead
      <4>2. CASE a = 0
        <5>1. \A k, j : ~Between(T, q, k, j)
          BY <1>13, <1>14, <4>2 DEF Between
        <5> QED
          BY <1>21, <3>1, <4>2, <5>1 DEF Ahead
      <4> QED
        BY <4>1, <4>2
    <3>3. /\ o[p] \in P /\ o[r] \in P /\ o[p].queue = q /\ o[r].queue = q
          /\ p.row \in Nat /\ r.row \in Nat /\ o[p].row \in Nat /\ o[r].row \in Nat
      BY <1>11, <1>15, <2>5
    <3>4. CASE p.row <= m
      <4>1. o[p].saved /\ o[p].row = p.row
        BY <1>6, <1>11, <2>5, <3>3, <3>4
      <4>2. o[r].saved => o[r].row = r.row
        BY <1>11, <2>5
      <4> QED
        BY <3>2, <3>3, <4>1, <4>2 DEF Ahead
    <3>5. CASE ~(p.row <= m)
      <4>1. /\ ~o[p].saved /\ l < o[p].row /\ o[p].row = l + (p.row - m)
            /\ ~o[r].saved /\ o[r].row = l + (r.row - m)
        BY <1>6, <1>11, <2>5, <3>2, <3>3, <3>5
      <4>2. o[p].row < o[r].row
        BY <1>6, <3>2, <3>3, <4>1
      <4>3. CASE ~Between(S, q, o[p].row, o[r].row)
        BY <3>3, <4>1, <4>2, <4>3 DEF Ahead
      <4>4. ASSUME NEW i \in 1 .. h, S[i].queue = q, o[p].row <= S[i].stop,
                   S[i].stop < o[r].row
            PROVE  Orphan(B, NameAt(R, r))
        <5>1. i = h
          <6>1. SUFFICES ASSUME i # h PROVE FALSE
            OBVIOUS
          <6>2. i \in 1 .. h - 1
            BY <1>0, <6>1
          <6>3. S[i].stop <= a /\ S[i].stop \in Nat
            BY <1>13, <4>4, <6>2
          <6> QED
            BY <1>6, <3>3, <4>1, <4>4, <6>3
        <5>2. Topmost(S).stop < o[r].row
          BY <1>0, <4>4, <5>1 DEF Topmost
        <5>3. Orphan(B, NameAt(Q, o[r]))
          BY <1>7, <3>3, <4>1, <5>2
        <5> QED
          BY <1>16, <5>3
      <4> QED
        BY <1>0, <4>3, <4>4 DEF Between
    <3> QED
      BY <3>4, <3>5
  <2>6. p.queue # q => ~Gathered(q, a, p)
    BY DEF Gathered
  <2>7. r.queue # q => ~Gathered(q, a, r)
    BY DEF Gathered
  <2> QED
    BY <2>1, <2>2, <2>3, <2>4, <2>5, <2>6, <2>7
<1>22. SameOrder(R, S, T, P2, B, o)
  BY <1>21 DEF SameOrder
<1>23. B \subseteq B /\ B \subseteq X
  BY DEF Tracked
<1> QED
  BY <1>8, <1>19, <1>20, <1>22, <1>23, PlacesMove

-----------------------------------------------------------------------------
(***************************************************************************)
(* A command is taken.                                                     *)
(***************************************************************************)
\* The topmost frame takes command c out of its vector.
Takes(Q, S, c, T) ==
  /\ c = Q[Topmost(S).queue].bytes[Topmost(S).local + 1]
  /\ Len(T) = Len(S) /\ \A i \in 1 .. Len(S) : i # Len(S) => T[i] = S[i]
  /\ Topmost(T).queue = Topmost(S).queue /\ Topmost(T).stop = Topmost(S).stop
  /\ Topmost(T).local = Topmost(S).local + 1 /\ Topmost(T).run = c

\* The command that is taken is before all that wait, and ran from then on.
LEMMA TakeTracked ==
  ASSUME NEW C, C \subseteq Command, NEW Q, NEW S, Shape(Q, S, C), S # <<>>,
         NEW N, NEW X, NEW B, Tracked(Q, S, N, X, B),
         Topmost(S).local < Topmost(S).stop,
         \A q \in AllQueues : Q[q].panic_recovery = <<>>,
         Q[World].cursor = Len(Q[World].bytes),
         NEW c, c # None, NEW T, Takes(Q, S, c, T)
  PROVE  /\ Tracked(Q, T, N, X \cup {c.name}, B)
         /\ c.name \in Name /\ c.name \notin X /\ \A x \in X : Ordered(B, x, c.name)
<1>1. PICK n \in Nat : n = Len(S) /\ n \in 1 .. n
  BY StackForm DEF Shape
<1>2. /\ Q \in [AllQueues -> QueueOf(C)] /\ S \in Seq(FrameOf(C)) /\ InOrder(Q, S)
      /\ \A i \in 1 .. n : /\ S[i].stop \in Nat /\ S[i].local \in Nat /\ S[i].start \in Nat
                           /\ S[i].queue \in AllQueues
  BY <1>1, StackForm DEF Shape
<1>3. PICK q \in AllQueues : q = S[n].queue /\ S[n].queue = Topmost(S).queue
  BY <1>1, <1>2 DEF Topmost
<1>4. PICK k \in Nat : k = S[n].local + 1
  BY <1>1, <1>2
<1>5. /\ S[n].start <= S[n].local /\ S[n].local < k /\ k <= S[n].stop
      /\ S[n].stop <= Len(Q[q].bytes) /\ Q[q].cursor = S[n].stop /\ Len(Q[q].bytes) \in Nat
  <2>1. Q[q].cursor = EndOf(S, q) /\ FrameInOrder(Q, S, n)
    BY <1>1, <1>2 DEF InOrder
  <2>2. Q[q].cursor = S[n].stop
    BY <1>1, <1>3, <2>1 DEF EndOf, Topmost
  <2>3. Topmost(S) = S[n] /\ Len(Q[q].bytes) \in Nat
    BY <1>1, <1>2, VectorForm DEF Topmost
  <2> QED
    BY <1>1, <1>2, <1>3, <1>4, <2>1, <2>2, <2>3 DEF FrameInOrder
<1>6. ASSUME NEW i \in 1 .. n, i # n, S[i].queue = q PROVE S[i].stop < k
  <2>1. i < n
    BY <1>1, <1>6
  <2>2. S[i].stop <= S[n].start
    BY <1>1, <1>2, <1>3, <1>6, <2>1 DEF InOrder
  <2> QED
    BY <1>1, <1>2, <1>4, <1>5, <2>2
<1>7. q # World => n = 1 /\ Len(Q[q].bytes) = Q[q].cursor
  <2>1. SUFFICES ASSUME q # World PROVE n = 1 /\ Len(Q[q].bytes) = Q[q].cursor
    OBVIOUS
  <2>2. ~(n > 1)
    BY <1>1, <1>2, <1>3, <2>1 DEF InOrder, FrameInOrder
  <2>3. n = 1
    BY <1>1, <2>2
  <2> QED
    BY <1>2, <1>3, <1>5, <2>1, <2>3 DEF InOrder
<1>8. /\ c = Q[q].bytes[k] /\ Len(T) = n /\ \A i \in 1 .. n : i # n => T[i] = S[i]
      /\ T[n].queue = q /\ T[n].stop = S[n].stop /\ T[n].local = k /\ T[n].run = c
  BY <1>1, <1>3, <1>4 DEF Takes, Topmost
<1>9. \A p \in AllQueues : Len(Q[p].panic_recovery) = 0
  BY EmptySeq
<1>10. Q[q].cursor = Len(Q[q].bytes)
  BY <1>7
<1>11. \A i \in 1 .. n : T[i].queue = S[i].queue /\ T[i].stop = S[i].stop
  BY <1>3, <1>8
<1>12. PICK P : P = Places(Q, S)
  OBVIOUS
<1>13. \A p \in P : /\ p.queue \in AllQueues /\ ~p.saved /\ p.row \in Nat
                    /\ Waits(Q, S, p.queue, p.row)
                    /\ p = [queue |-> p.queue, saved |-> FALSE, row |-> p.row]
  <2>1. ASSUME NEW p \in P
        PROVE  /\ p.queue \in AllQueues /\ ~p.saved /\ p.row \in Nat
               /\ Waits(Q, S, p.queue, p.row)
               /\ p = [queue |-> p.queue, saved |-> FALSE, row |-> p.row]
    <3>1. /\ p.queue \in AllQueues /\ p.saved \in BOOLEAN /\ p.row \in Nat
          /\ p = [queue |-> p.queue, saved |-> p.saved, row |-> p.row]
          /\ IF p.saved THEN p.row \in 1 .. Len(Q[p.queue].panic_recovery)
             ELSE Waits(Q, S, p.queue, p.row)
      BY <1>12, PlaceForm
    <3>2. ~p.saved
      <4>1. SUFFICES ASSUME p.saved PROVE FALSE
        OBVIOUS
      <4>2. p.row \in 1 .. 0
        BY <1>9, <3>1, <4>1
      <4> QED
        BY <4>2
    <3> QED
      BY <3>1, <3>2
  <2> QED
    BY <2>1
<1>14. PICK a : a = [queue |-> q, saved |-> FALSE, row |-> k]
  OBVIOUS
<1>15. a.queue = q /\ ~a.saved /\ a.row = k /\ a \in P /\ NameAt(Q, a) = c.name
  <2>1. a.queue = q /\ a.saved = FALSE /\ a.row = k
    BY <1>14
  <2>2. Waits(Q, S, q, k)
    BY <1>1, <1>3, <1>4, <1>5 DEF Waits
  <2>3. a \in Places(Q, S)
    BY <1>14, <2>1, <2>2 DEF Places
  <2> QED
    BY <1>8, <1>12, <2>1, <2>3 DEF NameAt
<1>16. ASSUME NEW p \in P, p.queue = q
       PROVE  \E i \in 1 .. n : S[i].queue = q /\ S[i].local < p.row /\ p.row <= S[i].stop
  <2>1. Waits(Q, S, q, p.row) /\ p.row \in Nat
    BY <1>13, <1>16
  <2> QED
    BY <1>1, <1>5, <1>10, <2>1 DEF Waits
<1>17. q # World => \A p \in P : p.queue # World
  <2>1. SUFFICES ASSUME q # World, NEW p \in P, p.queue = World PROVE FALSE
    OBVIOUS
  <2>2. Waits(Q, S, World, p.row) /\ p.row \in Nat
    BY <1>13, <2>1
  <2>3. Len(Q[World].bytes) \in Nat
    BY <1>2, WorldIsOther, VectorForm
  <2>4. \A i \in 1 .. n : S[i].queue # World
    BY <1>3, <1>7, <2>1
  <2> QED
    BY <1>1, <2>2, <2>3, <2>4 DEF Waits
<1>18. ASSUME NEW p \in P, p # a PROVE Ahead(S, a, p) \/ c.name.home # NameAt(Q, p).home
  <2>1. /\ ~p.saved /\ p.row \in Nat
        /\ p = [queue |-> p.queue, saved |-> FALSE, row |-> p.row]
    BY <1>13
  <2>2. CASE p.queue = q
    <3>1. PICK i \in 1 .. n : S[i].queue = q /\ S[i].local < p.row /\ p.row <= S[i].stop
      BY <1>16, <2>2
    <3>2. CASE i = n
      <4>1. p.row # k
        BY <1>14, <1>18, <2>1, <2>2
      <4>2. k < p.row
        BY <1>1, <1>2, <1>4, <2>1, <3>1, <3>2, <4>1
      <4>3. ~Between(S, q, k, p.row)
        <5>1. SUFFICES ASSUME NEW j \in 1 .. n, S[j].queue = q, k <= S[j].stop,
                              S[j].stop < p.row
                       PROVE  FALSE
          BY <1>1 DEF Between
        <5>2. CASE j = n
          BY <1>2, <2>1, <3>1, <3>2, <5>1, <5>2
        <5>3. CASE j # n
          <6>1. S[j].stop < k
            BY <1>6, <5>1, <5>3
          <6> QED
            BY <1>2, <5>1, <6>1
        <5> QED
          BY <5>2, <5>3
      <4> QED
        BY <1>15, <2>1, <2>2, <4>2, <4>3 DEF Ahead
    <3>3. CASE i # n
      <4>1. S[i].stop < k
        BY <1>6, <3>1, <3>3
      <4>2. p.row < k
        BY <1>2, <2>1, <3>1, <4>1
      <4>3. Between(S, q, p.row, k)
        BY <1>1, <3>1, <4>1 DEF Between
      <4> QED
        BY <1>15, <2>1, <2>2, <4>2, <4>3 DEF Ahead
    <3> QED
      BY <3>2, <3>3
  <2>3. CASE p.queue # q
    <3>1. CASE q = World
      BY <1>15, <2>3, <3>1 DEF Ahead
    <3>2. CASE q # World
      <4>1. p.queue # World
        BY <1>17, <3>2
      <4>2. NameAt(Q, a).home = q /\ NameAt(Q, p).home = p.queue
        BY <1>12, <1>15, <3>2, <4>1 DEF Tracked, Childless
      <4> QED
        BY <1>15, <2>3, <4>2
    <3> QED
      BY <3>1, <3>2
  <2> QED
    BY <2>2, <2>3
<1>19. /\ N \subseteq Name /\ B \subseteq X /\ N = X \cup {NameAt(Q, p) : p \in P}
       /\ \A p \in P : NameAt(Q, p) \notin X
       /\ \A p, r \in P : NameAt(Q, p) = NameAt(Q, r) => p = r
  BY <1>12 DEF Tracked, Accounted
<1>20. /\ \A p \in P : \A x \in N : ~Descends(x, NameAt(Q, p))
       /\ \A p \in P : p.queue # World => NameAt(Q, p).home = p.queue
                                            /\ Len(NameAt(Q, p).key) = 1
  BY <1>12 DEF Tracked, Childless
<1>21. /\ \A x \in X : \A p \in P : Ordered(B, x, NameAt(Q, p))
       /\ \A p, r \in P : Ahead(S, p, r) => Ordered(B, NameAt(Q, p), NameAt(Q, r))
  BY <1>12 DEF Tracked, InTurn
<1>22. \A p \in P : p # a => Ordered(B, c.name, NameAt(Q, p))
  <2>1. ASSUME NEW p \in P, p # a PROVE Ordered(B, c.name, NameAt(Q, p))
    <3>1. CASE Ahead(S, a, p)
      <4>1. Ordered(B, NameAt(Q, a), NameAt(Q, p))
        BY <1>15, <1>21, <3>1
      <4> QED
        BY <1>15, <4>1
    <3>2. CASE c.name.home # NameAt(Q, p).home
      BY <3>2 DEF Ordered
    <3> QED
      BY <1>18, <2>1, <3>1, <3>2
  <2> QED
    BY <2>1
<1>23. ASSUME NEW p \in AllQueues, NEW l \in Nat
       PROVE  Waits(Q, T, p, l) <=> Waits(Q, S, p, l) /\ ~(p = q /\ l = k)
  <2>1. ASSUME Waits(Q, S, p, l), ~(p = q /\ l = k) PROVE Waits(Q, T, p, l)
    <3>1. CASE Q[p].cursor < l /\ l <= Len(Q[p].bytes)
      BY <3>1 DEF Waits
    <3>2. ASSUME NEW i \in 1 .. n, S[i].queue = p, S[i].local < l, l <= S[i].stop
          PROVE  Waits(Q, T, p, l)
      <4>1. T[i].local < l
        <5>1. CASE i = n
          BY <1>2, <1>3, <1>4, <1>8, <2>1, <3>2, <5>1
        <5>2. CASE i # n
          BY <1>8, <3>2, <5>2
        <5> QED
          BY <5>1, <5>2
      <4> QED
        BY <1>8, <1>11, <3>2, <4>1 DEF Waits
    <3> QED
      BY <1>1, <2>1, <3>1, <3>2 DEF Waits
  <2>2. ASSUME Waits(Q, T, p, l) PROVE Waits(Q, S, p, l) /\ ~(p = q /\ l = k)
    <3>1. CASE Q[p].cursor < l /\ l <= Len(Q[p].bytes)
      <4>1. p # q
        BY <1>5, <1>10, <3>1
      <4> QED
        BY <3>1, <4>1 DEF Waits
    <3>2. ASSUME NEW i \in 1 .. n, T[i].queue = p, T[i].local < l, l <= T[i].stop
          PROVE  Waits(Q, S, p, l) /\ ~(p = q /\ l = k)
      <4>1. S[i].queue = p /\ l <= S[i].stop
        BY <1>11, <3>2
      <4>2. CASE i = n
        <5>1. k < l
          BY <1>8, <3>2, <4>2
        <5>2. S[i].local < l
          BY <1>2, <1>4, <4>2, <5>1
        <5> QED
          BY <1>1, <4>1, <5>1, <5>2 DEF Waits
      <4>3. CASE i # n
        <5>1. S[i].local < l
          BY <1>8, <3>2, <4>3
        <5>2. ~(p = q /\ l = k)
          <6>1. p = q => S[i].stop < k
            BY <1>6, <4>1, <4>3
          <6> QED
            BY <1>2, <4>1, <6>1
        <5> QED
          BY <1>1, <4>1, <5>1, <5>2 DEF Waits
      <4> QED
        BY <4>2, <4>3
    <3> QED
      BY <1>8, <2>2, <3>1, <3>2 DEF Waits
  <2> QED
    BY <2>1, <2>2
<1>24. Places(Q, T) = P \ {a}
  <2>1. ASSUME NEW p \in Places(Q, T) PROVE p \in P /\ p # a
    <3>1. /\ p.queue \in AllQueues /\ p.saved \in BOOLEAN /\ p.row \in Nat
          /\ p = [queue |-> p.queue, saved |-> p.saved, row |-> p.row]
          /\ IF p.saved THEN p.row \in 1 .. Len(Q[p.queue].panic_recovery)
             ELSE Waits(Q, T, p.queue, p.row)
      BY PlaceForm
    <3>2. ~p.saved
      <4>1. SUFFICES ASSUME p.saved PROVE FALSE
        OBVIOUS
      <4>2. p.row \in 1 .. 0
        BY <1>9, <3>1, <4>1
      <4> QED
        BY <4>2
    <3>3. Waits(Q, S, p.queue, p.row) /\ ~(p.queue = q /\ p.row = k)
      BY <1>23, <3>1, <3>2
    <3>4. p \in Places(Q, S)
      BY <3>1, <3>2, <3>3 DEF Places
    <3> QED
      BY <1>12, <1>15, <3>3, <3>4
  <2>2. ASSUME NEW p \in P, p # a PROVE p \in Places(Q, T)
    <3>1. /\ p.queue \in AllQueues /\ ~p.saved /\ p.row \in Nat
          /\ Waits(Q, S, p.queue, p.row)
          /\ p = [queue |-> p.queue, saved |-> FALSE, row |-> p.row]
      BY <1>13
    <3>2. ~(p.queue = q /\ p.row = k)
      BY <1>14, <2>2, <3>1
    <3>3. Waits(Q, T, p.queue, p.row)
      BY <1>23, <3>1, <3>2
    <3>4. p \in [queue : AllQueues, saved : BOOLEAN, row : Nat]
      <4>1. [queue |-> p.queue, saved |-> FALSE, row |-> p.row]
              \in [queue : AllQueues, saved : BOOLEAN, row : Nat]
        BY <3>1
      <4> QED
        BY <3>1, <4>1
    <3> QED
      BY <3>1, <3>3, <3>4 DEF Places
  <2> QED
    BY <2>1, <2>2
<1>25. PICK Y : Y = X \cup {c.name}
  OBVIOUS
<1>26. c.name \in N /\ c.name \notin X /\ \A x \in X : Ordered(B, x, c.name)
  BY <1>15, <1>19, <1>21
<1>27. Accounted(Q, T, N, Y)
  <2>1. N = Y \cup {NameAt(Q, p) : p \in P \ {a}}
    BY <1>15, <1>19, <1>25
  <2>2. \A p \in P \ {a} : NameAt(Q, p) \notin Y
    BY <1>15, <1>19, <1>25
  <2> QED
    BY <1>19, <1>24, <2>1, <2>2 DEF Accounted
<1>28. Childless(Q, T, N)
  BY <1>20, <1>24 DEF Childless
<1>29. InTurn(Q, T, Y, B)
  <2>1. \A x \in Y : \A p \in P \ {a} : Ordered(B, x, NameAt(Q, p))
    BY <1>21, <1>22, <1>25
  <2>2. \A l, m, p : Between(T, p, l, m) <=> Between(S, p, l, m)
    BY <1>1, <1>8, <1>11 DEF Between
  <2>3. \A p, r \in P : Ahead(T, p, r) => Ahead(S, p, r)
    BY <2>2, AheadSame
  <2> QED
    BY <1>21, <1>24, <2>1, <2>3 DEF InTurn
<1>30. ASSUME NEW i \in 1 .. n, T[i].run # None
       PROVE  RunsWell(Q, T, N, Y, B, i, T[i].run.name)
  <2>1. CASE i # n
    <3>1. PICK r : r = S[i].run.name
      OBVIOUS
    <3>2. T[i] = S[i] /\ i < n
      BY <1>1, <1>8, <2>1
    <3>3. RunsWell(Q, S, N, X, B, i, r)
      BY <1>1, <1>30, <3>1, <3>2 DEF Tracked
    <3>4. /\ r \in X
          /\ \A x \in N : Descends(x, r) => x.key[Len(r.key) + 1] <= S[i].kids
          /\ \A j \in 1 .. n : j > i /\ S[j].run # None => Descends(S[j].run.name, r)
          /\ \A p \in P : Above(S, p, i) <=> Descends(NameAt(Q, p), r)
          /\ \A x \in X : x = r \/ Descends(x, r) \/ Ordered(B, x, r)
      BY <1>1, <1>12, <3>3 DEF RunsWell
    <3>5. q = World
      BY <1>1, <1>7, <3>2
    <3>6. Above(S, a, i)
      <4>1. S[i].queue = World => S[i].stop < k
        BY <1>6, <2>1, <3>5
      <4> QED
        BY <1>15, <3>5, <4>1 DEF Above
    <3>7. Descends(c.name, r)
      BY <1>15, <3>4, <3>6
    <3>8. \A j \in 1 .. n : j > i /\ T[j].run # None => Descends(T[j].run.name, r)
      BY <1>8, <3>4, <3>7
    <3>9. \A p \in P \ {a} : Above(T, p, i) <=> Descends(NameAt(Q, p), r)
      BY <3>2, <3>4 DEF Above
    <3>10. \A x \in Y : x = r \/ Descends(x, r) \/ Ordered(B, x, r)
      BY <1>25, <3>4, <3>7
    <3>11. \A x \in N : Descends(x, r) => x.key[Len(r.key) + 1] <= T[i].kids
      BY <3>2, <3>4
    <3> QED
      BY <1>8, <1>24, <1>25, <3>1, <3>2, <3>4, <3>8, <3>9, <3>10, <3>11 DEF RunsWell
  <2>2. CASE i = n
    <3>1. PICK r : r = c.name
      OBVIOUS
    <3>2. T[i].run.name = r
      BY <1>8, <2>2, <3>1
    <3>3. \A x \in N : ~Descends(x, r)
      BY <1>15, <1>20, <3>1
    <3>4. \A j \in 1 .. n : ~(j > i)
      BY <1>1, <2>2
    <3>5. ASSUME NEW p \in P PROVE ~Above(T, p, i)
      <4>1. SUFFICES ASSUME p.queue = World, T[n].queue # World \/ T[n].stop < p.row
                     PROVE  FALSE
        BY <1>13, <2>2 DEF Above
      <4>2. q = World
        BY <1>17, <4>1
      <4>3. S[n].stop < p.row /\ p.row \in Nat
        BY <1>8, <1>13, <4>1, <4>2
      <4>4. PICK j \in 1 .. n : S[j].queue = q /\ S[j].local < p.row /\ p.row <= S[j].stop
        BY <1>16, <4>1, <4>2
      <4>5. CASE j = n
        BY <1>2, <4>3, <4>4, <4>5
      <4>6. CASE j # n
        <5>1. S[j].stop < k
          BY <1>6, <4>4, <4>6
        <5> QED
          BY <1>1, <1>2, <1>5, <4>3, <4>4, <5>1
      <4> QED
        BY <4>5, <4>6
    <3>6. \A p \in P \ {a} : Above(T, p, i) <=> Descends(NameAt(Q, p), r)
      <4>1. \A p \in P : NameAt(Q, p) \in N
        BY <1>19
      <4> QED
        BY <3>3, <3>5, <4>1
    <3>7. \A x \in Y : x = r \/ Descends(x, r) \/ Ordered(B, x, r)
      BY <1>25, <1>26, <3>1
    <3>8. r \in Y
      BY <1>25, <3>1
    <3> QED
      BY <1>8, <1>24, <3>2, <3>3, <3>4, <3>6, <3>7, <3>8 DEF RunsWell
  <2> QED
    BY <2>1, <2>2
<1>31. N \subseteq Name /\ B \subseteq Y
  BY <1>19, <1>25
<1>32. Tracked(Q, T, N, Y, B)
  BY <1>8, <1>27, <1>28, <1>29, <1>30, <1>31 DEF Tracked
<1> QED
  BY <1>19, <1>25, <1>26, <1>32

-----------------------------------------------------------------------------
(***************************************************************************)
(* A command is queued.                                                    *)
(***************************************************************************)
\* Command c is queued behind what is in q.
Queued(Q, q, c, R) ==
  \A p \in AllQueues :
    /\ R[p].bytes = IF p = q THEN Append(Q[q].bytes, c) ELSE Q[p].bytes
    /\ R[p].cursor = Q[p].cursor /\ R[p].panic_recovery = Q[p].panic_recovery

\* The frames of T have the places of those of S, and run the same commands.
SameFrames(S, T) ==
  /\ Len(T) = Len(S)
  /\ \A i \in 1 .. Len(S) : /\ T[i].queue = S[i].queue /\ T[i].stop = S[i].stop
                            /\ T[i].local = S[i].local /\ T[i].run = S[i].run

NewPlace(Q, q) == [queue |-> q, saved |-> FALSE, row |-> Len(Q[q].bytes) + 1]

\* a is the place behind all the rows of q.
Last(Q, S, q, a) ==
  /\ a.queue = q /\ ~a.saved /\ a.row = Len(Q[q].bytes) + 1
  /\ \A p \in Places(Q, S) : ~p.saved /\ p.queue = q => p.row < a.row

\* What waits, and one more.
MorePlaces(Q, S, R, T, a, x) ==
  /\ Places(R, T) = Places(Q, S) \cup {a} /\ a \notin Places(Q, S)
  /\ NameAt(R, a) = x /\ \A p \in Places(Q, S) : NameAt(R, p) = NameAt(Q, p)

LEMMA QueuedPlaces ==
  ASSUME NEW C, C \subseteq Command, NEW Q, NEW S, Shape(Q, S, C),
         NEW q \in AllQueues, NEW c, NEW R, Queued(Q, q, c, R), c \in Command,
         NEW T, SameFrames(S, T), NEW a, a = NewPlace(Q, q)
  PROVE  Last(Q, S, q, a) /\ MorePlaces(Q, S, R, T, a, c.name)
<1>1. /\ Q \in [AllQueues -> QueueOf(C)] /\ S \in Seq(FrameOf(C)) /\ Len(S) \in Nat
      /\ InOrder(Q, S)
      /\ \A i \in 1 .. Len(S) : S[i].stop \in Nat /\ S[i].local \in Nat
  BY StackForm DEF Shape
<1>2. PICK l \in Nat : l = Len(Q[q].bytes)
  BY <1>1, VectorForm
<1>3. a.queue = q /\ a.saved = FALSE /\ a.row = l + 1
  BY <1>2 DEF NewPlace
<1>4. /\ \A p \in AllQueues : /\ R[p].cursor = Q[p].cursor
                              /\ R[p].panic_recovery = Q[p].panic_recovery
                              /\ p # q => R[p].bytes = Q[p].bytes
      /\ Len(R[q].bytes) = l + 1 /\ R[q].bytes[l + 1] = c
      /\ \A k \in 1 .. l : R[q].bytes[k] = Q[q].bytes[k]
  <2>1. PICK s \in Seq(Command) : s = Q[q].bytes
    <3>1. Q[q].bytes \in Seq(C)
      BY <1>1, VectorForm
    <3> QED
      BY <3>1, SeqMonotonic
  <2>2. R[q].bytes = Append(s, c)
    BY <2>1 DEF Queued
  <2>3. /\ Len(Append(s, c)) = l + 1 /\ Append(s, c)[l + 1] = c
        /\ \A k \in 1 .. l : Append(s, c)[k] = s[k]
    BY <1>2, <2>1, AppendProperties
  <2> QED
    BY <2>1, <2>2, <2>3 DEF Queued
<1>5. Q[q].cursor \in Nat /\ Q[q].cursor <= l
  BY <1>1, <1>2, VectorForm, CursorWithin
<1>6. /\ Len(T) = Len(S)
      /\ \A i \in 1 .. Len(S) : /\ T[i].queue = S[i].queue /\ T[i].stop = S[i].stop
                                /\ T[i].local = S[i].local /\ T[i].run = S[i].run
  BY DEF SameFrames
<1>7. \A i \in 1 .. Len(S) : S[i].queue = q => S[i].stop <= l
  BY <1>1, <1>2 DEF InOrder, FrameInOrder
<1>8. ASSUME NEW p \in AllQueues, NEW k \in Nat
      PROVE  Waits(R, T, p, k) <=> Waits(Q, S, p, k) \/ (p = q /\ k = l + 1)
  <2>1. (\E i \in 1 .. Len(T) : T[i].queue = p /\ T[i].local < k /\ k <= T[i].stop)
         <=> (\E i \in 1 .. Len(S) : S[i].queue = p /\ S[i].local < k /\ k <= S[i].stop)
    BY <1>6
  <2>2. (R[p].cursor < k /\ k <= Len(R[p].bytes))
         <=> (Q[p].cursor < k /\ k <= Len(Q[p].bytes)) \/ (p = q /\ k = l + 1)
    <3>1. CASE p = q
      BY <1>2, <1>4, <1>5, <3>1
    <3>2. CASE p # q
      BY <1>4, <3>2
    <3> QED
      BY <3>1, <3>2
  <2> QED
    BY <2>1, <2>2 DEF Waits
<1>9. \A p \in Places(Q, S) : /\ p.queue \in AllQueues /\ p.saved \in BOOLEAN /\ p.row \in Nat
                              /\ ~p.saved => p.row \in 1 .. Len(Q[p.queue].bytes)
  BY PlaceForm, WaitingForm
<1>10. a \notin Places(Q, S)
  <2>1. SUFFICES ASSUME a \in Places(Q, S) PROVE FALSE
    OBVIOUS
  <2>2. a.row \in 1 .. Len(Q[a.queue].bytes)
    BY <1>3, <1>9, <2>1
  <2> QED
    BY <1>2, <1>3, <2>2
<1>11. Places(R, T) = Places(Q, S) \cup {a}
  <2>1. a \in [queue : AllQueues, saved : BOOLEAN, row : Nat]
    BY <1>2 DEF NewPlace
  <2>2. ASSUME NEW p \in [queue : AllQueues, saved : BOOLEAN, row : Nat]
        PROVE  p \in Places(R, T) <=> p \in Places(Q, S) \/ p = a
    <3>1. CASE p.saved
      <4>1. p # a
        BY <1>3, <3>1
      <4> QED
        BY <1>4, <3>1, <4>1 DEF Places
    <3>2. CASE ~p.saved
      <4>1. p \in Places(R, T) <=> Waits(R, T, p.queue, p.row)
        BY <3>2 DEF Places
      <4>2. p \in Places(Q, S) <=> Waits(Q, S, p.queue, p.row)
        BY <3>2 DEF Places
      <4>3. p = a <=> p.queue = q /\ p.row = l + 1
        <5>1. a.queue = q /\ a.row = l + 1 /\ a.saved = p.saved
          BY <1>3, <3>2
        <5> QED
          BY <2>1, <5>1
      <4> QED
        BY <1>8, <4>1, <4>2, <4>3
    <3> QED
      BY <3>1, <3>2
  <2> QED
    BY <2>1, <2>2 DEF Places
<1>12. NameAt(R, a) = c.name
  BY <1>3, <1>4 DEF NameAt
<1>13. ASSUME NEW p \in Places(Q, S) PROVE NameAt(R, p) = NameAt(Q, p)
  <2>1. CASE p.saved
    BY <1>4, <1>9, <2>1 DEF NameAt
  <2>2. CASE ~p.saved
    <3>1. p.row \in 1 .. Len(Q[p.queue].bytes) /\ p.queue \in AllQueues
      BY <1>9, <2>2
    <3>2. R[p.queue].bytes[p.row] = Q[p.queue].bytes[p.row]
      BY <1>2, <1>4, <3>1
    <3> QED
      BY <2>2, <3>2 DEF NameAt
  <2> QED
    BY <2>1, <2>2
<1>14. ASSUME NEW p \in Places(Q, S), ~p.saved, p.queue = q PROVE p.row < a.row
  BY <1>2, <1>3, <1>9, <1>14
<1> QED
  BY <1>2, <1>3, <1>10, <1>11, <1>12, <1>13, <1>14 DEF Last, MorePlaces

\* x is a new name, and is to be run at place a of those that wait.
NewName(Q, S, N, X, B, T, a, x) ==
  /\ x \in Name /\ x \notin N
  /\ \A y \in N : ~Descends(y, x)
  /\ \A p \in Places(Q, S) : ~Descends(x, NameAt(Q, p))
  /\ a.queue # World => x.home = a.queue /\ Len(x.key) = 1
  /\ \A y \in X : Ordered(B, y, x)
  /\ \A p \in Places(Q, S) : /\ Ahead(S, p, a) => Ordered(B, NameAt(Q, p), x)
                             /\ Ahead(S, a, p) => Ordered(B, x, NameAt(Q, p))
  /\ \A i \in 1 .. Len(S) : S[i].run # None =>
       /\ \A y \in N \cup {x} : Descends(y, S[i].run.name) =>
            y.key[Len(S[i].run.name.key) + 1] <= T[i].kids
       /\ Above(S, a, i) <=> Descends(x, S[i].run.name)

LEMMA QueuedTracked ==
  ASSUME NEW Q, NEW S, NEW N, NEW X, NEW B, Tracked(Q, S, N, X, B),
         NEW R, NEW T, SameFrames(S, T), NEW a, NEW x, MorePlaces(Q, S, R, T, a, x),
         NewName(Q, S, N, X, B, T, a, x), ~Ahead(S, a, a), Len(S) \in Nat
  PROVE  Tracked(R, T, N \cup {x}, X, B)
<1>1. PICK P : P = Places(Q, S)
  OBVIOUS
<1>2. PICK O : O = Places(R, T)
  OBVIOUS
<1>3. PICK M : M = N \cup {x}
  OBVIOUS
<1>4. /\ O = P \cup {a} /\ a \notin P
      /\ NameAt(R, a) = x /\ \A p \in P : NameAt(R, p) = NameAt(Q, p)
  BY <1>1, <1>2 DEF MorePlaces
<1>5. /\ x \in Name /\ x \notin N
      /\ \A y \in N : ~Descends(y, x)
      /\ \A p \in P : ~Descends(x, NameAt(Q, p))
      /\ a.queue # World => x.home = a.queue /\ Len(x.key) = 1
      /\ \A y \in X : Ordered(B, y, x)
      /\ \A p \in P : /\ Ahead(S, p, a) => Ordered(B, NameAt(Q, p), x)
                      /\ Ahead(S, a, p) => Ordered(B, x, NameAt(Q, p))
      /\ \A i \in 1 .. Len(S) : S[i].run # None =>
           /\ \A y \in M : Descends(y, S[i].run.name) =>
                y.key[Len(S[i].run.name.key) + 1] <= T[i].kids
           /\ Above(S, a, i) <=> Descends(x, S[i].run.name)
  BY <1>1, <1>3 DEF NewName
<1>6. /\ N \subseteq Name /\ B \subseteq X /\ N = X \cup {NameAt(Q, p) : p \in P}
      /\ \A p \in P : NameAt(Q, p) \notin X
      /\ \A p, r \in P : NameAt(Q, p) = NameAt(Q, r) => p = r
  BY <1>1 DEF Tracked, Accounted
<1>7. /\ \A p \in P : \A y \in N : ~Descends(y, NameAt(Q, p))
      /\ \A p \in P : p.queue # World => NameAt(Q, p).home = p.queue
                                           /\ Len(NameAt(Q, p).key) = 1
  BY <1>1 DEF Tracked, Childless
<1>8. /\ \A y \in X : \A p \in P : Ordered(B, y, NameAt(Q, p))
      /\ \A p, r \in P : Ahead(S, p, r) => Ordered(B, NameAt(Q, p), NameAt(Q, r))
  BY <1>1 DEF Tracked, InTurn
<1>9. /\ Len(T) = Len(S)
      /\ \A i \in 1 .. Len(S) : /\ T[i].queue = S[i].queue /\ T[i].stop = S[i].stop
                                /\ T[i].local = S[i].local /\ T[i].run = S[i].run
  BY DEF SameFrames
<1>10. /\ \A l, m, p : Between(T, p, l, m) <=> Between(S, p, l, m)
       /\ \A p : \A i \in 1 .. Len(S) : Above(T, p, i) <=> Above(S, p, i)
  BY <1>9 DEF Between, Above
<1>11. \A p, r \in O : Ahead(T, p, r) => Ahead(S, p, r)
  BY <1>10, AheadSame
<1>12. Accounted(R, T, M, X)
  <2>1. \A p \in P : NameAt(Q, p) \in N
    BY <1>6
  <2>2. M = X \cup {NameAt(R, p) : p \in O}
    BY <1>3, <1>4, <1>6
  <2>3. \A p \in O : NameAt(R, p) \notin X
    BY <1>4, <1>5, <1>6
  <2>4. \A p, r \in O : NameAt(R, p) = NameAt(R, r) => p = r
    BY <1>4, <1>5, <1>6, <2>1
  <2> QED
    BY <1>2, <2>2, <2>3, <2>4 DEF Accounted
<1>13. Childless(R, T, M)
  <2>1. \A z \in {x} : ~Descends(z, z)
    <3>1. Len(x.key) \in Nat
      BY <1>5, NamesForm
    <3> QED
      BY <3>1 DEF Descends
  <2>2. \A p \in O : \A y \in M : ~Descends(y, NameAt(R, p))
    BY <1>3, <1>4, <1>5, <1>7, <2>1
  <2>3. \A p \in O : p.queue # World => NameAt(R, p).home = p.queue
                                          /\ Len(NameAt(R, p).key) = 1
    BY <1>4, <1>5, <1>7
  <2> QED
    BY <1>2, <2>2, <2>3 DEF Childless
<1>14. InTurn(R, T, X, B)
  <2>1. \A y \in X : \A p \in O : Ordered(B, y, NameAt(R, p))
    BY <1>4, <1>5, <1>8
  <2>2. ASSUME NEW p \in O, NEW r \in O, Ahead(T, p, r)
        PROVE  Ordered(B, NameAt(R, p), NameAt(R, r))
    <3>1. Ahead(S, p, r)
      BY <1>11, <2>2
    <3>2. CASE p \in P /\ r \in P
      BY <1>4, <1>8, <3>1, <3>2
    <3>3. CASE p \in P /\ r = a
      BY <1>4, <1>5, <3>1, <3>3
    <3>4. CASE p = a /\ r \in P
      BY <1>4, <1>5, <3>1, <3>4
    <3>5. CASE p = a /\ r = a
      BY <3>1, <3>5
    <3> QED
      BY <1>4, <3>2, <3>3, <3>4, <3>5
  <2> QED
    BY <1>2, <2>1, <2>2 DEF InTurn
<1>15. ASSUME NEW i \in 1 .. Len(T), T[i].run # None
       PROVE  RunsWell(R, T, M, X, B, i, T[i].run.name)
  <2>1. PICK r : r = T[i].run.name
    OBVIOUS
  <2>2. RunsWell(Q, S, N, X, B, i, r)
    BY <1>9, <1>15, <2>1 DEF Tracked
  <2>3. /\ r \in X
        /\ \A j \in 1 .. Len(S) : j > i /\ S[j].run # None => Descends(S[j].run.name, r)
        /\ \A p \in P : Above(S, p, i) <=> Descends(NameAt(Q, p), r)
        /\ \A y \in X : y = r \/ Descends(y, r) \/ Ordered(B, y, r)
    BY <1>1, <2>2 DEF RunsWell
  <2>4. /\ \A y \in M : Descends(y, r) => y.key[Len(r.key) + 1] <= T[i].kids
        /\ Above(S, a, i) <=> Descends(x, r)
    BY <1>5, <1>9, <1>15, <2>1
  <2>5. \A p \in O : Above(T, p, i) <=> Descends(NameAt(R, p), r)
    BY <1>4, <1>9, <1>10, <1>15, <2>3, <2>4
  <2>6. \A j \in 1 .. Len(T) : j > i /\ T[j].run # None => Descends(T[j].run.name, r)
    BY <1>9, <2>3
  <2> QED
    BY <1>2, <2>1, <2>3, <2>4, <2>5, <2>6 DEF RunsWell
<1>16. M \subseteq Name
  BY <1>3, <1>5, <1>6
<1>17. Tracked(R, T, M, X, B)
  BY <1>6, <1>12, <1>13, <1>14, <1>15, <1>16 DEF Tracked
<1> QED
  BY <1>3, <1>17

\* Every name is of one of the first k[q] roots of its home q.
Rooted(N, k) == \A x \in N : Len(x.key) > 0 /\ x.key[1] <= k[x.home]

\* x is the root that comes next in q.
NextRoot(k, q, m, x) == m = k[q] + 1 /\ x = [home |-> q, key |-> <<m>>]

\* x is none of N, and behind all of them.
Latest(N, q, m, x) ==
  /\ x \in Name /\ x.home = q /\ Len(x.key) = 1 /\ x.key[1] = m /\ x \notin N
  /\ \A y \in N : ~Descends(y, x)
  /\ \A y \in Name : Len(y.key) > 0 => ~Descends(x, y)
  /\ \A B : \A y \in N : Ordered(B, y, x)

\* A new root is behind all that have its home.
LEMMA RootIsLatest ==
  ASSUME NEW N \in SUBSET Name, NEW k \in [AllQueues -> Nat], Rooted(N, k),
         NEW q \in AllQueues, NEW m \in Nat, NEW x, NextRoot(k, q, m, x)
  PROVE  Latest(N, q, m, x)
<1>0. m = k[q] + 1 /\ x = [home |-> q, key |-> <<m>>]
  BY DEF NextRoot
<1>1. PICK l \in Seq(Nat) : l = <<m>> /\ Len(l) = 1 /\ l[1] = m
  <2>1. <<m>> \in Seq(Nat)
    OBVIOUS
  <2>2. Len(<<m>>) = 1 /\ <<m>>[1] = m
    OBVIOUS
  <2> QED
    BY <2>1, <2>2
<1>2. x.home = q /\ x.key = l /\ x \in Name
  <2>1. x = [home |-> q, key |-> l]
    BY <1>0, <1>1
  <2> QED
    BY <2>1 DEF Name
<1>3. \A y \in N : /\ y \in Name /\ y.key \in Seq(Nat) /\ Len(y.key) \in Nat /\ Len(y.key) > 0
                   /\ y.key[1] \in Nat /\ (y.home = q => y.key[1] < m)
  <2>1. ASSUME NEW y \in N
        PROVE  /\ y \in Name /\ y.key \in Seq(Nat) /\ Len(y.key) \in Nat /\ Len(y.key) > 0
               /\ y.key[1] \in Nat /\ (y.home = q => y.key[1] < m)
    <3>1. /\ y \in Name /\ y.key \in Seq(Nat) /\ Len(y.key) \in Nat
          /\ \A i \in 1 .. Len(y.key) : y.key[i] \in Nat
      BY NamesForm
    <3>2. Len(y.key) > 0 /\ y.key[1] <= k[y.home]
      BY DEF Rooted
    <3>3. y.key[1] \in Nat
      BY <3>1, <3>2
    <3>4. y.home = q => y.key[1] < m
      BY <1>0, <3>2, <3>3
    <3> QED
      BY <3>1, <3>2, <3>3, <3>4
  <2> QED
    BY <2>1
<1>4. ASSUME NEW y \in N PROVE Ordered({}, y, x) /\ ~Descends(y, x) /\ y # x
  <2>1. y.home = q => Before(y.key, x.key) /\ ~Extends(y.key, x.key) /\ y # x
    <3>1. SUFFICES ASSUME y.home = q
                   PROVE  Before(y.key, l) /\ ~Extends(y.key, l) /\ y # x
      BY <1>2
    <3>2. y.key \in Seq(Nat) /\ Len(y.key) \in Nat /\ Len(y.key) > 0 /\ y.key[1] \in Nat
          /\ y.key[1] < m
      BY <1>3, <3>1
    <3>3. Turns(y.key, l, 1) /\ 1 \in 1 .. Len(y.key)
      BY <1>1, <3>2 DEF Turns
    <3>4. ~Extends(y.key, l)
      BY <1>1, <3>2 DEF Extends
    <3>5. y # x
      BY <1>1, <1>2, <3>2
    <3> QED
      BY <3>2, <3>3, <3>4, <3>5, BeforeForm
  <2>2. Ordered({}, y, x)
    BY <1>2, <2>1 DEF Ordered
  <2>3. ~Descends(y, x) /\ y # x
    BY <1>2, <1>3, <2>1, DescendsForm
  <2> QED
    BY <2>2, <2>3
<1>5. ASSUME NEW y \in Name, Len(y.key) > 0 PROVE ~Descends(x, y)
  <2>1. Len(y.key) \in Nat
    BY NamesForm
  <2> QED
    BY <1>1, <1>2, <1>5, <2>1 DEF Descends
<1>6. \A B : \A y \in N : Ordered(B, y, x)
  BY <1>4, OrderedGrows
<1>7. \A y \in N : ~Descends(y, x) /\ y # x
  BY <1>4
<1> QED
  BY <1>1, <1>2, <1>5, <1>6, <1>7 DEF Latest

\* A command is queued from outside.
LEMMA RootTracked ==
  ASSUME NEW C, C \subseteq Command, NEW Q, NEW S, S = <<>>, Shape(Q, S, C),
         NEW N, NEW X, NEW B, Tracked(Q, S, N, X, B),
         NEW k \in [AllQueues -> Nat], Rooted(N, k),
         NEW q \in AllQueues, NEW m \in Nat, NEW x, NextRoot(k, q, m, x),
         NEW c \in Command, c.name = x, NEW R, Queued(Q, q, c, R)
  PROVE  Tracked(R, S, N \cup {x}, X, B)
<1>0. N \in SUBSET Name
  BY DEF Tracked
<1>1. /\ x \in Name /\ x.home = q /\ Len(x.key) = 1 /\ x.key[1] = m /\ x \notin N
      /\ \A y \in N : ~Descends(y, x)
      /\ \A y \in Name : Len(y.key) > 0 => ~Descends(x, y)
      /\ \A y \in N : Ordered(B, y, x)
  <2>1. Latest(N, q, m, x)
    BY <1>0, RootIsLatest
  <2> QED
    BY <2>1 DEF Latest
<1>2. PICK a : a = NewPlace(Q, q)
  OBVIOUS
<1>4. Len(S) = 0 /\ Len(S) \in Nat /\ 1 .. 0 = {} /\ SameFrames(S, S)
  BY DEF SameFrames
<1>5. Shape(Q, S, C) /\ Tracked(Q, S, N, X, B)
  OBVIOUS
<1>7. Last(Q, S, q, a) /\ MorePlaces(Q, S, R, S, a, x)
  BY <1>2, <1>4, <1>5, QueuedPlaces
<1>6. /\ a.queue = q /\ ~a.saved /\ a.row = Len(Q[q].bytes) + 1
      /\ \A p \in Places(Q, S) : ~p.saved /\ p.queue = q => p.row < a.row
  BY <1>7 DEF Last
<1>8. \A p, l, r : ~Between(S, p, l, r)
  BY <1>4 DEF Between
<1>9. a.row \in Nat
  <2>1. Q \in [AllQueues -> QueueOf(C)]
    BY <1>5 DEF Shape
  <2>2. Len(Q[q].bytes) \in Nat
    BY <2>1, VectorForm
  <2> QED
    BY <1>6, <2>2
<1>10. ~Ahead(S, a, a)
  BY <1>6, <1>8, <1>9 DEF Ahead
<1>11. /\ \A p \in Places(Q, S) : NameAt(Q, p) \in N /\ NameAt(Q, p) \in Name
                                  /\ Len(NameAt(Q, p).key) > 0
       /\ X \subseteq N
  <2>1. N = X \cup {NameAt(Q, p) : p \in Places(Q, S)}
    BY <1>5 DEF Tracked, Accounted
  <2> QED
    BY <1>0, <2>1 DEF Rooted
<1>12. ASSUME NEW p \in Places(Q, S), Ahead(S, a, p) PROVE Ordered(B, x, NameAt(Q, p))
  <2>1. p.queue = q => ~Ahead(S, a, p)
    <3>1. SUFFICES ASSUME p.queue = q PROVE ~Ahead(S, a, p)
      OBVIOUS
    <3>2. ~p.saved => p.row < a.row /\ p.row \in Nat
      BY <1>6, <3>1, PlaceForm
    <3> QED
      BY <1>6, <1>8, <1>9, <3>1, <3>2 DEF Ahead
  <2>2. q = World /\ p.queue # World
    BY <1>6, <1>12, <2>1 DEF Ahead
  <2>3. NameAt(Q, p).home = p.queue
    BY <1>5, <2>2 DEF Tracked, Childless
  <2> QED
    BY <1>1, <2>2, <2>3 DEF Ordered
<1>13. NewName(Q, S, N, X, B, S, a, x)
  <2>1. \A y \in X : Ordered(B, y, x)
    BY <1>1, <1>11
  <2>2. \A p \in Places(Q, S) : ~Descends(x, NameAt(Q, p)) /\ Ordered(B, NameAt(Q, p), x)
    BY <1>1, <1>11
  <2>3. a.queue # World => x.home = a.queue /\ Len(x.key) = 1
    BY <1>1, <1>6
  <2>4. \A i \in 1 .. Len(S) : FALSE
    BY <1>4
  <2> QED
    BY <1>1, <1>12, <2>1, <2>2, <2>3, <2>4 DEF NewName
<1>14. Tracked(R, S, N \cup {x}, X, B)
  BY <1>4, <1>5, <1>7, <1>10, <1>13, QueuedTracked
<1> QED
  BY <1>14

LEMMA DescendsIndex ==
  ASSUME NEW x \in Name, NEW y \in Name, Descends(x, y)
  PROVE  x.key[Len(y.key) + 1] \in Nat
<1>1. Len(x.key) \in Nat /\ Len(y.key) \in Nat /\ \A i \in 1 .. Len(x.key) : x.key[i] \in Nat
  BY NamesForm
<1>2. Len(y.key) < Len(x.key)
  BY DEF Descends
<1> QED
  BY <1>1, <1>2

\* The topmost frame counts one child more.
CountsChild(S, T) ==
  /\ SameFrames(S, T) /\ Topmost(T).kids = Topmost(S).kids + 1
  /\ \A i \in 1 .. Len(S) : i # Len(S) => T[i] = S[i]

\* r is the command that the topmost frame runs, and x its next child.
ChildOf(S, r, x) ==
  /\ r = Topmost(S).run.name
  /\ x = [home |-> r.home, key |-> Append(r.key, Topmost(S).kids + 1)]

\* A closure queues a command on the queue of the world.
LEMMA ChildTracked ==
  ASSUME NEW C, C \subseteq Command, NEW Q, NEW S, Shape(Q, S, C), S # <<>>,
         NEW N, NEW X, NEW B, Tracked(Q, S, N, X, B),
         Topmost(S).run # None, NEW T, CountsChild(S, T), NEW r, NEW x, ChildOf(S, r, x),
         NEW c \in Command, c.name = x, NEW R, Queued(Q, World, c, R)
  PROVE  /\ Tracked(R, T, N \cup {x}, X, B) /\ r \in N /\ x \in Name /\ Descends(x, r)
<1>1. PICK n \in Nat : n = Len(S) /\ n \in 1 .. n
  BY StackForm DEF Shape
<1>2. /\ Q \in [AllQueues -> QueueOf(C)] /\ S \in Seq(FrameOf(C)) /\ InOrder(Q, S)
      /\ \A i \in 1 .. n : /\ S[i].stop \in Nat /\ S[i].start \in Nat /\ S[i].kids \in Nat
                           /\ S[i].queue \in AllQueues
  BY <1>1, StackForm DEF Shape
<1>3. PICK k \in Nat : k = S[n].kids /\ Topmost(S) = S[n] /\ Topmost(T) = T[n]
  BY <1>1, <1>2 DEF Topmost, CountsChild, SameFrames
<1>4. /\ SameFrames(S, T) /\ T[n].kids = k + 1
      /\ \A i \in 1 .. n : i # n => T[i] = S[i]
  BY <1>1, <1>3 DEF CountsChild
<1>5. S[n].run # None /\ r = S[n].run.name
  BY <1>3 DEF ChildOf
<1>6. PICK P : P = Places(Q, S)
  OBVIOUS
<1>7. /\ N \subseteq Name /\ B \subseteq X /\ N = X \cup {NameAt(Q, p) : p \in P}
      /\ \A p \in P : NameAt(Q, p) \notin X /\ NameAt(Q, p) \in N
  BY <1>6 DEF Tracked, Accounted
<1>8. /\ r \in X /\ r \in N /\ r \in Name
      /\ \A y \in N : Descends(y, r) => y.key[Len(r.key) + 1] <= k
      /\ \A p \in P : Above(S, p, n) <=> Descends(NameAt(Q, p), r)
      /\ \A y \in X : y = r \/ Descends(y, r) \/ Ordered(B, y, r)
  <2>1. RunsWell(Q, S, N, X, B, n, r)
    BY <1>1, <1>5 DEF Tracked
  <2>2. /\ r \in X
        /\ \A y \in N : Descends(y, r) => y.key[Len(r.key) + 1] <= k
        /\ \A p \in P : Above(S, p, n) <=> Descends(NameAt(Q, p), r)
        /\ \A y \in X : y = r \/ Descends(y, r) \/ Ordered(B, y, r)
    BY <1>3, <1>6, <2>1 DEF RunsWell
  <2> QED
    BY <1>7, <2>2
<1>9. PICK m \in Nat : m = k + 1
  OBVIOUS
<1>10. /\ x \in Name /\ Descends(x, r) /\ x.key[Len(r.key) + 1] = m
       /\ Ordered(B, r, x)
       /\ \A y \in Name : Descends(x, y) => y = r \/ Descends(r, y)
  <2>1. x = [home |-> r.home, key |-> Append(r.key, m)]
    BY <1>3, <1>9 DEF ChildOf
  <2>2. r \in Name
    BY <1>8
  <2> QED
    BY <2>1, <2>2, ChildForm
<1>11. \A y \in N : Descends(y, r) =>
         y.key[Len(r.key) + 1] \in Nat /\ y.key[Len(r.key) + 1] <= k
  BY <1>7, <1>8, DescendsIndex
<1>12. \A y \in N : Descends(y, r) => Ordered(B, y, x)
  <2>1. ASSUME NEW y \in N, Descends(y, r) PROVE Ordered(B, y, x)
    <3>1. y.key[Len(r.key) + 1] < x.key[Len(r.key) + 1]
      BY <1>9, <1>10, <1>11, <2>1
    <3>2. y \in Name /\ B \in SUBSET Name
      BY <1>7
    <3> QED
      BY <1>8, <1>10, <2>1, <3>1, <3>2, EldersOrdered
  <2> QED
    BY <2>1
<1>13. x \notin N
  <2>1. SUFFICES ASSUME x \in N PROVE FALSE
    OBVIOUS
  <2>2. m <= k
    BY <1>8, <1>10, <2>1
  <2> QED
    BY <1>9, <2>2
<1>14. ASSUME NEW y \in N PROVE ~Descends(y, x)
  <2>1. SUFFICES ASSUME Descends(y, x) PROVE FALSE
    OBVIOUS
  <2>2. y \in Name
    BY <1>7
  <2>3. Descends(y, r) /\ y.key[Len(r.key) + 1] = m
    BY <1>8, <1>10, <2>1, <2>2, DescendsTwice
  <2>4. m <= k
    BY <1>8, <2>3
  <2> QED
    BY <1>9, <2>4
<1>15. ASSUME NEW p \in P PROVE ~Descends(x, NameAt(Q, p))
  <2>1. SUFFICES ASSUME Descends(x, NameAt(Q, p)) PROVE FALSE
    OBVIOUS
  <2>2. NameAt(Q, p) = r \/ Descends(r, NameAt(Q, p))
    BY <1>7, <1>10, <2>1
  <2>3. ~Descends(r, NameAt(Q, p))
    BY <1>6, <1>8 DEF Tracked, Childless
  <2> QED
    BY <1>7, <1>8, <2>2, <2>3
<1>16. ASSUME NEW y \in X PROVE Ordered(B, y, x)
  <2>1. y \in N /\ y \in Name /\ B \in SUBSET Name
    BY <1>7
  <2>2. CASE y = r
    BY <1>10, <2>2
  <2>3. CASE Descends(y, r)
    BY <1>12, <2>1, <2>3
  <2>4. CASE Ordered(B, y, r)
    BY <1>8, <1>10, <2>1, <2>4, OrderedDescends
  <2> QED
    BY <1>8, <2>2, <2>3, <2>4
<1>17. PICK l \in Nat : l = Len(Q[World].bytes)
  BY <1>2, WorldIsOther, VectorForm
<1>18. \A i \in 1 .. n : /\ S[i].queue = World => S[i].stop <= l
                         /\ i < n => S[n].queue = World
                         /\ i < n /\ S[i].queue = World => S[i].stop <= S[n].stop
  <2>1. ASSUME NEW i \in 1 .. n
        PROVE  /\ S[i].queue = World => S[i].stop <= l
               /\ i < n => S[n].queue = World
               /\ i < n /\ S[i].queue = World => S[i].stop <= S[n].stop
    <3>1. S[i].queue = World => S[i].stop <= l
      BY <1>1, <1>2, <1>17 DEF InOrder, FrameInOrder
    <3>2. FrameInOrder(Q, S, n) /\ S[n].local \in Nat
      BY <1>1, <1>2, StackForm DEF InOrder
    <3>3. i < n => S[n].queue = World
      BY <1>1, <3>2 DEF FrameInOrder
    <3>4. i < n /\ S[i].queue = World => S[i].stop <= S[n].start
      BY <1>1, <1>2, <3>3 DEF InOrder
    <3>5. S[n].start <= S[n].stop
      BY <1>1, <1>2, <3>2 DEF FrameInOrder
    <3> QED
      BY <1>1, <1>2, <3>1, <3>3, <3>4, <3>5
  <2> QED
    BY <2>1
<1>19. PICK a : a = NewPlace(Q, World)
  OBVIOUS
<1>21. Last(Q, S, World, a) /\ MorePlaces(Q, S, R, T, a, x)
  BY <1>4, <1>19, WorldIsOther, QueuedPlaces
<1>20. /\ a.queue = World /\ ~a.saved /\ a.row = l + 1
       /\ \A p \in P : ~p.saved /\ p.queue = World => p.row < a.row
  BY <1>6, <1>17, <1>21 DEF Last
<1>22. ~Ahead(S, a, a)
  BY <1>20 DEF Ahead
<1>23. ASSUME NEW p \in P, Ahead(S, p, a) PROVE Ordered(B, NameAt(Q, p), x)
  <2>1. p.queue = World /\ p.row \in Nat
    BY <1>6, <1>20, <1>23, PlaceForm DEF Ahead
  <2>2. ~p.saved => ~Between(S, World, p.row, l + 1)
    <3>1. SUFFICES ASSUME ~p.saved PROVE ~Between(S, World, p.row, l + 1)
      OBVIOUS
    <3>2. p.row < l + 1
      BY <1>20, <2>1, <3>1
    <3> QED
      BY <1>20, <1>23, <2>1, <3>1, <3>2 DEF Ahead
  <2>3. Above(S, p, n)
    <3>1. SUFFICES ASSUME ~p.saved, S[n].queue = World PROVE S[n].stop < p.row
      BY <2>1 DEF Above
    <3>2. S[n].stop < l + 1
      BY <1>1, <1>2, <1>17, <1>18, <3>1
    <3>3. ~(p.row <= S[n].stop)
      BY <1>1, <2>2, <3>1, <3>2 DEF Between
    <3> QED
      BY <1>1, <1>2, <2>1, <3>3
  <2>4. Descends(NameAt(Q, p), r) /\ NameAt(Q, p) \in N
    BY <1>7, <1>8, <2>3
  <2> QED
    BY <1>12, <2>4
<1>24. ASSUME NEW p \in P, Ahead(S, a, p) PROVE Ordered(B, x, NameAt(Q, p))
  <2>1. ~Above(S, p, n)
    <3>1. SUFFICES ASSUME p.queue = World PROVE ~Above(S, p, n)
      BY DEF Above
    <3>2. p.row \in Nat /\ ~p.saved /\ p.row < l + 1
      BY <1>6, <1>20, <1>24, <3>1, PlaceForm DEF Ahead
    <3>3. Between(S, World, p.row, l + 1)
      BY <1>20, <1>24, <3>1, <3>2 DEF Ahead
    <3>4. PICK i \in 1 .. n : S[i].queue = World /\ p.row <= S[i].stop
      BY <1>1, <3>3 DEF Between
    <3>5. S[n].queue = World /\ S[i].stop <= S[n].stop
      <4>1. CASE i = n
        BY <1>2, <3>4, <4>1
      <4>2. CASE i < n
        BY <1>18, <3>4, <4>2
      <4> QED
        BY <1>1, <4>1, <4>2
    <3>6. p.row <= S[n].stop
      BY <1>1, <1>2, <3>2, <3>4, <3>5
    <3> QED
      BY <1>1, <1>2, <3>2, <3>5, <3>6 DEF Above
  <2>2. ~Descends(NameAt(Q, p), r) /\ NameAt(Q, p) \in Name
    BY <1>7, <1>8, <2>1
  <2>3. Ordered(B, r, NameAt(Q, p))
    BY <1>6, <1>8 DEF Tracked, InTurn
  <2>4. B \in SUBSET Name
    BY <1>7
  <2> QED
    BY <1>8, <1>10, <2>2, <2>3, <2>4, DescendantOrdered
<1>25. ASSUME NEW i \in 1 .. n, S[i].run # None
       PROVE  /\ \A y \in N \cup {x} : Descends(y, S[i].run.name) =>
                   y.key[Len(S[i].run.name.key) + 1] <= T[i].kids
              /\ Above(S, a, i) <=> Descends(x, S[i].run.name)
  <2>1. Above(S, a, i)
    <3>1. S[i].queue = World => S[i].stop < l + 1
      BY <1>2, <1>17, <1>18
    <3> QED
      BY <1>20, <3>1 DEF Above
  <2>2. CASE i = n
    <3>1. \A y \in N : Descends(y, r) => y.key[Len(r.key) + 1] <= m
      BY <1>9, <1>11
    <3>2. x.key[Len(r.key) + 1] <= m
      BY <1>10
    <3>3. T[i].kids = m /\ S[i].run.name = r
      BY <1>4, <1>5, <1>9, <2>2
    <3>4. \A y \in N \cup {x} : Descends(y, r) => y.key[Len(r.key) + 1] <= T[i].kids
      BY <3>1, <3>2, <3>3
    <3> QED
      BY <1>10, <2>1, <3>3, <3>4
  <2>3. CASE i # n
    <3>1. PICK s : s = S[i].run.name
      OBVIOUS
    <3>2. i < n /\ T[i] = S[i]
      BY <1>1, <1>4, <2>3
    <3>3. RunsWell(Q, S, N, X, B, i, s)
      BY <1>1, <1>25, <3>1 DEF Tracked
    <3>4. s \in X /\ Descends(r, s)
      BY <1>1, <1>5, <3>2, <3>3 DEF RunsWell
    <3>5. s \in Name /\ r \in Name /\ x \in Name /\ Descends(x, r)
      BY <1>7, <1>8, <1>10, <3>4
    <3>6. Descends(x, s) /\ x.key[Len(s.key) + 1] = r.key[Len(s.key) + 1]
      BY <3>4, <3>5, DescendsTwice
    <3>7. \A y \in N : Descends(y, s) => y.key[Len(s.key) + 1] <= S[i].kids
      BY <3>3 DEF RunsWell
    <3>8. \A y \in N \cup {x} : Descends(y, s) => y.key[Len(s.key) + 1] <= T[i].kids
      BY <1>8, <3>2, <3>4, <3>6, <3>7
    <3> QED
      BY <2>1, <3>1, <3>6, <3>8
  <2> QED
    BY <2>2, <2>3
<1>26. NewName(Q, S, N, X, B, T, a, x)
  BY <1>1, <1>6, <1>10, <1>13, <1>14, <1>15, <1>16, <1>20, <1>23, <1>24, <1>25 DEF NewName
<1>27. Tracked(R, T, N \cup {x}, X, B)
  BY <1>1, <1>4, <1>21, <1>22, <1>26, QueuedTracked
<1> QED
  BY <1>8, <1>10, <1>27

-----------------------------------------------------------------------------
(***************************************************************************)
(* A queue is appended to that of the world.                               *)
(***************************************************************************)
RenamedAs(m, x, w) ==
  /\ w \in Name /\ w.home = World /\ w.key \in Seq(Nat) /\ Len(w.key) = 2
  /\ w.key[1] = m /\ w.key[2] = x.key[1]

LEMMA RenamedForm ==
  ASSUME NEW x \in Name, Len(x.key) = 1, NEW m \in Nat
  PROVE  RenamedAs(m, x, Renamed(m, x))
<1>1. PICK k \in Seq(Nat) : k = x.key /\ Len(k) = 1
  BY NamesForm
<1>2. PICK l : l = <<m>> \o k
  OBVIOUS
<1>3. /\ <<m>> \o k \in Seq(Nat) /\ Len(<<m>> \o k) = Len(k) + 1 /\ (<<m>> \o k)[1] = m
      /\ \A i \in 1 .. Len(k) : (<<m>> \o k)[i + 1] = k[i]
  BY MovedKey
<1>4. l \in Seq(Nat) /\ Len(l) = 2 /\ l[1] = m
  <2>1. l \in Seq(Nat) /\ Len(l) = Len(k) + 1 /\ l[1] = m
    BY <1>2, <1>3, Zenon
  <2> QED
    BY <1>1, <2>1
<1>5. l[2] = k[1]
  <2>1. 1 \in 1 .. 1 /\ 1 + 1 = 2
    OBVIOUS
  <2>2. 1 \in 1 .. Len(k)
    BY <1>1, <2>1
  <2> QED
    BY <1>2, <1>3, <2>1, <2>2
<1>6. PICK w : w = Renamed(m, x)
  OBVIOUS
<1>7. w = [home |-> World, key |-> l]
  BY <1>1, <1>2, <1>6 DEF Renamed
<1>8. w \in Name /\ w.home = World /\ w.key = l
  BY <1>4, <1>7, WorldIsOther DEF Name
<1> QED
  BY <1>1, <1>4, <1>5, <1>6, <1>8 DEF RenamedAs

\* Two that are moved keep their order, and stay two.
LEMMA RenamedOrder ==
  ASSUME NEW x \in Name, NEW y \in Name, Len(x.key) = 1, Len(y.key) = 1,
         NEW m \in Nat, NEW u, NEW v, RenamedAs(m, x, u), RenamedAs(m, y, v)
  PROVE  /\ Before(x.key, y.key) => Before(u.key, v.key)
         /\ u = v /\ x.home = y.home => x = y
         /\ ~Descends(u, v)
<1>1. /\ x.key \in Seq(Nat) /\ y.key \in Seq(Nat) /\ x.key[1] \in Nat /\ y.key[1] \in Nat
  <2>1. ASSUME NEW k \in Seq(Nat), Len(k) = 1 PROVE k[1] \in Nat
    <3>1. \A i \in 1 .. Len(k) : k[i] \in Nat
      BY KeyForm
    <3> QED
      BY <2>1, <3>1
  <2> QED
    BY <2>1, NamesForm
<1>2. /\ u.key \in Seq(Nat) /\ Len(u.key) = 2 /\ u.key[1] = m /\ u.key[2] = x.key[1]
      /\ v.key \in Seq(Nat) /\ Len(v.key) = 2 /\ v.key[1] = m /\ v.key[2] = y.key[1]
  BY DEF RenamedAs
<1>3. ASSUME Before(x.key, y.key) PROVE Before(u.key, v.key)
  <2>1. ~Extends(y.key, x.key)
    BY DEF Extends
  <2>2. PICK n \in 1 .. Len(x.key) : Turns(x.key, y.key, n)
    BY <1>1, <1>3, <2>1, BeforeForm
  <2>3. x.key[1] < y.key[1]
    <3>1. n = 1
      BY <2>2
    <3> QED
      BY <2>2, <3>1 DEF Turns
  <2>4. \A i \in 1 .. 2 - 1 : i = 1
    OBVIOUS
  <2>5. 2 \in 1 .. Len(u.key) /\ Turns(u.key, v.key, 2)
    BY <1>2, <2>3, <2>4 DEF Turns
  <2> QED
    BY <1>2, <2>5, BeforeForm
<1>4. ASSUME u = v, x.home = y.home PROVE x = y
  <2>1. x.key[1] = y.key[1]
    BY <1>2, <1>4
  <2>2. x.key = y.key
    <3>1. PICK k \in Seq(Nat) : k = x.key /\ Len(k) = 1
      BY <1>1
    <3>2. PICK l \in Seq(Nat) : l = y.key /\ Len(l) = 1
      BY <1>1
    <3>3. Len(k) = Len(l) /\ \A i \in 1 .. Len(k) : k[i] = l[i]
      BY <2>1, <3>1, <3>2
    <3>4. k = l
      BY <3>3, SeqEqual
    <3> QED
      BY <3>1, <3>2, <3>4
  <2> QED
    BY <1>4, <2>2 DEF Name
<1>5. ~Descends(u, v)
  BY <1>2 DEF Descends
<1> QED
  BY <1>3, <1>4, <1>5

\* Those of N that are at home in the queue of the world are of roots below m.
Under(N, m) == \A x \in N : Len(x.key) > 0 /\ (x.home = World => x.key[1] < m)

\* w is none of N nor their kin, and behind all of them.
Apart(N, w) ==
  /\ w \notin N
  /\ \A y \in N : ~Descends(y, w) /\ ~Descends(w, y) /\ \A B : Ordered(B, y, w)

LEMMA RenamedIsApart ==
  ASSUME NEW N \in SUBSET Name, NEW m \in Nat, Under(N, m),
         NEW x, NEW w, RenamedAs(m, x, w)
  PROVE  Apart(N, w)
<1>1. /\ w \in Name /\ w.home = World /\ w.key \in Seq(Nat) /\ Len(w.key) = 2
      /\ w.key[1] = m
  BY DEF RenamedAs
<1>2. ASSUME NEW y \in N PROVE y # w /\ ~Descends(y, w) /\ ~Descends(w, y) /\ Ordered({}, y, w)
  <2>1. /\ y \in Name /\ y.key \in Seq(Nat) /\ Len(y.key) \in Nat /\ Len(y.key) > 0
        /\ (y.home = World => y.key[1] < m)
    BY NamesForm DEF Under
  <2>2. y.key[1] \in Nat
    BY <2>1, NamesForm
  <2>3. y.home = World => /\ y # w /\ ~Extends(y.key, w.key) /\ ~Extends(w.key, y.key)
                          /\ Before(y.key, w.key)
    <3>1. SUFFICES ASSUME y.home = World
                   PROVE  /\ y # w /\ ~Extends(y.key, w.key) /\ ~Extends(w.key, y.key)
                          /\ Before(y.key, w.key)
      OBVIOUS
    <3>2. y.key[1] # w.key[1] /\ y.key[1] < w.key[1]
      BY <1>1, <2>1, <2>2, <3>1
    <3>3. ~Extends(y.key, w.key) /\ ~Extends(w.key, y.key) /\ y # w
      BY <1>1, <2>1, <3>2 DEF Extends
    <3>4. 1 \in 1 .. Len(y.key) /\ Turns(y.key, w.key, 1)
      BY <1>1, <2>1, <3>2 DEF Turns
    <3> QED
      BY <1>1, <2>1, <3>3, <3>4, BeforeForm
  <2>4. ~Descends(y, w) /\ ~Descends(w, y) /\ y # w
    BY <1>1, <2>1, <2>3, DescendsForm
  <2> QED
    BY <1>1, <2>3, <2>4 DEF Ordered
<1>3. \A B : \A y \in N : Ordered(B, y, w)
  BY <1>2, OrderedGrows
<1> QED
  BY <1>2, <1>3 DEF Apart

\* Nothing is being applied, and nothing is saved.
Flat(Q) == \A q \in AllQueues : Q[q].cursor = 0 /\ Q[q].panic_recovery = <<>>

LEMMA FlatPlaces ==
  ASSUME NEW Q, Flat(Q)
  PROVE  /\ \A p \in Places(Q, <<>>) : /\ p.queue \in AllQueues /\ ~p.saved
                                       /\ p.row \in Nat /\ 0 < p.row
                                       /\ p.row <= Len(Q[p.queue].bytes)
         /\ \A p \in [queue : AllQueues, saved : {FALSE}, row : Nat] :
              0 < p.row /\ p.row <= Len(Q[p.queue].bytes) => p \in Places(Q, <<>>)
<1>1. PICK S : S = <<>>
  OBVIOUS
<1>2. Len(S) = 0 /\ 1 .. 0 = {}
  BY <1>1
<1>3. \A q \in AllQueues : Q[q].cursor = 0 /\ Len(Q[q].panic_recovery) = 0
  BY EmptySeq DEF Flat
<1>4. \A q \in AllQueues : \A k : Waits(Q, S, q, k) <=> 0 < k /\ k <= Len(Q[q].bytes)
  BY <1>2, <1>3 DEF Waits
<1>5. ASSUME NEW p \in Places(Q, S)
      PROVE  /\ p.queue \in AllQueues /\ ~p.saved /\ p.row \in Nat /\ 0 < p.row
             /\ p.row <= Len(Q[p.queue].bytes)
  <2>1. /\ p.queue \in AllQueues /\ p.saved \in BOOLEAN /\ p.row \in Nat
        /\ IF p.saved THEN p.row \in 1 .. Len(Q[p.queue].panic_recovery)
           ELSE Waits(Q, S, p.queue, p.row)
    BY PlaceForm
  <2>2. ~p.saved
    <3>1. SUFFICES ASSUME p.saved PROVE FALSE
      OBVIOUS
    <3>2. p.row \in 1 .. 0
      BY <1>3, <2>1, <3>1
    <3> QED
      BY <3>2
  <2> QED
    BY <1>4, <2>1, <2>2
<1>6. ASSUME NEW p \in [queue : AllQueues, saved : {FALSE}, row : Nat],
             0 < p.row, p.row <= Len(Q[p.queue].bytes)
      PROVE  p \in Places(Q, S)
  <2>1. p \in [queue : AllQueues, saved : BOOLEAN, row : Nat] /\ ~p.saved
    OBVIOUS
  <2>2. Waits(Q, S, p.queue, p.row)
    BY <1>4, <1>6
  <2> QED
    BY <2>1, <2>2 DEF Places
<1> QED
  BY <1>1, <1>5, <1>6

\* What is in q is appended to the queue of the world.
Appended(Q, q, m, R) ==
  /\ Len(R[World].bytes) = Len(Q[World].bytes) + Len(Q[q].bytes)
  /\ \A k \in 1 .. Len(Q[World].bytes) : R[World].bytes[k] = Q[World].bytes[k]
  /\ \A k \in 1 .. Len(Q[q].bytes) :
       R[World].bytes[Len(Q[World].bytes) + k].name = Renamed(m, Q[q].bytes[k].name)
  /\ R[q].bytes = <<>>
  /\ \A p \in AllQueues \ {World, q} : R[p].bytes = Q[p].bytes

\* z is the place of p before what is in q is appended to the queue of the world.
CameFrom(Q, R, q, m, p, z) ==
  /\ z \in Places(Q, <<>>)
  /\ \/ z = p /\ p.queue # q /\ NameAt(R, p) = NameAt(Q, z)
     \/ /\ z.queue = q /\ p.queue = World /\ NameAt(R, p) = Renamed(m, NameAt(Q, z))
        /\ p.row = Len(Q[World].bytes) + z.row

LEMMA AppendedPlaces ==
  ASSUME NEW C, NEW Q \in [AllQueues -> QueueOf(C)], NEW R, Flat(Q), Flat(R),
         NEW q \in Queues, NEW m \in Nat, Appended(Q, q, m, R)
  PROVE  /\ \A p \in Places(R, <<>>) : \E z \in Places(Q, <<>>) : CameFrom(Q, R, q, m, p, z)
         /\ \A z \in Places(Q, <<>>) : \E p \in Places(R, <<>>) : CameFrom(Q, R, q, m, p, z)
<1>1. q \in AllQueues /\ World \in AllQueues /\ q # World
  BY WorldIsOther
<1>2. PICK l \in Nat : l = Len(Q[World].bytes)
  BY <1>1, VectorForm
<1>3. PICK n \in Nat : n = Len(Q[q].bytes)
  BY <1>1, VectorForm
<1>4. /\ Len(R[World].bytes) = l + n
      /\ \A k \in 1 .. l : R[World].bytes[k] = Q[World].bytes[k]
      /\ \A k \in 1 .. n : R[World].bytes[l + k].name = Renamed(m, Q[q].bytes[k].name)
      /\ Len(R[q].bytes) = 0
      /\ \A p \in AllQueues \ {World, q} : R[p].bytes = Q[p].bytes
  <2>1. Len(R[q].bytes) = 0
    BY EmptySeq DEF Appended
  <2> QED
    BY <1>2, <1>3, <2>1 DEF Appended
<1>5. /\ \A p \in Places(R, <<>>) : /\ p.queue \in AllQueues /\ ~p.saved /\ p.row \in Nat
                                    /\ 0 < p.row /\ p.row <= Len(R[p.queue].bytes)
      /\ \A p \in Places(Q, <<>>) : /\ p.queue \in AllQueues /\ ~p.saved /\ p.row \in Nat
                                    /\ 0 < p.row /\ p.row <= Len(Q[p.queue].bytes)
  BY FlatPlaces
<1>6. \A p \in Places(R, <<>>) \cup Places(Q, <<>>) :
        p \in [queue : AllQueues, saved : {FALSE}, row : Nat]
  <2>1. \A p \in [queue : AllQueues, saved : BOOLEAN, row : Nat] :
          ~p.saved => p \in [queue : AllQueues, saved : {FALSE}, row : Nat]
    OBVIOUS
  <2> QED
    BY <1>5, <2>1 DEF Places
<1>7. /\ \A p \in [queue : AllQueues, saved : {FALSE}, row : Nat] :
           0 < p.row /\ p.row <= Len(Q[p.queue].bytes) => p \in Places(Q, <<>>)
      /\ \A p \in [queue : AllQueues, saved : {FALSE}, row : Nat] :
           0 < p.row /\ p.row <= Len(R[p.queue].bytes) => p \in Places(R, <<>>)
  BY FlatPlaces
<1>8. \A p : ~p.saved => /\ NameAt(R, p) = R[p.queue].bytes[p.row].name
                         /\ NameAt(Q, p) = Q[p.queue].bytes[p.row].name
  BY DEF NameAt
<1>9. ASSUME NEW p \in Places(R, <<>>)
      PROVE  \E z \in Places(Q, <<>>) : CameFrom(Q, R, q, m, p, z)
  <2>1. /\ p.queue \in AllQueues /\ ~p.saved /\ p.row \in Nat /\ 0 < p.row
        /\ p.row <= Len(R[p.queue].bytes)
        /\ p \in [queue : AllQueues, saved : {FALSE}, row : Nat]
    BY <1>5, <1>6
  <2>2. CASE p.queue = World /\ l < p.row
    <3>1. PICK k \in Nat : k = p.row - l
      BY <2>1, <2>2
    <3>2. k \in 1 .. n /\ p.row = l + k
      BY <1>4, <2>1, <2>2, <3>1
    <3>3. PICK z : z = [queue |-> q, saved |-> FALSE, row |-> k]
      OBVIOUS
    <3>4. z \in [queue : AllQueues, saved : {FALSE}, row : Nat]
      BY <1>1, <3>3
    <3>5. z.queue = q /\ ~z.saved /\ z.row = k
      BY <3>3
    <3>6. z \in Places(Q, <<>>)
      <4>1. 0 < z.row /\ z.row <= Len(Q[z.queue].bytes)
        BY <1>3, <3>2, <3>5
      <4> QED
        BY <1>7, <3>4, <4>1
    <3>7. NameAt(R, p) = Renamed(m, NameAt(Q, z))
      <4>1. R[World].bytes[l + k].name = Renamed(m, Q[q].bytes[k].name)
        BY <1>4, <3>2
      <4>2. NameAt(R, p) = R[World].bytes[l + k].name
        BY <1>8, <2>1, <2>2, <3>2
      <4>3. NameAt(Q, z) = Q[q].bytes[k].name
        BY <1>8, <3>5
      <4> QED
        BY <4>1, <4>2, <4>3
    <3> QED
      BY <1>2, <2>2, <3>2, <3>5, <3>6, <3>7 DEF CameFrom
  <2>3. CASE p.queue = World /\ ~(l < p.row)
    <3>1. p.row \in 1 .. l
      BY <2>1, <2>3
    <3>2. p \in Places(Q, <<>>)
      <4>1. 0 < p.row /\ p.row <= Len(Q[p.queue].bytes)
        BY <1>2, <2>3, <3>1
      <4> QED
        BY <1>7, <2>1, <4>1
    <3>3. NameAt(R, p) = NameAt(Q, p)
      BY <1>4, <1>8, <2>1, <2>3, <3>1
    <3> QED
      BY <1>1, <2>3, <3>2, <3>3 DEF CameFrom
  <2>4. CASE p.queue # World
    <3>1. p.queue # q
      BY <1>4, <2>1
    <3>2. R[p.queue].bytes = Q[p.queue].bytes
      BY <1>4, <2>1, <2>4, <3>1
    <3>3. p \in Places(Q, <<>>)
      BY <1>7, <2>1, <3>2
    <3>4. NameAt(R, p) = NameAt(Q, p)
      BY <1>8, <2>1, <3>2
    <3> QED
      BY <3>1, <3>3, <3>4 DEF CameFrom
  <2> QED
    BY <2>2, <2>3, <2>4
<1>10. ASSUME NEW z \in Places(Q, <<>>)
       PROVE  \E p \in Places(R, <<>>) : CameFrom(Q, R, q, m, p, z)
  <2>1. /\ z.queue \in AllQueues /\ ~z.saved /\ z.row \in Nat /\ 0 < z.row
        /\ z.row <= Len(Q[z.queue].bytes)
        /\ z \in [queue : AllQueues, saved : {FALSE}, row : Nat]
    BY <1>5, <1>6
  <2>2. CASE z.queue = q
    <3>1. PICK k \in Nat : k = l + z.row
      BY <2>1
    <3>2. z.row \in 1 .. n /\ k <= l + n /\ 0 < k
      BY <1>3, <2>1, <2>2, <3>1
    <3>3. PICK p : p = [queue |-> World, saved |-> FALSE, row |-> k]
      OBVIOUS
    <3>4. p \in [queue : AllQueues, saved : {FALSE}, row : Nat]
      BY <1>1, <3>3
    <3>5. p.queue = World /\ ~p.saved /\ p.row = k
      BY <3>3
    <3>6. p \in Places(R, <<>>)
      BY <1>4, <1>7, <3>2, <3>4, <3>5
    <3>7. NameAt(R, p) = Renamed(m, NameAt(Q, z))
      <4>1. R[World].bytes[l + z.row].name = Renamed(m, Q[q].bytes[z.row].name)
        BY <1>4, <3>2
      <4>2. NameAt(R, p) = R[World].bytes[k].name /\ NameAt(Q, z) = Q[q].bytes[z.row].name
        BY <1>8, <2>1, <2>2, <3>5
      <4> QED
        BY <3>1, <4>1, <4>2
    <3> QED
      BY <1>2, <2>2, <3>1, <3>5, <3>6, <3>7 DEF CameFrom
  <2>3. CASE z.queue = World
    <3>1. z.row \in 1 .. l /\ z.row <= l + n
      BY <1>2, <2>1, <2>3
    <3>2. z \in Places(R, <<>>)
      BY <1>4, <1>7, <2>1, <2>3, <3>1
    <3>3. NameAt(R, z) = NameAt(Q, z)
      BY <1>4, <1>8, <2>1, <2>3, <3>1
    <3> QED
      BY <1>1, <2>3, <3>2, <3>3 DEF CameFrom
  <2>4. CASE z.queue # World /\ z.queue # q
    <3>1. R[z.queue].bytes = Q[z.queue].bytes
      BY <1>4, <2>1, <2>4
    <3>2. z \in Places(R, <<>>)
      BY <1>7, <2>1, <3>1
    <3>3. NameAt(R, z) = NameAt(Q, z)
      BY <1>8, <2>1, <3>1
    <3> QED
      BY <2>4, <3>2, <3>3 DEF CameFrom
  <2> QED
    BY <2>2, <2>3, <2>4
<1> QED
  BY <1>9, <1>10

\* The commands that are moved are renamed, and are behind all of before.
Renaming(Q, N, M, q, m) ==
  LET old == {NameAt(Q, z) : z \in {z \in Places(Q, <<>>) : z.queue = q}}
  IN  M = (N \ old) \cup {Renamed(m, x) : x \in old}

LEMMA AppendTracked ==
  ASSUME NEW C, C \subseteq Command, NEW Q, Shape(Q, <<>>, C),
         NEW N, NEW X, NEW B, Tracked(Q, <<>>, N, X, B),
         NEW R, Flat(Q), Flat(R), NEW q \in Queues, NEW m \in Nat, Appended(Q, q, m, R),
         Under(N, m), NEW M, Renaming(Q, N, M, q, m)
  PROVE  Tracked(R, <<>>, M, X, B)
<1>1. PICK P : P = Places(Q, <<>>)
  OBVIOUS
<1>2. PICK P2 : P2 = Places(R, <<>>)
  OBVIOUS
<1>3. q # World /\ q \in AllQueues
  BY WorldIsOther
<1>4. /\ N \subseteq Name /\ B \subseteq X /\ N = X \cup {NameAt(Q, z) : z \in P}
      /\ \A z \in P : NameAt(Q, z) \notin X /\ NameAt(Q, z) \in N
      /\ \A z, y \in P : NameAt(Q, z) = NameAt(Q, y) => z = y
  BY <1>1 DEF Tracked, Accounted
<1>5. /\ \A z \in P : \A y \in N : ~Descends(y, NameAt(Q, z))
      /\ \A z \in P : z.queue # World => NameAt(Q, z).home = z.queue
                                           /\ Len(NameAt(Q, z).key) = 1
  BY <1>1 DEF Tracked, Childless
<1>6. /\ \A y \in X : \A z \in P : Ordered(B, y, NameAt(Q, z))
      /\ \A z, y \in P : Ahead(<<>>, z, y) => Ordered(B, NameAt(Q, z), NameAt(Q, y))
  BY <1>1 DEF Tracked, InTurn
<1>7. \A z \in P : z.queue = q =>
        /\ NameAt(Q, z) \in Name /\ NameAt(Q, z).home = q /\ Len(NameAt(Q, z).key) = 1
        /\ RenamedAs(m, NameAt(Q, z), Renamed(m, NameAt(Q, z)))
        /\ Apart(N, Renamed(m, NameAt(Q, z)))
  <2>1. ASSUME NEW z \in P, z.queue = q
        PROVE  /\ NameAt(Q, z) \in Name /\ NameAt(Q, z).home = q /\ Len(NameAt(Q, z).key) = 1
               /\ RenamedAs(m, NameAt(Q, z), Renamed(m, NameAt(Q, z)))
               /\ Apart(N, Renamed(m, NameAt(Q, z)))
    <3>1. PICK x \in Name : x = NameAt(Q, z)
      BY <1>4
    <3>2. x.home = q /\ Len(x.key) = 1
      BY <1>3, <1>5, <2>1, <3>1
    <3>3. PICK w : w = Renamed(m, x)
      OBVIOUS
    <3>4. RenamedAs(m, x, w)
      BY <3>2, <3>3, RenamedForm
    <3>5. N \in SUBSET Name
      BY <1>4
    <3>6. Apart(N, w)
      BY <3>4, <3>5, RenamedIsApart
    <3> QED
      BY <3>1, <3>2, <3>3, <3>4, <3>6
  <2> QED
    BY <2>1
<1>8. /\ \A p \in P2 : \E z \in P : CameFrom(Q, R, q, m, p, z)
      /\ \A z \in P : \E p \in P2 : CameFrom(Q, R, q, m, p, z)
  <2>1. Q \in [AllQueues -> QueueOf(C)]
    BY DEF Shape
  <2> QED
    BY <1>1, <1>2, <2>1, AppendedPlaces
<1>9. \A p, z : CameFrom(Q, R, q, m, p, z) =>
        \/ z = p /\ p.queue # q /\ NameAt(R, p) = NameAt(Q, z)
        \/ z.queue = q /\ p.queue = World /\ NameAt(R, p) = Renamed(m, NameAt(Q, z))
  BY DEF CameFrom
<1>10. PICK O : O = {NameAt(Q, z) : z \in {z \in P : z.queue = q}}
  OBVIOUS
<1>11. M = (N \ O) \cup {Renamed(m, x) : x \in O}
  BY <1>1, <1>10 DEF Renaming
<1>12. \A z \in P : NameAt(Q, z) \in O <=> z.queue = q
  BY <1>4, <1>10
<1>13. X \subseteq N \ O
  BY <1>4, <1>10
<1>14. \A p \in P2 : /\ p.queue \in AllQueues /\ ~p.saved /\ p.row \in Nat
                     /\ p = [queue |-> p.queue, saved |-> p.saved, row |-> p.row]
                     /\ p.saved = FALSE
  <2>1. ASSUME NEW p \in P2
        PROVE  /\ p.queue \in AllQueues /\ ~p.saved /\ p.row \in Nat /\ p.saved = FALSE
               /\ p = [queue |-> p.queue, saved |-> p.saved, row |-> p.row]
    <3>1. ~p.saved
      BY <1>2, FlatPlaces
    <3>2. /\ p.queue \in AllQueues /\ p.saved \in BOOLEAN /\ p.row \in Nat
          /\ p = [queue |-> p.queue, saved |-> p.saved, row |-> p.row]
      BY <1>2, PlaceForm
    <3> QED
      BY <3>1, <3>2
  <2> QED
    BY <2>1
<1>15. ASSUME NEW p \in P2
       PROVE  \/ p \in P /\ p.queue # q /\ NameAt(R, p) = NameAt(Q, p)
                   /\ NameAt(R, p) \in N \ O
              \/ \E z \in P : /\ z.queue = q /\ NameAt(Q, z) \in O /\ p.queue = World
                              /\ NameAt(R, p) = Renamed(m, NameAt(Q, z))
                              /\ p.row = Len(Q[World].bytes) + z.row
  <2>1. PICK z \in P : CameFrom(Q, R, q, m, p, z)
    BY <1>8
  <2>2. CASE z = p /\ p.queue # q /\ NameAt(R, p) = NameAt(Q, z)
    BY <1>4, <1>12, <2>2
  <2>3. CASE ~(z = p /\ p.queue # q /\ NameAt(R, p) = NameAt(Q, z))
    BY <1>12, <2>1, <2>3 DEF CameFrom
  <2> QED
    BY <2>2, <2>3
<1>16. Accounted(R, <<>>, M, X)
  <2>1. M \subseteq X \cup {NameAt(R, p) : p \in P2}
    <3>1. ASSUME NEW y \in N \ O PROVE y \in X \cup {NameAt(R, p) : p \in P2}
      <4>1. SUFFICES ASSUME NEW z \in P, y = NameAt(Q, z) PROVE \E p \in P2 : y = NameAt(R, p)
        BY <1>4
      <4>2. PICK p \in P2 : CameFrom(Q, R, q, m, p, z)
        BY <1>8
      <4>3. z.queue # q
        BY <1>12, <4>1
      <4> QED
        BY <1>9, <4>1, <4>2, <4>3
    <3>2. ASSUME NEW x \in O PROVE \E p \in P2 : Renamed(m, x) = NameAt(R, p)
      <4>1. PICK z \in P : z.queue = q /\ x = NameAt(Q, z)
        BY <1>10
      <4>2. PICK p \in P2 : CameFrom(Q, R, q, m, p, z)
        BY <1>8
      <4> QED
        BY <1>9, <4>1, <4>2
    <3> QED
      BY <1>11, <3>1, <3>2
  <2>2. \A p \in P2 : NameAt(R, p) \in M
    BY <1>11, <1>15
  <2>3. \A p \in P2 : NameAt(R, p) \notin X
    <3>1. ASSUME NEW p \in P2 PROVE NameAt(R, p) \notin X
      <4>1. CASE p \in P /\ NameAt(R, p) = NameAt(Q, p)
        BY <1>4, <4>1
      <4>2. ASSUME NEW z \in P, z.queue = q, NameAt(R, p) = Renamed(m, NameAt(Q, z))
            PROVE  NameAt(R, p) \notin X
        <5>1. Apart(N, NameAt(R, p))
          BY <1>7, <4>2
        <5> QED
          BY <1>13, <5>1 DEF Apart
      <4> QED
        BY <1>15, <4>1, <4>2
    <3> QED
      BY <3>1
  <2>4. ASSUME NEW p \in P2, NEW r \in P2, NameAt(R, p) = NameAt(R, r) PROVE p = r
    <3>1. PICK y \in P : CameFrom(Q, R, q, m, p, y)
      BY <1>8
    <3>2. PICK z \in P : CameFrom(Q, R, q, m, r, z)
      BY <1>8
    <3>3. CASE NameAt(R, p) \in N
      <4>1. \A x \in P : x.queue = q => NameAt(R, p) # Renamed(m, NameAt(Q, x))
        BY <1>7, <3>3 DEF Apart
      <4>2. y = p /\ z = r /\ NameAt(R, p) = NameAt(Q, y) /\ NameAt(R, r) = NameAt(Q, z)
        BY <1>9, <2>4, <3>1, <3>2, <4>1
      <4> QED
        BY <1>4, <2>4, <4>2
    <3>4. CASE NameAt(R, p) \notin N
      <4>1. /\ y.queue = q /\ p.queue = World /\ NameAt(R, p) = Renamed(m, NameAt(Q, y))
            /\ z.queue = q /\ r.queue = World /\ NameAt(R, r) = Renamed(m, NameAt(Q, z))
        BY <1>4, <1>9, <2>4, <3>1, <3>2, <3>4
      <4>2. NameAt(Q, y) = NameAt(Q, z)
        <5>1. PICK u \in Name : u = NameAt(Q, y) /\ u.home = q /\ Len(u.key) = 1
          BY <1>7, <4>1
        <5>2. PICK v \in Name : v = NameAt(Q, z) /\ v.home = q /\ Len(v.key) = 1
          BY <1>7, <4>1
        <5>3. PICK w : w = NameAt(R, p) /\ w = NameAt(R, r)
          BY <2>4
        <5>4. RenamedAs(m, u, w) /\ RenamedAs(m, v, w)
          BY <1>7, <4>1, <5>1, <5>2, <5>3
        <5>5. w = w /\ u.home = v.home => u = v
          BY <5>1, <5>2, <5>4, RenamedOrder
        <5> QED
          BY <5>1, <5>2, <5>5
      <4>3. y = z
        BY <1>4, <4>2
      <4>4. p.row = r.row
        BY <1>3, <3>1, <3>2, <4>1, <4>3 DEF CameFrom
      <4> QED
        BY <1>14, <4>1, <4>4
    <3> QED
      BY <3>3, <3>4
  <2>5. M = X \cup {NameAt(R, p) : p \in P2}
    BY <1>11, <1>13, <2>1, <2>2
  <2> QED
    BY <1>2, <2>3, <2>4, <2>5 DEF Accounted
<1>17. ASSUME NEW y \in M
       PROVE  \/ y \in N
              \/ \E x \in Name : Len(x.key) = 1 /\ RenamedAs(m, x, y) /\ Apart(N, y)
  <2>1. CASE y \in N
    BY <2>1
  <2>2. CASE y \notin N
    <3>1. PICK z \in P : z.queue = q /\ y = Renamed(m, NameAt(Q, z))
      BY <1>10, <1>11, <2>2
    <3> QED
      BY <1>7, <3>1
  <2> QED
    BY <2>1, <2>2
<1>18. Childless(R, <<>>, M)
  <2>1. ASSUME NEW p \in P2, NEW y \in M PROVE ~Descends(y, NameAt(R, p))
    <3>1. CASE p \in P /\ NameAt(R, p) = NameAt(Q, p)
      <4>1. CASE y \in N
        BY <1>5, <3>1, <4>1
      <4>2. CASE y \notin N
        <5>1. Apart(N, y) /\ NameAt(Q, p) \in N
          BY <1>4, <1>17, <3>1, <4>2
        <5> QED
          BY <3>1, <5>1 DEF Apart
      <4> QED
        BY <4>1, <4>2
    <3>2. ASSUME NEW z \in P, z.queue = q, NameAt(R, p) = Renamed(m, NameAt(Q, z))
          PROVE  ~Descends(y, NameAt(R, p))
      <4>1. CASE y \in N
        <5>1. Apart(N, NameAt(R, p))
          BY <1>7, <3>2
        <5> QED
          BY <4>1, <5>1 DEF Apart
      <4>2. CASE y \notin N
        <5>1. PICK x \in Name : Len(x.key) = 1 /\ RenamedAs(m, x, y)
          BY <1>17, <4>2
        <5>2. PICK v \in Name : v = NameAt(Q, z) /\ Len(v.key) = 1
          BY <1>7, <3>2
        <5>3. PICK w : w = NameAt(R, p)
          OBVIOUS
        <5>4. RenamedAs(m, v, w)
          BY <1>7, <3>2, <5>2, <5>3
        <5>5. ~Descends(y, w)
          BY <5>1, <5>2, <5>4, RenamedOrder
        <5> QED
          BY <5>3, <5>5
      <4> QED
        BY <4>1, <4>2
    <3> QED
      BY <1>15, <3>1, <3>2
  <2>2. \A p \in P2 : p.queue # World =>
          NameAt(R, p).home = p.queue /\ Len(NameAt(R, p).key) = 1
    BY <1>5, <1>15
  <2> QED
    BY <1>2, <2>1, <2>2 DEF Childless
<1>19. \A p, r : p.saved = FALSE /\ r.saved = FALSE =>
         (Ahead(<<>>, p, r) <=> \/ p.queue = World /\ r.queue # World
                                \/ p.queue = r.queue /\ p.row < r.row)
  <2>1. PICK S : S = <<>>
    OBVIOUS
  <2>2. Len(S) = 0 /\ 1 .. 0 = {}
    BY <2>1
  <2>3. \A p, k, l : ~Between(S, p, k, l)
    BY <2>2 DEF Between
  <2>4. \A p, r : p.saved = FALSE /\ r.saved = FALSE =>
          (Ahead(S, p, r) <=> \/ p.queue = World /\ r.queue # World
                              \/ p.queue = r.queue /\ p.row < r.row)
    BY <2>3 DEF Ahead
  <2> QED
    BY <2>1, <2>4
<1>20. \A z \in P : z.saved = FALSE /\ z.row \in Nat /\ 0 < z.row
                      /\ z.row <= Len(Q[z.queue].bytes)
  <2>1. ASSUME NEW z \in P
        PROVE  z.saved = FALSE /\ z.row \in Nat /\ 0 < z.row
                 /\ z.row <= Len(Q[z.queue].bytes)
    <3>1. ~z.saved /\ z.row \in Nat /\ 0 < z.row /\ z.row <= Len(Q[z.queue].bytes)
      BY <1>1, FlatPlaces
    <3>2. z.saved \in BOOLEAN
      BY <1>1, PlaceForm
    <3> QED
      BY <3>1, <3>2
  <2> QED
    BY <2>1
<1>21. PICK l \in Nat : l = Len(Q[World].bytes)
  <2>1. Q \in [AllQueues -> QueueOf(C)]
    BY DEF Shape
  <2> QED
    BY <2>1, WorldIsOther, VectorForm
<1>22. ASSUME NEW p \in P2, NEW r \in P2, Ahead(<<>>, p, r)
       PROVE  Ordered(B, NameAt(R, p), NameAt(R, r))
  <2>1. \/ p.queue = World /\ r.queue # World
        \/ p.queue = r.queue /\ p.row < r.row
    BY <1>14, <1>19, <1>22
  <2>2. CASE r \in P /\ NameAt(R, r) = NameAt(Q, r) /\ r.queue # q
    <3>1. CASE p \in P /\ NameAt(R, p) = NameAt(Q, p)
      BY <1>6, <1>22, <2>2, <3>1
    <3>2. ASSUME NEW z \in P, z.queue = q, p.queue = World,
                 NameAt(R, p) = Renamed(m, NameAt(Q, z)),
                 p.row = Len(Q[World].bytes) + z.row
          PROVE  Ordered(B, NameAt(R, p), NameAt(R, r))
      <4>1. r.queue # World
        <5>1. SUFFICES ASSUME r.queue = World PROVE FALSE
          OBVIOUS
        <5>2. r.row <= l /\ r.row \in Nat /\ z.row \in Nat
          BY <1>20, <1>21, <2>2, <5>1
        <5>3. l + z.row < r.row
          BY <1>21, <2>1, <3>2, <5>1
        <5> QED
          BY <5>2, <5>3
      <4>2. NameAt(R, r).home # World
        BY <1>5, <2>2, <4>1
      <4>3. NameAt(R, p).home = World
        BY <1>7, <3>2 DEF RenamedAs
      <4> QED
        BY <4>2, <4>3 DEF Ordered
    <3> QED
      BY <1>15, <3>1, <3>2
  <2>3. ASSUME NEW y \in P, y.queue = q, r.queue = World,
               NameAt(R, r) = Renamed(m, NameAt(Q, y)),
               r.row = Len(Q[World].bytes) + y.row
        PROVE  Ordered(B, NameAt(R, p), NameAt(R, r))
    <3>1. CASE NameAt(R, p) \in N
      <4>1. Apart(N, NameAt(R, r))
        BY <1>7, <2>3
      <4> QED
        BY <3>1, <4>1 DEF Apart
    <3>2. ASSUME NEW z \in P, z.queue = q, NameAt(R, p) = Renamed(m, NameAt(Q, z)),
                 p.row = Len(Q[World].bytes) + z.row
          PROVE  Ordered(B, NameAt(R, p), NameAt(R, r))
      <4>1. p.row < r.row
        BY <2>1, <2>3
      <4>2. l + z.row < l + y.row /\ z.row \in Nat /\ y.row \in Nat
        BY <1>20, <1>21, <2>3, <3>2, <4>1
      <4>3. z.row < y.row
        BY <4>2
      <4>4. Ahead(<<>>, z, y)
        BY <1>19, <1>20, <2>3, <3>2, <4>3
      <4>5. PICK u \in Name : u = NameAt(Q, z) /\ u.home = q /\ Len(u.key) = 1
        BY <1>7, <3>2
      <4>6. PICK v \in Name : v = NameAt(Q, y) /\ v.home = q /\ Len(v.key) = 1
        BY <1>7, <2>3
      <4>7. Ordered(B, u, v)
        BY <1>6, <4>4, <4>5, <4>6
      <4>8. ~Orphan(B, v)
        <5>1. SUFFICES ASSUME NEW x \in B, Descends(v, x) PROVE FALSE
          BY DEF Orphan
        <5>2. x \in Name /\ Len(x.key) > 0
          BY <1>4 DEF Under
        <5>3. Len(x.key) \in Nat
          BY <5>2, NamesForm
        <5>4. Len(x.key) < 1
          BY <4>6, <5>1 DEF Descends
        <5> QED
          BY <5>2, <5>3, <5>4
      <4>9. Before(u.key, v.key)
        BY <4>5, <4>6, <4>7, <4>8 DEF Ordered
      <4>10. PICK s : s = NameAt(R, p)
        OBVIOUS
      <4>11. PICK t : t = NameAt(R, r)
        OBVIOUS
      <4>12. RenamedAs(m, u, s) /\ RenamedAs(m, v, t)
        BY <1>7, <2>3, <3>2, <4>5, <4>6, <4>10, <4>11
      <4>13. Before(u.key, v.key) => Before(s.key, t.key)
        BY <4>5, <4>6, <4>12, RenamedOrder
      <4> QED
        BY <4>9, <4>10, <4>11, <4>13 DEF Ordered
    <3> QED
      BY <1>15, <3>1, <3>2
  <2> QED
    BY <1>15, <2>2, <2>3
<1>23. ASSUME NEW y \in X, NEW p \in P2 PROVE Ordered(B, y, NameAt(R, p))
  <2>1. CASE p \in P /\ NameAt(R, p) = NameAt(Q, p)
    BY <1>6, <2>1
  <2>2. ASSUME NEW z \in P, z.queue = q, NameAt(R, p) = Renamed(m, NameAt(Q, z))
        PROVE  Ordered(B, y, NameAt(R, p))
    <3>1. Apart(N, NameAt(R, p))
      BY <1>7, <2>2
    <3> QED
      BY <1>13, <3>1 DEF Apart
  <2> QED
    BY <1>15, <2>1, <2>2
<1>24. InTurn(R, <<>>, X, B)
  BY <1>2, <1>22, <1>23 DEF InTurn
<1>25. M \subseteq Name
  BY <1>4, <1>17 DEF RenamedAs
<1>26. \A i \in 1 .. Len(<<>>) : FALSE
  OBVIOUS
<1> QED
  BY <1>4, <1>16, <1>18, <1>24, <1>25, <1>26 DEF Tracked

-----------------------------------------------------------------------------
(***************************************************************************)
(* The steps.                                                              *)
(***************************************************************************)
LEMMA KnownIsCommand == KnownCommand \subseteq Command
BY DEF KnownCommand

\* A step that queues, starts and panics nothing.
LEMMA OrderKept ==
  ASSUME OrderInv, UNCHANGED <<roots, names, done, panicked>>,
         Tracked(queues', stack', names, Ran, panicked), PanickedInv'
  PROVE  OrderInv'
<1>1. Ran' = Ran
  BY DEF Ran
<1>2. NamesInv' /\ DepthFirst'
  BY DEF OrderInv, NamesInv, DepthFirst
<1> QED
  BY <1>1, <1>2 DEF OrderInv

LEMMA FlushTracked ==
  ASSUME NEW below, Shape(queues, below, KnownCommand),
         Tracked(queues, below, names, Ran, panicked), flush_commands(below)
  PROVE  Tracked(queues', stack', names, Ran, panicked)
<1>1. CASE is_empty(World)
  BY <1>1 DEF flush_commands
<1>2. CASE ~is_empty(World)
  <2>1. PICK R : R = queues'
    OBVIOUS
  <2>2. PICK T : T = stack'
    OBVIOUS
  <2>3. Called(queues, below, World, R, T)
    BY <1>2, <2>1, <2>2 DEF flush_commands, Begin, Called, NewCall
  <2>4. Tracked(R, T, names, Ran, panicked)
    BY <2>3, KnownIsCommand, WorldIsOther, CallTracked
  <2> QED
    BY <2>1, <2>2, <2>4
<1> QED
  BY <1>1, <1>2

LEMMA FlushOrder ==
  ASSUME OrderInv, NEW below, Shape(queues, below, KnownCommand),
         Tracked(queues, below, names, Ran, panicked), flush_commands(below),
         ~unwinding, unwinding' = unwinding, UNCHANGED <<roots, names, done, panicked>>
  PROVE  OrderInv'
<1>1. Tracked(queues', stack', names, Ran, panicked)
  BY FlushTracked
<1>2. PanickedInv'
  BY DEF PanickedInv
<1> QED
  BY <1>1, <1>2, OrderKept

\* The frame of a command that returns has its place.
LEMMA ReturnedTracked ==
  ASSUME CommandsInv, OrderInv, stack # <<>>, Topmost(stack).run # None,
         NEW below, below = SetTop([Top EXCEPT !.run = None])
  PROVE  Shape(queues, below, KnownCommand) /\ Tracked(queues, below, names, Ran, panicked)
<1>1. /\ Shape(queues, below, KnownCommand) /\ Len(below) = Len(stack)
      /\ Topmost(below) = [Topmost(stack) EXCEPT !.run = None]
      /\ \A i \in 1 .. Len(stack) : i # Len(stack) => below[i] = stack[i]
  BY ReturnedTop
<1>2. Topmost(stack) \in FrameOf(KnownCommand) /\ Len(stack) \in 1 .. Len(stack)
  BY RunningTop
<1>3. /\ Topmost(below).queue = Topmost(stack).queue
      /\ Topmost(below).stop = Topmost(stack).stop
      /\ Topmost(below).local = Topmost(stack).local /\ Topmost(below).run = None
  BY <1>1, <1>2 DEF FrameOf
<1>4. SameSlots(stack, below)
  <2>1. ASSUME NEW i \in 1 .. Len(stack)
        PROVE  /\ below[i].queue = stack[i].queue /\ below[i].stop = stack[i].stop
               /\ below[i].local = stack[i].local
               /\ below[i].run # None =>
                    below[i].run = stack[i].run /\ below[i].kids = stack[i].kids
    <3>1. CASE i = Len(stack)
      BY <1>1, <1>3, <3>1 DEF Topmost
    <3>2. CASE i # Len(stack)
      BY <1>1, <3>2
    <3> QED
      BY <3>1, <3>2
  <2> QED
    BY <1>1, <2>1 DEF SameSlots
<1>5. Tracked(queues, below, names, Ran, panicked)
  BY <1>4, SlotsTracked DEF OrderInv
<1> QED
  BY <1>1, <1>5

LEMMA ReturnOrder ==
  ASSUME AllInv, OrderInv, stack # <<>>, Topmost(stack).run # None, ~unwinding,
         flush_commands(SetTop([Top EXCEPT !.run = None])), unwinding' = unwinding,
         UNCHANGED <<roots, names, done, panicked>>
  PROVE  OrderInv'
<1>1. PICK below : below = SetTop([Top EXCEPT !.run = None])
  OBVIOUS
<1>2. Shape(queues, below, KnownCommand) /\ Tracked(queues, below, names, Ran, panicked)
  BY <1>1, ReturnedTracked DEF AllInv
<1>3. flush_commands(below)
  BY <1>1
<1> QED
  BY <1>2, <1>3, FlushOrder

\* A flush from outside or by a closure.
LEMMA FlushNowOrder ==
  ASSUME AllInv, OrderInv, flush_commands(stack), ~unwinding, unwinding' = unwinding,
         UNCHANGED <<roots, names, done, panicked>>
  PROVE  OrderInv'
<1>1. Shape(queues, stack, KnownCommand) /\ Tracked(queues, stack, names, Ran, panicked)
  BY DEF AllInv, CommandsInv, OrderInv
<1>2. PICK below : below = stack
  OBVIOUS
<1>3. /\ Shape(queues, below, KnownCommand) /\ Tracked(queues, below, names, Ran, panicked)
      /\ flush_commands(below)
  BY <1>1, <1>2
<1> QED
  BY <1>3, FlushOrder

LEMMA ApplyItselfOrder ==
  ASSUME AllInv, OrderInv, ApplyItself
  PROVE  OrderInv'
<1>1. /\ stack = <<>> /\ applying # None /\ ~unwinding /\ Begin(applying, <<>>)
      /\ unwinding' = unwinding /\ UNCHANGED <<roots, names, done, panicked>>
  BY DEF ApplyItself, history
<1>2. PICK q \in AllQueues : q = applying
  BY <1>1, WorldIsOther DEF AllInv, CommandsInv
<1>3. PICK S : S = <<>>
  OBVIOUS
<1>4. PICK R : R = queues'
  OBVIOUS
<1>5. PICK T : T = stack'
  OBVIOUS
<1>6. Called(queues, S, q, R, T)
  BY <1>1, <1>2, <1>3, <1>4, <1>5 DEF Called, NewCall, Begin
<1>7. Shape(queues, S, KnownCommand) /\ Tracked(queues, S, names, Ran, panicked)
  BY <1>1, <1>3 DEF AllInv, CommandsInv, OrderInv
<1>8. Tracked(R, T, names, Ran, panicked)
  BY <1>6, <1>7, KnownIsCommand, CallTracked
<1>9. PanickedInv'
  BY <1>1 DEF PanickedInv
<1> QED
  BY <1>1, <1>4, <1>5, <1>8, <1>9, OrderKept

\* Where the topmost frame is on a system's queue, it is the only one and the queue ends with it.
LEMMA SystemTop ==
  ASSUME CommandsInv, stack # <<>>, NEW q, q = Topmost(stack).queue
  PROVE  /\ queues[q].cursor = Topmost(stack).stop
         /\ q # World => Len(stack) = 1 /\ Len(queues[q].bytes) = Topmost(stack).stop
<1>1. PICK n \in Nat : n = Len(stack) /\ n \in 1 .. n
  BY RunningTop
<1>2. InOrder(queues, stack) /\ Topmost(stack) = stack[n] /\ q \in AllQueues
  BY <1>1, RunningTop DEF CommandsInv, Shape, Topmost
<1>3. queues[q].cursor = Topmost(stack).stop
  BY <1>2 DEF InOrder, EndOf
<1>4. ASSUME q # World PROVE n = 1
  <2>1. ~(n > 1)
    BY <1>1, <1>2, <1>4 DEF InOrder, FrameInOrder
  <2> QED
    BY <1>1, <2>1
<1>5. q # World => Len(queues[q].bytes) = Topmost(stack).stop
  BY <1>2, <1>4 DEF InOrder
<1> QED
  BY <1>1, <1>3, <1>4, <1>5

LEMMA EndOrder ==
  ASSUME AllInv, OrderInv, End
  PROVE  OrderInv'
<1>1. PICK q : q = Topmost(stack).queue
  OBVIOUS
<1>2. PICK v : v = [queues[q] EXCEPT !.bytes = SubSeq(@, 1, Topmost(stack).start),
                                     !.cursor = Topmost(stack).start]
  OBVIOUS
<1>3. /\ stack # <<>> /\ ~unwinding /\ Topmost(stack).run = None
      /\ Topmost(stack).local = Topmost(stack).stop
      /\ stack' = SubSeq(stack, 1, Len(stack) - 1)
      /\ unwinding' = unwinding /\ UNCHANGED <<roots, names, done, panicked>>
  BY TopIsTopmost DEF End, history
<1>4. /\ q \in AllQueues /\ queues \in [AllQueues -> QueueOf(KnownCommand)]
      /\ queues[q] \in QueueOf(KnownCommand) /\ queues[q].bytes \in Seq(KnownCommand)
      /\ Topmost(stack).start \in Nat /\ Topmost(stack).start <= Len(queues[q].bytes)
  <2>1. /\ Topmost(stack).local \in Nat /\ Topmost(stack).stop \in Nat
        /\ Len(queues[q].bytes) \in Nat /\ Topmost(stack).start \in Nat
        /\ Topmost(stack).start <= Topmost(stack).local
        /\ Topmost(stack).local <= Topmost(stack).stop
        /\ Topmost(stack).stop <= Len(queues[q].bytes)
    BY <1>1, <1>3, TopVector DEF AllInv
  <2>2. Topmost(stack).start <= Len(queues[q].bytes)
    BY <2>1
  <2> QED
    BY <1>1, <1>3, <2>1, <2>2, TopVector DEF AllInv
<1>5. queues' = [queues EXCEPT ![q] = v]
  <2>1. queues' = [queues EXCEPT ![q].bytes = SubSeq(@, 1, Topmost(stack).start),
                                 ![q].cursor = Topmost(stack).start]
    BY <1>1, TopIsTopmost DEF End
  <2> QED
    BY <1>2, <1>4, <2>1
<1>6. /\ v \in QueueOf(KnownCommand) /\ v.cursor = Topmost(stack).start
      /\ v.bytes = SubSeq(queues[q].bytes, 1, Topmost(stack).start)
      /\ Len(v.bytes) = Topmost(stack).start /\ v.panic_recovery = queues[q].panic_recovery
  <2>1. PICK s \in Seq(KnownCommand) : s = SubSeq(queues[q].bytes, 1, Topmost(stack).start)
                                       /\ Len(s) = Topmost(stack).start
    <3>1. PICK n \in Nat : n = Topmost(stack).start
      BY <1>4
    <3>2. PICK b \in Seq(KnownCommand) : b = queues[q].bytes
      BY <1>4
    <3>3. 0 + 1 = 1 /\ 0 <= n /\ n <= Len(b) /\ n - 0 = n
      BY <1>4, <3>1, <3>2
    <3>4. SubSeq(b, 0 + 1, n) \in Seq(KnownCommand) /\ Len(SubSeq(b, 0 + 1, n)) = n - 0
      BY <3>3, PartForm
    <3> QED
      BY <3>1, <3>2, <3>3, <3>4
  <2>2. PICK k \in Nat : k = Topmost(stack).start
    BY <1>4
  <2>3. PICK w \in QueueOf(KnownCommand) : w = queues[q]
    BY <1>4
  <2>4. v = [w EXCEPT !.bytes = s, !.cursor = k]
    BY <1>2, <2>1, <2>2, <2>3
  <2>5. v \in QueueOf(KnownCommand)
    BY <2>4 DEF QueueOf
  <2>6. v.cursor = k /\ v.bytes = s /\ v.panic_recovery = w.panic_recovery
    BY <2>4 DEF QueueOf
  <2> QED
    BY <2>1, <2>2, <2>3, <2>5, <2>6
<1>7. PICK R : R = queues'
  OBVIOUS
<1>8. PICK T : T = stack'
  OBVIOUS
<1>9. Leaves(queues, stack, v, R) /\ CutBack(queues, stack, v) /\ WithoutTop(stack, T)
  BY <1>1, <1>3, <1>5, <1>6, <1>7, <1>8 DEF Leaves, CutBack, WithoutTop
<1>10. Shape(queues, stack, KnownCommand) /\ CommandsInv
  BY DEF AllInv, CommandsInv
<1>11. Popped(stack, T)
  BY <1>3, <1>6, <1>9, <1>10, CallEnds
<1>12. queues[q].cursor = Len(queues[q].bytes)
  <2>1. q = World => queues[World].cursor = Len(queues[World].bytes)
    BY <1>3, <1>10 DEF CommandsInv, NothingPending, Settled, Idle
  <2> QED
    BY <1>1, <1>3, <1>10, <2>1, SystemTop
<1>13. Tracked(R, T, names, Ran, panicked)
  <2>1. Tracked(queues, stack, names, Ran, panicked)
    BY DEF OrderInv
  <2> QED
    BY <1>1, <1>3, <1>9, <1>10, <1>11, <1>12, <2>1, KnownIsCommand, EndTracked
<1>14. PanickedInv'
  BY <1>3 DEF PanickedInv
<1> QED
  BY <1>3, <1>7, <1>8, <1>13, <1>14, OrderKept

\* What ran, and one command more.
LEMMA RanGrows ==
  ASSUME done \in Seq(Name), \A i, j \in DOMAIN done : done[i] = done[j] => i = j,
         NEW x \in Name, x \notin Ran, done' = Append(done, x), DepthFirst,
         panicked' = panicked, \A y \in Ran : Ordered(panicked, y, x)
  PROVE  /\ Ran' = Ran \cup {x} /\ done' \in Seq(Name)
         /\ \A i, j \in DOMAIN done' : done'[i] = done'[j] => i = j
         /\ DepthFirst'
<1>1. PICK n \in Nat : n = Len(done)
  BY LenProperties
<1>2. DOMAIN done = 1 .. n
  BY <1>1, LenProperties
<1>3. /\ done' \in Seq(Name) /\ DOMAIN done' = 1 .. n + 1 /\ done'[n + 1] = x
      /\ \A i \in 1 .. n : done'[i] = done[i]
  BY <1>1, AppendProperties, LenProperties
<1>4. \A i \in 1 .. n + 1 : i \in 1 .. n \/ i = n + 1
  OBVIOUS
<1>5. \A i \in 1 .. n : done[i] # x
  BY <1>2 DEF Ran
<1>6. Ran' = Ran \cup {x}
  <2>1. Ran' = {done'[i] : i \in 1 .. n + 1}
    BY <1>3 DEF Ran
  <2>2. Ran = {done[i] : i \in 1 .. n}
    BY <1>2 DEF Ran
  <2>3. \A i \in 1 .. n : i \in 1 .. n + 1
    OBVIOUS
  <2>4. n + 1 \in 1 .. n + 1
    OBVIOUS
  <2> QED
    BY <1>3, <1>4, <2>1, <2>2, <2>3, <2>4
<1>7. \A i, j \in DOMAIN done' : done'[i] = done'[j] => i = j
  BY <1>2, <1>3, <1>4, <1>5
<1>8. DepthFirst'
  <2>1. SUFFICES ASSUME NEW j \in DOMAIN done', NEW i \in 1 .. j - 1,
                        done'[i].home = done'[j].home
                 PROVE  \/ Before(done'[i].key, done'[j].key)
                        \/ \E p \in panicked : Descends(done'[j], p)
    BY DEF DepthFirst
  <2>2. i \in 1 .. n
    BY <1>3
  <2>3. CASE j = n + 1
    <3>1. done[i] \in Ran /\ done'[i] = done[i] /\ done'[j] = x
      BY <1>2, <1>3, <2>2, <2>3 DEF Ran
    <3>2. Ordered(panicked, done[i], x)
      BY <3>1
    <3> QED
      BY <2>1, <3>1, <3>2 DEF Ordered, Orphan
  <2>4. CASE j \in 1 .. n
    <3>1. done'[i] = done[i] /\ done'[j] = done[j] /\ j \in DOMAIN done
      BY <1>2, <1>3, <2>2, <2>4
    <3> QED
      BY <2>1, <3>1 DEF DepthFirst
  <2> QED
    BY <1>3, <1>4, <2>3, <2>4
<1> QED
  BY <1>3, <1>6, <1>7, <1>8

LEMMA StartOrder ==
  ASSUME AllInv, OrderInv, Start
  PROVE  OrderInv'
<1> DEFINE b == queues[Topmost(stack).queue].bytes[Topmost(stack).local + 1]
           f == [Topmost(stack) EXCEPT !.local = @ + 1, !.run = b, !.kids = 0]
<1>1. /\ stack # <<>> /\ ~unwinding /\ Topmost(stack).run = None
      /\ Topmost(stack).local < Topmost(stack).stop
      /\ stack' = [stack EXCEPT ![Len(stack)] = f] /\ done' = Append(done, b.name)
      /\ queues' = queues /\ unwinding' = unwinding
      /\ roots' = roots /\ names' = names /\ panicked' = panicked
  BY TopIsTopmost DEF Start, SetTop
<1>2. /\ Topmost(stack) \in FrameOf(KnownCommand) /\ Len(stack) \in 1 .. Len(stack)
      /\ Len(stack) \in Nat /\ Topmost(stack).local \in Nat /\ CommandsInv
      /\ Shape(queues, stack, KnownCommand) /\ stack \in Seq(FrameOf(KnownCommand))
  BY <1>1, RunningTop DEF AllInv, CommandsInv, Shape
<1>3. PICK c \in KnownCommand : c = b /\ c # None
  <2>1. b \in KnownCommand
    BY <1>1, <1>2, StartedTop
  <2> QED
    BY <2>1, NoneAssumption DEF KnownCommand
<1>4. /\ f.queue = Topmost(stack).queue /\ f.stop = Topmost(stack).stop
      /\ f.local = Topmost(stack).local + 1 /\ f.run = c
  <2>1. PICK t \in FrameOf(KnownCommand) : t = Topmost(stack)
    BY <1>2
  <2>2. PICK k \in Nat : k = t.local + 1
    BY <1>2, <2>1
  <2>3. f = [t EXCEPT !.local = k, !.run = c, !.kids = 0]
    BY <1>3, <2>1, <2>2
  <2>4. PICK g : g = [t EXCEPT !.local = k, !.run = c, !.kids = 0]
    OBVIOUS
  <2>5. g.queue = t.queue /\ g.stop = t.stop /\ g.local = k /\ g.run = c
    BY <2>4 DEF FrameOf
  <2> QED
    BY <2>1, <2>2, <2>3, <2>4, <2>5
<1>5. PICK T : T = stack'
  OBVIOUS
<1>6. Takes(queues, stack, c, T)
  <2>1. PICK g : g = f
    OBVIOUS
  <2>2. T = [stack EXCEPT ![Len(stack)] = g]
    BY <1>1, <1>5, <2>1
  <2>3. DOMAIN stack = 1 .. Len(stack)
    BY <1>2, StackForm
  <2>4. /\ DOMAIN T = 1 .. Len(stack) /\ T[Len(stack)] = g
        /\ \A i \in 1 .. Len(stack) : i # Len(stack) => T[i] = stack[i]
    BY <1>2, <2>2, <2>3
  <2>5. Len(T) = Len(stack)
    BY <1>2, <2>2, ExceptSeq
  <2>6. Topmost(T) = g
    BY <2>4, <2>5 DEF Topmost
  <2>7. c = b
    BY <1>3
  <2> HIDE DEF f
  <2> QED
    BY <1>4, <2>1, <2>4, <2>5, <2>6, <2>7 DEF Takes
<1> HIDE DEF f, b
<1>7. /\ \A q \in AllQueues : queues[q].panic_recovery = <<>>
      /\ queues[World].cursor = Len(queues[World].bytes)
  BY <1>1, <1>2, NothingSaved DEF CommandsInv, NothingPending, Settled, Idle
<1>8. Tracked(queues, stack, names, Ran, panicked) /\ NamesInv /\ DepthFirst
  BY DEF OrderInv
<1>9. /\ Tracked(queues, T, names, Ran \cup {c.name}, panicked)
      /\ c.name \in Name /\ c.name \notin Ran
      /\ \A x \in Ran : Ordered(panicked, x, c.name)
  BY <1>1, <1>2, <1>3, <1>6, <1>7, <1>8, KnownIsCommand, TakeTracked
<1>10. PICK x \in Name : x = c.name
  BY <1>9
<1>11. /\ Ran' = Ran \cup {x} /\ done' \in Seq(Name)
       /\ \A i, j \in DOMAIN done' : done'[i] = done'[j] => i = j
       /\ DepthFirst'
  <2>1. done' = Append(done, x)
    BY <1>1, <1>3, <1>10
  <2> QED
    BY <1>1, <1>8, <1>9, <1>10, <2>1, RanGrows DEF NamesInv
<1>12. Tracked(queues', stack', names', Ran', panicked')
  BY <1>1, <1>5, <1>9, <1>10, <1>11
<1>13. NamesInv'
  BY <1>1, <1>8, <1>11 DEF NamesInv
<1>14. PanickedInv'
  BY <1>1 DEF PanickedInv
<1> QED
  BY <1>11, <1>12, <1>13, <1>14 DEF OrderInv

\* A command that panics.
LEMMA PanicOrder ==
  ASSUME AllInv, OrderInv, stack # <<>>, Topmost(stack).run # None, ~unwinding, Panic
  PROVE  OrderInv'
<1>1. PICK n \in Nat : n = Len(stack) /\ n \in 1 .. n
  BY RunningTop DEF AllInv
<1>2. PICK r : r = Topmost(stack).run.name
  OBVIOUS
<1>3. /\ panicked' = panicked \cup {r} /\ queues' = queues /\ stack' = stack /\ roots' = roots
      /\ names' = names /\ done' = done /\ Ran' = Ran
  BY <1>2, TopIsTopmost DEF Panic, Ran
<1>4. Tracked(queues, stack, names, Ran, panicked) /\ NamesInv /\ DepthFirst
  BY DEF OrderInv
<1>5. RunsWell(queues, stack, names, Ran, panicked, n, r)
  BY <1>1, <1>2, <1>4 DEF Tracked, Topmost
<1>6. PICK B : B = panicked'
  OBVIOUS
<1>7. panicked \subseteq B /\ B \subseteq Ran /\ r \in B
  BY <1>3, <1>4, <1>5, <1>6 DEF Tracked, RunsWell
<1>8. Tracked(queues, stack, names, Ran, B)
  BY <1>4, <1>7, PlacesStay
<1>9. PanickedInv'
  <2>1. SUFFICES ASSUME Topmost(stack).queue = World, NEW p \in Places(queues, stack),
                        p.queue = World, ~p.saved, queues[World].cursor < p.row
                 PROVE  Orphan(B, NameAt(queues, p))
    BY <1>3, <1>6 DEF PanickedInv
  <2>2. queues[World].cursor = stack[n].stop
    BY <1>1, <2>1, SystemTop DEF AllInv, Topmost
  <2>3. Above(stack, p, n)
    BY <2>1, <2>2 DEF Above
  <2>4. Descends(NameAt(queues, p), r)
    BY <1>5, <2>3 DEF RunsWell
  <2> QED
    BY <1>7, <2>4 DEF Orphan
<1>10. DepthFirst' /\ NamesInv'
  BY <1>3, <1>4 DEF DepthFirst, NamesInv
<1> QED
  BY <1>3, <1>6, <1>8, <1>9, <1>10 DEF OrderInv

\* Where the panic leaves a call.
LEMMA UnwindOrder ==
  ASSUME AllInv, OrderInv, CommandsInv', Unwind
  PROVE  OrderInv'
<1>1. PICK q : q = Topmost(stack).queue
  OBVIOUS
<1>2. PICK v : v = IF Topmost(stack).start = 0
                   THEN [bytes |-> Saved(q), cursor |-> 0, panic_recovery |-> <<>>]
                   ELSE [bytes |-> SubSeq(queues[q].bytes, 1, Topmost(stack).start),
                         cursor |-> Topmost(stack).start, panic_recovery |-> Saved(q)]
  OBVIOUS
<1>3. /\ stack # <<>> /\ unwinding
      /\ stack' = SubSeq(stack, 1, Len(stack) - 1) /\ queues' = [queues EXCEPT ![q] = v]
      /\ unwinding' = unwinding /\ roots' = roots /\ names' = names /\ done' = done
      /\ panicked' = panicked
  BY <1>1, <1>2, TopIsTopmost DEF Unwind, history
<1>4. PICK R : R = queues'
  OBVIOUS
<1>5. PICK T : T = stack'
  OBVIOUS
<1>6. Gathers(queues, stack, v, R)
  <2>1. Saved(q) = queues[q].panic_recovery
                     \o SubSeq(queues[q].bytes, Topmost(stack).local + 1, Len(queues[q].bytes))
    BY TopIsTopmost DEF Saved, Unrun
  <2> QED
    BY <1>1, <1>2, <1>3, <1>4, <2>1 DEF Gathers
<1>7. PICK n \in Nat : n = Len(stack) /\ n \in 1 .. n
  BY <1>3, RunningTop DEF AllInv
<1>8. Shape(queues, stack, KnownCommand) /\ CommandsInv
  BY DEF AllInv, CommandsInv
<1>9. Popped(stack, T)
  <2>1. stack \in Seq(FrameOf(KnownCommand))
    BY <1>8 DEF Shape
  <2>2. PICK S \in Seq(FrameOf(KnownCommand)) : S = stack
    BY <2>1
  <2>3. PICK m \in Nat : m = n - 1
    BY <1>7
  <2>4. 0 + 1 = 1 /\ 0 <= m /\ m <= Len(S) /\ m - 0 = m /\ \A i \in 1 .. m : 0 + i = i
    BY <1>7, <2>2, <2>3
  <2>5. /\ Len(SubSeq(S, 0 + 1, m)) = m - 0
        /\ \A i \in 1 .. m - 0 : SubSeq(S, 0 + 1, m)[i] = S[0 + i]
    BY <2>4, PartForm
  <2>6. T = SubSeq(S, 0 + 1, m)
    BY <1>3, <1>5, <1>7, <2>2, <2>3
  <2>7. Len(T) = m /\ \A i \in 1 .. m : T[i] = S[i]
    BY <2>4, <2>5, <2>6
  <2> QED
    BY <1>7, <2>2, <2>3, <2>7 DEF Popped
<1>10. ASSUME NEW p \in Places(queues, stack), p.queue = q, ~p.saved,
              Topmost(stack).stop < p.row
       PROVE  Orphan(panicked, NameAt(queues, p))
  <2>1. queues[q].cursor = Topmost(stack).stop
    BY <1>1, <1>3, <1>8, SystemTop
  <2>2. CASE q = World
    BY <1>1, <1>3, <1>10, <2>1, <2>2 DEF OrderInv, PanickedInv
  <2>3. CASE q # World
    <3>1. Len(queues[q].bytes) = Topmost(stack).stop /\ Topmost(stack).stop \in Nat
      BY <1>1, <1>3, <1>8, <2>3, SystemTop, RunningTop
    <3>2. p.row \in 1 .. Len(queues[q].bytes)
      BY <1>8, <1>10, KnownIsCommand, WaitingForm
    <3> QED
      BY <1>10, <3>1, <3>2
  <2> QED
    BY <2>2, <2>3
<1>11. Tracked(R, T, names, Ran, panicked)
  <2>1. Tracked(queues, stack, names, Ran, panicked)
    BY DEF OrderInv
  <2> QED
    BY <1>1, <1>3, <1>6, <1>8, <1>9, <1>10, <2>1, UnwindTracked
<1>12. PanickedInv'
  <2>1. SUFFICES ASSUME T # <<>>, Topmost(T).queue = World, NEW p \in Places(R, T),
                        p.queue = World, ~p.saved, R[World].cursor < p.row
                 PROVE  FALSE
    BY <1>4, <1>5 DEF PanickedInv
  <2>2. PICK m \in Nat : m = n - 1 /\ m = Len(T) /\ m \in 1 .. n
    <3>1. Shape(R, T, KnownCommand')
      BY <1>4, <1>5 DEF CommandsInv
    <3>2. Len(T) # 0
      BY <2>1, <3>1, StackForm DEF Shape
    <3> QED
      BY <1>7, <1>9, <3>2 DEF Popped
  <2>3. /\ stack[m].queue = World /\ stack[m].stop \in Nat
        /\ stack[m].start \in Nat /\ stack[m].local \in Nat
        /\ FrameInOrder(queues, stack, m) /\ FrameInOrder(queues, stack, n)
    <3>1. T[m] = stack[m]
      BY <1>7, <1>9, <2>2 DEF Popped
    <3>2. InOrder(queues, stack) /\ stack \in Seq(FrameOf(KnownCommand))
      BY <1>8 DEF Shape
    <3>3. stack[m].stop \in Nat /\ stack[m].start \in Nat /\ stack[m].local \in Nat
      BY <1>7, <2>2, <3>2, StackForm
    <3> QED
      BY <1>7, <2>1, <2>2, <3>1, <3>2, <3>3 DEF Topmost, InOrder
  <2>4. n > 1 /\ m < n /\ n = m + 1
    BY <1>7, <2>2
  <2>5. q = World /\ Topmost(stack).start = stack[m].stop
    <3>1. stack[n].queue = World
      BY <2>3, <2>4 DEF FrameInOrder
    <3>2. stack[n].start = stack[m].stop
      BY <1>7, <1>8, <2>2, <2>3, <2>4 DEF Shape, InOrder
    <3> QED
      BY <1>1, <1>7, <3>1, <3>2 DEF Topmost
  <2>6. stack[m].stop > 0
    <3>1. stack[m].start < stack[m].local /\ stack[m].local <= stack[m].stop
      BY <1>7, <2>3, <2>4 DEF FrameInOrder
    <3> QED
      BY <2>3, <3>1
  <2>7. /\ v.cursor = Topmost(stack).start
        /\ v.bytes = SubSeq(queues[q].bytes, 1, Topmost(stack).start)
    <3>1. Topmost(stack).start # 0
      BY <2>3, <2>5, <2>6
    <3>2. v = [bytes |-> SubSeq(queues[q].bytes, 1, Topmost(stack).start),
               cursor |-> Topmost(stack).start, panic_recovery |-> Saved(q)]
      BY <1>2, <3>1
    <3> QED
      BY <3>2
  <2>8. R[World] = v /\ World \in AllQueues
    BY <1>3, <1>4, <1>8, <2>5, WorldIsOther DEF Shape
  <2>9. Len(v.bytes) = Topmost(stack).start
    <3>1. PICK b \in Seq(KnownCommand) : b = queues[q].bytes
      BY <1>1, <1>3, <1>8, TopVector
    <3>2. PICK k \in Nat : k = Topmost(stack).start
      BY <2>3, <2>5
    <3>3. k <= Len(b)
      <4>1. /\ Topmost(stack).local \in Nat /\ Topmost(stack).stop \in Nat
            /\ Len(queues[q].bytes) \in Nat /\ Topmost(stack).start \in Nat
            /\ Topmost(stack).start <= Topmost(stack).local
            /\ Topmost(stack).local <= Topmost(stack).stop
            /\ Topmost(stack).stop <= Len(queues[q].bytes)
        BY <1>1, <1>3, <1>8, TopVector
      <4> QED
        BY <3>1, <3>2, <4>1
    <3>4. 0 + 1 = 1 /\ 0 <= k /\ k - 0 = k
      OBVIOUS
    <3>5. Len(SubSeq(b, 0 + 1, k)) = k - 0
      BY <3>3, <3>4, PartForm
    <3> QED
      BY <2>7, <3>1, <3>2, <3>4, <3>5
  <2>10. p.row \in 1 .. Len(R[World].bytes)
    <3>1. Shape(R, T, KnownCommand') /\ KnownCommand' \subseteq Command
      BY <1>4, <1>5 DEF CommandsInv, KnownCommand
    <3>2. PICK C : C = KnownCommand'
      OBVIOUS
    <3>3. Shape(R, T, C) /\ C \subseteq Command
      BY <3>1, <3>2
    <3> QED
      BY <2>1, <3>3, WaitingForm
  <2> QED
    BY <2>1, <2>3, <2>5, <2>7, <2>8, <2>9, <2>10
<1>13. Ran' = Ran
  BY <1>3 DEF Ran
<1>14. NamesInv' /\ DepthFirst'
  BY <1>3 DEF OrderInv, NamesInv, DepthFirst
<1> QED
  BY <1>3, <1>4, <1>5, <1>11, <1>12, <1>13, <1>14 DEF OrderInv

\* Nothing that is queued, runs or ran changes.
LEMMA OrderStays ==
  ASSUME OrderInv, UNCHANGED <<queues, stack, roots, names, done, panicked>>,
         unwinding' \in {FALSE, unwinding}
  PROVE  OrderInv'
<1>1. Tracked(queues', stack', names, Ran, panicked)
  BY DEF OrderInv
<1>2. PanickedInv'
  BY DEF OrderInv, PanickedInv
<1> QED
  BY <1>1, <1>2, OrderKept

\* A command is queued from outside.
LEMMA OutsideOrder ==
  ASSUME AllInv, OrderInv, NEW q \in AllQueues, QueueFromOutside(q)
  PROVE  OrderInv'
<1>1. /\ stack = <<>> /\ ~unwinding /\ stack' = stack /\ unwinding' = unwinding
      /\ killed' = killed /\ roots' = [roots EXCEPT ![q] = @ + 1] /\ Queue(q, RootName(q))
      /\ done' = done /\ panicked' = panicked
  BY DEF QueueFromOutside, Idle
<1>2. PICK k \in [AllQueues -> Nat] : k = roots
  BY DEF AllInv, CommandsInv
<1>3. PICK m \in Nat : m = k[q] + 1
  OBVIOUS
<1>4. PICK x \in Name : x = RootName(q) /\ x = [home |-> q, key |-> <<m>>]
  BY <1>2, <1>3, RootForm DEF RootName
<1>5. PICK c \in KnownCommand' : Push(q, c) /\ c.name = x
  <2>1. Queue(q, x)
    BY <1>1, <1>4
  <2> QED
    BY <1>1, <2>1, QueuedForm DEF AllInv
<1>6. held \cup killed \subseteq held' \cup killed'
  <2>1. Queue(q, x)
    BY <1>1, <1>4
  <2> QED
    BY <1>1, <2>1, QueuedForm DEF AllInv
<1>7. Shape(queues, stack, KnownCommand)
  BY DEF AllInv, CommandsInv
<1>8. PICK R : R = queues'
  OBVIOUS
<1>9. Queued(queues, q, c, R)
  <2>1. \A p \in AllQueues :
          /\ queues'[p].bytes = IF p = q THEN Append(queues[q].bytes, c) ELSE queues[p].bytes
          /\ queues'[p].cursor = queues[p].cursor
          /\ queues'[p].panic_recovery = queues[p].panic_recovery
    BY <1>1, <1>5, <1>6, <1>7, PushGrows
  <2> QED
    BY <1>8, <2>1 DEF Queued
<1>10. names' = names \cup {x}
  BY <1>5 DEF Push
<1>11. Tracked(queues, stack, names, Ran, panicked) /\ NamesInv /\ DepthFirst
  BY DEF OrderInv
<1>12. Rooted(names, k) /\ NextRoot(k, q, m, x)
  BY <1>2, <1>3, <1>4, <1>11 DEF Rooted, NextRoot, NamesInv
<1>13. c \in Command
  BY DEF KnownCommand
<1>14. Tracked(R, stack, names \cup {x}, Ran, panicked)
  <2>1. PICK C : C = KnownCommand
    OBVIOUS
  <2>2. Shape(queues, stack, C) /\ C \subseteq Command /\ stack = <<>>
    BY <1>1, <1>7, <2>1, KnownIsCommand
  <2>3. Tracked(queues, stack, names, Ran, panicked)
    BY <1>11
  <2>4. c \in Command /\ c.name = x
    BY <1>5, <1>13
  <2> QED
    BY <1>9, <1>12, <2>2, <2>3, <2>4, RootTracked
<1>15. Len(x.key) = 1 /\ x.key[1] = m /\ x.home = q
  <2>1. names \in SUBSET Name
    BY <1>11 DEF Tracked
  <2>2. Latest(names, q, m, x)
    BY <1>12, <2>1, RootIsLatest
  <2> QED
    BY <2>2 DEF Latest
<1>16. Ran' = Ran
  BY <1>1 DEF Ran
<1>17. NamesInv'
  <2>1. \A y \in names : y.home \in AllQueues /\ Len(y.key) > 0 /\ y.key[1] <= k[y.home]
                         /\ y.key[1] \in Nat
    <3>1. names \subseteq Name
      BY <1>11 DEF Tracked
    <3>2. ASSUME NEW y \in Name, Len(y.key) > 0 PROVE y.home \in AllQueues /\ y.key[1] \in Nat
      <4>1. /\ y.home \in AllQueues /\ Len(y.key) \in Nat
            /\ \A i \in 1 .. Len(y.key) : y.key[i] \in Nat
        BY NamesForm
      <4> QED
        BY <3>2, <4>1
    <3> QED
      BY <1>2, <1>11, <3>1, <3>2 DEF NamesInv
  <2>2. PICK h : h = roots' /\ h = [k EXCEPT ![q] = m]
    BY <1>1, <1>2, <1>3
  <2>3. \A y \in names' : Len(y.key) > 0 /\ y.key[1] <= h[y.home]
    <3>1. ASSUME NEW y \in names PROVE Len(y.key) > 0 /\ y.key[1] <= h[y.home]
      <4>1. /\ y.home \in AllQueues /\ Len(y.key) > 0 /\ y.key[1] <= k[y.home]
            /\ y.key[1] \in Nat
        BY <2>1
      <4>2. k[y.home] \in Nat /\ k[y.home] <= h[y.home] /\ h[y.home] \in Nat
        BY <1>3, <2>2, <4>1
      <4> QED
        BY <4>1, <4>2
    <3>2. Len(x.key) > 0 /\ x.key[1] <= h[x.home]
      BY <1>15, <2>2
    <3> QED
      BY <1>10, <3>1, <3>2
  <2> QED
    BY <1>1, <1>11, <2>2, <2>3 DEF NamesInv
<1>18. PanickedInv' /\ DepthFirst'
  BY <1>1, <1>11 DEF PanickedInv, DepthFirst
<1>19. Tracked(queues', stack', names', Ran', panicked')
  BY <1>1, <1>8, <1>10, <1>14, <1>16
<1> QED
  BY <1>17, <1>18, <1>19 DEF OrderInv

\* A closure queues a command.
LEMMA ClosureQueuesOrder ==
  ASSUME AllInv, OrderInv, ClosureQueues
  PROVE  OrderInv'
<1> DEFINE f == [Topmost(stack) EXCEPT !.kids = @ + 1]
<1>1. /\ stack # <<>> /\ ~unwinding /\ Topmost(stack).run # None
      /\ Queue(World, ChildName) /\ stack' = [stack EXCEPT ![Len(stack)] = f]
      /\ unwinding' = unwinding /\ killed' = killed /\ roots' = roots
      /\ done' = done /\ panicked' = panicked
  BY TopIsTopmost DEF ClosureQueues, Running, SetTop
<1>2. /\ Topmost(stack) \in FrameOf(KnownCommand) /\ Len(stack) \in 1 .. Len(stack)
      /\ Len(stack) \in Nat /\ Topmost(stack).kids \in Nat /\ Topmost(stack).run.name \in Name
      /\ Shape(queues, stack, KnownCommand) /\ stack \in Seq(FrameOf(KnownCommand))
  BY <1>1, RunningTop DEF AllInv, CommandsInv, Shape
<1>3. PICK r \in Name : r = Topmost(stack).run.name
  BY <1>2
<1>4. PICK x \in Name : x = ChildName
                        /\ x = [home |-> r.home, key |-> Append(r.key, Topmost(stack).kids + 1)]
  <2>1. PICK k \in Nat : k = Topmost(stack).kids + 1
    BY <1>2
  <2>2. [home |-> r.home, key |-> Append(r.key, k)] \in Name
    BY NamesForm
  <2>3. ChildName = [home |-> r.home, key |-> Append(r.key, k)]
    BY <1>3, <2>1, TopIsTopmost DEF ChildName
  <2> QED
    BY <2>1, <2>2, <2>3
<1>5. (\E c \in KnownCommand' : Push(World, c) /\ c.name = x)
        /\ held \cup killed \subseteq held' \cup killed'
  <2>1. Queue(World, x)
    BY <1>1, <1>4
  <2> QED
    BY <1>1, <2>1, QueuedForm DEF AllInv
<1>6. PICK c \in KnownCommand' : Push(World, c) /\ c.name = x
  BY <1>5
<1>7. PICK R : R = queues'
  OBVIOUS
<1>8. Queued(queues, World, c, R)
  <2>1. \A p \in AllQueues :
          /\ queues'[p].bytes = IF p = World THEN Append(queues[World].bytes, c)
                                ELSE queues[p].bytes
          /\ queues'[p].cursor = queues[p].cursor
          /\ queues'[p].panic_recovery = queues[p].panic_recovery
    BY <1>2, <1>5, <1>6, PushGrows, WorldIsOther
  <2> QED
    BY <1>7, <2>1 DEF Queued
<1>9. PICK T : T = stack'
  OBVIOUS
<1>10. CountsChild(stack, T)
  <2>1. PICK t \in FrameOf(KnownCommand) : t = Topmost(stack)
    BY <1>2
  <2>2. PICK k \in Nat : k = t.kids + 1
    BY <1>2, <2>1
  <2>3. PICK g : g = [t EXCEPT !.kids = k]
    OBVIOUS
  <2>4. /\ g.queue = t.queue /\ g.stop = t.stop /\ g.local = t.local /\ g.run = t.run
        /\ g.kids = k
    BY <2>3 DEF FrameOf
  <2>5. T = [stack EXCEPT ![Len(stack)] = g]
    BY <1>1, <1>9, <2>1, <2>2, <2>3
  <2>6. DOMAIN stack = 1 .. Len(stack)
    BY <1>2, StackForm
  <2>7. /\ T[Len(stack)] = g /\ \A i \in 1 .. Len(stack) : i # Len(stack) => T[i] = stack[i]
    BY <1>2, <2>5, <2>6
  <2>8. Len(T) = Len(stack)
    <3>1. DOMAIN T = 1 .. Len(stack)
      BY <2>5, <2>6
    <3>2. T \in Seq(FrameOf(KnownCommand))
      <4>1. g \in FrameOf(KnownCommand)
        BY <2>3 DEF FrameOf
      <4> QED
        BY <1>2, <2>5, <4>1, ExceptSeq
    <3> QED
      BY <1>2, <3>1, <3>2, LenProperties
  <2>9. SameFrames(stack, T)
    <3>1. ASSUME NEW i \in 1 .. Len(stack)
          PROVE  /\ T[i].queue = stack[i].queue /\ T[i].stop = stack[i].stop
                 /\ T[i].local = stack[i].local /\ T[i].run = stack[i].run
      <4>1. CASE i = Len(stack)
        BY <2>1, <2>4, <2>7, <4>1 DEF Topmost
      <4>2. CASE i # Len(stack)
        BY <2>7, <4>2
      <4> QED
        BY <4>1, <4>2
    <3> QED
      BY <2>8, <3>1 DEF SameFrames
  <2> QED
    BY <2>1, <2>2, <2>4, <2>7, <2>8, <2>9 DEF CountsChild, Topmost
<1> HIDE DEF f
<1>11. Tracked(queues, stack, names, Ran, panicked) /\ NamesInv /\ DepthFirst
  BY DEF OrderInv
<1>12. c \in Command
  BY DEF KnownCommand
<1>13. Tracked(R, T, names \cup {x}, Ran, panicked) /\ r \in names /\ Descends(x, r)
  <2>1. PICK C : C = KnownCommand
    OBVIOUS
  <2>2. Shape(queues, stack, C) /\ C \subseteq Command /\ stack # <<>>
    BY <1>1, <1>2, <2>1, KnownIsCommand
  <2>3. Topmost(stack).run # None
    BY <1>1
  <2>4. ChildOf(stack, r, x)
    BY <1>3, <1>4 DEF ChildOf
  <2>5. c \in Command /\ c.name = x /\ Tracked(queues, stack, names, Ran, panicked)
    BY <1>6, <1>11, <1>12
  <2> QED
    BY <1>8, <1>10, <2>2, <2>3, <2>4, <2>5, ChildTracked
<1>14. names' = names \cup {x}
  BY <1>6 DEF Push
<1>15. Ran' = Ran
  BY <1>1 DEF Ran
<1>16. NamesInv'
  <2>1. Len(x.key) > 0 /\ x.key[1] <= roots[x.home]
    <3>1. Len(r.key) > 0 /\ r.key[1] <= roots[r.home] /\ Len(r.key) \in Nat
      BY <1>11, <1>13, NamesForm DEF NamesInv
    <3>2. x.home = r.home /\ Extends(x.key, r.key)
      BY <1>13, DescendsForm
    <3>3. x.key[1] = r.key[1] /\ Len(r.key) < Len(x.key) /\ Len(x.key) \in Nat
      BY <3>1, <3>2, NamesForm DEF Extends
    <3> QED
      BY <3>1, <3>2, <3>3
  <2> QED
    BY <1>1, <1>11, <1>14, <2>1 DEF NamesInv
<1>17. PanickedInv' /\ DepthFirst'
  BY <1>1, <1>11 DEF PanickedInv, DepthFirst
<1>18. Tracked(queues', stack', names', Ran', panicked')
  BY <1>1, <1>7, <1>9, <1>13, <1>14, <1>15
<1> QED
  BY <1>16, <1>17, <1>18 DEF OrderInv

LEMMA FirstIndex ==
  ASSUME NEW x \in Name, Len(x.key) > 0
  PROVE  x.home \in AllQueues /\ x.key[1] \in Nat
<1>1. /\ x.home \in AllQueues /\ Len(x.key) \in Nat
      /\ \A i \in 1 .. Len(x.key) : x.key[i] \in Nat
  BY NamesForm
<1>2. 1 \in 1 .. Len(x.key)
  BY <1>1
<1> QED
  BY <1>1, <1>2

\* What is in q is at the end of the queue of the world, and nowhere else.
LEMMA AppendForm ==
  ASSUME AllInv, NEW q \in Queues, AppendToWorld(q), NEW m \in Nat, m = roots[World] + 1
  PROVE  Flat(queues) /\ Flat(queues') /\ Appended(queues, q, m, queues')
<1>1. stack = <<>> /\ ~unwinding
  BY DEF AppendToWorld, Idle
<1>2. /\ queues \in [AllQueues -> QueueOf(KnownCommand)]
      /\ \A p \in AllQueues : queues[p].cursor = 0 /\ queues[p].panic_recovery = <<>>
      /\ q \in AllQueues /\ World \in AllQueues /\ q # World
  <2>1. \A p \in AllQueues : queues[p].cursor = 0
    BY <1>1 DEF AllInv, CommandsInv, Shape, InOrder, EndOf
  <2> QED
    BY <1>1, <2>1, NothingSaved, WorldIsOther DEF AllInv, CommandsInv, Shape
<1>3. PICK b \in Seq(KnownCommand) : b = queues[World].bytes
  BY <1>2, VectorForm
<1>4. PICK s \in Seq(KnownCommand) : s = queues[q].bytes
  BY <1>2, VectorForm
<1>5. PICK t : MovedTo(s, m, t)
  BY DEF MovedTo
<1>6. /\ t \in Seq(KnownCommand) /\ Len(t) = Len(s)
      /\ \A i \in 1 .. Len(s) : t[i].name = Renamed(m, s[i].name)
  BY <1>5, MovedForm
<1>7. PICK c \in Seq(KnownCommand) :
        /\ c = b \o t /\ Len(c) = Len(b) + Len(s)
        /\ \A i \in 1 .. Len(b) : c[i] = b[i]
        /\ \A i \in 1 .. Len(s) : c[Len(b) + i] = t[i]
  <2>1. Len(b) \in Nat /\ Len(s) \in Nat
    BY LenProperties
  <2> t \in Seq(KnownCommand)
    BY <1>6
  <2>2. /\ b \o t \in Seq(KnownCommand) /\ Len(b \o t) = Len(b) + Len(t)
        /\ \A i \in 1 .. Len(b) + Len(t) :
             (b \o t)[i] = IF i <= Len(b) THEN b[i] ELSE t[i - Len(b)]
    BY ConcatProperties
  <2>3. \A i \in 1 .. Len(b) : (b \o t)[i] = b[i]
    BY <1>6, <2>1, <2>2
  <2>4. \A i \in 1 .. Len(s) : (b \o t)[Len(b) + i] = t[i]
    BY <1>6, <2>1, <2>2
  <2> QED
    BY <1>6, <2>2, <2>3, <2>4
<1>8. queues' = [queues EXCEPT ![World].bytes = c, ![q].bytes = <<>>]
  BY <1>3, <1>4, <1>5, <1>7 DEF AppendToWorld, MovedTo, Renamed
<1>9. PICK v : v = [queues[World] EXCEPT !.bytes = c]
  OBVIOUS
<1>10. PICK w : w = [queues[q] EXCEPT !.bytes = <<>>]
  OBVIOUS
<1>11. queues' = [queues EXCEPT ![World] = v, ![q] = w]
  BY <1>2, <1>8, <1>9, <1>10
<1>12. /\ v.bytes = c /\ v.cursor = 0 /\ v.panic_recovery = <<>>
       /\ w.bytes = <<>> /\ w.cursor = 0 /\ w.panic_recovery = <<>>
  <2>1. \A u \in QueueOf(KnownCommand) : \A d :
          /\ [u EXCEPT !.bytes = d].bytes = d
          /\ [u EXCEPT !.bytes = d].cursor = u.cursor
          /\ [u EXCEPT !.bytes = d].panic_recovery = u.panic_recovery
    BY DEF QueueOf
  <2> QED
    BY <1>2, <1>9, <1>10, <2>1
<1>13. /\ queues'[World] = v /\ queues'[q] = w
       /\ \A p \in AllQueues \ {World, q} : queues'[p] = queues[p]
  BY <1>2, <1>11
<1>14. Flat(queues) /\ Flat(queues')
  BY <1>2, <1>12, <1>13 DEF Flat
<1>15. Appended(queues, q, m, queues')
  <2>1. \A k \in 1 .. Len(s) : c[Len(b) + k].name = Renamed(m, s[k].name)
    BY <1>6, <1>7
  <2> QED
    BY <1>3, <1>4, <1>7, <1>12, <1>13, <2>1 DEF Appended
<1> QED
  BY <1>14, <1>15

\* Those that are renamed are those in q.
LEMMA AppendNames ==
  ASSUME AllInv, NEW q \in Queues, AppendToWorld(q), NEW m \in Nat, m = roots[World] + 1,
         Flat(queues)
  PROVE  Renaming(queues, names, names', q, m)
<1>1. PICK s : s = queues[q].bytes
  OBVIOUS
<1>2. PICK old : old = {s[i].name : i \in DOMAIN s}
  OBVIOUS
<1>3. names' = (names \ old) \cup {Renamed(m, x) : x \in old}
  <2>1. names' = (names \ old)
                  \cup {[home |-> World, key |-> <<roots[World] + 1>> \o x.key] : x \in old}
    BY <1>1, <1>2, ZenonT(30) DEF AppendToWorld
  <2> QED
    BY <2>1 DEF Renamed
<1>4. q \in AllQueues /\ DOMAIN s = 1 .. Len(s) /\ Len(s) \in Nat
  <2>1. q \in AllQueues /\ s \in Seq(KnownCommand)
    BY <1>1, VectorForm, WorldIsOther DEF AllInv, CommandsInv, Shape
  <2> QED
    BY <2>1, LenProperties
<1>5. PICK P : P = {z \in Places(queues, <<>>) : z.queue = q}
  OBVIOUS
<1>6. ASSUME NEW z \in P PROVE NameAt(queues, z) \in old
  <2>1. z.queue = q /\ ~z.saved /\ z.row \in Nat /\ 0 < z.row /\ z.row <= Len(s)
    BY <1>1, <1>5, <1>6, FlatPlaces
  <2>2. z.row \in DOMAIN s
    BY <1>4, <2>1
  <2> QED
    BY <1>1, <1>2, <2>1, <2>2 DEF NameAt
<1>7. ASSUME NEW x \in old PROVE \E z \in P : x = NameAt(queues, z)
  <2>1. PICK i \in DOMAIN s : x = s[i].name
    BY <1>2
  <2>2. i \in Nat /\ 0 < i /\ i <= Len(s)
    BY <1>4
  <2>3. PICK z : z = [queue |-> q, saved |-> FALSE, row |-> i]
    OBVIOUS
  <2>4. /\ z \in [queue : AllQueues, saved : {FALSE}, row : Nat]
        /\ z.queue = q /\ z.row = i /\ ~z.saved
    BY <1>4, <2>2, <2>3
  <2>5. z \in P
    BY <1>1, <1>5, <2>2, <2>4, FlatPlaces
  <2> QED
    BY <1>1, <2>1, <2>4, <2>5 DEF NameAt
<1>8. old = {NameAt(queues, z) : z \in P}
  BY <1>6, <1>7
<1> QED
  BY <1>3, <1>5, <1>8 DEF Renaming

LEMMA AppendOrder ==
  ASSUME AllInv, OrderInv, NEW q \in Queues, AppendToWorld(q)
  PROVE  OrderInv'
<1>1. /\ stack = <<>> /\ stack' = stack /\ ~unwinding /\ unwinding' = unwinding
      /\ roots' = [roots EXCEPT ![World] = @ + 1] /\ done' = done /\ panicked' = panicked
  BY DEF AppendToWorld, Idle
<1>2. PICK k \in [AllQueues -> Nat] : k = roots
  BY DEF AllInv, CommandsInv
<1>3. PICK m \in Nat : m = k[World] + 1 /\ m = roots[World] + 1
  BY <1>2, WorldIsOther
<1>4. Tracked(queues, stack, names, Ran, panicked) /\ NamesInv /\ DepthFirst
  BY DEF OrderInv
<1>5. names \subseteq Name /\ \A x \in names : Len(x.key) > 0 /\ x.key[1] <= k[x.home]
  BY <1>2, <1>4 DEF Tracked, NamesInv
<1>6. \A x \in names : x.home \in AllQueues /\ x.key[1] \in Nat
  BY <1>5, FirstIndex
<1>7. Under(names, m)
  <2>1. ASSUME NEW x \in names, x.home = World PROVE x.key[1] < m
    BY <1>3, <1>5, <1>6, <2>1, WorldIsOther
  <2> QED
    BY <1>5, <2>1 DEF Under
<1>8. PICK R : R = queues'
  OBVIOUS
<1>9. Flat(queues) /\ Flat(R) /\ Appended(queues, q, m, R)
  BY <1>3, <1>8, AppendForm
<1>10. PICK M : M = names'
  OBVIOUS
<1>11. Renaming(queues, names, M, q, m)
  BY <1>3, <1>9, <1>10, AppendNames
<1>12. Tracked(R, <<>>, M, Ran, panicked)
  <2>1. PICK C : C = KnownCommand
    OBVIOUS
  <2>2. Shape(queues, <<>>, C) /\ C \subseteq Command
    BY <1>1, <2>1, KnownIsCommand DEF AllInv, CommandsInv
  <2>3. Tracked(queues, <<>>, names, Ran, panicked)
    BY <1>1, <1>4
  <2> QED
    BY <1>7, <1>9, <1>11, <2>2, <2>3, AppendTracked
<1>13. Ran' = Ran
  BY <1>1 DEF Ran
<1>14. NamesInv'
  <2>1. PICK h : h = roots' /\ h = [k EXCEPT ![World] = m]
    BY <1>1, <1>2, <1>3
  <2>2. ASSUME NEW y \in names PROVE Len(y.key) > 0 /\ y.key[1] <= h[y.home]
    <3>1. /\ y.home \in AllQueues /\ Len(y.key) > 0 /\ y.key[1] <= k[y.home]
          /\ y.key[1] \in Nat
      BY <1>5, <1>6
    <3>2. k[y.home] \in Nat /\ k[y.home] <= h[y.home] /\ h[y.home] \in Nat
      BY <1>3, <2>1, <3>1
    <3> QED
      BY <3>1, <3>2
  <2>3. ASSUME NEW z \in Places(queues, <<>>), z.queue = q
        PROVE  /\ Len(Renamed(m, NameAt(queues, z)).key) > 0
               /\ Renamed(m, NameAt(queues, z)).key[1] <= h[Renamed(m, NameAt(queues, z)).home]
    <3>1. PICK x : x = NameAt(queues, z)
      OBVIOUS
    <3>2. x \in Name /\ Len(x.key) = 1
      BY <1>1, <1>4, <1>5, <2>3, <3>1, WorldIsOther DEF Tracked, Childless, Accounted
    <3>3. PICK w : w = Renamed(m, x)
      OBVIOUS
    <3>4. w.home = World /\ Len(w.key) = 2 /\ w.key[1] = m
      BY <3>2, <3>3, RenamedForm DEF RenamedAs
    <3>5. h[World] = m
      BY <2>1, WorldIsOther
    <3> QED
      BY <3>1, <3>3, <3>4, <3>5
  <2>4. \A y \in M : Len(y.key) > 0 /\ y.key[1] <= h[y.home]
    BY <1>11, <2>2, <2>3 DEF Renaming
  <2> QED
    BY <1>1, <1>4, <1>10, <2>1, <2>4 DEF NamesInv
<1>15. PanickedInv' /\ DepthFirst'
  BY <1>1, <1>4 DEF PanickedInv, DepthFirst
<1>16. Tracked(queues', stack', names', Ran', panicked')
  BY <1>1, <1>8, <1>10, <1>12, <1>13
<1> QED
  BY <1>14, <1>15, <1>16 DEF OrderInv

LEMMA InitOrder == Init => OrderInv
<1> SUFFICES ASSUME Init PROVE OrderInv
  OBVIOUS
<1>1. stack = <<>> /\ names = {} /\ done = <<>> /\ panicked = {} /\ ~unwinding
  BY DEF Init
<1>2. Flat(queues) /\ \A q \in AllQueues : Len(queues[q].bytes) = 0
  BY DEF Init, Empty, Flat
<1>3. Places(queues, <<>>) = {}
  <2>1. SUFFICES ASSUME NEW p \in Places(queues, <<>>) PROVE FALSE
    OBVIOUS
  <2>2. p.queue \in AllQueues /\ p.row \in Nat /\ 0 < p.row /\ p.row <= Len(queues[p.queue].bytes)
    BY <1>2, FlatPlaces
  <2>3. Len(queues[p.queue].bytes) = 0
    BY <1>2, <2>2
  <2> QED
    BY <2>2, <2>3
<1>4. DOMAIN done = {} /\ done \in Seq(Name)
  BY <1>1
<1>5. Ran = {}
  BY <1>4 DEF Ran
<1>6. Len(<<>>) = 0 /\ 1 .. 0 = {}
  OBVIOUS
<1>7. Tracked(queues, <<>>, {}, {}, {})
  BY <1>3, <1>6 DEF Tracked, Accounted, Childless, InTurn
<1>8. NamesInv /\ PanickedInv /\ DepthFirst
  BY <1>1, <1>4 DEF NamesInv, PanickedInv, DepthFirst
<1> QED
  BY <1>1, <1>5, <1>7, <1>8 DEF OrderInv

LEMMA NextOrder ==
  ASSUME AllInv, AllInv', OrderInv, [Next]_vars
  PROVE  OrderInv'
<1>1. ASSUME NEW q \in AllQueues, QueueFromOutside(q) PROVE OrderInv'
  BY <1>1, OutsideOrder
<1>2. ASSUME NEW q \in Queues, AppendToWorld(q) PROVE OrderInv'
  BY <1>2, AppendOrder
<1>3. ASSUME NEW q \in Queues, Apply(q) PROVE OrderInv'
  <2>1. /\ flush_commands(stack) /\ ~unwinding /\ unwinding' = unwinding
        /\ UNCHANGED <<roots, names, done, panicked>>
    BY <1>3 DEF Apply, Idle, history
  <2> QED
    BY <2>1, FlushNowOrder
<1>4. CASE Flush
  <2>1. /\ flush_commands(stack) /\ ~unwinding /\ unwinding' = unwinding
        /\ UNCHANGED <<roots, names, done, panicked>>
    BY <1>4 DEF Flush, Idle, Running, history
  <2> QED
    BY <2>1, FlushNowOrder
<1>5. CASE ApplyItself
  BY <1>5, ApplyItselfOrder
<1>6. CASE Start
  BY <1>6, StartOrder
<1>7. CASE End
  BY <1>7, EndOrder
<1>8. ASSUME stack # <<>>, Topmost(stack).run # None, ~unwinding, Return PROVE OrderInv'
  BY <1>8, ReturnOrder DEF Return
<1>9. CASE Insert
  <2>1. stack # <<>> /\ Topmost(stack).run # None /\ ~unwinding
    BY <1>9, TopIsTopmost DEF Insert, Running
  <2>2. Return \/ Panic
    BY <1>9 DEF Insert
  <2> QED
    BY <1>8, <2>1, <2>2, PanicOrder
<1>10. CASE DespawnCommand
  <2>1. /\ stack # <<>> /\ Topmost(stack).run # None /\ ~unwinding
        /\ flush_commands(SetTop([Top EXCEPT !.run = None])) /\ unwinding' = unwinding
        /\ UNCHANGED <<roots, names, done, panicked>>
    BY <1>10, TopIsTopmost DEF DespawnCommand, Running, despawn, history
  <2> QED
    BY <2>1, ReturnOrder
<1>11. CASE DespawnNow
  <2>1. /\ flush_commands(stack) /\ ~unwinding /\ unwinding' = unwinding
        /\ UNCHANGED <<roots, names, done, panicked>>
    BY <1>11 DEF DespawnNow, Idle, Running, despawn, history
  <2> QED
    BY <2>1, FlushNowOrder
<1>12. CASE SpawnNow
  BY <1>12, OrderStays DEF SpawnNow, commands, history
<1>13. CASE ClosureQueues
  BY <1>13, ClosureQueuesOrder
<1>14. CASE ClosureReturns
  <2>1. stack # <<>> /\ Topmost(stack).run # None /\ ~unwinding /\ Return
    BY <1>14, TopIsTopmost DEF ClosureReturns, Running
  <2> QED
    BY <1>8, <2>1
<1>15. CASE ClosurePanics
  <2>1. stack # <<>> /\ Topmost(stack).run # None /\ ~unwinding /\ Panic
    BY <1>15, TopIsTopmost DEF ClosurePanics, Running
  <2> QED
    BY <2>1, PanicOrder
<1>16. CASE Unwind
  BY <1>16, UnwindOrder DEF AllInv
<1>17. CASE Caught
  BY <1>17, OrderStays DEF Caught, history
<1>18. CASE UNCHANGED vars
  BY <1>18, OrderStays DEF vars, commands, history
<1> QED
  BY <1>1, <1>2, <1>3, <1>4, <1>5, <1>6, <1>7, <1>9, <1>10, <1>11, <1>12, <1>13, <1>14,
     <1>15, <1>16, <1>17, <1>18 DEF Next

\* What waits in the queues is what is at the places.
LEMMA WaitingIsAtPlaces ==
  ASSUME AllInv
  PROVE  UNION {Waiting(q) : q \in AllQueues}
           = {NameAt(queues, p) : p \in Places(queues, stack)}
<1>1. /\ queues \in [AllQueues -> QueueOf(KnownCommand)]
      /\ stack \in Seq(FrameOf(KnownCommand)) /\ DOMAIN stack = 1 .. Len(stack)
      /\ \A i \in 1 .. Len(stack) : stack[i].local \in Nat /\ stack[i].stop \in Nat
  BY StackForm DEF AllInv, CommandsInv, Shape
<1>2. ASSUME NEW q \in AllQueues
      PROVE  /\ queues[q].cursor \in Nat /\ Len(queues[q].bytes) \in Nat
             /\ DOMAIN queues[q].panic_recovery = 1 .. Len(queues[q].panic_recovery)
             /\ Len(queues[q].panic_recovery) \in Nat
  BY <1>1, VectorForm, LenProperties
<1>3. ASSUME NEW q \in AllQueues, NEW x \in Waiting(q)
      PROVE  \E p \in Places(queues, stack) : x = NameAt(queues, p)
  <2>1. ASSUME NEW k \in Nat, Waits(queues, stack, q, k), x = queues[q].bytes[k].name
        PROVE  \E p \in Places(queues, stack) : x = NameAt(queues, p)
    <3>1. PICK p : p = [queue |-> q, saved |-> FALSE, row |-> k]
      OBVIOUS
    <3>2. /\ p \in [queue : AllQueues, saved : BOOLEAN, row : Nat]
          /\ p.queue = q /\ p.row = k /\ ~p.saved
      BY <3>1
    <3>3. p \in Places(queues, stack)
      BY <2>1, <3>2 DEF Places
    <3> QED
      BY <2>1, <3>2, <3>3 DEF NameAt
  <2>2. CASE x \in Rows(q, queues[q].cursor + 1, Len(queues[q].bytes))
    <3>1. PICK k \in queues[q].cursor + 1 .. Len(queues[q].bytes) : x = queues[q].bytes[k].name
      BY <2>2 DEF Rows
    <3>2. k \in Nat /\ queues[q].cursor < k /\ k <= Len(queues[q].bytes)
      BY <1>2, <3>1
    <3>3. Waits(queues, stack, q, k)
      BY <3>2 DEF Waits
    <3> QED
      BY <2>1, <3>1, <3>2, <3>3
  <2>3. CASE x \in {queues[q].panic_recovery[i].name : i \in DOMAIN queues[q].panic_recovery}
    <3>1. PICK k \in 1 .. Len(queues[q].panic_recovery) : x = queues[q].panic_recovery[k].name
      BY <1>2, <2>3
    <3>2. PICK p : p = [queue |-> q, saved |-> TRUE, row |-> k]
      OBVIOUS
    <3>3. /\ p \in [queue : AllQueues, saved : BOOLEAN, row : Nat]
          /\ p.queue = q /\ p.row = k /\ p.saved
      BY <1>2, <3>1, <3>2
    <3>4. p \in Places(queues, stack)
      BY <3>1, <3>3 DEF Places
    <3> QED
      BY <3>1, <3>3, <3>4 DEF NameAt
  <2>4. ASSUME NEW i \in DOMAIN stack, stack[i].queue = q,
               x \in Rows(q, stack[i].local + 1, stack[i].stop)
        PROVE  \E p \in Places(queues, stack) : x = NameAt(queues, p)
    <3>1. PICK k \in stack[i].local + 1 .. stack[i].stop : x = queues[q].bytes[k].name
      BY <2>4 DEF Rows
    <3>2. i \in 1 .. Len(stack) /\ k \in Nat /\ stack[i].local < k /\ k <= stack[i].stop
      BY <1>1, <3>1
    <3>3. Waits(queues, stack, q, k)
      BY <2>4, <3>2 DEF Waits
    <3> QED
      BY <2>1, <3>1, <3>2, <3>3
  <2> QED
    BY <1>3, <2>2, <2>3, <2>4 DEF Waiting
<1>4. ASSUME NEW p \in Places(queues, stack)
      PROVE  p.queue \in AllQueues /\ NameAt(queues, p) \in Waiting(p.queue)
  <2>1. PICK q \in AllQueues : q = p.queue
    BY PlaceForm
  <2>2. PICK k \in Nat : k = p.row
    BY PlaceForm
  <2>3. CASE p.saved
    <3>1. k \in DOMAIN queues[q].panic_recovery
      BY <1>2, <2>1, <2>2, <2>3, PlaceForm
    <3> QED
      BY <2>1, <2>2, <2>3, <3>1 DEF Waiting, NameAt
  <2>4. CASE ~p.saved
    <3>1. Waits(queues, stack, q, k)
      BY <2>1, <2>2, <2>4, PlaceForm
    <3>2. NameAt(queues, p) = queues[q].bytes[k].name
      BY <2>1, <2>2, <2>4 DEF NameAt
    <3>3. CASE queues[q].cursor < k /\ k <= Len(queues[q].bytes)
      <4>1. k \in queues[q].cursor + 1 .. Len(queues[q].bytes)
        BY <1>2, <3>3
      <4> QED
        BY <2>1, <3>2, <4>1 DEF Waiting, Rows
    <3>4. ASSUME NEW i \in 1 .. Len(stack), stack[i].queue = q, stack[i].local < k,
                 k <= stack[i].stop
          PROVE  NameAt(queues, p) \in Waiting(q)
      <4>1. k \in stack[i].local + 1 .. stack[i].stop /\ i \in DOMAIN stack
        BY <1>1, <3>4
      <4>2. NameAt(queues, p) \in Rows(q, stack[i].local + 1, stack[i].stop)
        BY <3>2, <4>1 DEF Rows
      <4> QED
        BY <3>4, <4>1, <4>2 DEF Waiting
    <3> QED
      BY <2>1, <3>1, <3>3, <3>4 DEF Waits
  <2> QED
    BY <2>1, <2>3, <2>4
<1> QED
  BY <1>3, <1>4

\* A line of ancestors, its places and the frames keep the order of the commands
\* (RawCommandQueue::apply_or_drop_queued).
THEOREM OrderInvariant == Spec => [](AllInv /\ OrderInv)
<1>1. Init => AllInv /\ OrderInv
  BY InitAllInv, InitOrder
<1>2. AllInv /\ OrderInv /\ [Next]_vars => AllInv' /\ OrderInv'
  <2> SUFFICES ASSUME AllInv, OrderInv, [Next]_vars PROVE AllInv' /\ OrderInv'
    OBVIOUS
  <2>1. AllInv'
    BY NextIInv, NextCommands DEF AllInv
  <2>2. OrderInv'
    BY <2>1, NextOrder
  <2> QED
    BY <2>1, <2>2
<1> QED
  BY <1>1, <1>2, PTL DEF Spec

\* No command is run twice, and none is lost, whichever commands panicked.
THEOREM CommandsRunOnce == Spec => []RunOnce
<1>1. AllInv /\ OrderInv => RunOnce
  <2> SUFFICES ASSUME AllInv, OrderInv PROVE RunOnce
    OBVIOUS
  <2>1. \A i, j \in DOMAIN done : done[i] = done[j] => i = j
    BY DEF OrderInv, NamesInv
  <2>2. PICK W : W = UNION {Waiting(q) : q \in AllQueues}
    OBVIOUS
  <2>3. W = {NameAt(queues, p) : p \in Places(queues, stack)}
    BY <2>2, WaitingIsAtPlaces
  <2>4. names \subseteq Ran \cup W /\ Ran \cap W = {}
    BY <2>3 DEF OrderInv, Tracked, Accounted
  <2> QED
    BY <2>1, <2>2, <2>4 DEF RunOnce, Ran
<1> QED
  BY <1>1, OrderInvariant, PTL

\* What a command queues runs before the command behind it, at every depth and after every
\* panic, but for what a command queued that panicked itself.
THEOREM CommandsRunDepthFirst == Spec => []DepthFirst
<1>1. OrderInv => DepthFirst
  BY DEF OrderInv
<1> QED
  BY <1>1, OrderInvariant, PTL
=============================================================================
