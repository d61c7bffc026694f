-------------------------- MODULE DeferredCommands --------------------------
(***************************************************************************)
(* Commands: systems that share the world cannot change it, so they        *)
(* reserve entity ids and queue what is to be done with them; the queues   *)
(* are applied later, under an exclusive reference.                        *)
(*                                                                         *)
(* A CommandQueue is a vector and a cursor.  Applying it runs everything   *)
(* from the cursor to the end and then truncates the vector.  A command    *)
(* may queue commands on the queue of the world, which is applied when the *)
(* command returns, or earlier if it flushes the world itself; this may be *)
(* the queue that is being applied, so applications of it are nested in    *)
(* one vector, each in a frame of the call stack.  A command that panics   *)
(* unwinds all of them, and each saves what it has left.                   *)
(*                                                                         *)
(* A command is a number of bytes in the code and one element here.        *)
(***************************************************************************)
EXTENDS EntityAllocator, FiniteSets

CONSTANTS Queues,      \* CommandQueues of systems
          World,       \* the command queue of the world
          None,        \* no queue, no command
          MaxCommands, \* bound: how many commands are ever queued
          MaxIndex     \* bound: how many indices the allocator hands out

ASSUME QueuesAssumption ==
  /\ World \notin Queues
  /\ None \notin Queues \cup {World}

AllQueues == Queues \cup {World}

Placed == "placed" \* the location of an entity in the world

ASSUME PlacedAssumption == NoLocation # Placed

\* A name tells where a command comes from: the queue its line of ancestors
\* began on, and its place among its siblings, generation by generation.
Name == [home : AllQueues, key : Seq(Nat)]

Command == [name : Name, kind : {"insert", "despawn", "closure"},
            entity : [index : Int, generation : Int] \cup {None}]

ASSUME NoneAssumption == None \notin Command

VARIABLES
  ents,      \* World.entities
  queues,    \* queue -> its vector, cursor and panic_recovery
  stack,     \* calls of apply_or_drop_queued, the innermost last
  applying,  \* the queue whose apply() waits for flush_commands, or None
  unwinding, \* a panic is on its way up the stack
  held,      \* history: ids that were handed out and not destroyed
  killed,    \* history: ids that were destroyed
  roots,     \* history: queue -> how many commands were queued from outside
  names,     \* history: the commands that were queued
  done,      \* history: the commands that were started, in order
  panicked   \* history: the commands that panicked

commands == <<queues, stack, applying, unwinding>>
history == <<roots, names, done, panicked>>
vars == <<ents, commands, held, killed, history>>

Empty == [bytes |-> <<>>, cursor |-> 0, panic_recovery |-> <<>>]

Init ==
  /\ ents = NewEntities
  /\ queues = [q \in AllQueues |-> Empty]
  /\ stack = <<>>
  /\ applying = None
  /\ unwinding = FALSE
  /\ held = {} /\ killed = {}
  /\ roots = [q \in AllQueues |-> 0]
  /\ names = {} /\ done = <<>> /\ panicked = {}

Top == stack[Len(stack)]
Idle == stack = <<>> /\ applying = None /\ ~unwinding

\* A command is running and nothing it called is.
Running == stack # <<>> /\ Top.run # None /\ ~unwinding

SetTop(frame) == [stack EXCEPT ![Len(stack)] = frame]

RootName(q) == [home |-> q, key |-> <<roots[q] + 1>>]
ChildName == [home |-> Top.run.name.home, key |-> Append(Top.run.name.key, Top.kids + 1)]

Push(q, command) ==
  /\ Cardinality(names) < MaxCommands
  /\ queues' = [queues EXCEPT ![q].bytes = Append(@, command)]
  /\ names' = names \cup {command.name}

\* Commands::spawn, EntityCommands::insert and despawn, and a closure.
Queue(q, name) ==
  \/ /\ NextIndex(ents) <= MaxIndex
     /\ Push(q, [name |-> name, kind |-> "insert", entity |-> NextId(ents)])
     /\ ents' = reserve_entity(ents)
     /\ held' = held \cup {NextId(ents)}
  \/ \E e \in held \cup killed, kind \in {"insert", "despawn"} :
       /\ contains(ents, e)
       /\ Push(q, [name |-> name, kind |-> kind, entity |-> e])
       /\ UNCHANGED <<ents, held>>
  \/ /\ Push(q, [name |-> name, kind |-> "closure", entity |-> None])
     /\ UNCHANGED <<ents, held>>

\* A system, or whoever has the world, queues a command.
QueueFromOutside(q) ==
  /\ Idle
  /\ Queue(q, RootName(q))
  /\ roots' = [roots EXCEPT ![q] = @ + 1]
  /\ UNCHANGED <<stack, applying, unwinding, killed, done, panicked>>

\* CommandQueue::append to the queue of the world; what is appended is named
\* anew, as if it were queued there now.
AppendToWorld(q) ==
  /\ Idle
  /\ queues[q].bytes # <<>>
  /\ LET new(name) == [home |-> World, key |-> <<roots[World] + 1>> \o name.key]
         moved == queues[q].bytes
         old == {moved[i].name : i \in DOMAIN moved}
     IN  /\ queues' = [queues EXCEPT
              ![World].bytes = @ \o [i \in DOMAIN moved |->
                                      [moved[i] EXCEPT !.name = new(@)]],
              ![q].bytes = <<>>]
         /\ names' = (names \ old) \cup {new(name) : name \in old}
  /\ roots' = [roots EXCEPT ![World] = @ + 1]
  /\ UNCHANGED <<ents, stack, applying, unwinding, held, killed, done, panicked>>

(***************************************************************************)
(* Applying.                                                               *)
(***************************************************************************)
\* Mutant: only the commands are flushed.
flush_nothing == ents

flush_entities == flush(ents, [i \in Awaiting(ents) |-> Placed])

BeforeDespawn == flush_entities

is_empty(q) == queues[q].cursor >= Len(queues[q].bytes)

\* Mutant: the cursor of the queue stays where it was.
BeginAtCursor(q, below) ==
  /\ stack' = Append(below, [queue |-> q, start |-> queues[q].cursor,
                             stop |-> Len(queues[q].bytes),
                             local |-> queues[q].cursor, run |-> None, kids |-> 0])
  /\ UNCHANGED queues

\* apply_or_drop_queued begins, called from the frames in `below`.
Begin(q, below) ==
  LET stop == Len(queues[q].bytes)
  IN  /\ stack' = Append(below, [queue |-> q, start |-> queues[q].cursor,
                                 stop |-> stop, local |-> queues[q].cursor,
                                 run |-> None, kids |-> 0])
      /\ queues' = [queues EXCEPT ![q].cursor = stop]

\* World::flush_commands
flush_commands(below) ==
  IF is_empty(World) THEN stack' = below /\ UNCHANGED queues
  ELSE Begin(World, below)

\* World::flush from outside, or by a command in the middle of its work.
Flush ==
  /\ Idle \/ (Running /\ Top.run.kind = "closure")
  /\ needs_flush(ents) \/ ~is_empty(World)
  /\ ents' = flush_entities
  /\ flush_commands(stack)
  /\ UNCHANGED <<applying, unwinding, held, killed, history>>

\* CommandQueue::apply flushes the entities and the queue of the world ...
Apply(q) ==
  /\ Idle
  /\ queues[q].bytes # <<>>
  /\ ents' = flush_entities
  /\ flush_commands(<<>>)
  /\ applying' = q
  /\ UNCHANGED <<unwinding, held, killed, history>>

\* ... and then applies itself.
ApplyItself ==
  /\ stack = <<>> /\ applying # None /\ ~unwinding
  /\ Begin(applying, <<>>)
  /\ applying' = None
  /\ UNCHANGED <<ents, unwinding, held, killed, history>>

\* The next command of a frame is taken out of the vector and called.
Start ==
  /\ stack # <<>> /\ ~unwinding
  /\ Top.run = None /\ Top.local < Top.stop
  /\ LET command == queues[Top.queue].bytes[Top.local + 1]
     IN  /\ stack' = SetTop([Top EXCEPT !.local = @ + 1, !.run = command, !.kids = 0])
         /\ done' = Append(done, command.name)
  /\ UNCHANGED <<ents, queues, applying, unwinding, held, killed, roots, names,
                 panicked>>

\* All commands between start and stop were applied.
End ==
  /\ stack # <<>> /\ ~unwinding
  /\ Top.run = None /\ Top.local = Top.stop
  /\ queues' = [queues EXCEPT ![Top.queue].bytes = SubSeq(@, 1, Top.start),
                              ![Top.queue].cursor = Top.start]
  /\ stack' = SubSeq(stack, 1, Len(stack) - 1)
  /\ UNCHANGED <<ents, applying, unwinding, held, killed, history>>

\* The command returned; what it queued is applied before its successor.
Return ==
  /\ ents' = flush_entities
  /\ flush_commands(SetTop([Top EXCEPT !.run = None]))
  /\ UNCHANGED <<applying, unwinding, roots, names, done, panicked>>

(***************************************************************************)
(* What a command does.                                                    *)
(***************************************************************************)
Panic ==
  /\ unwinding' = TRUE
  /\ panicked' = panicked \cup {Top.run.name}
  /\ UNCHANGED <<ents, queues, stack, applying, held, killed, roots, names, done>>

\* insert(): its entity exists, or it panics.
Insert ==
  /\ Running /\ Top.run.kind = "insert"
  /\ IF Exists(ents, Top.run.entity)
     THEN Return /\ UNCHANGED <<held, killed>>
     ELSE Panic

\* World::despawn flushes the entities, frees the one, and ends in a flush of
\* the world.  No hook or observer of a removed component reserves an id in
\* between: free() forbids that.  `below` is what it returns to.
despawn(e, below) ==
  /\ ents' = IF Exists(ents, e) THEN free(BeforeDespawn, e) ELSE flush_entities
  /\ IF Exists(ents, e)
     THEN held' = held \ {e} /\ killed' = killed \cup {e}
     ELSE UNCHANGED <<held, killed>>
  /\ flush_commands(below)

DespawnCommand ==
  /\ Running /\ Top.run.kind = "despawn"
  /\ Top.run.entity.generation < MaxGeneration
  /\ despawn(Top.run.entity, SetTop([Top EXCEPT !.run = None]))
  /\ UNCHANGED <<applying, unwinding, history>>

\* A closure, or whoever has the world, despawns an entity itself.
\* World::despawn flushes first, so there is nothing left to flush.
DespawnNow ==
  /\ Idle \/ (Running /\ Top.run.kind = "closure")
  /\ ~needs_flush(ents) /\ is_empty(World)
  /\ \E e \in held : e.generation < MaxGeneration /\ despawn(e, stack)
  /\ UNCHANGED <<applying, unwinding, history>>

\* World::spawn, also by a closure: it flushes and then takes an id itself.
SpawnNow ==
  /\ Idle \/ (Running /\ Top.run.kind = "closure")
  /\ ~needs_flush(ents) /\ is_empty(World)
  /\ AllocIndex(ents) <= MaxIndex
  /\ ents' = set(alloc(ents), AllocIndex(ents), Placed)
  /\ held' = held \cup {AllocId(ents)}
  /\ UNCHANGED <<commands, killed, history>>

ClosureQueues ==
  /\ Running /\ Top.run.kind = "closure"
  /\ Queue(World, ChildName)
  /\ stack' = SetTop([Top EXCEPT !.kids = @ + 1])
  /\ UNCHANGED <<applying, unwinding, killed, roots, done, panicked>>

ClosureReturns ==
  /\ Running /\ Top.run.kind = "closure"
  /\ Return
  /\ UNCHANGED <<held, killed>>

ClosurePanics == Running /\ Top.run.kind = "closure" /\ Panic

Unrun(q) == SubSeq(queues[q].bytes, Top.local + 1, Len(queues[q].bytes))

\* Mutant: what an outer call saves is put before what inner calls saved.
SavedInFront(q) == Unrun(q) \o queues[q].panic_recovery

Saved(q) == queues[q].panic_recovery \o Unrun(q)

\* The unwinding reaches a call of apply_or_drop_queued.  It saves what it has
\* not run, with what was queued behind that, and drops its part of the
\* vector; the outermost call puts everything that was saved back.
Unwind ==
  /\ unwinding /\ stack # <<>>
  /\ LET q == Top.queue
         kept == SubSeq(queues[q].bytes, 1, Top.start)
     IN  queues' = [queues EXCEPT ![q] =
           IF Top.start = 0
           THEN [bytes |-> Saved(q), cursor |-> 0, panic_recovery |-> <<>>]
           ELSE [bytes |-> kept, cursor |-> Top.start, panic_recovery |-> Saved(q)]]
  /\ stack' = SubSeq(stack, 1, Len(stack) - 1)
  /\ UNCHANGED <<ents, applying, unwinding, held, killed, history>>

\* Whoever applied the queue catches the panic.
Caught ==
  /\ unwinding /\ stack = <<>>
  /\ unwinding' = FALSE
  /\ applying' = None
  /\ UNCHANGED <<ents, queues, stack, held, killed, history>>

Next ==
  \/ \E q \in AllQueues : QueueFromOutside(q)
  \/ \E q \in Queues : AppendToWorld(q) \/ Apply(q)
  \/ Flush \/ ApplyItself \/ Start \/ End
  \/ Insert \/ DespawnCommand \/ DespawnNow \/ SpawnNow
  \/ ClosureQueues \/ ClosureReturns \/ ClosurePanics
  \/ Unwind \/ Caught

Spec == Init /\ [][Next]_vars

(***************************************************************************)
(* Properties.                                                             *)
(***************************************************************************)
\* The handles that were handed out are exactly the entities of the world and
\* the reservations, each once: no two owners share an id, and none is lost
\* between a reservation, the flush and the free list (Entities).
HandlesExact ==
  /\ held = Alive(ents) \cup Reserved(ents)
  /\ Cardinality(held) = Cardinality(Alive(ents)) + Cardinality(Awaiting(ents))

\* A handle that was destroyed never means an entity again.
DeadStaysDead == killed \cap held = {} /\ \A e \in killed : ~Exists(ents, e)

\* The insert that Commands::spawn queued finds its entity, whatever ran before
\* it, unless a command destroyed that entity.
SpawnFindsItsEntity ==
  \A i \in DOMAIN stack :
    stack[i].run # None /\ stack[i].run.kind = "insert" =>
      Exists(ents, stack[i].run.entity) \/ stack[i].run.entity \in killed

\* key k is before key l: depth first, siblings in the order they were queued.
Before(k, l) ==
  \/ Len(k) < Len(l) /\ SubSeq(l, 1, Len(k)) = k
  \/ \E n \in 1 .. Len(k) :
       /\ n <= Len(l) /\ k[n] < l[n]
       /\ SubSeq(k, 1, n - 1) = SubSeq(l, 1, n - 1)

Descends(name, from) == name.home = from.home /\ Before(from.key, name.key)
                          /\ Len(from.key) < Len(name.key)
                          /\ SubSeq(name.key, 1, Len(from.key)) = from.key

\* "The correct command order will be retained": what a command queues runs
\* before the command behind it, at every depth, also when a panic unwound the
\* stack in between.  Only what was queued by a command that then panicked
\* itself may come later.
DepthFirst ==
  \A j \in DOMAIN done : \A i \in 1 .. j - 1 :
    done[i].home = done[j].home =>
      \/ Before(done[i].key, done[j].key)
      \/ \E p \in panicked : Descends(done[j], p)

\* The commands of a vector from row `from` to row `to`.
Rows(q, from, to) == {queues[q].bytes[i].name : i \in from .. to}

Waiting(q) ==
  Rows(q, queues[q].cursor + 1, Len(queues[q].bytes))
    \cup {queues[q].panic_recovery[i].name : i \in DOMAIN queues[q].panic_recovery}
    \cup UNION {Rows(q, stack[i].local + 1, stack[i].stop) :
                  i \in {i \in DOMAIN stack : stack[i].queue = q}}

\* No command is run twice, and one that was queued and not run is still in
\* some queue, whichever commands panicked.
RunOnce ==
  /\ \A i, j \in DOMAIN done : done[i] = done[j] => i = j
  /\ LET ran == {done[i] : i \in DOMAIN done}
         waiting == UNION {Waiting(q) : q \in AllQueues}
     IN  names \subseteq ran \cup waiting /\ ran \cap waiting = {}
=============================================================================
