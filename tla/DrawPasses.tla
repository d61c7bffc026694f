----------------------------- MODULE DrawPasses -----------------------------
(***************************************************************************)
(* The draw passes of one frame: every material's system rebuilds its own  *)
(* Vec<DrawPass> and hands the render manager a pointer to each element as *)
(* it pushes it; render() follows the pointers.                            *)
(*                                                                         *)
(* The pointers are &'static mut: nothing ties them to the vector, whose   *)
(* elements move when it grows.  render() leaves before it clears the list *)
(* when the surface has no texture.                                        *)
(***************************************************************************)
EXTENDS Naturals, Sequences, FiniteSets

CONSTANTS Materials,   \* the materials, one system each
          MaxGroups,   \* bound on the (texture, mesh) pairs of a material
          MaxKept      \* bound on the pointers that failed frames leave behind

ASSUME MaterialsAssumption == "none" \notin Materials
ASSUME MaxGroupsAssumption == MaxGroups \in Nat
ASSUME MaxKeptAssumption == MaxKept \in Nat

VARIABLES
  local_passes, \* per material: its Local<Vec<DrawPass>>
  draw_passes,  \* render.draw_passes
  running,      \* the material whose system runs, its groups still to come
  done,         \* materials whose system has run this frame
  looping,      \* the main loop has not been left
  kept,         \* history: how many pointers failed frames have left behind
  moved         \* history: materials whose elements moved under a pointer

pointers == <<kept, moved>>
draw_vars == <<local_passes, draw_passes, running, done, looping, pointers>>

Idle == [material |-> "none", groups |-> 0]

\* Vec<T> of elements of 40 bytes: the first allocation holds four.
FirstCapacity == 4

\* Mutant: the growth of a vector of elements of more than 1024 bytes.
GrownFromOne(capacity) == IF capacity = 0 THEN 1 ELSE 2 * capacity

Grown(capacity) == IF capacity = 0 THEN FirstCapacity ELSE 2 * capacity

DrawTypeOK ==
  /\ local_passes \in [Materials -> [buffer : Nat, len : 0 .. MaxGroups, capacity : Nat]]
  /\ \A m \in Materials : local_passes[m].len <= local_passes[m].capacity
  /\ draw_passes \in Seq([material : Materials, buffer : Nat, slot : 1 .. MaxGroups])
  /\ running = Idle \/ running \in [material : Materials \ done, groups : 0 .. MaxGroups]
  /\ done \subseteq Materials
  /\ looping \in BOOLEAN
  /\ kept \in 0 .. Len(draw_passes)
  /\ moved \subseteq Materials

DrawInit ==
  /\ local_passes = [m \in Materials |-> [buffer |-> 0, len |-> 0, capacity |-> 0]]
  /\ draw_passes = << >>
  /\ running = Idle
  /\ done = {}
  /\ looping = TRUE
  /\ kept = 0 /\ moved = {}

\* Mutant: the passes of the last frame stay in the vector.
StartWithoutClear(m) ==
  /\ looping /\ running = Idle /\ m \notin done
  /\ \E n \in local_passes[m].len .. MaxGroups :
       running' = [material |-> m, groups |-> n - local_passes[m].len]
  /\ UNCHANGED <<local_passes, draw_passes, done, looping, pointers>>

\* The system of m starts: local_passes.clear() keeps the allocation, then the
\* entities are grouped by texture and mesh.
Start(m) ==
  /\ looping /\ running = Idle /\ m \notin done
  /\ local_passes' = [local_passes EXCEPT ![m].len = 0]
  /\ \E n \in 0 .. MaxGroups : running' = [material |-> m, groups |-> n]
  /\ UNCHANGED <<draw_passes, done, looping, pointers>>

PointedAt(m) ==
  \E i \in DOMAIN draw_passes :
    draw_passes[i].material = m /\ draw_passes[i].buffer = local_passes[m].buffer

\* The vector after push: a full one is reallocated, which may or may not move it.
Push(m, buffer) ==
  LET v == local_passes[m]
  IN IF v.len < v.capacity
     THEN /\ buffer = v.buffer
          /\ local_passes' = [local_passes EXCEPT ![m].len = @ + 1]
          /\ UNCHANGED moved
     ELSE /\ v.capacity = 0 => buffer = v.buffer + 1
          /\ local_passes' = [local_passes EXCEPT
               ![m] = [buffer |-> buffer, len |-> v.len + 1, capacity |-> Grown(v.capacity)]]
          /\ moved' = IF buffer # v.buffer /\ PointedAt(m) THEN moved \cup {m} ELSE moved

Buffers(m) == {local_passes[m].buffer, local_passes[m].buffer + 1}

\* One group: its pass is pushed, and a pointer to the last element with it.
AddPass ==
  /\ running.groups > 0
  /\ LET m == running.material
     IN \E buffer \in Buffers(m) :
          /\ Push(m, buffer)
          /\ draw_passes' = Append(draw_passes,
               [material |-> m, buffer |-> buffer, slot |-> local_passes[m].len + 1])
  /\ running' = [running EXCEPT !.groups = @ - 1]
  /\ UNCHANGED <<done, looping, kept>>

Finish ==
  /\ running # Idle /\ running.groups = 0
  /\ done' = done \cup {running.material}
  /\ running' = Idle
  /\ UNCHANGED <<local_passes, draw_passes, looping, pointers>>

Rendering == looping /\ done = Materials

\* Mutant: the list outlives a rendered frame.
RenderKeepsPasses ==
  /\ Rendering
  /\ done' = {}
  /\ kept' = 0 /\ moved' = {}
  /\ UNCHANGED <<local_passes, draw_passes, running, looping>>

\* Every pass is drawn, then the list is cleared.
RenderPasses ==
  /\ Rendering
  /\ draw_passes' = << >>
  /\ done' = {}
  /\ kept' = 0 /\ moved' = {}
  /\ UNCHANGED <<local_passes, running, looping>>

\* get_current_texture fails: Lost resizes the surface, other errors are printed.
RenderFails ==
  /\ Rendering
  /\ Len(draw_passes) <= MaxKept
  /\ done' = {}
  /\ kept' = Len(draw_passes)
  /\ UNCHANGED <<local_passes, draw_passes, running, looping, moved>>

\* SurfaceError::Outdated, or a window that was closed: the main loop ends.
Leave ==
  /\ Rendering
  /\ looping' = FALSE
  /\ UNCHANGED <<local_passes, draw_passes, running, done, pointers>>

DrawNext ==
  \/ \E m \in Materials : Start(m)
  \/ AddPass \/ Finish
  \/ RenderPasses \/ RenderFails \/ Leave

DrawSpec == DrawInit /\ [][DrawNext]_draw_vars

-----------------------------------------------------------------------------
(***************************************************************************)
(* What may be drawn.  A pointer dangles when its buffer was freed or its  *)
(* element dropped; following it is undefined behaviour.                   *)
(***************************************************************************)
Pointer(m, s) == [material |-> m, buffer |-> local_passes[m].buffer, slot |-> s]

Dangles(p) ==
  \/ p.buffer # local_passes[p.material].buffer
  \/ p.slot > local_passes[p.material].len

\* The pointers of this frame.
Fresh == kept + 1 .. Len(draw_passes)

\* A pointer that dangles was left behind by a frame that failed, or its vector
\* grew under it: no other order of the systems and of render() makes one.
DanglingIsExplained ==
  \A i \in DOMAIN draw_passes :
    Dangles(draw_passes[i]) => i <= kept \/ draw_passes[i].material \in moved

\* When render() starts, every pass of a material whose vector did not move is
\* listed by exactly one pointer of this frame, whatever earlier frames did.
DrawnOnce ==
  Rendering =>
    \A m \in Materials \ moved :
      /\ \A s \in 1 .. local_passes[m].len : \E i \in Fresh : draw_passes[i] = Pointer(m, s)
      /\ \A i, j \in Fresh :
           draw_passes[i] = draw_passes[j] /\ draw_passes[i].material = m => i = j

\* Elements move only in a vector that has outgrown its first allocation, of four
\* passes, since the program started.
MovesBeyondFour ==
  \A m \in moved : local_passes[m].capacity > 4
=============================================================================
