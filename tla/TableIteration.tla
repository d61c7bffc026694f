--------------------------- MODULE TableIteration ---------------------------
(***************************************************************************)
(* handle_rigidbody_insert moves the entities it iterates over to another  *)
(* table of the ECS world, under the iterator: SystemQuery::iter and       *)
(* EcsWorld both hold the world.  Safe Rust would refuse this.             *)
(*                                                                         *)
(* A table is a vector of entities and one vector per component.  Removing *)
(* a row copies the last row over it and shortens the vectors; the bytes   *)
(* behind their end stay what they were.  The iterator keeps the pointers  *)
(* and the length it found when it came to the table, so it reads rows     *)
(* that are no longer part of it.                                          *)
(***************************************************************************)
EXTENDS Naturals

CONSTANTS TableEntities, \* those of one table, all with RigidBody and Transform
          Rows           \* how many there are

ASSUME RowsAssumption == Rows \in Nat

VARIABLES
  entities,     \* row -> the entity id in memory
  columns,      \* row -> whose component values and ticks are in memory
  entity_count, \* the length of these vectors
  location,     \* entity -> its row, 0 once it was moved to another table
  current_row,  \* of the iterator, counted from 1
  newly,        \* entities whose RigidBody passes the filter Added
  with_body,    \* PhysicsMappings.added_bodies
  known,        \* history: with_body when the iteration began
  made_from     \* history: entity -> whose values its bodies were made from

table == <<entities, columns, entity_count, location>>
itervars == <<table, current_row, newly, with_body, known, made_from>>

IterTypeOK ==
  /\ entities \in [1 .. Rows -> TableEntities]
  /\ columns \in [1 .. Rows -> TableEntities]
  /\ entity_count \in 0 .. Rows
  /\ location \in [TableEntities -> 0 .. Rows]
  /\ current_row \in 1 .. Rows + 1
  /\ newly \subseteq TableEntities
  /\ known \subseteq with_body /\ with_body \subseteq TableEntities
  /\ made_from \in [TableEntities -> SUBSET TableEntities]

IterInit ==
  /\ location \in [TableEntities -> 1 .. Rows]
  /\ entities \in [1 .. Rows -> TableEntities]
  /\ \A r \in 1 .. Rows : location[entities[r]] = r
  /\ \A e \in TableEntities : entities[location[e]] = e
  /\ columns = entities
  /\ entity_count = Rows
  /\ current_row = 1
  /\ newly \in SUBSET TableEntities
  /\ with_body \in SUBSET TableEntities
  /\ known = with_body
  /\ made_from = [e \in TableEntities |-> {}]

Here == entities[current_row]
Values == columns[current_row]

\* Mutant: the iterator asks the table for its length.
MoreInTable == current_row <= entity_count

\* The iterator goes by the length it took when it came to the table.
More == current_row <= Rows

SkipRow ==
  /\ More
  /\ Values \notin newly \/ Here \in with_body
  /\ current_row' = current_row + 1
  /\ UNCHANGED <<table, newly, with_body, known, made_from>>

\* Mutant: the values removed are swapped to the end, as when they are forgotten.
SwapRow(e) ==
  LET row == location[e]
      swapped == entities[entity_count]
  IN /\ entities' = [entities EXCEPT ![row] = swapped]
     /\ columns' = [columns EXCEPT ![row] = columns[entity_count],
                                   ![entity_count] = columns[row]]
     /\ location' = [location EXCEPT ![swapped] = row, ![e] = 0]
     /\ entity_count' = entity_count - 1

\* Mutant: the entity swapped in is not told its new row.
MoveRowSilently(e) ==
  LET row == location[e]
  IN /\ entities' = [entities EXCEPT ![row] = entities[entity_count]]
     /\ columns' = [columns EXCEPT ![row] = columns[entity_count]]
     /\ location' = [location EXCEPT ![e] = 0]
     /\ entity_count' = entity_count - 1

\* Inserting the handle moves e to another table: its last row takes the row of e.
MoveRow(e) ==
  LET row == location[e]
      swapped == entities[entity_count]
  IN /\ entities' = [entities EXCEPT ![row] = swapped]
     /\ columns' = [columns EXCEPT ![row] = columns[entity_count]]
     /\ location' = [location EXCEPT ![swapped] = row, ![e] = 0]
     /\ entity_count' = entity_count - 1

InsertBodyHere ==
  /\ More
  /\ Values \in newly /\ Here \notin with_body
  /\ with_body' = with_body \cup {Here}
  /\ made_from' = [made_from EXCEPT ![Here] = @ \cup {Values}]
  /\ MoveRow(Here)
  /\ current_row' = current_row + 1
  /\ UNCHANGED <<newly, known>>

IterNext == SkipRow \/ InsertBodyHere

IterSpec == IterInit /\ [][IterNext]_itervars

-----------------------------------------------------------------------------
\* A body is made from the RigidBody and the Transform of the entity it is for, also
\* when the iterator reads behind the end of the table.
OwnValues == \A e \in TableEntities : made_from[e] \subseteq {e}

\* The iterator returns each matching entity once and only once, although rows move
\* while it goes: in the end the new entities have a body, the others do not.
EachOnce ==
  ~More => \A e \in TableEntities : (made_from[e] # {}) = (e \in newly \ known)

\* The world finds every entity that was not moved at its own row.
RowsHold ==
  \A e \in TableEntities : location[e] # 0 =>
    /\ location[e] <= entity_count
    /\ entities[location[e]] = e
    /\ columns[location[e]] = e

\* The rows still to come are as they were when the iteration began: they hold what
\* belongs to distinct entities that nothing was done to.
Unread(r) == r \in current_row .. Rows
UnreadIntact ==
  /\ \A r \in 1 .. Rows : Unread(r) =>
       /\ columns[r] = entities[r]
       /\ location[entities[r]] # 0
       /\ made_from[entities[r]] = {}
       /\ entities[r] \in with_body => entities[r] \in known
  /\ \A r, s \in 1 .. Rows : Unread(r) /\ Unread(s) /\ entities[r] = entities[s] => r = s

\* What the iterator has met was dealt with: a body of its own, or none if it needs none.
DealtWith(e) == made_from[e] = IF e \in newly \ known THEN {e} ELSE {}
ReadDealtWith ==
  \A e \in TableEntities :
    DealtWith(e) \/ \E r \in 1 .. Rows : Unread(r) /\ entities[r] = e

\* Inductive invariant.
IterInv ==
  /\ IterTypeOK
  /\ RowsHold
  /\ \A r \in 1 .. entity_count : location[entities[r]] = r
  /\ UnreadIntact
  /\ ReadDealtWith
=============================================================================
