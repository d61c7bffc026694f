----------------------------- MODULE EntityStore ----------------------------
(***************************************************************************)
(* What an ECS world promises: every entity that exists has components,    *)
(* each with the value that was last written to it, whatever happened to   *)
(* other entities.  Ids that were reserved become entities without         *)
(* components before an entity is created or destroyed.                    *)
(***************************************************************************)
CONSTANT Values

VARIABLES store,   \* entity -> component -> value, for those that exist
          reserved \* ids that were handed out and are not entities yet

Init == store = <<>> /\ reserved = {}

\* The map `s` with the ids in `r` as entities without components.
Flushed(s, r) == [e \in DOMAIN s \cup r |-> IF e \in DOMAIN s THEN s[e] ELSE <<>>]

Without(s, e) == [f \in DOMAIN s \ {e} |-> s[f]]

\* The maps `s` and `t` before and after an operation on entity `e`.

\* A new entity, whose id nobody has.
Spawned(s, t, e) ==
  /\ Without(t, e) = s
  /\ \E v \in Values : t[e] = [c \in DOMAIN t[e] |-> v]

\* Some components were given one value, all others are as they were.
Inserted(s, t, e) ==
  /\ Without(t, e) = Without(s, e)
  /\ DOMAIN s[e] \subseteq DOMAIN t[e]
  /\ \E v \in Values : \A c \in DOMAIN t[e] :
       t[e][c] = v \/ (c \in DOMAIN s[e] /\ t[e][c] = s[e][c])

Removed(s, t, e) ==
  /\ Without(t, e) = Without(s, e)
  /\ DOMAIN t[e] \subseteq DOMAIN s[e]
  /\ t[e] = [c \in DOMAIN t[e] |-> s[e][c]]

\* An id that nobody has is promised to a system.
Reserve(s, t, r) ==
  /\ t = s
  /\ \E e \in reserved' : e \notin r \cup DOMAIN s /\ reserved' = r \cup {e}

\* One entity changes, or is created or destroyed in a flushed world.
Next ==
  LET s == store
      t == store'
      r == reserved
      flushed == Flushed(s, r)
  IN  \/ Reserve(s, t, r)
      \/ /\ \E e \in DOMAIN s \cap DOMAIN t : Inserted(s, t, e) \/ Removed(s, t, e)
         /\ reserved' = r
      \/ /\ \/ t = flushed
            \/ \E e \in DOMAIN t \ DOMAIN flushed : Spawned(flushed, t, e)
            \/ \E e \in DOMAIN flushed \ DOMAIN t : t = Without(flushed, e)
            \/ t = <<>>
         /\ reserved' = {}

Spec == Init /\ [][Next]_<<store, reserved>>
=============================================================================
