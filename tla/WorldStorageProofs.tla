------------------------- MODULE WorldStorageProofs -------------------------
(***************************************************************************)
(* The storage of a world agrees with the places of its entities, and      *)
(* implements the map from entities to components, for any components,     *)
(* bundles, indices and generations.                                       *)
(*                                                                         *)
(* The argument.  E are the live entities, a their components.  Rows of    *)
(* the archetypes and of the tables list E, each entity once (Listed), and *)
(* locations name these rows (Linked, Located): that is Stored.  A removal *)
(* moves the last row to the gap, and the places of the two entities in    *)
(* question are told; each of RemoveArchetypeRow, MoveTableRow and         *)
(* TellMoved is short of agreement in one place, which the next one fills. *)
(* So rows and places are stated apart from the world (r and t), and tied  *)
(* to it at the end of an operation.                                       *)
(*                                                                         *)
(* Beside that an operation keeps what every other entity has (KeepsAll),  *)
(* read through its new row.  That is what makes its step one of the map.  *)
(* flush() needs the allocator to be Tidy: an index that is free, or       *)
(* reserved, has no location.                                              *)
(***************************************************************************)
EXTENDS WorldStorage, FiniteSetTheorems, SequenceTheorems, TLAPS

-----------------------------------------------------------------------------
(***************************************************************************)
(* Rows.  A sequence lists the members of E, each once, in the rows `at`.  *)
(***************************************************************************)
Listed(s, E, at) ==
  /\ s \in Seq(E)
  /\ \A e \in E : at[e] \in 1 .. Len(s) /\ s[at[e]] = e
  /\ \A i \in 1 .. Len(s) : at[s[i]] = i

\* The row that was r of n, when row k is removed.
NewRow(r, k, n) == IF r = n THEN k ELSE r

LEMMA WithoutRowForm ==
  ASSUME NEW S, NEW s \in Seq(S), NEW k \in 1 .. Len(s), NEW t, t = WithoutRow(s, k)
  PROVE  /\ t \in Seq(S) /\ Len(t) = Len(s) - 1
         /\ \A i \in 1 .. Len(s) - 1 : t[i] = s[IF i = k THEN Len(s) ELSE i]
<1> DEFINE n == Len(s)
           rest == SubSeq(s, 1, n - 1)
<1>1. n \in Nat /\ n >= 1
  OBVIOUS
<1>2. /\ rest \in Seq(S) /\ Len(rest) = n - 1
      /\ \A i \in 1 .. n - 1 : rest[i] = s[i]
  <2>1. \A i \in 1 .. n - 1 : s[i] \in S
    BY <1>1
  <2>2. PICK m \in Int : m = n - 1
    BY <1>1
  <2>3. /\ SubSeq(s, 1, m) \in Seq(S) /\ Len(SubSeq(s, 1, m)) = IF 1 <= m THEN m - 1 + 1 ELSE 0
        /\ \A i \in 1 .. m - 1 + 1 : SubSeq(s, 1, m)[i] = s[1 + i - 1]
    BY <2>1, <2>2, SubSeqProperties
  <2> QED
    BY <1>1, <2>2, <2>3
<1>3. s[n] \in S
  BY <1>1
<1>4. t = IF k = n THEN rest ELSE [rest EXCEPT ![k] = s[n]]
  BY DEF WithoutRow
<1> HIDE DEF rest
<1>5. CASE k = n
  BY <1>1, <1>2, <1>4, <1>5
<1>6. CASE k # n
  <2>1. k \in 1 .. n - 1 /\ k \in DOMAIN rest
    BY <1>1, <1>2, <1>6
  <2>2. t = [rest EXCEPT ![k] = s[n]]
    BY <1>4, <1>6
  <2>3. t \in Seq(S) /\ Len(t) = n - 1
    BY <1>2, <1>3, <2>1, <2>2
  <2>4. \A i \in 1 .. n - 1 : t[i] = IF i = k THEN s[n] ELSE s[i]
    BY <1>2, <2>1, <2>2
  <2> QED
    BY <1>1, <2>3, <2>4
<1> QED
  BY <1>5, <1>6

\* Every other row is found again.
LEMMA RowsKept ==
  ASSUME NEW S, NEW s \in Seq(S), NEW k \in 1 .. Len(s), NEW t, t = WithoutRow(s, k),
         NEW r \in 1 .. Len(s), r # k
  PROVE  NewRow(r, k, Len(s)) \in 1 .. Len(t) /\ t[NewRow(r, k, Len(s))] = s[r]
<1>1. /\ Len(s) \in Nat /\ Len(t) = Len(s) - 1
      /\ \A i \in 1 .. Len(s) - 1 : t[i] = s[IF i = k THEN Len(s) ELSE i]
  BY WithoutRowForm
<1>2. CASE r = Len(s)
  BY <1>1, <1>2 DEF NewRow
<1>3. CASE r # Len(s)
  BY <1>1, <1>3 DEF NewRow
<1> QED
  BY <1>2, <1>3

LEMMA ListedSame ==
  ASSUME NEW s, NEW E, NEW at, Listed(s, E, at), NEW bt, \A e \in E : bt[e] = at[e]
  PROVE  Listed(s, E, bt)
<1>1. \A i \in 1 .. Len(s) : s[i] \in E
  BY DEF Listed
<1> QED
  BY <1>1 DEF Listed

LEMMA ListedRemove ==
  ASSUME NEW s, NEW E, NEW at, Listed(s, E, at), NEW e \in E,
         NEW t, t = WithoutRow(s, at[e]),
         NEW bt, \A f \in E \ {e} : bt[f] = NewRow(at[f], at[e], Len(s))
  PROVE  Listed(t, E \ {e}, bt)
<1> DEFINE n == Len(s)
           k == at[e]
<1>1. /\ s \in Seq(E) /\ n \in Nat /\ k \in 1 .. n /\ s[k] = e
      /\ \A i \in 1 .. n : s[i] \in E /\ at[s[i]] = i
      /\ \A f \in E : at[f] \in 1 .. n /\ s[at[f]] = f
  BY DEF Listed
<1>2. /\ t \in Seq(E) /\ Len(t) = n - 1
      /\ \A i \in 1 .. n - 1 : t[i] = s[IF i = k THEN n ELSE i]
  <2>1. s \in Seq(E) /\ at[e] \in 1 .. Len(s)
    BY DEF Listed
  <2> QED
    BY <2>1, WithoutRowForm
<1> HIDE DEF n, k
<1>3. ASSUME NEW i \in 1 .. n - 1
      PROVE  t[i] \in E \ {e} /\ bt[t[i]] = i
  <2> DEFINE j == IF i = k THEN n ELSE i
  <2>1. j \in 1 .. n /\ j # k /\ NewRow(j, k, n) = i
    BY <1>1 DEF NewRow
  <2>2. t[i] = s[j]
    BY <1>2
  <2> HIDE DEF j
  <2>3. s[j] \in E /\ at[s[j]] = j /\ s[j] # e
    BY <1>1, <2>1 DEF k
  <2> QED
    BY <2>1, <2>2, <2>3 DEF n, k
<1>4. t \in Seq(E \ {e})
  BY <1>1, <1>2, <1>3
<1>5. ASSUME NEW f \in E \ {e} PROVE bt[f] \in 1 .. Len(t) /\ t[bt[f]] = f
  <2>1. at[f] \in 1 .. n /\ at[f] # k /\ s[at[f]] = f
    BY <1>1
  <2>2. NewRow(at[f], k, n) \in 1 .. Len(t) /\ t[NewRow(at[f], k, n)] = s[at[f]]
    BY <1>1, <2>1, RowsKept DEF n, k
  <2> QED
    BY <2>1, <2>2 DEF n, k
<1> QED
  BY <1>2, <1>3, <1>4, <1>5 DEF Listed

LEMMA ListedAppend ==
  ASSUME NEW s, NEW E, NEW at, Listed(s, E, at), NEW e, e \notin E,
         NEW t, t = Append(s, e),
         NEW bt, bt[e] = Len(s) + 1, \A f \in E : bt[f] = at[f]
  PROVE  Listed(t, E \cup {e}, bt)
<1>1. /\ s \in Seq(E) /\ Len(s) \in Nat
      /\ \A i \in 1 .. Len(s) : s[i] \in E /\ at[s[i]] = i
      /\ \A f \in E : at[f] \in 1 .. Len(s) /\ s[at[f]] = f
  BY DEF Listed
<1>2. s \in Seq(E \cup {e})
  BY <1>1
<1>3. /\ t \in Seq(E \cup {e}) /\ Len(t) = Len(s) + 1 /\ t[Len(s) + 1] = e
      /\ \A i \in 1 .. Len(s) : t[i] = s[i]
  BY <1>2
<1>4. ASSUME NEW i \in 1 .. Len(t) PROVE bt[t[i]] = i
  BY <1>1, <1>3
<1>5. ASSUME NEW f \in E \cup {e} PROVE bt[f] \in 1 .. Len(t) /\ t[bt[f]] = f
  BY <1>1, <1>3
<1> QED
  BY <1>3, <1>4, <1>5 DEF Listed

\* The rows of F are n further on.
Shifted(F, at, bt, n) == \A f \in F : bt[f] = n + at[f]

LEMMA ListedConcat ==
  ASSUME NEW s, NEW E, NEW bt, Listed(s, E, bt), NEW u, NEW F, NEW ut, Listed(u, F, ut),
         E \cap F = {}, NEW t, t = s \o u, Shifted(F, ut, bt, Len(s))
  PROVE  Listed(t, E \cup F, bt)
<1>1. /\ s \in Seq(E) /\ Len(s) \in Nat
      /\ \A i \in 1 .. Len(s) : s[i] \in E /\ bt[s[i]] = i
      /\ \A f \in E : bt[f] \in 1 .. Len(s) /\ s[bt[f]] = f
  BY DEF Listed
<1>2. /\ u \in Seq(F) /\ Len(u) \in Nat
      /\ \A i \in 1 .. Len(u) : u[i] \in F /\ ut[u[i]] = i
      /\ \A f \in F : ut[f] \in 1 .. Len(u) /\ u[ut[f]] = f
  BY DEF Listed
<1>3. s \in Seq(E \cup F) /\ u \in Seq(E \cup F)
  BY <1>1, <1>2
<1>4. /\ t \in Seq(E \cup F) /\ Len(t) = Len(s) + Len(u)
      /\ \A i \in 1 .. Len(s) + Len(u) : t[i] = IF i <= Len(s) THEN s[i] ELSE u[i - Len(s)]
  BY <1>3, ConcatProperties, Zenon
<1>5. ASSUME NEW i \in 1 .. Len(t) PROVE bt[t[i]] = i
  <2>1. CASE i <= Len(s)
    BY <1>1, <1>2, <1>4, <2>1
  <2>2. CASE i > Len(s)
    <3>1. i - Len(s) \in 1 .. Len(u) /\ t[i] = u[i - Len(s)]
      BY <1>1, <1>2, <1>4, <2>2
    <3>2. PICK f \in F : f = u[i - Len(s)] /\ ut[f] = i - Len(s)
      BY <1>2, <3>1
    <3>3. bt[f] = Len(s) + ut[f]
      BY DEF Shifted
    <3>4. i \in Int
      BY <2>2
    <3> QED
      BY <1>1, <3>1, <3>2, <3>3, <3>4
  <2> QED
    BY <1>1, <1>2, <1>4, <2>1, <2>2
<1>6. ASSUME NEW f \in E \cup F PROVE bt[f] \in 1 .. Len(t) /\ t[bt[f]] = f
  <2>1. CASE f \in E
    BY <1>1, <1>2, <1>4, <2>1
  <2>2. CASE f \in F
    <3>1. bt[f] = Len(s) + ut[f] /\ ut[f] \in 1 .. Len(u) /\ u[ut[f]] = f
      BY <1>2, <2>2 DEF Shifted
    <3>2. bt[f] \in 1 .. Len(s) + Len(u) /\ ~(bt[f] <= Len(s)) /\ bt[f] - Len(s) = ut[f]
      BY <1>1, <1>2, <3>1
    <3> QED
      BY <1>4, <3>1, <3>2
  <2> QED
    BY <2>1, <2>2
<1> QED
  BY <1>4, <1>5, <1>6 DEF Listed

-----------------------------------------------------------------------------
(***************************************************************************)
(* The state of a world.  E are the entities that have a row, a[e] is the  *)
(* archetype of e, r[e] its row there and t[e] the row in its table.       *)
(***************************************************************************)
Entity == [index : Nat, generation : Generation]
ArchetypeRow == [entity : Entity, table_row : Nat]
Places == [archetype : Archetype, row : Nat, table_row : Nat]
Meta == [generation : Generation, location : Places \cup {NoLocation}]
Cell == Values \cup {Uninit}

Entities == [meta : Seq(Meta), pending : Seq(Nat), cursor : Int, len : Int]

Columns(ts) == [ts -> Seq(Cell)]

IsWorld(w) == w = [ents |-> w.ents, arch |-> w.arch, table |-> w.table, sparse |-> w.sparse]

With(E, a, cs) == {e \in E : a[e] = cs}

EntityOf(rows) == [i \in 1 .. Len(rows) |-> rows[i].entity]

ArchOK(A, E, a, r) ==
  /\ A \in [Archetype -> Seq(ArchetypeRow)]
  /\ \A cs \in Archetype : Listed(EntityOf(A[cs]), With(E, a, cs), r)

IsTable(x, ts) ==
  /\ x = [entities |-> x.entities, column |-> x.column]
  /\ x.column \in Columns(ts)
  /\ \A c \in ts : Len(x.column[c]) = Len(x.entities)

\* b[e] is the table of e.
TableOK(T, E, b, t) ==
  /\ T = [ts \in SUBSET TableComponents |-> T[ts]]
  /\ \A ts \in SUBSET TableComponents : IsTable(T[ts], ts)
  /\ \A ts \in SUBSET TableComponents : Listed(T[ts].entities, With(E, b, ts), t)

\* The row of an archetype knows the row of the table.
Linked(A, E, a, r, t) == \A e \in E : A[a[e]][r[e]].table_row = t[e]

\* The allocator has the places of E.
Located(x, E, a, r, t) ==
  /\ E \subseteq Entity
  /\ \A e \in E :
       /\ Known(x, e.index) /\ x.meta[e.index].generation = e.generation
       /\ x.meta[e.index].location = [archetype |-> a[e], row |-> r[e], table_row |-> t[e]]

\* x and y differ in the locations of E, if at all.
LocationsOf(x, y, E) ==
  /\ y \in Entities
  /\ y.pending = x.pending /\ y.cursor = x.cursor /\ Len(y.meta) = Len(x.meta)
  /\ \A i \in 1 .. Len(x.meta) :
       /\ y.meta[i].generation = x.meta[i].generation
       /\ (\A e \in E : e.index # i) => y.meta[i] = x.meta[i]

TablesOf(E, a) == [e \in E |-> TableOf(a[e])]

Rowed(E, a, r, t) == \A e \in E : a[e] \in Archetype /\ r[e] \in Nat /\ t[e] \in Nat

\* The archetypes of w and its allocator agree on the entities E.
Rows(w, E, a, r, t) ==
  /\ IsWorld(w) /\ w.ents \in Entities /\ Rowed(E, a, r, t)
  /\ ArchOK(w.arch, E, a, r) /\ Linked(w.arch, E, a, r, t) /\ Located(w.ents, E, a, r, t)

\* The index of e is of its generation.
Issued(x, e) == e \in Entity /\ Known(x, e.index) /\ x.meta[e.index].generation = e.generation

\* v is w but for archetypes and the locations of E.
OnlyRows(w, v, E) ==
  v.table = w.table /\ v.sparse = w.sparse /\ LocationsOf(w.ents, v.ents, E)

-----------------------------------------------------------------------------
LEMMA SetForm ==
  ASSUME NEW x \in Entities, NEW i \in 1 .. Len(x.meta), NEW l \in Places,
         NEW y, y = set(x, i, l)
  PROVE  /\ y \in Entities /\ y.pending = x.pending /\ y.cursor = x.cursor
         /\ Len(y.meta) = Len(x.meta)
         /\ \A j \in 1 .. Len(x.meta) :
              /\ y.meta[j].generation = x.meta[j].generation
              /\ y.meta[j].location = IF j = i THEN l ELSE x.meta[j].location
              /\ j # i => y.meta[j] = x.meta[j]
<1>1. /\ x.meta \in Seq(Meta) /\ x.pending \in Seq(Nat) /\ x.cursor \in Int /\ x.len \in Int
      /\ x = [meta |-> x.meta, pending |-> x.pending, cursor |-> x.cursor, len |-> x.len]
  BY DEF Entities
<1>2. PICK m \in Seq(Meta) : m = x.meta
  BY <1>1
<1>3. PICK k : k = [m[i] EXCEPT !.location = l]
  OBVIOUS
<1>4. PICK n : n = [m EXCEPT ![i] = k]
  OBVIOUS
<1>5. m[i] \in Meta
  BY <1>2
<1>6. k \in Meta /\ k.generation = m[i].generation /\ k.location = l
  BY <1>3, <1>5 DEF Meta
<1>7. /\ n \in Seq(Meta) /\ Len(n) = Len(m)
      /\ \A j \in 1 .. Len(m) : n[j] = IF j = i THEN k ELSE m[j]
  BY <1>2, <1>4, <1>6
<1>8. y = [x EXCEPT !.meta = n]
  BY <1>1, <1>2, <1>3, <1>4 DEF set
<1>9. y = [meta |-> n, pending |-> x.pending, cursor |-> x.cursor, len |-> x.len]
  BY <1>1, <1>8
<1>10. y \in Entities /\ y.meta = n /\ y.pending = x.pending /\ y.cursor = x.cursor
  BY <1>1, <1>7, <1>9 DEF Entities
<1> QED
  BY <1>2, <1>6, <1>7, <1>10

\* An entity is the only one with its index.
LEMMA OnePerIndex ==
  ASSUME NEW x, NEW E, NEW a, NEW r, NEW t, Located(x, E, a, r, t),
         NEW e \in E, NEW f \in E, e.index = f.index
  PROVE  e = f
<1>1. e \in Entity /\ f \in Entity /\ e.generation = f.generation
  BY DEF Located
<1> QED
  BY <1>1 DEF Entity

LEMMA PlaceForm ==
  ASSUME NEW E, NEW a, NEW r, NEW t, Rowed(E, a, r, t), NEW e \in E
  PROVE  /\ a[e] \in Archetype /\ r[e] \in Nat /\ t[e] \in Nat
         /\ [archetype |-> a[e], row |-> r[e], table_row |-> t[e]] \in Places
BY DEF Rowed, Places

LEMMA LocationsItself ==
  ASSUME NEW x \in Entities, NEW E PROVE LocationsOf(x, x, E)
BY DEF LocationsOf

LEMMA LocationsTwice ==
  ASSUME NEW x, NEW y, NEW z, NEW E, NEW F, NEW G, LocationsOf(x, y, E), LocationsOf(y, z, F),
         E \subseteq G, F \subseteq G
  PROVE  LocationsOf(x, z, G)
BY DEF LocationsOf

LEMMA EntityOfForm ==
  ASSUME NEW s \in Seq(ArchetypeRow)
  PROVE  /\ EntityOf(s) \in Seq(Entity) /\ Len(EntityOf(s)) = Len(s)
         /\ \A i \in 1 .. Len(s) : EntityOf(s)[i] = s[i].entity /\ s[i].entity \in Entity
<1>1. \A i \in 1 .. Len(s) : s[i] \in ArchetypeRow
  OBVIOUS
<1>2. \A i \in 1 .. Len(s) : s[i].entity \in Entity
  BY <1>1 DEF ArchetypeRow
<1> QED
  BY <1>2 DEF EntityOf

LEMMA EntityOfWithout ==
  ASSUME NEW s \in Seq(ArchetypeRow), NEW k \in 1 .. Len(s)
  PROVE  EntityOf(WithoutRow(s, k)) = WithoutRow(EntityOf(s), k)
<1>1. PICK u : u = EntityOf(s)
  OBVIOUS
<1>2. /\ u \in Seq(Entity) /\ Len(u) = Len(s) /\ Len(s) \in Nat
      /\ \A i \in 1 .. Len(s) : u[i] = s[i].entity
  BY <1>1, EntityOfForm
<1>3. PICK t : t = WithoutRow(s, k)
  OBVIOUS
<1>4. /\ t \in Seq(ArchetypeRow) /\ Len(t) = Len(s) - 1
      /\ \A i \in 1 .. Len(s) - 1 : t[i] = s[IF i = k THEN Len(s) ELSE i]
  BY <1>3, WithoutRowForm
<1>5. PICK v : v = WithoutRow(u, k)
  OBVIOUS
<1>6. /\ v \in Seq(Entity) /\ Len(v) = Len(s) - 1
      /\ \A i \in 1 .. Len(s) - 1 : v[i] = u[IF i = k THEN Len(s) ELSE i]
  <2>1. u \in Seq(Entity) /\ k \in 1 .. Len(u) /\ Len(u) = Len(s)
    BY <1>2
  <2>2. /\ v \in Seq(Entity) /\ Len(v) = Len(u) - 1
        /\ \A i \in 1 .. Len(u) - 1 : v[i] = u[IF i = k THEN Len(u) ELSE i]
    BY <1>5, <2>1, WithoutRowForm
  <2> QED
    BY <2>1, <2>2
<1>7. v = [i \in 1 .. Len(v) |-> v[i]]
  BY <1>6
<1>8. ASSUME NEW i \in 1 .. Len(s) - 1 PROVE v[i] = t[i].entity
  <2>1. PICK j \in 1 .. Len(s) : j = IF i = k THEN Len(s) ELSE i
    BY <1>2
  <2>2. v[i] = u[j] /\ t[i] = s[j]
    BY <1>4, <1>6, <2>1
  <2> QED
    BY <1>2, <2>1, <2>2
<1>9. EntityOf(t) = [i \in 1 .. Len(t) |-> t[i].entity]
  BY DEF EntityOf
<1>10. EntityOf(t) = v
  BY <1>4, <1>6, <1>7, <1>8, <1>9
<1> QED
  BY <1>1, <1>3, <1>5, <1>10

LEMMA EntityOfAppend ==
  ASSUME NEW s \in Seq(ArchetypeRow), NEW x \in ArchetypeRow
  PROVE  EntityOf(Append(s, x)) = Append(EntityOf(s), x.entity)
<1>1. PICK u : u = EntityOf(s)
  OBVIOUS
<1>2. /\ u \in Seq(Entity) /\ Len(u) = Len(s) /\ Len(s) \in Nat /\ x.entity \in Entity
      /\ \A i \in 1 .. Len(s) : u[i] = s[i].entity
  <2>1. x.entity \in Entity
    BY DEF ArchetypeRow
  <2> QED
    BY <1>1, <2>1, EntityOfForm
<1>3. PICK t : t = Append(s, x)
  OBVIOUS
<1>4. /\ Len(t) = Len(s) + 1 /\ \A i \in 1 .. Len(s) + 1 : t[i] = IF i = Len(s) + 1 THEN x ELSE s[i]
  BY <1>3
<1>5. PICK v : v = Append(u, x.entity)
  OBVIOUS
<1>6. /\ v \in Seq(Entity) /\ Len(v) = Len(s) + 1
      /\ \A i \in 1 .. Len(s) + 1 : v[i] = IF i = Len(s) + 1 THEN x.entity ELSE u[i]
  BY <1>2, <1>5
<1>7. v = [i \in 1 .. Len(v) |-> v[i]]
  BY <1>6
<1>8. ASSUME NEW i \in 1 .. Len(s) + 1 PROVE v[i] = t[i].entity
  BY <1>2, <1>4, <1>6
<1>9. EntityOf(t) = [i \in 1 .. Len(t) |-> t[i].entity]
  BY DEF EntityOf
<1>10. EntityOf(t) = v
  BY <1>4, <1>6, <1>7, <1>8, <1>9
<1> QED
  BY <1>1, <1>3, <1>5, <1>10

\* What ArchOK says of one entity and of one row.
LEMMA ArchForm ==
  ASSUME NEW A, NEW E, NEW a, NEW r, NEW t, ArchOK(A, E, a, r), Rowed(E, a, r, t)
  PROVE  /\ \A cs \in Archetype : A[cs] \in Seq(ArchetypeRow) /\ Len(A[cs]) \in Nat
         /\ \A e \in E : /\ r[e] \in 1 .. Len(A[a[e]]) /\ A[a[e]][r[e]].entity = e
                         /\ A[a[e]][r[e]] \in ArchetypeRow
         /\ \A cs \in Archetype : \A i \in 1 .. Len(A[cs]) :
              A[cs][i].entity \in E /\ a[A[cs][i].entity] = cs /\ r[A[cs][i].entity] = i
<1>1. ASSUME NEW cs \in Archetype
      PROVE  /\ A[cs] \in Seq(ArchetypeRow) /\ Len(A[cs]) \in Nat
             /\ Len(EntityOf(A[cs])) = Len(A[cs])
             /\ \A i \in 1 .. Len(A[cs]) : EntityOf(A[cs])[i] = A[cs][i].entity
             /\ Listed(EntityOf(A[cs]), With(E, a, cs), r)
  BY EntityOfForm DEF ArchOK
<1>2. ASSUME NEW cs \in Archetype, NEW i \in 1 .. Len(A[cs])
      PROVE  A[cs][i].entity \in E /\ a[A[cs][i].entity] = cs /\ r[A[cs][i].entity] = i
  <2>1. EntityOf(A[cs])[i] \in With(E, a, cs) /\ r[EntityOf(A[cs])[i]] = i
    BY <1>1 DEF Listed
  <2> QED
    BY <1>1, <2>1 DEF With
<1>3. ASSUME NEW e \in E
      PROVE  /\ r[e] \in 1 .. Len(A[a[e]]) /\ A[a[e]][r[e]].entity = e
             /\ A[a[e]][r[e]] \in ArchetypeRow
  <2>1. a[e] \in Archetype /\ e \in With(E, a, a[e])
    BY DEF Rowed, With
  <2>2. r[e] \in 1 .. Len(EntityOf(A[a[e]])) /\ EntityOf(A[a[e]])[r[e]] = e
    BY <1>1, <2>1 DEF Listed
  <2> QED
    BY <1>1, <2>1, <2>2
<1> QED
  BY <1>1, <1>2, <1>3

-----------------------------------------------------------------------------
(***************************************************************************)
(* A row of an archetype is removed.  Nothing is asked of the location of  *)
(* its entity, which may be freed already.                                 *)
(***************************************************************************)
RowsBehind(E, e, a, r, n) ==
  [f \in E \ {e} |-> IF a[f] = a[e] THEN NewRow(r[f], r[e], n) ELSE r[f]]

LEMMA RemoveArchetypeRowForm ==
  ASSUME NEW w, IsWorld(w), w.ents \in Entities,
         NEW E, NEW a, NEW r, NEW t, Rowed(E, a, r, t), ArchOK(w.arch, E, a, r), NEW e \in E,
         Located(w.ents, E \ {e}, a, r, t), Linked(w.arch, E \ {e}, a, r, t),
         NEW v, v = RemoveArchetypeRow(w, a[e], r[e]),
         NEW q, q = RowsBehind(E, e, a, r, Len(w.arch[a[e]]))
  PROVE  Rows(v, E \ {e}, a, q, t) /\ OnlyRows(w, v, E \ {e})
<1> DEFINE A == w.arch
           x == w.ents
           cs == a[e]
           k == r[e]
           n == Len(A[cs])
           F == E \ {e}
           rest == WithoutRow(A[cs], k)
           m == rest[k].entity
           y == IF k > Len(rest) THEN x
                ELSE set(x, m.index, [Location(x, m) EXCEPT !.row = k])
           B == [A EXCEPT ![cs] = rest]
<1>1. IsWorld(v) /\ v.ents = y /\ v.arch = B /\ v.table = w.table /\ v.sparse = w.sparse
  BY DEF IsWorld, RemoveArchetypeRow
<1>0. /\ \A ds \in Archetype : w.arch[ds] \in Seq(ArchetypeRow) /\ Len(w.arch[ds]) \in Nat
      /\ \A f \in E : /\ r[f] \in 1 .. Len(w.arch[a[f]]) /\ w.arch[a[f]][r[f]].entity = f
                      /\ w.arch[a[f]][r[f]] \in ArchetypeRow
      /\ \A ds \in Archetype : \A i \in 1 .. Len(w.arch[ds]) :
           /\ w.arch[ds][i].entity \in E /\ a[w.arch[ds][i].entity] = ds
           /\ r[w.arch[ds][i].entity] = i
  BY ArchForm
<1>2. /\ cs \in Archetype /\ A[cs] \in Seq(ArchetypeRow) /\ n \in Nat /\ k \in 1 .. n
      /\ A \in [Archetype -> Seq(ArchetypeRow)]
  <2>1. a[e] \in Archetype
    BY DEF Rowed
  <2> QED
    BY <1>0, <2>1 DEF ArchOK
<1>3. /\ rest \in Seq(ArchetypeRow) /\ Len(rest) = n - 1
      /\ \A i \in 1 .. n - 1 : rest[i] = A[cs][IF i = k THEN n ELSE i]
  <2> HIDE DEF A, cs, k
  <2> QED
    BY <1>2, WithoutRowForm
<1>4. EntityOf(rest) = WithoutRow(EntityOf(A[cs]), k)
  BY <1>2, EntityOfWithout
<1>5. /\ Len(EntityOf(A[cs])) = n
      /\ \A f \in E : /\ r[f] \in 1 .. Len(A[a[f]]) /\ A[a[f]][r[f]].entity = f
                      /\ r[f] \in Nat /\ a[f] \in Archetype
      /\ \A ds \in Archetype : \A i \in 1 .. Len(A[ds]) :
           A[ds][i].entity \in E /\ a[A[ds][i].entity] = ds /\ r[A[ds][i].entity] = i
  <2>1. Len(EntityOf(A[cs])) = n
    BY <1>2, EntityOfForm
  <2>2. \A f \in E : r[f] \in Nat /\ a[f] \in Archetype
    BY DEF Rowed
  <2> QED
    BY <1>0, <2>1, <2>2
<1>6. \A f \in F : q[f] = IF a[f] = cs THEN NewRow(r[f], k, n) ELSE r[f]
  BY DEF RowsBehind
<1>7. Rowed(F, a, q, t)
  BY <1>2, <1>5, <1>6 DEF Rowed, NewRow
<1>8. B \in [Archetype -> Seq(ArchetypeRow)] /\ B[cs] = rest
      /\ \A ds \in Archetype : ds # cs => B[ds] = A[ds]
  BY <1>2, <1>3
<1> HIDE DEF A, x, cs, k, n, rest, m, y, B
<1>9. ArchOK(B, F, a, q)
  <2>1. ASSUME NEW ds \in Archetype PROVE Listed(EntityOf(B[ds]), With(F, a, ds), q)
    <3>1. Listed(EntityOf(A[ds]), With(E, a, ds), r)
      BY DEF ArchOK, A
    <3>2. CASE ds = cs
      <4>1. e \in With(E, a, ds) /\ With(F, a, ds) = With(E, a, ds) \ {e}
        BY <3>2 DEF With, cs
      <4>2. \A f \in With(E, a, ds) \ {e} : q[f] = NewRow(r[f], r[e], Len(EntityOf(A[ds])))
        BY <1>5, <1>6, <3>2, <4>1 DEF With, k
      <4>3. EntityOf(B[ds]) = WithoutRow(EntityOf(A[ds]), r[e])
        BY <1>4, <1>8, <3>2 DEF k
      <4>4. PICK s, G, u : s = EntityOf(A[ds]) /\ G = With(E, a, ds) /\ u = EntityOf(B[ds])
        OBVIOUS
      <4>5. Listed(u, G \ {e}, q)
        BY <3>1, <4>1, <4>2, <4>3, <4>4, ListedRemove
      <4> QED
        BY <4>1, <4>4, <4>5
    <3>3. CASE ds # cs
      <4>1. With(F, a, ds) = With(E, a, ds) /\ \A f \in With(E, a, ds) : q[f] = r[f]
        BY <1>6, <3>3 DEF With, cs
      <4> QED
        BY <1>8, <3>1, <3>3, <4>1, ListedSame
    <3> QED
      BY <3>2, <3>3
  <2> QED
    BY <1>8, <2>1 DEF ArchOK
<1>10. \A f \in F : B[a[f]][q[f]] = A[a[f]][r[f]]
  <2> SUFFICES ASSUME NEW f \in F PROVE B[a[f]][q[f]] = A[a[f]][r[f]]
    OBVIOUS
  <2>1. CASE a[f] = cs
    <3>1. r[f] \in 1 .. n /\ r[f] # k
      BY <1>2, <1>5, <2>1 DEF n, k, cs
    <3>2. rest[NewRow(r[f], k, n)] = A[cs][r[f]]
      BY <1>2, <3>1, RowsKept DEF rest, n
    <3> QED
      BY <1>6, <1>8, <2>1, <3>2
  <2>2. CASE a[f] # cs
    BY <1>5, <1>6, <1>8, <2>2
  <2> QED
    BY <2>1, <2>2
<1>11. Linked(B, F, a, q, t)
  BY <1>10 DEF Linked, A, F
<1>12. CASE k > Len(rest)
  <2>1. k = n /\ y = x
    BY <1>2, <1>3, <1>12 DEF y
  <2>2. \A f \in F : q[f] = r[f]
    BY <1>5, <1>6, <2>1 DEF NewRow
  <2>3. Located(y, F, a, q, t)
    BY <2>1, <2>2 DEF Located, x
  <2>4. LocationsOf(x, y, F)
    BY <2>1, LocationsItself DEF x
  <2> QED
    BY <1>1, <1>7, <1>9, <1>11, <2>3, <2>4 DEF Rows, OnlyRows, LocationsOf, F, x
<1>13. CASE ~(k > Len(rest))
  <2>1. k \in 1 .. n - 1 /\ n \in 1 .. n /\ k # n
    BY <1>2, <1>3, <1>13
  <2>2. m = A[cs][n].entity /\ m \in E /\ a[m] = cs /\ r[m] = n /\ m # e
    <3>1. rest[k] = A[cs][n]
      BY <1>3, <2>1
    <3>2. m = A[cs][n].entity /\ n \in 1 .. Len(A[cs]) /\ r[e] # n
      BY <2>1, <3>1 DEF m, n, k
    <3> QED
      BY <1>2, <1>5, <3>2
  <2>3. m \in F
    BY <2>2
  <2>4. /\ Known(x, m.index) /\ x.meta[m.index].generation = m.generation
        /\ x.meta[m.index].location = [archetype |-> a[m], row |-> r[m], table_row |-> t[m]]
        /\ F \subseteq Entity
    BY <2>3 DEF Located, x
  <2>5. PICK l : l = [archetype |-> a[m], row |-> k, table_row |-> t[m]]
    OBVIOUS
  <2>6. l \in Places
    BY <1>2, <2>2, <2>5 DEF Places, Rowed
  <2>7. y = set(x, m.index, l)
    BY <1>13, <2>4, <2>5 DEF y, Location
  <2>8. m.index \in 1 .. Len(x.meta) /\ x \in Entities
    BY <2>4 DEF Known, x
  <2>9. /\ y \in Entities /\ y.pending = x.pending /\ y.cursor = x.cursor
        /\ Len(y.meta) = Len(x.meta)
        /\ \A j \in 1 .. Len(x.meta) :
             /\ y.meta[j].generation = x.meta[j].generation
             /\ y.meta[j].location = IF j = m.index THEN l ELSE x.meta[j].location
             /\ j # m.index => y.meta[j] = x.meta[j]
    BY <2>6, <2>7, <2>8, SetForm
  <2>10. \A f \in F : q[f] = IF f = m THEN k ELSE r[f]
    BY <1>2, <1>5, <1>6, <2>2 DEF NewRow
  <2>11. Located(y, F, a, q, t)
    <3>1. ASSUME NEW f \in F
          PROVE  /\ Known(y, f.index) /\ y.meta[f.index].generation = f.generation
                 /\ y.meta[f.index].location
                      = [archetype |-> a[f], row |-> q[f], table_row |-> t[f]]
      <4>1. /\ f.index \in 1 .. Len(x.meta) /\ x.meta[f.index].generation = f.generation
            /\ x.meta[f.index].location
                 = [archetype |-> a[f], row |-> r[f], table_row |-> t[f]]
        BY DEF Located, x, Known
      <4>2. CASE f = m
        BY <2>5, <2>9, <2>10, <4>1, <4>2 DEF Known
      <4>3. CASE f # m
        <5>1. f.index # m.index
          BY <2>3, <4>3, OnePerIndex
        <5> QED
          BY <2>9, <2>10, <4>1, <4>3, <5>1 DEF Known
      <4> QED
        BY <4>2, <4>3
    <3> QED
      BY <2>4, <3>1 DEF Located
  <2>12. LocationsOf(x, y, F)
    BY <2>3, <2>9 DEF LocationsOf
  <2> QED
    BY <1>1, <1>7, <1>9, <1>11, <2>11, <2>12 DEF Rows, OnlyRows, LocationsOf, F, x
<1> QED
  BY <1>12, <1>13

-----------------------------------------------------------------------------
(***************************************************************************)
(* An entity is given a row.                                               *)
(***************************************************************************)
Put(g, E, e, x) == [f \in E \cup {e} |-> IF f = e THEN x ELSE g[f]]

LEMMA PutForm ==
  ASSUME NEW g, NEW E, NEW e, NEW x
  PROVE  /\ Put(g, E, e, x)[e] = x
         /\ \A f \in E : f # e => Put(g, E, e, x)[f] = g[f]
         /\ DOMAIN Put(g, E, e, x) = E \cup {e}
BY DEF Put

LEMMA IndexOfItsOwn ==
  ASSUME NEW x, NEW E, NEW a, NEW r, NEW t, Located(x, E, a, r, t),
         NEW e \in Entity, e \notin E, x.meta[e.index].generation = e.generation, NEW f \in E
  PROVE  f.index # e.index
<1>1. f \in Entity /\ x.meta[f.index].generation = f.generation
  BY DEF Located
<1>2. ASSUME f.index = e.index PROVE f = e
  BY <1>1, <1>2 DEF Entity
<1> QED
  BY <1>2

LEMMA AllocateRowForm ==
  ASSUME NEW w, NEW E, NEW a, NEW r, NEW t, Rows(w, E, a, r, t),
         NEW e, e \notin E, Issued(w.ents, e),
         NEW to \in Archetype, NEW k \in Nat, NEW v, v = AllocateRow(w, to, e, k),
         NEW b, b = Put(a, E, e, to), NEW q, q = Put(r, E, e, Len(w.arch[to]) + 1),
         NEW u, u = Put(t, E, e, k)
  PROVE  Rows(v, E \cup {e}, b, q, u) /\ OnlyRows(w, v, {e})
<1>0. /\ e \in Entity /\ Known(w.ents, e.index)
      /\ w.ents.meta[e.index].generation = e.generation
      /\ IsWorld(w) /\ w.ents \in Entities /\ Rowed(E, a, r, t)
      /\ ArchOK(w.arch, E, a, r) /\ Linked(w.arch, E, a, r, t) /\ Located(w.ents, E, a, r, t)
  BY DEF Issued, Rows
<1> USE <1>0
<1> DEFINE A == w.arch
           x == w.ents
           n == Len(A[to])
           entry == [entity |-> e, table_row |-> k]
           l == [archetype |-> to, row |-> n + 1, table_row |-> k]
           y == set(x, e.index, l)
           rows == Append(A[to], entry)
           B == [A EXCEPT ![to] = rows]
           F == E \cup {e}
<1>1. IsWorld(v) /\ v.ents = y /\ v.arch = B /\ v.table = w.table /\ v.sparse = w.sparse
  BY DEF IsWorld, AllocateRow
<1>2. /\ \A ds \in Archetype : A[ds] \in Seq(ArchetypeRow) /\ Len(A[ds]) \in Nat
      /\ \A f \in E : r[f] \in 1 .. Len(A[a[f]]) /\ A[a[f]][r[f]].entity = f
  BY ArchForm
<1>3. A \in [Archetype -> Seq(ArchetypeRow)] /\ A[to] \in Seq(ArchetypeRow) /\ n \in Nat
      /\ entry \in ArchetypeRow /\ entry.entity = e /\ entry.table_row = k
  BY <1>2 DEF ArchOK, ArchetypeRow
<1>4. /\ \A f \in E : a[f] \in Archetype /\ r[f] \in Nat /\ t[f] \in Nat /\ f # e
      /\ E \subseteq Entity
  BY DEF Rowed, Located
<1>5. /\ b[e] = to /\ q[e] = n + 1 /\ u[e] = k
      /\ \A f \in E : b[f] = a[f] /\ q[f] = r[f] /\ u[f] = t[f]
  BY <1>4 DEF Put
<1>6. Rowed(F, b, q, u)
  BY <1>3, <1>4 DEF Rowed, Put
<1>7. l \in Places
  BY <1>3 DEF Places
<1>8. e.index \in 1 .. Len(x.meta)
  BY DEF Known
<1>9. /\ y \in Entities /\ y.pending = x.pending /\ y.cursor = x.cursor
      /\ Len(y.meta) = Len(x.meta)
      /\ \A j \in 1 .. Len(x.meta) :
           /\ y.meta[j].generation = x.meta[j].generation
           /\ y.meta[j].location = IF j = e.index THEN l ELSE x.meta[j].location
           /\ j # e.index => y.meta[j] = x.meta[j]
  <2>1. y = set(x, e.index, l) /\ x \in Entities
    OBVIOUS
  <2> HIDE DEF x, y, l
  <2> QED
    BY <1>7, <1>8, <2>1, SetForm
<1>10. /\ rows \in Seq(ArchetypeRow) /\ Len(rows) = n + 1 /\ rows[n + 1] = entry
       /\ \A i \in 1 .. n : rows[i] = A[to][i]
       /\ EntityOf(rows) = Append(EntityOf(A[to]), e) /\ Len(EntityOf(A[to])) = n
  BY <1>3, EntityOfAppend, EntityOfForm
<1> HIDE DEF A, x, n, entry, y, rows, B, F
<1>11. B \in [Archetype -> Seq(ArchetypeRow)] /\ B[to] = rows
       /\ \A ds \in Archetype : ds # to => B[ds] = A[ds]
  BY <1>3, <1>10 DEF B
<1>12. ArchOK(B, F, b, q)
  <2>1. ASSUME NEW ds \in Archetype PROVE Listed(EntityOf(B[ds]), With(F, b, ds), q)
    <3>1. Listed(EntityOf(A[ds]), With(E, a, ds), r)
      BY DEF ArchOK, A
    <3>2. CASE ds = to
      <4>1. With(F, b, ds) = With(E, a, ds) \cup {e} /\ e \notin With(E, a, ds)
        BY <1>5, <3>2 DEF With, F
      <4>2. \A f \in With(E, a, ds) : q[f] = r[f]
        BY <1>5 DEF With
      <4>3. PICK s, G, z : s = EntityOf(A[ds]) /\ G = With(E, a, ds) /\ z = EntityOf(B[ds])
        OBVIOUS
      <4>4. z = Append(s, e) /\ q[e] = Len(s) + 1
        BY <1>5, <1>10, <1>11, <3>2, <4>3
      <4>5. Listed(s, G, r) /\ e \notin G /\ \A f \in G : q[f] = r[f]
        BY <3>1, <4>1, <4>2, <4>3
      <4>6. Listed(z, G \cup {e}, q)
        BY <4>4, <4>5, ListedAppend
      <4> QED
        BY <4>1, <4>3, <4>6
    <3>3. CASE ds # to
      <4>1. With(F, b, ds) = With(E, a, ds) /\ \A f \in With(E, a, ds) : q[f] = r[f]
        BY <1>5, <3>3 DEF With, F
      <4> QED
        BY <1>11, <3>1, <3>3, <4>1, ListedSame
    <3> QED
      BY <3>2, <3>3
  <2> QED
    BY <1>11, <2>1 DEF ArchOK
<1>13. ASSUME NEW f \in E PROVE B[b[f]][q[f]] = A[a[f]][r[f]]
  <2>1. CASE a[f] = to
    BY <1>2, <1>4, <1>5, <1>10, <1>11, <2>1 DEF n
  <2>2. CASE a[f] # to
    BY <1>4, <1>5, <1>11, <2>2
  <2> QED
    BY <2>1, <2>2
<1>14. Linked(B, F, b, q, u)
  <2>1. B[b[e]][q[e]].table_row = u[e]
    BY <1>3, <1>5, <1>10, <1>11
  <2>2. ASSUME NEW f \in E PROVE B[b[f]][q[f]].table_row = u[f]
    BY <1>5, <1>13 DEF Linked, A
  <2> QED
    BY <2>1, <2>2 DEF Linked, F
<1>15. Located(y, F, b, q, u)
  <2>1. ASSUME NEW f \in F
        PROVE  /\ Known(y, f.index) /\ y.meta[f.index].generation = f.generation
               /\ y.meta[f.index].location
                    = [archetype |-> b[f], row |-> q[f], table_row |-> u[f]]
    <3>1. CASE f = e
      <4>1. y.meta[e.index].location = l /\ y.meta[e.index].generation = e.generation
        BY <1>8, <1>9 DEF x
      <4> QED
        BY <1>5, <1>8, <1>9, <3>1, <4>1 DEF Known
    <3>2. CASE f # e
      <4>1. f \in E /\ f.index # e.index
        BY <3>2, IndexOfItsOwn DEF F
      <4>2. /\ f.index \in 1 .. Len(x.meta) /\ x.meta[f.index].generation = f.generation
            /\ x.meta[f.index].location
                 = [archetype |-> a[f], row |-> r[f], table_row |-> t[f]]
        BY <4>1 DEF Located, x, Known
      <4> QED
        BY <1>5, <1>9, <4>1, <4>2 DEF Known
    <3> QED
      BY <3>1, <3>2
  <2> QED
    BY <1>4, <2>1 DEF Located, F
<1>16. LocationsOf(x, y, {e})
  BY <1>9 DEF LocationsOf
<1> QED
  BY <1>1, <1>6, <1>12, <1>14, <1>15, <1>16 DEF Rows, OnlyRows, LocationsOf, F, x

-----------------------------------------------------------------------------
(***************************************************************************)
(* The entity that was moved into row k of a table is told, and its row in *)
(* an archetype.  The table has it in that row already.                    *)
(***************************************************************************)
LEMMA TableForm ==
  ASSUME NEW T, NEW E, NEW b, NEW t, TableOK(T, E, b, t), NEW ts \in SUBSET TableComponents
  PROVE  /\ Len(T[ts].entities) \in Nat /\ IsTable(T[ts], ts)
         /\ \A e \in E : b[e] = ts => t[e] \in 1 .. Len(T[ts].entities) /\ T[ts].entities[t[e]] = e
         /\ \A i \in 1 .. Len(T[ts].entities) :
              /\ T[ts].entities[i] \in E /\ b[T[ts].entities[i]] = ts
              /\ t[T[ts].entities[i]] = i
<1>1. Listed(T[ts].entities, With(E, b, ts), t) /\ IsTable(T[ts], ts)
  BY DEF TableOK
<1>2. \A i \in 1 .. Len(T[ts].entities) : T[ts].entities[i] \in With(E, b, ts)
  BY <1>1 DEF Listed
<1> QED
  BY <1>1, <1>2 DEF Listed, With

Told(E, a, t, ts, n, k) == [f \in E |-> IF TableOf(a[f]) = ts /\ t[f] = n THEN k ELSE t[f]]

LEMMA TellMovedForm ==
  ASSUME NEW w, NEW E, NEW a, NEW r, NEW t, Rows(w, E, a, r, t),
         NEW ts \in SUBSET TableComponents, NEW k \in Nat, k >= 1,
         NEW u, u = Told(E, a, t, ts, Len(w.table[ts].entities) + 1, k),
         TableOK(w.table, E, TablesOf(E, a), u),
         NEW v, v = TellMoved(w, ts, k)
  PROVE  Rows(v, E, a, r, u) /\ OnlyRows(w, v, E)
<1>0. /\ IsWorld(w) /\ w.ents \in Entities /\ Rowed(E, a, r, t)
      /\ ArchOK(w.arch, E, a, r) /\ Linked(w.arch, E, a, r, t) /\ Located(w.ents, E, a, r, t)
  BY DEF Rows
<1> USE <1>0
<1> DEFINE A == w.arch
           x == w.ents
           n == Len(w.table[ts].entities)
           m == w.table[ts].entities[k]
<1>1. \A f \in E : a[f] \in Archetype /\ r[f] \in Nat /\ t[f] \in Nat /\ TablesOf(E, a)[f] = TableOf(a[f])
  BY DEF Rowed, TablesOf
<1>2. /\ Rowed(E, a, r, u)
      /\ \A f \in E : u[f] = IF TableOf(a[f]) = ts /\ t[f] = n + 1 THEN k ELSE t[f]
  BY <1>1 DEF Rowed, Told
<1>3. /\ n \in Nat
      /\ \A f \in E : TableOf(a[f]) = ts =>
           u[f] \in 1 .. n /\ w.table[ts].entities[u[f]] = f
      /\ \A i \in 1 .. n : /\ w.table[ts].entities[i] \in E
                           /\ TableOf(a[w.table[ts].entities[i]]) = ts
                           /\ u[w.table[ts].entities[i]] = i
  <2>1. /\ Len(w.table[ts].entities) \in Nat
        /\ \A e \in E : TablesOf(E, a)[e] = ts =>
             u[e] \in 1 .. Len(w.table[ts].entities) /\ w.table[ts].entities[u[e]] = e
        /\ \A i \in 1 .. Len(w.table[ts].entities) :
              /\ w.table[ts].entities[i] \in E /\ TablesOf(E, a)[w.table[ts].entities[i]] = ts
              /\ u[w.table[ts].entities[i]] = i
    BY TableForm
  <2> QED
    BY <1>1, <2>1
<1>4. CASE k > n
  <2>1. v = w
    BY <1>4 DEF TellMoved
  <2>2. \A f \in E : u[f] = t[f]
    BY <1>2, <1>3, <1>4
  <2>3. Located(v.ents, E, a, r, u) /\ Linked(v.arch, E, a, r, u)
    BY <2>1, <2>2 DEF Located, Linked
  <2> QED
    BY <1>2, <2>1, <2>3, LocationsItself DEF Rows, OnlyRows
<1>5. CASE ~(k > n)
  <2>1. m \in E /\ TableOf(a[m]) = ts /\ u[m] = k /\ k \in 1 .. n
    BY <1>3, <1>5
  <2>2. /\ m.index \in 1 .. Len(x.meta) /\ x.meta[m.index].generation = m.generation
        /\ x.meta[m.index].location = [archetype |-> a[m], row |-> r[m], table_row |-> t[m]]
        /\ E \subseteq Entity
    BY <2>1 DEF Located, Known
  <2> DEFINE cs == a[m]
             i == r[m]
             l == [archetype |-> cs, row |-> i, table_row |-> k]
             y == set(x, m.index, l)
             entry == [A[cs][i] EXCEPT !.table_row = k]
             rows == [A[cs] EXCEPT ![i] = entry]
             B == [A EXCEPT ![cs] = rows]
  <2>3. /\ \A ds \in Archetype : A[ds] \in Seq(ArchetypeRow) /\ Len(A[ds]) \in Nat
        /\ \A f \in E : /\ r[f] \in 1 .. Len(A[a[f]]) /\ A[a[f]][r[f]].entity = f
                        /\ A[a[f]][r[f]] \in ArchetypeRow
    BY ArchForm
  <2>4. A \in [Archetype -> Seq(ArchetypeRow)] /\ cs \in Archetype /\ i \in 1 .. Len(A[cs])
        /\ A[cs] \in Seq(ArchetypeRow) /\ A[cs][i] \in ArchetypeRow /\ A[cs][i].entity = m
    BY <1>1, <2>1, <2>3 DEF ArchOK
  <2>5. IsWorld(v) /\ v.ents = y /\ v.arch = B /\ v.table = w.table /\ v.sparse = w.sparse
    <3>1. Place(w, m) = [archetype |-> cs, row |-> i, table_row |-> t[m]]
      BY <2>2 DEF Place, Location
    <3> HIDE DEF cs, i
    <3>2. PICK p : p = Place(w, m)
      OBVIOUS
    <3>3. p.archetype = cs /\ p.row = i /\ [p EXCEPT !.table_row = k] = l
      BY <3>1, <3>2
    <3>4. v = [w EXCEPT !.ents = set(@, m.index, [p EXCEPT !.table_row = k]),
                        !.arch[p.archetype][p.row].table_row = k]
      BY <1>5, <3>2 DEF TellMoved
    <3>5. v = [w EXCEPT !.ents = y, !.arch = B]
      BY <3>3, <3>4 DEF IsWorld
    <3> HIDE DEF y, B
    <3> QED
      BY <3>5 DEF IsWorld
  <2>6. l \in Places
    BY <1>1, <2>1 DEF Places
  <2>7. /\ y \in Entities /\ y.pending = x.pending /\ y.cursor = x.cursor
        /\ Len(y.meta) = Len(x.meta)
        /\ \A j \in 1 .. Len(x.meta) :
             /\ y.meta[j].generation = x.meta[j].generation
             /\ y.meta[j].location = IF j = m.index THEN l ELSE x.meta[j].location
             /\ j # m.index => y.meta[j] = x.meta[j]
    <3>1. y = set(x, m.index, l) /\ x \in Entities
      OBVIOUS
    <3> HIDE DEF x, m, y, l
    <3> QED
      BY <2>2, <2>6, <3>1, SetForm
  <2>8. entry \in ArchetypeRow /\ entry.entity = m /\ entry.table_row = k
    BY <2>4 DEF ArchetypeRow
  <2>9. /\ rows \in Seq(ArchetypeRow) /\ Len(rows) = Len(A[cs])
        /\ \A j \in 1 .. Len(A[cs]) : rows[j] = IF j = i THEN entry ELSE A[cs][j]
    <3> HIDE DEF A, cs, i, entry
    <3> QED
      BY <2>4, <2>8
  <2>10. \A f \in E : u[f] = IF f = m THEN k ELSE t[f]
    BY <1>2, <1>3, <2>1
  <2> HIDE DEF A, x, n, m, cs, i, y, entry, rows, B
  <2>11. /\ B \in [Archetype -> Seq(ArchetypeRow)] /\ B[cs] = rows
         /\ \A ds \in Archetype : ds # cs => B[ds] = A[ds]
    BY <2>4, <2>9 DEF B
  <2>12. ASSUME NEW ds \in Archetype PROVE EntityOf(B[ds]) = EntityOf(A[ds])
    BY <2>4, <2>8, <2>9, <2>11 DEF EntityOf
  <2>13. ArchOK(B, E, a, r)
    BY <2>11, <2>12 DEF ArchOK, A
  <2>14. Linked(B, E, a, r, u)
    <3>1. ASSUME NEW f \in E PROVE B[a[f]][r[f]].table_row = u[f]
      <4>1. CASE f = m
        BY <2>4, <2>8, <2>9, <2>10, <2>11, <4>1 DEF cs, i
      <4>2. CASE f # m
        <5>1. A[a[f]][r[f]].table_row = t[f]
          BY DEF Linked, A
        <5>2. B[a[f]][r[f]] = A[a[f]][r[f]]
          BY <1>1, <2>3, <2>4, <2>9, <2>11, <4>2 DEF cs, i
        <5> QED
          BY <2>10, <4>2, <5>1, <5>2
      <4> QED
        BY <4>1, <4>2
    <3> QED
      BY <3>1 DEF Linked
  <2>15. Located(y, E, a, r, u)
    <3>1. ASSUME NEW f \in E
          PROVE  /\ Known(y, f.index) /\ y.meta[f.index].generation = f.generation
                 /\ y.meta[f.index].location
                      = [archetype |-> a[f], row |-> r[f], table_row |-> u[f]]
      <4>1. /\ f.index \in 1 .. Len(x.meta) /\ x.meta[f.index].generation = f.generation
            /\ x.meta[f.index].location
                 = [archetype |-> a[f], row |-> r[f], table_row |-> t[f]]
        BY DEF Located, x, Known
      <4>2. CASE f = m
        BY <2>7, <2>10, <4>1, <4>2 DEF Known, cs, i
      <4>3. CASE f # m
        <5>1. f.index # m.index
          BY <2>1, <4>3, OnePerIndex
        <5> QED
          BY <2>7, <2>10, <4>1, <4>3, <5>1 DEF Known
      <4> QED
        BY <4>2, <4>3
    <3> QED
      BY <2>2, <3>1 DEF Located
  <2>16. LocationsOf(x, y, E)
    BY <2>1, <2>7 DEF LocationsOf
  <2> QED
    BY <1>2, <2>5, <2>13, <2>14, <2>15, <2>16 DEF Rows, OnlyRows, LocationsOf, x
<1> QED
  BY <1>4, <1>5

-----------------------------------------------------------------------------
(***************************************************************************)
(* Rows of tables, with what is in them.                                   *)
(***************************************************************************)
CellOf(T, b, t, e, c) == T[b[e]].column[c][t[e]]

\* Every entity of E has what it had.
SameCells(T, b, t, U, d, u, E) ==
  \A e \in E : \A c \in b[e] : d[e] = b[e] /\ CellOf(U, d, u, e, c) = CellOf(T, b, t, e, c)

LEMMA IsTableForm ==
  ASSUME NEW ts, NEW s, NEW z, z \in Columns(ts), \A c \in ts : Len(z[c]) = Len(s)
  PROVE  IsTable([entities |-> s, column |-> z], ts)
BY DEF IsTable

InTables(E, b, t) == \A e \in E : b[e] \in SUBSET TableComponents /\ t[e] \in Nat

RowTaken(x, ts, k) == [entities |-> WithoutRow(x.entities, k),
                       column   |-> [c \in ts |-> WithoutRow(x.column[c], k)]]

RowGiven(x, ts, e, z) == [entities |-> Append(x.entities, e),
                          column   |-> [c \in ts |-> Append(x.column[c], z[c])]]

TablesWithout(T, ts, k) == [T EXCEPT ![ts] = RowTaken(T[ts], ts, k)]

TablesWith(T, ts, e, z) == [T EXCEPT ![ts] = RowGiven(T[ts], ts, e, z)]

\* The columns `ts` of e hold x.
Holds(T, b, t, e, ts, x) == \A c \in ts : CellOf(T, b, t, e, c) = x[c]

\* Of all tables only that of `ts` was changed, and has n rows.
OnlyTable(T, U, ts, n) ==
  /\ Len(U[ts].entities) = n
  /\ \A ds \in SUBSET TableComponents : ds # ts => U[ds] = T[ds]

LEMMA WithoutTableRow ==
  ASSUME NEW T, NEW E, NEW b, NEW t, TableOK(T, E, b, t), InTables(E, b, t),
         NEW e \in E, NEW ts, ts = b[e], NEW k, k = t[e],
         NEW U, U = TablesWithout(T, ts, k),
         NEW u, u = RowsBehind(E, e, b, t, Len(T[ts].entities))
  PROVE  /\ TableOK(U, E \ {e}, b, u) /\ InTables(E \ {e}, b, u)
         /\ SameCells(T, b, t, U, b, u, E \ {e})
         /\ OnlyTable(T, U, ts, Len(T[ts].entities) - 1)
<1> DEFINE s == T[ts].entities
           n == Len(s)
           F == E \ {e}
           x == RowTaken(T[ts], ts, k)
<1>1. ts \in SUBSET TableComponents
  BY DEF InTables
<1>2. /\ n \in Nat /\ IsTable(T[ts], ts)
      /\ \A f \in E : b[f] = ts => t[f] \in 1 .. n /\ s[t[f]] = f
  BY <1>1, TableForm
<1>3. /\ Listed(s, With(E, b, ts), t) /\ e \in With(E, b, ts) /\ k \in 1 .. n
      /\ s \in Seq(With(E, b, ts))
  BY <1>1, <1>2 DEF TableOK, With, Listed
<1>4. /\ WithoutRow(s, k) \in Seq(With(E, b, ts)) /\ Len(WithoutRow(s, k)) = n - 1
  <2> HIDE DEF s
  <2> QED
    BY <1>3, WithoutRowForm
<1>5. \A f \in F : u[f] = IF b[f] = ts THEN NewRow(t[f], k, n) ELSE t[f]
  BY DEF RowsBehind
<1>6. InTables(F, b, u)
  BY <1>3, <1>5 DEF InTables, NewRow
<1>7. /\ U = [ds \in SUBSET TableComponents |-> U[ds]] /\ U[ts] = x
      /\ \A ds \in SUBSET TableComponents : ds # ts => U[ds] = T[ds]
  <2>1. T = [ds \in SUBSET TableComponents |-> T[ds]]
    BY DEF TableOK
  <2> QED
    BY <1>1, <2>1 DEF TablesWithout
<1>8. ASSUME NEW c \in ts
      PROVE  /\ T[ts].column[c] \in Seq(Cell) /\ Len(T[ts].column[c]) = n
             /\ WithoutRow(T[ts].column[c], k) \in Seq(Cell)
             /\ Len(WithoutRow(T[ts].column[c], k)) = n - 1
             /\ \A i \in 1 .. n : i # k => WithoutRow(T[ts].column[c], k)[NewRow(i, k, n)]
                                             = T[ts].column[c][i]
  <2>1. PICK z : z = T[ts].column[c]
    OBVIOUS
  <2>2. z \in Seq(Cell) /\ Len(z) = n
    BY <1>2, <2>1 DEF IsTable, Columns
  <2>3. k \in 1 .. Len(z)
    BY <1>3, <2>2
  <2>4. WithoutRow(z, k) \in Seq(Cell) /\ Len(WithoutRow(z, k)) = n - 1
    BY <2>2, <2>3, WithoutRowForm
  <2>5. ASSUME NEW i \in 1 .. n, i # k PROVE WithoutRow(z, k)[NewRow(i, k, n)] = z[i]
    <3>1. i \in 1 .. Len(z)
      BY <2>2
    <3> QED
      BY <2>2, <2>3, <2>5, <3>1, RowsKept
  <2> QED
    BY <2>1, <2>2, <2>4, <2>5
<1> HIDE DEF s, n, F
<1>9. IsTable(x, ts) /\ x.entities = WithoutRow(s, k)
      /\ \A c \in ts : x.column[c] = WithoutRow(T[ts].column[c], k)
  <2>1. PICK z : z = [c \in ts |-> WithoutRow(T[ts].column[c], k)]
    OBVIOUS
  <2>2. z \in Columns(ts) /\ \A c \in ts : Len(z[c]) = Len(WithoutRow(s, k))
    BY <1>4, <1>8, <2>1 DEF Columns
  <2>3. x = [entities |-> WithoutRow(s, k), column |-> z]
    BY <2>1 DEF s, RowTaken
  <2>4. IsTable([entities |-> WithoutRow(s, k), column |-> z], ts)
    BY <2>2, IsTableForm
  <2> QED
    BY <2>1, <2>3, <2>4
<1>10. ASSUME NEW ds \in SUBSET TableComponents
       PROVE  IsTable(U[ds], ds) /\ Listed(U[ds].entities, With(F, b, ds), u)
  <2>1. CASE ds = ts
    <3>1. With(F, b, ds) = With(E, b, ds) \ {e}
      BY DEF With, F
    <3>2. PICK G, z : G = With(E, b, ts) /\ z = WithoutRow(s, k)
      OBVIOUS
    <3>3. Listed(s, G, t) /\ e \in G /\ z = WithoutRow(s, t[e])
      BY <1>3, <3>2
    <3>4. \A f \in G \ {e} : u[f] = NewRow(t[f], t[e], Len(s))
      BY <1>5, <3>2 DEF With, F, n
    <3>5. Listed(z, G \ {e}, u)
      BY <3>3, <3>4, ListedRemove
    <3> QED
      BY <1>7, <1>9, <2>1, <3>1, <3>2, <3>5
  <2>2. CASE ds # ts
    <3>1. Listed(T[ds].entities, With(E, b, ds), t) /\ IsTable(T[ds], ds)
      BY DEF TableOK
    <3>2. With(F, b, ds) = With(E, b, ds) /\ \A f \in With(E, b, ds) : u[f] = t[f]
      BY <1>5, <2>2 DEF With, F
    <3>3. Listed(T[ds].entities, With(F, b, ds), u)
      BY <3>1, <3>2, ListedSame
    <3> QED
      BY <1>7, <2>2, <3>1, <3>3
  <2> QED
    BY <2>1, <2>2
<1>11. TableOK(U, F, b, u)
  BY <1>7, <1>10 DEF TableOK
<1>12. ASSUME NEW f \in F, NEW c \in b[f] PROVE CellOf(U, b, u, f, c) = CellOf(T, b, t, f, c)
  <2>1. CASE b[f] = ts
    <3>1. t[f] \in 1 .. n /\ t[f] # k
      BY <1>2, <2>1 DEF F, s
    <3>2. /\ u[f] = NewRow(t[f], k, n) /\ U[ts].column[c] = WithoutRow(T[ts].column[c], k)
          /\ c \in ts
      BY <1>5, <1>7, <1>9, <2>1
    <3>3. WithoutRow(T[ts].column[c], k)[NewRow(t[f], k, n)] = T[ts].column[c][t[f]]
      BY <1>8, <3>1, <3>2
    <3> QED
      BY <2>1, <3>2, <3>3 DEF CellOf
  <2>2. CASE b[f] # ts
    <3>1. b[f] \in SUBSET TableComponents
      BY DEF F, InTables
    <3> QED
      BY <1>5, <1>7, <2>2, <3>1 DEF CellOf
  <2> QED
    BY <2>1, <2>2
<1> QED
  BY <1>4, <1>6, <1>7, <1>9, <1>11, <1>12 DEF SameCells, OnlyTable, F, n, s

LEMMA WithTableRow ==
  ASSUME NEW T, NEW E, NEW b, NEW t, TableOK(T, E, b, t), InTables(E, b, t),
         NEW e, e \notin E, NEW ts \in SUBSET TableComponents,
         NEW x \in [ts -> Cell],
         NEW U, U = TablesWith(T, ts, e, x),
         NEW d, d = Put(b, E, e, ts), NEW u, u = Put(t, E, e, Len(T[ts].entities) + 1)
  PROVE  /\ TableOK(U, E \cup {e}, d, u)
         /\ InTables(E \cup {e}, d, u)
         /\ SameCells(T, b, t, U, d, u, E)
         /\ Holds(U, d, u, e, ts, x)
         /\ OnlyTable(T, U, ts, Len(T[ts].entities) + 1)
<1> DEFINE s == T[ts].entities
           n == Len(s)
           F == E \cup {e}
<1>1. /\ n \in Nat /\ IsTable(T[ts], ts) /\ Listed(s, With(E, b, ts), t)
      /\ \A f \in E : b[f] = ts => t[f] \in 1 .. n /\ s[t[f]] = f
  <2>1. Listed(T[ts].entities, With(E, b, ts), t)
    BY DEF TableOK
  <2>2. /\ Len(T[ts].entities) \in Nat /\ IsTable(T[ts], ts)
        /\ \A f \in E : b[f] = ts => t[f] \in 1 .. Len(T[ts].entities) /\ T[ts].entities[t[f]] = f
    BY TableForm
  <2> QED
    BY <2>1, <2>2
<1>2. /\ d[e] = ts /\ u[e] = n + 1
      /\ \A f \in E : f # e /\ d[f] = b[f] /\ u[f] = t[f]
      /\ InTables(F, d, u)
  BY <1>1 DEF Put, InTables
<1>3. s \in Seq(With(E, b, ts)) /\ Len(Append(s, e)) = n + 1
  BY <1>1 DEF Listed
<1>4. ASSUME NEW c \in ts
      PROVE  /\ Append(T[ts].column[c], x[c]) \in Seq(Cell)
             /\ Len(Append(T[ts].column[c], x[c])) = n + 1
             /\ Append(T[ts].column[c], x[c])[n + 1] = x[c]
             /\ \A i \in 1 .. n : Append(T[ts].column[c], x[c])[i] = T[ts].column[c][i]
  <2>1. PICK z : z = T[ts].column[c]
    OBVIOUS
  <2>2. z \in Seq(Cell) /\ Len(z) = n /\ x[c] \in Cell
    BY <1>1, <2>1 DEF IsTable, Columns
  <2> HIDE DEF n
  <2> QED
    BY <2>1, <2>2
<1> DEFINE z == [c \in ts |-> Append(T[ts].column[c], x[c])]
           y == [entities |-> Append(s, e), column |-> z]
<1>5. \A c \in ts : z[c] = Append(T[ts].column[c], x[c])
  OBVIOUS
<1>6. z \in Columns(ts)
  BY <1>4 DEF Columns
<1>7. y.entities = Append(s, e) /\ y.column = z /\ U = [T EXCEPT ![ts] = y]
  BY DEF TablesWith, RowGiven
<1> HIDE DEF s, n, F, z
<1>8. IsTable(y, ts)
  BY <1>3, <1>4, <1>5, <1>6, IsTableForm
<1> HIDE DEF y
<1>9. /\ U = [ds \in SUBSET TableComponents |-> U[ds]] /\ U[ts] = y
      /\ \A ds \in SUBSET TableComponents : ds # ts => U[ds] = T[ds]
  <2>1. T = [ds \in SUBSET TableComponents |-> T[ds]]
    BY DEF TableOK
  <2> QED
    BY <1>7, <2>1
<1>10. ASSUME NEW ds \in SUBSET TableComponents
       PROVE  IsTable(U[ds], ds) /\ Listed(U[ds].entities, With(F, d, ds), u)
  <2>1. CASE ds = ts
    <3>1. With(F, d, ds) = With(E, b, ts) \cup {e} /\ e \notin With(E, b, ts)
      BY <1>2, <2>1 DEF With, F
    <3>2. PICK G, q : G = With(E, b, ts) /\ q = Append(s, e)
      OBVIOUS
    <3>3. Listed(s, G, t) /\ e \notin G /\ u[e] = Len(s) + 1 /\ \A f \in G : u[f] = t[f]
      BY <1>1, <1>2, <3>1, <3>2 DEF With, n
    <3>4. Listed(q, G \cup {e}, u)
      BY <3>2, <3>3, ListedAppend
    <3> QED
      BY <1>7, <1>8, <1>9, <2>1, <3>1, <3>2, <3>4
  <2>2. CASE ds # ts
    <3>1. Listed(T[ds].entities, With(E, b, ds), t) /\ IsTable(T[ds], ds)
      BY DEF TableOK
    <3>2. With(F, d, ds) = With(E, b, ds) /\ \A f \in With(E, b, ds) : u[f] = t[f]
      BY <1>2, <2>2 DEF With, F
    <3>3. Listed(T[ds].entities, With(E, b, ds), u)
      BY <3>1, <3>2, ListedSame
    <3> QED
      BY <1>9, <2>2, <3>1, <3>2, <3>3
  <2> QED
    BY <2>1, <2>2
<1>11. TableOK(U, F, d, u)
  BY <1>9, <1>10 DEF TableOK
<1>12. ASSUME NEW f \in E, NEW c \in b[f]
       PROVE  d[f] = b[f] /\ CellOf(U, d, u, f, c) = CellOf(T, b, t, f, c)
  <2>1. b[f] \in SUBSET TableComponents /\ d[f] = b[f] /\ u[f] = t[f]
    BY <1>2 DEF InTables
  <2>2. CASE b[f] = ts
    BY <1>1, <1>4, <1>5, <1>7, <1>9, <2>1, <2>2, SMTT(20) DEF CellOf
  <2>3. CASE b[f] # ts
    BY <1>9, <2>1, <2>3 DEF CellOf
  <2> QED
    BY <2>1, <2>2, <2>3
<1>13. \A c \in ts : CellOf(U, d, u, e, c) = x[c]
  BY <1>2, <1>4, <1>5, <1>7, <1>9 DEF CellOf
<1> QED
  BY <1>2, <1>3, <1>7, <1>9, <1>11, <1>12, <1>13 DEF SameCells, OnlyTable, Holds, F, n, s

LEMMA TableOKSame ==
  ASSUME NEW T, NEW E, NEW b, NEW t, TableOK(T, E, b, t), NEW d, NEW u,
         \A e \in E : d[e] = b[e] /\ u[e] = t[e]
  PROVE  TableOK(T, E, d, u)
<1>1. ASSUME NEW ts \in SUBSET TableComponents PROVE Listed(T[ts].entities, With(E, d, ts), u)
  <2>1. Listed(T[ts].entities, With(E, b, ts), t)
    BY DEF TableOK
  <2>2. With(E, d, ts) = With(E, b, ts) /\ \A e \in With(E, b, ts) : u[e] = t[e]
    BY DEF With
  <2> QED
    BY <2>1, <2>2, ListedSame
<1> QED
  BY <1>1 DEF TableOK

\* The row of e was moved to table `to`, with the columns that both have.
RowMoved(w, v, E, b, t, d, u, e, to) ==
  /\ IsWorld(v) /\ v.ents = w.ents /\ v.arch = w.arch /\ v.sparse = w.sparse
  /\ TableOK(v.table, E, d, u)
  /\ SameCells(w.table, b, t, v.table, d, u, E \ {e})
  /\ \A c \in b[e] \cap to : CellOf(v.table, d, u, e, c) = CellOf(w.table, b, t, e, c)
  /\ Len(v.table[to].entities) = Len(w.table[to].entities) + 1
  /\ Len(v.table[b[e]].entities) = Len(w.table[b[e]].entities) - 1

LEMMA MoveTableRowForm ==
  ASSUME NEW w, IsWorld(w), NEW E, NEW b, NEW t, TableOK(w.table, E, b, t), InTables(E, b, t),
         NEW e \in E, NEW from, from = b[e], NEW k, k = t[e],
         NEW to \in SUBSET TableComponents, to # from,
         NEW v, v = MoveTableRow(w, from, k, to),
         NEW q, q = RowsBehind(E, e, b, t, Len(w.table[from].entities)),
         NEW d, d = Put(b, E \ {e}, e, to),
         NEW u, u = Put(q, E \ {e}, e, Len(w.table[to].entities) + 1)
  PROVE  RowMoved(w, v, E, b, t, d, u, e, to)
<1>1. /\ from \in SUBSET TableComponents /\ IsTable(w.table[from], from)
      /\ k \in 1 .. Len(w.table[from].entities) /\ w.table[from].entities[k] = e
  <2>1. from \in SUBSET TableComponents
    BY DEF InTables
  <2> QED
    BY <2>1, TableForm
<1>2. PICK T : T = w.table
  OBVIOUS
<1>4. PICK W : W = TablesWithout(T, from, k)
  OBVIOUS
<1>5. PICK x : x = [c \in to |-> IF c \in from THEN T[from].column[c][k] ELSE Uninit]
  OBVIOUS
<1>6. PICK U : U = TablesWith(W, to, e, x)
  OBVIOUS
<1>7. IsWorld(v) /\ v.ents = w.ents /\ v.arch = w.arch /\ v.sparse = w.sparse /\ v.table = U
  <2>1. \A c \in to : x[c] = IF c \in from THEN T[from].column[c][k] ELSE Uninit
    BY <1>5
  <2>2. PICK z : z = RemoveTableRow(w, from, k)
    OBVIOUS
  <2>3. IsWorld(z) /\ z.ents = w.ents /\ z.arch = w.arch /\ z.sparse = w.sparse /\ z.table = W
    BY <1>2, <1>4, <2>2 DEF IsWorld, RemoveTableRow, TablesWithout, RowTaken
  <2>4. v = [z EXCEPT !.table[to] =
               [entities |-> Append(@.entities, e),
                column   |-> [c \in to |-> Append(@.column[c],
                               IF c \in from THEN w.table[from].column[c][k] ELSE Uninit)]]]
    BY <1>1, <2>2 DEF MoveTableRow
  <2>5. [c \in to |-> Append(W[to].column[c],
                             IF c \in from THEN w.table[from].column[c][k] ELSE Uninit)]
          = [c \in to |-> Append(W[to].column[c], x[c])]
    BY <1>2, <2>1
  <2>6. v = [z EXCEPT !.table = U]
    BY <1>6, <2>3, <2>4, <2>5 DEF IsWorld, TablesWith, RowGiven
  <2> QED
    BY <2>3, <2>6 DEF IsWorld
<1>8. x \in [to -> Cell]
  <2>1. \A c \in from : T[from].column[c] \in Seq(Cell) /\ k \in 1 .. Len(T[from].column[c])
    BY <1>1, <1>2 DEF IsTable, Columns
  <2>2. \A c \in from : T[from].column[c][k] \in Cell
    BY <2>1
  <2> QED
    BY <1>5, <2>2 DEF Cell
<1> DEFINE F == E \ {e}
<1>9. /\ TableOK(W, F, b, q) /\ InTables(F, b, q) /\ SameCells(T, b, t, W, b, q, F)
      /\ OnlyTable(T, W, from, Len(T[from].entities) - 1)
  <2>1. /\ TableOK(T, E, b, t) /\ InTables(E, b, t) /\ e \in E /\ from = b[e] /\ k = t[e]
        /\ q = RowsBehind(E, e, b, t, Len(T[from].entities))
    BY <1>2
  <2> QED
    BY <1>4, <2>1, WithoutTableRow, Zenon
<1>10. u = Put(q, F, e, Len(W[to].entities) + 1) /\ d = Put(b, F, e, to) /\ e \notin F
  BY <1>1, <1>2, <1>9 DEF OnlyTable
<1>11. F \cup {e} = E
  OBVIOUS
<1> HIDE DEF F
<1>12. /\ TableOK(U, E, d, u) /\ InTables(E, d, u) /\ SameCells(W, b, q, U, d, u, F)
       /\ \A c \in to : CellOf(U, d, u, e, c) = x[c]
       /\ OnlyTable(W, U, to, Len(W[to].entities) + 1)
  <2>1. TableOK(W, F, b, q) /\ InTables(F, b, q) /\ e \notin F /\ x \in [to -> Cell]
    BY <1>8, <1>9, <1>10
  <2>2. /\ TableOK(U, F \cup {e}, d, u) /\ InTables(F \cup {e}, d, u)
        /\ SameCells(W, b, q, U, d, u, F)
        /\ Holds(U, d, u, e, to, x)
        /\ OnlyTable(W, U, to, Len(W[to].entities) + 1)
    BY <1>6, <1>10, <2>1, WithTableRow, Zenon
  <2> QED
    BY <1>11, <2>2 DEF Holds
<1>13. SameCells(T, b, t, U, d, u, F)
  BY <1>9, <1>12 DEF SameCells
<1>14. \A c \in from \cap to : CellOf(U, d, u, e, c) = CellOf(T, b, t, e, c)
  BY <1>5, <1>12 DEF CellOf
<1> QED
  BY <1>1, <1>2, <1>7, <1>9, <1>12, <1>13, <1>14 DEF RowMoved, OnlyTable, F

-----------------------------------------------------------------------------
(***************************************************************************)
(* The archetypes and tables of a world hold the entities E, each with its *)
(* archetype a[e].                                                         *)
(***************************************************************************)
StoredAt(w, E, a, r, t) == Rows(w, E, a, r, t) /\ TableOK(w.table, E, TablesOf(E, a), t)

Stored(w, E, a) == \E r, t : StoredAt(w, E, a, r, t)

\* What e has in its table, through its location.
TableValue(w, e, c) ==
  w.table[TableOf(Place(w, e).archetype)].column[c][Place(w, e).table_row]

KeepsColumns(w, v, e, cs) == \A c \in cs : TableValue(v, e, c) = TableValue(w, e, c)

KeepsTables(w, v, E, a) == \A e \in E : KeepsColumns(w, v, e, TableOf(a[e]))

LEMMA TableValueForm ==
  ASSUME NEW w, NEW E, NEW a, NEW r, NEW t, Rows(w, E, a, r, t), NEW e \in E, NEW c
  PROVE  TableValue(w, e, c) = CellOf(w.table, TablesOf(E, a), t, e, c)
<1>1. Place(w, e) = [archetype |-> a[e], row |-> r[e], table_row |-> t[e]]
  BY DEF Rows, Located, Place, Location
<1>2. Place(w, e).archetype = a[e] /\ Place(w, e).table_row = t[e]
  BY <1>1
<1> QED
  BY <1>2 DEF TableValue, CellOf, TablesOf

LEMMA TablesOfForm ==
  ASSUME NEW E, NEW a, NEW r, NEW t, Rowed(E, a, r, t)
  PROVE  /\ InTables(E, TablesOf(E, a), t)
         /\ \A e \in E : TablesOf(E, a)[e] = TableOf(a[e])
BY DEF Rowed, InTables, TablesOf, TableOf, Archetype, Components

LEMMA PlaceOf ==
  ASSUME NEW w, NEW E, NEW a, NEW r, NEW t, Rows(w, E, a, r, t), NEW e \in E
  PROVE  /\ Place(w, e) = [archetype |-> a[e], row |-> r[e], table_row |-> t[e]]
         /\ Place(w, e).archetype = a[e] /\ Place(w, e).row = r[e]
         /\ Place(w, e).table_row = t[e]
<1>1. Place(w, e) = [archetype |-> a[e], row |-> r[e], table_row |-> t[e]]
  BY DEF Rows, Located, Place, Location
<1> QED
  BY <1>1

\* The entity e leaves its archetype; its row in the table stays.
LEMMA LeaveArchetype ==
  ASSUME NEW w, NEW E, NEW a, NEW r, NEW t, Rows(w, E, a, r, t), NEW e \in E,
         NEW v, v = RemoveArchetypeRow(w, a[e], r[e]),
         NEW q, q = RowsBehind(E, e, a, r, Len(w.arch[a[e]]))
  PROVE  /\ Rows(v, E \ {e}, a, q, t) /\ OnlyRows(w, v, E \ {e})
         /\ Issued(v.ents, e)
<1>1. /\ IsWorld(w) /\ w.ents \in Entities /\ Rowed(E, a, r, t) /\ ArchOK(w.arch, E, a, r)
      /\ Located(w.ents, E \ {e}, a, r, t) /\ Linked(w.arch, E \ {e}, a, r, t)
  BY DEF Rows, Located, Linked
<1>2. Rows(v, E \ {e}, a, q, t) /\ OnlyRows(w, v, E \ {e})
  BY <1>1, RemoveArchetypeRowForm, Zenon
<1>3. /\ e \in Entity /\ e.index \in 1 .. Len(w.ents.meta)
      /\ w.ents.meta[e.index].generation = e.generation
  BY DEF Rows, Located, Known
<1>4. /\ Len(v.ents.meta) = Len(w.ents.meta)
      /\ v.ents.meta[e.index].generation = w.ents.meta[e.index].generation
  BY <1>2, <1>3 DEF OnlyRows, LocationsOf
<1> QED
  BY <1>2, <1>3, <1>4 DEF Issued, Known

LEMMA KeepsForm ==
  ASSUME NEW w, NEW v, NEW E, NEW F, NEW a, NEW b, NEW r, NEW t, NEW q, NEW u, NEW G,
         Rows(w, E, a, r, t), Rows(v, F, b, q, u), G \subseteq E, G \subseteq F,
         SameCells(w.table, TablesOf(E, a), t, v.table, TablesOf(F, b), u, G)
  PROVE  KeepsTables(w, v, G, a)
<1>1. ASSUME NEW e \in G, NEW c \in TableOf(a[e]) PROVE TableValue(v, e, c) = TableValue(w, e, c)
  <2>1. TablesOf(E, a)[e] = TableOf(a[e])
    BY DEF TablesOf
  <2>2. CellOf(v.table, TablesOf(F, b), u, e, c) = CellOf(w.table, TablesOf(E, a), t, e, c)
    BY <2>1 DEF SameCells
  <2>3. e \in E /\ e \in F
    OBVIOUS
  <2>4. TableValue(w, e, c) = CellOf(w.table, TablesOf(E, a), t, e, c)
    BY <2>3, TableValueForm
  <2>5. TableValue(v, e, c) = CellOf(v.table, TablesOf(F, b), u, e, c)
    BY <2>3, TableValueForm
  <2> QED
    BY <2>2, <2>4, <2>5
<1> QED
  BY <1>1 DEF KeepsTables, KeepsColumns

Moved(w, v, E, a, b, e, to) ==
  /\ Stored(v, E, b) /\ v.sparse = w.sparse /\ LocationsOf(w.ents, v.ents, E)
  /\ KeepsTables(w, v, E \ {e}, a)
  /\ KeepsColumns(w, v, e, TableOf(a[e]) \cap TableOf(to))

\* Between archetypes that share a table.
LEMMA MoveWithinTable ==
  ASSUME NEW w, NEW E, NEW a, NEW r, NEW t, StoredAt(w, E, a, r, t), NEW e \in E,
         NEW to \in Archetype, TableOf(a[e]) = TableOf(to),
         NEW b, b = Put(a, E \ {e}, e, to), NEW v, v = Move(w, e, to)
  PROVE  Moved(w, v, E, a, b, e, to)
<1> DEFINE F == E \ {e}
<1>1. /\ Rows(w, E, a, r, t) /\ TableOK(w.table, E, TablesOf(E, a), t)
      /\ Rowed(E, a, r, t)
  BY DEF StoredAt, Rows
<1>2. Place(w, e).archetype = a[e] /\ Place(w, e).row = r[e]
  BY <1>1, PlaceOf
<1>3. w.arch[a[e]][r[e]].table_row = t[e] /\ a[e] \in Archetype /\ t[e] \in Nat
  BY <1>1 DEF Rows, Linked, Rowed
<1>4. PICK left, q : /\ left = RemoveArchetypeRow(w, a[e], r[e])
                     /\ q = RowsBehind(E, e, a, r, Len(w.arch[a[e]]))
  OBVIOUS
<1>5. v = AllocateRow(left, to, e, t[e])
  BY <1>2, <1>3, <1>4 DEF Move
<1>6. /\ Rows(left, F, a, q, t) /\ OnlyRows(w, left, F)
      /\ Issued(left.ents, e)
  BY <1>1, <1>4, LeaveArchetype, Zenon
<1>7. PICK y, u : y = Put(q, F, e, Len(left.arch[to]) + 1) /\ u = Put(t, F, e, t[e])
  OBVIOUS
<1>8. e \notin F /\ F \cup {e} = E /\ F \subseteq E
  OBVIOUS
<1> HIDE DEF F
<1>9. b = Put(a, F, e, to)
  BY DEF F
<1>10. Rows(v, F \cup {e}, b, y, u) /\ OnlyRows(left, v, {e})
  BY <1>3, <1>5, <1>6, <1>7, <1>8, <1>9, AllocateRowForm, ZenonT(30)
<1>11. Rows(v, E, b, y, u) /\ OnlyRows(left, v, {e})
  BY <1>8, <1>10
<1>12. /\ \A f \in E : u[f] = t[f] /\ TableOf(b[f]) = TableOf(a[f])
       /\ \A f \in E : TablesOf(E, b)[f] = TablesOf(E, a)[f]
  BY <1>7, <1>8, <1>9 DEF Put, TablesOf
<1>13. v.table = w.table /\ v.sparse = w.sparse
  BY <1>6, <1>11 DEF OnlyRows
<1>14. TableOK(v.table, E, TablesOf(E, b), u)
  <2>1. TableOK(v.table, E, TablesOf(E, a), t)
    BY <1>1, <1>13
  <2> QED
    BY <1>12, <2>1, TableOKSame
<1>15. LocationsOf(w.ents, v.ents, E)
  BY <1>6, <1>8, <1>11, LocationsTwice DEF OnlyRows
<1>17. SameCells(w.table, TablesOf(E, a), t, v.table, TablesOf(E, b), u, E)
  BY <1>12, <1>13 DEF SameCells, CellOf
<1>18. KeepsTables(w, v, E, a)
  BY <1>1, <1>11, <1>17, KeepsForm
<1> QED
  BY <1>11, <1>13, <1>14, <1>15, <1>18 DEF Moved, Stored, StoredAt, KeepsTables, KeepsColumns

\* Between archetypes with different tables.
LEMMA MoveBetweenTables ==
  ASSUME NEW w, NEW E, NEW a, NEW r, NEW t, StoredAt(w, E, a, r, t), NEW e \in E,
         NEW to \in Archetype, TableOf(a[e]) # TableOf(to),
         NEW b, b = Put(a, E \ {e}, e, to), NEW v, v = Move(w, e, to)
  PROVE  Moved(w, v, E, a, b, e, to)
<1> DEFINE F == E \ {e}
<1>1. /\ Rows(w, E, a, r, t) /\ TableOK(w.table, E, TablesOf(E, a), t)
      /\ Rowed(E, a, r, t)
  BY DEF StoredAt, Rows
<1>2. Place(w, e).archetype = a[e] /\ Place(w, e).row = r[e]
  BY <1>1, PlaceOf
<1>3. /\ w.arch[a[e]][r[e]].table_row = t[e] /\ a[e] \in Archetype /\ t[e] \in Nat
      /\ InTables(E, TablesOf(E, a), t)
      /\ \A f \in E : TablesOf(E, a)[f] = TableOf(a[f])
  BY <1>1, TablesOfForm DEF Rows, Linked, Rowed
<1>4. PICK left, q : /\ left = RemoveArchetypeRow(w, a[e], r[e])
                     /\ q = RowsBehind(E, e, a, r, Len(w.arch[a[e]]))
  OBVIOUS
<1>5. PICK from, target, k, g : /\ from = TableOf(a[e]) /\ target = TableOf(to)
                                /\ k = t[e] /\ g = TablesOf(E, a)
  OBVIOUS
<1>6. PICK moved, n : moved = MoveTableRow(left, from, k, target)
                        /\ n = Len(moved.table[target].entities)
  OBVIOUS
<1>7. PICK placed : placed = AllocateRow(moved, to, e, n)
  OBVIOUS
<1>8. v = TellMoved(placed, from, k)
  BY <1>2, <1>3, <1>4, <1>5, <1>6, <1>7 DEF Move
<1>9. /\ Rows(left, F, a, q, t) /\ OnlyRows(w, left, F) /\ Issued(left.ents, e)
  BY <1>1, <1>4, LeaveArchetype, Zenon
<1>10. PICK p, d, u : /\ p = RowsBehind(E, e, g, t, Len(left.table[from].entities))
                      /\ d = Put(g, F, e, target)
                      /\ u = Put(p, F, e, Len(left.table[target].entities) + 1)
  OBVIOUS
<1>11. target \in SUBSET TableComponents /\ from \in SUBSET TableComponents /\ from # target
  BY <1>5 DEF TableOf
<1>12. left.table = w.table /\ left.sparse = w.sparse /\ IsWorld(left)
  BY <1>9 DEF OnlyRows, Rows
<1>13. RowMoved(left, moved, E, g, t, d, u, e, target)
  <2>1. TableOK(left.table, E, g, t) /\ InTables(E, g, t) /\ from = g[e] /\ k = t[e]
    BY <1>1, <1>3, <1>5, <1>12
  <2> QED
    BY <1>6, <1>10, <1>11, <1>12, <2>1, MoveTableRowForm, Zenon
<1>14. e \notin F /\ F \cup {e} = E /\ F \subseteq E
  OBVIOUS
<1> HIDE DEF F
<1>15. PICK y, z : y = Put(q, F, e, Len(moved.arch[to]) + 1) /\ z = Put(t, F, e, n)
  OBVIOUS
<1>16. Rows(moved, F, a, q, t) /\ Issued(moved.ents, e)
  BY <1>9, <1>13 DEF Rows, RowMoved
<1>17. n \in Nat /\ n = Len(w.table[target].entities) + 1
  BY <1>1, <1>6, <1>11, <1>12, <1>13, TableForm DEF RowMoved
<1>18. b = Put(a, F, e, to)
  BY DEF F
<1>19. Rows(placed, E, b, y, z) /\ OnlyRows(moved, placed, {e})
  <2>1. Rows(placed, F \cup {e}, b, y, z) /\ OnlyRows(moved, placed, {e})
    BY <1>7, <1>14, <1>15, <1>16, <1>17, <1>18, AllocateRowForm, Zenon
  <2> QED
    BY <1>14, <2>1
<1>20. PICK m, x : /\ m = Len(placed.table[from].entities) + 1
                   /\ x = Told(E, b, z, from, m, k)
  OBVIOUS
<1>21. placed.table = moved.table /\ placed.sparse = w.sparse /\ placed.ents \in Entities
  BY <1>12, <1>13, <1>19 DEF OnlyRows, RowMoved, Rows
<1>22. /\ m = Len(left.table[from].entities)
       /\ k \in Nat /\ k >= 1
  <2>1. /\ Len(w.table[from].entities) \in Nat
        /\ t[e] \in 1 .. Len(w.table[from].entities)
    BY <1>1, <1>3, <1>5, <1>11, TableForm
  <2>2. Len(moved.table[from].entities) = Len(left.table[from].entities) - 1
    BY <1>3, <1>5, <1>13 DEF RowMoved
  <2> QED
    BY <1>5, <1>12, <1>20, <1>21, <2>1, <2>2
<1>23. ASSUME NEW f \in E PROVE x[f] = u[f] /\ TablesOf(E, b)[f] = d[f]
  <2>1. CASE f = e
    BY <1>3, <1>5, <1>10, <1>11, <1>12, <1>14, <1>15, <1>17, <1>18, <1>20, <2>1
       DEF Put, Told, TablesOf
  <2>2. CASE f # e
    <3>1. f \in F /\ b[f] = a[f] /\ z[f] = t[f] /\ u[f] = p[f] /\ d[f] = g[f]
      BY <1>10, <1>14, <1>15, <1>18, <2>2 DEF Put
    <3>2. p[f] = IF g[f] = g[e] THEN NewRow(t[f], t[e], m) ELSE t[f]
      BY <1>10, <1>22, <3>1 DEF RowsBehind, F
    <3>3. x[f] = IF TableOf(b[f]) = from /\ z[f] = m THEN k ELSE z[f]
      BY <1>20 DEF Told
    <3>4. TablesOf(E, b)[f] = TableOf(b[f])
      BY DEF TablesOf
    <3> QED
      BY <1>3, <1>5, <3>1, <3>2, <3>3, <3>4 DEF NewRow
  <2> QED
    BY <2>1, <2>2
<1>24. TableOK(placed.table, E, TablesOf(E, b), x)
  <2>1. TableOK(placed.table, E, d, u)
    BY <1>13, <1>21 DEF RowMoved
  <2> QED
    BY <1>23, <2>1, TableOKSame
<1>25. Rows(v, E, b, y, x) /\ OnlyRows(placed, v, E)
  BY <1>8, <1>11, <1>19, <1>20, <1>22, <1>24, TellMovedForm, Zenon
<1>26. v.table = moved.table /\ v.sparse = w.sparse
  BY <1>21, <1>25 DEF OnlyRows
<1>27. LocationsOf(w.ents, v.ents, E)
  <2>1. LocationsOf(w.ents, left.ents, F) /\ LocationsOf(moved.ents, placed.ents, {e})
        /\ moved.ents = left.ents /\ LocationsOf(placed.ents, v.ents, E)
    BY <1>9, <1>13, <1>19, <1>25 DEF OnlyRows, RowMoved
  <2>2. LocationsOf(w.ents, placed.ents, E)
    BY <1>14, <2>1, LocationsTwice
  <2> QED
    BY <2>1, <2>2, LocationsTwice
<1>28. ASSUME NEW f \in E, NEW c PROVE CellOf(v.table, TablesOf(E, b), x, f, c) = CellOf(moved.table, d, u, f, c)
  BY <1>23, <1>26 DEF CellOf
<1>29. SameCells(w.table, TablesOf(E, a), t, v.table, TablesOf(E, b), x, F)
  <2>1. SameCells(w.table, g, t, moved.table, d, u, F)
    BY <1>12, <1>13 DEF RowMoved, F
  <2>2. ASSUME NEW f \in F, NEW c \in g[f]
        PROVE  /\ TablesOf(E, b)[f] = g[f]
               /\ CellOf(v.table, TablesOf(E, b), x, f, c) = CellOf(w.table, g, t, f, c)
    <3>1. d[f] = g[f] /\ CellOf(moved.table, d, u, f, c) = CellOf(w.table, g, t, f, c)
      BY <2>1 DEF SameCells
    <3>2. f \in E
      BY <1>14
    <3>3. TablesOf(E, b)[f] = d[f]
      BY <1>23, <3>2
    <3>4. CellOf(v.table, TablesOf(E, b), x, f, c) = CellOf(moved.table, d, u, f, c)
      BY <1>28, <3>2
    <3> QED
      BY <3>1, <3>3, <3>4
  <2> QED
    BY <1>5, <2>2 DEF SameCells
<1>30. KeepsTables(w, v, F, a)
  BY <1>1, <1>14, <1>25, <1>29, KeepsForm
<1>31. KeepsColumns(w, v, e, TableOf(a[e]) \cap TableOf(to))
  <2>1. ASSUME NEW c \in TableOf(a[e]) \cap TableOf(to)
        PROVE  TableValue(v, e, c) = TableValue(w, e, c)
    <3>1. TableValue(v, e, c) = CellOf(v.table, TablesOf(E, b), x, e, c)
      BY <1>25, TableValueForm
    <3>2. TableValue(w, e, c) = CellOf(w.table, TablesOf(E, a), t, e, c)
      BY <1>1, TableValueForm
    <3>3. CellOf(moved.table, d, u, e, c) = CellOf(left.table, g, t, e, c)
      BY <1>3, <1>5, <1>13, <2>1 DEF RowMoved
    <3> QED
      BY <1>5, <1>12, <1>28, <3>1, <3>2, <3>3
  <2> QED
    BY <2>1 DEF KeepsColumns
<1>32. TableOK(v.table, E, TablesOf(E, b), x)
  BY <1>21, <1>24, <1>26
<1> QED
  BY <1>25, <1>26, <1>27, <1>30, <1>31, <1>32 DEF Moved, Stored, StoredAt, F

\* An entity becomes one of archetype `to`.
LEMMA MoveForm ==
  ASSUME NEW w, NEW E, NEW a, Stored(w, E, a), NEW e \in E, NEW to \in Archetype,
         NEW b, b = Put(a, E \ {e}, e, to), NEW v, v = Move(w, e, to)
  PROVE  Moved(w, v, E, a, b, e, to)
<1>1. PICK r, t : StoredAt(w, E, a, r, t)
  BY DEF Stored
<1>2. CASE TableOf(a[e]) = TableOf(to)
  BY <1>1, <1>2, MoveWithinTable, Zenon
<1>3. CASE TableOf(a[e]) # TableOf(to)
  BY <1>1, <1>3, MoveBetweenTables, Zenon
<1> QED
  BY <1>2, <1>3

\* A new entity has a row in the table and the archetype, where nothing is written yet.
Allocated(w, v, E, a, b, e) ==
  /\ Stored(v, E \cup {e}, b) /\ v.sparse = w.sparse /\ LocationsOf(w.ents, v.ents, {e})
  /\ KeepsTables(w, v, E, a)

LEMMA AllocateForm ==
  ASSUME NEW w, NEW E, NEW a, Stored(w, E, a), NEW e, e \notin E, Issued(w.ents, e),
         NEW to \in Archetype, NEW b, b = Put(a, E, e, to), NEW v, v = Allocate(w, to, e)
  PROVE  Allocated(w, v, E, a, b, e)
<1> DEFINE F == E \cup {e}
<1>1. PICK r, t : StoredAt(w, E, a, r, t)
  BY DEF Stored
<1>2. Rows(w, E, a, r, t) /\ TableOK(w.table, E, TablesOf(E, a), t) /\ IsWorld(w)
  BY <1>1 DEF StoredAt, Rows
<1>3. /\ InTables(E, TablesOf(E, a), t)
      /\ \A f \in E : TablesOf(E, a)[f] = TableOf(a[f])
  BY <1>2, TablesOfForm DEF Rows
<1>4. PICK ts, x, g : ts = TableOf(to) /\ x = [c \in ts |-> Uninit] /\ g = TablesOf(E, a)
  OBVIOUS
<1>5. PICK n, z : n = Len(w.table[ts].entities) + 1 /\ z = AllocateTableRow(w, ts, e)
  OBVIOUS
<1>6. PICK U : U = TablesWith(w.table, ts, e, x)
  OBVIOUS
<1>7. v = AllocateRow(z, to, e, n)
  BY <1>4, <1>5 DEF Allocate
<1>8. IsWorld(z) /\ z.ents = w.ents /\ z.arch = w.arch /\ z.sparse = w.sparse /\ z.table = U
  <2>1. [c \in ts |-> Append(w.table[ts].column[c], Uninit)]
          = [c \in ts |-> Append(w.table[ts].column[c], x[c])]
    BY <1>4
  <2>2. z = [w EXCEPT !.table[ts] =
               [entities |-> Append(w.table[ts].entities, e),
                column   |-> [c \in ts |-> Append(w.table[ts].column[c], Uninit)]]]
    BY <1>2, <1>5 DEF AllocateTableRow, IsWorld
  <2>3. z = [w EXCEPT !.table = U]
    BY <1>2, <1>6, <2>1, <2>2 DEF TablesWith, RowGiven, IsWorld
  <2> QED
    BY <1>2, <2>3 DEF IsWorld
<1>9. ts \in SUBSET TableComponents /\ n \in Nat /\ x \in [ts -> Cell]
  <2>1. ts \in SUBSET TableComponents
    BY <1>4 DEF TableOf
  <2>2. n \in Nat
    BY <1>2, <1>5, <2>1, TableForm
  <2> QED
    BY <1>4, <2>1, <2>2 DEF Cell
<1>10. PICK d, u, q : d = Put(g, E, e, ts) /\ u = Put(t, E, e, n)
                      /\ q = Put(r, E, e, Len(z.arch[to]) + 1)
  OBVIOUS
<1>11. TableOK(U, F, d, u) /\ SameCells(w.table, g, t, U, d, u, E)
  <2>1. TableOK(w.table, E, g, t) /\ InTables(E, g, t)
    BY <1>2, <1>3, <1>4
  <2> QED
    BY <1>5, <1>6, <1>9, <1>10, <2>1, WithTableRow, Zenon
<1>12. Rows(z, E, a, r, t) /\ Issued(z.ents, e)
  BY <1>2, <1>8 DEF Rows
<1>13. Rows(v, F, b, q, u) /\ OnlyRows(z, v, {e})
  BY <1>7, <1>9, <1>10, <1>12, AllocateRowForm, Zenon
<1>14. v.table = U /\ v.sparse = w.sparse /\ LocationsOf(w.ents, v.ents, {e})
  BY <1>8, <1>13 DEF OnlyRows
<1>15. ASSUME NEW f \in F PROVE TablesOf(F, b)[f] = d[f]
  BY <1>3, <1>4, <1>10 DEF TablesOf, Put
<1>16. TableOK(v.table, F, TablesOf(F, b), u)
  BY <1>11, <1>14, <1>15, TableOKSame
<1>17. SameCells(w.table, TablesOf(E, a), t, v.table, TablesOf(F, b), u, E)
  <2>1. \A f \in E : \A c \in g[f] : d[f] = g[f] /\ CellOf(U, d, u, f, c) = CellOf(w.table, g, t, f, c)
    BY <1>11 DEF SameCells
  <2>2. \A f \in E : TablesOf(F, b)[f] = d[f]
    BY <1>15
  <2>3. \A f \in E : \A c : CellOf(v.table, TablesOf(F, b), u, f, c) = CellOf(U, d, u, f, c)
    BY <1>14, <2>2 DEF CellOf
  <2> QED
    BY <1>4, <2>1, <2>2, <2>3 DEF SameCells
<1>18. KeepsTables(w, v, E, a)
  <2>1. E \subseteq F /\ E \subseteq E
    OBVIOUS
  <2> HIDE DEF F
  <2> QED
    BY <1>2, <1>13, <1>17, <2>1, KeepsForm
<1> QED
  BY <1>13, <1>14, <1>16, <1>18 DEF Allocated, Stored, StoredAt

SparseWritten(S, e, bundle, x) ==
  [c \in SparseComponents |-> IF c \in bundle THEN SparseInsert(S[c], e, x) ELSE S[c]]

\* The components of e in the bundle have the value x, all others what they had.
Written(w, v, E, a, e, bundle, x) ==
  /\ Stored(v, E, a) /\ v.ents = w.ents /\ v.sparse = SparseWritten(w.sparse, e, bundle, x)
  /\ KeepsTables(w, v, E \ {e}, a) /\ KeepsColumns(w, v, e, TableOf(a[e]) \ bundle)
  /\ \A c \in TableOf(a[e]) \cap bundle : TableValue(v, e, c) = x

LEMMA WriteForm ==
  ASSUME NEW w, NEW E, NEW a, Stored(w, E, a), NEW e \in E, NEW bundle, NEW x \in Values,
         NEW v, v = WriteComponents(w, e, bundle, x)
  PROVE  Written(w, v, E, a, e, bundle, x)
<1>1. PICK r, t : StoredAt(w, E, a, r, t)
  BY DEF Stored
<1>2. Rows(w, E, a, r, t) /\ TableOK(w.table, E, TablesOf(E, a), t) /\ IsWorld(w)
  BY <1>1 DEF StoredAt, Rows
<1>3. /\ InTables(E, TablesOf(E, a), t)
      /\ \A f \in E : TablesOf(E, a)[f] = TableOf(a[f])
  BY <1>2, TablesOfForm DEF Rows
<1>4. PICK T, ts, k, g : T = w.table /\ ts = TableOf(a[e]) /\ k = t[e] /\ g = TablesOf(E, a)
  OBVIOUS
<1>5. Place(w, e).archetype = a[e] /\ Place(w, e).table_row = t[e]
  BY <1>2, PlaceOf
<1>6. PICK z : z = [c \in ts |-> IF c \in bundle THEN [T[ts].column[c] EXCEPT ![k] = x]
                                                 ELSE T[ts].column[c]]
  OBVIOUS
<1>7. PICK y : y = [entities |-> T[ts].entities, column |-> z]
  OBVIOUS
<1>8. PICK U : U = [T EXCEPT ![ts] = y]
  OBVIOUS
<1>9. /\ ts \in SUBSET TableComponents /\ TableOK(T, E, g, t)
      /\ \A f \in E : g[f] = TableOf(a[f]) /\ g[f] \in SUBSET TableComponents
      /\ T = [ds \in SUBSET TableComponents |-> T[ds]]
  BY <1>2, <1>3, <1>4 DEF TableOf, TableOK, InTables
<1>10. /\ Len(T[ts].entities) \in Nat /\ IsTable(T[ts], ts)
       /\ \A f \in E : g[f] = ts => t[f] \in 1 .. Len(T[ts].entities) /\ T[ts].entities[t[f]] = f
  BY <1>9, TableForm
<1>11. k \in 1 .. Len(T[ts].entities) /\ T[ts].entities[k] = e
  BY <1>4, <1>9, <1>10
<1>12. /\ IsWorld(v) /\ v.ents = w.ents /\ v.arch = w.arch /\ v.table = U
       /\ v.sparse = SparseWritten(w.sparse, e, bundle, x)
  <2>1. v = [w EXCEPT !.table[ts].column = z,
                      !.sparse = SparseWritten(w.sparse, e, bundle, x)]
    BY <1>2, <1>4, <1>5, <1>6 DEF WriteComponents, SparseWritten, IsWorld
  <2>2. [T[ts] EXCEPT !.column = z] = y
    BY <1>7, <1>10 DEF IsTable
  <2>3. v = [w EXCEPT !.table = U, !.sparse = SparseWritten(w.sparse, e, bundle, x)]
    BY <1>2, <1>4, <1>8, <2>1, <2>2 DEF IsWorld
  <2> QED
    BY <1>2, <2>3 DEF IsWorld
<1>13. ASSUME NEW c \in ts
       PROVE  /\ z[c] \in Seq(Cell) /\ Len(z[c]) = Len(T[ts].entities)
              /\ c \in bundle => z[c][k] = x
              /\ \A i : i # k \/ c \notin bundle => z[c][i] = T[ts].column[c][i]
  <2>1. PICK s : s = T[ts].column[c]
    OBVIOUS
  <2>2. s \in Seq(Cell) /\ Len(s) = Len(T[ts].entities) /\ x \in Cell /\ k \in 1 .. Len(s)
    BY <1>10, <1>11, <2>1 DEF IsTable, Columns, Cell
  <2>3. z[c] = IF c \in bundle THEN [s EXCEPT ![k] = x] ELSE s
    BY <1>6, <2>1
  <2>4. /\ [s EXCEPT ![k] = x] \in Seq(Cell) /\ Len([s EXCEPT ![k] = x]) = Len(s)
        /\ [s EXCEPT ![k] = x][k] = x
    BY <2>2
  <2>5. \A i : i # k => [s EXCEPT ![k] = x][i] = s[i]
    BY <2>2
  <2> QED
    BY <2>1, <2>2, <2>3, <2>4, <2>5
<1>14. IsTable(y, ts)
  <2>1. z \in Columns(ts)
    BY <1>6, <1>13 DEF Columns
  <2>2. IsTable([entities |-> T[ts].entities, column |-> z], ts)
    BY <1>13, <2>1, IsTableForm
  <2> QED
    BY <1>7, <2>2
<1>15. /\ U = [ds \in SUBSET TableComponents |-> U[ds]] /\ U[ts] = y
       /\ \A ds \in SUBSET TableComponents : ds # ts => U[ds] = T[ds]
  BY <1>8, <1>9
<1>16. TableOK(U, E, g, t)
  <2>1. \A ds \in SUBSET TableComponents : IsTable(U[ds], ds) /\ U[ds].entities = T[ds].entities
    <3>1. y.entities = T[ts].entities
      BY <1>7
    <3> QED
      BY <1>9, <1>14, <1>15, <3>1 DEF TableOK
  <2> QED
    BY <1>9, <1>15, <2>1 DEF TableOK
<1>17. StoredAt(v, E, a, r, t)
  BY <1>2, <1>4, <1>12, <1>16 DEF StoredAt, Rows
<1>18. Rows(v, E, a, r, t)
  BY <1>17 DEF StoredAt
<1>19. ASSUME NEW f \in E, NEW c \in g[f], f # e \/ c \notin bundle
       PROVE  CellOf(U, g, t, f, c) = CellOf(T, g, t, f, c)
  <2>1. CASE g[f] = ts
    <3>1. f = e \/ t[f] # k
      BY <1>10, <1>11, <2>1
    <3> QED
      BY <1>7, <1>13, <1>15, <1>19, <2>1, <3>1 DEF CellOf
  <2>2. CASE g[f] # ts
    BY <1>9, <1>15, <2>2 DEF CellOf
  <2> QED
    BY <2>1, <2>2
<1>20. ASSUME NEW f \in E, NEW c
       PROVE  /\ TableValue(v, f, c) = CellOf(U, g, t, f, c)
              /\ TableValue(w, f, c) = CellOf(T, g, t, f, c)
  <2>1. TableValue(v, f, c) = CellOf(v.table, TablesOf(E, a), t, f, c)
    BY <1>18, TableValueForm
  <2>2. TableValue(w, f, c) = CellOf(w.table, TablesOf(E, a), t, f, c)
    BY <1>2, TableValueForm
  <2> QED
    BY <1>4, <1>12, <2>1, <2>2
<1>21. KeepsTables(w, v, E \ {e}, a) /\ KeepsColumns(w, v, e, TableOf(a[e]) \ bundle)
  <2>1. ASSUME NEW f \in E, NEW c \in TableOf(a[f]), f # e \/ c \notin bundle
        PROVE  TableValue(v, f, c) = TableValue(w, f, c)
    <3>1. c \in g[f]
      BY <1>9
    <3> QED
      BY <1>19, <1>20, <2>1, <3>1
  <2> QED
    BY <2>1 DEF KeepsTables, KeepsColumns
<1>22. ASSUME NEW c \in TableOf(a[e]) \cap bundle PROVE TableValue(v, e, c) = x
  <2>1. c \in ts /\ g[e] = ts /\ U[ts].column = z /\ t[e] = k
    BY <1>4, <1>7, <1>9, <1>15
  <2>2. CellOf(U, g, t, e, c) = z[c][k]
    BY <2>1 DEF CellOf
  <2> QED
    BY <1>13, <1>20, <2>1, <2>2
<1> QED
  BY <1>12, <1>17, <1>21, <1>22 DEF Written, Stored

SparseCleaned(S, e, cs) ==
  [c \in SparseComponents |-> IF c \in cs THEN SparseRemove(S[c], e) ELSE S[c]]

\* What Despawn makes of a world.
Despawned(w, e) ==
  LET place == Place(w, e)
      freed == [w EXCEPT !.ents = free(@, e)]
      left == RemoveArchetypeRow(freed, place.archetype, place.row)
      cleaned == [left EXCEPT !.sparse = SparseCleaned(@, e, place.archetype)]
      ts == TableOf(place.archetype)
      row == w.arch[place.archetype][place.row].table_row
  IN  TellMoved(RemoveTableRow(cleaned, ts, row), ts, row)

Gone(w, v, E, a, e) ==
  /\ Stored(v, E \ {e}, a) /\ v.sparse = SparseCleaned(w.sparse, e, a[e])
  /\ LocationsOf(free(w.ents, e), v.ents, E \ {e}) /\ KeepsTables(w, v, E \ {e}, a)

LEMMA DespawnedForm ==
  ASSUME NEW w, NEW E, NEW a, NEW r, NEW t, StoredAt(w, E, a, r, t), NEW e \in E,
         NEW x, x = free(w.ents, e), x \in Entities, Located(x, E \ {e}, a, r, t),
         NEW v, v = Despawned(w, e)
  PROVE  Gone(w, v, E, a, e)
<1> DEFINE F == E \ {e}
<1>1. /\ Rows(w, E, a, r, t) /\ TableOK(w.table, E, TablesOf(E, a), t)
      /\ Rowed(E, a, r, t) /\ IsWorld(w)
  BY DEF StoredAt, Rows
<1>2. Place(w, e).archetype = a[e] /\ Place(w, e).row = r[e]
  BY <1>1, PlaceOf
<1>3. /\ w.arch[a[e]][r[e]].table_row = t[e] /\ a[e] \in Archetype /\ t[e] \in Nat
      /\ InTables(E, TablesOf(E, a), t)
      /\ \A f \in E : TablesOf(E, a)[f] = TableOf(a[f])
  BY <1>1, TablesOfForm DEF Rows, Linked, Rowed
<1>4. PICK freed : freed = [w EXCEPT !.ents = x]
  OBVIOUS
<1>5. /\ IsWorld(freed) /\ freed.ents = x /\ freed.arch = w.arch /\ freed.table = w.table
      /\ freed.sparse = w.sparse
  BY <1>1, <1>4 DEF IsWorld
<1>6. PICK left, q : /\ left = RemoveArchetypeRow(freed, a[e], r[e])
                     /\ q = RowsBehind(E, e, a, r, Len(freed.arch[a[e]]))
  OBVIOUS
<1>7. Rows(left, F, a, q, t) /\ OnlyRows(freed, left, F)
  <2>1. ArchOK(freed.arch, E, a, r) /\ Linked(freed.arch, F, a, r, t)
        /\ Located(freed.ents, F, a, r, t) /\ freed.ents \in Entities
    BY <1>1, <1>5 DEF Rows, Linked
  <2> QED
    BY <1>1, <1>5, <1>6, <2>1, RemoveArchetypeRowForm, Zenon
<1>8. PICK cleaned, S : /\ S = SparseCleaned(w.sparse, e, a[e])
                        /\ cleaned = [left EXCEPT !.sparse = S]
  OBVIOUS
<1>9. PICK ts, k, g : ts = TableOf(a[e]) /\ k = t[e] /\ g = TablesOf(E, a)
  OBVIOUS
<1>10. PICK z : z = RemoveTableRow(cleaned, ts, k)
  OBVIOUS
<1>11. left.table = w.table /\ left.sparse = w.sparse /\ IsWorld(left)
  BY <1>5, <1>7 DEF OnlyRows, Rows
<1>12. v = TellMoved(z, ts, k)
  <2>1. [left EXCEPT !.sparse = SparseCleaned(left.sparse, e, a[e])] = cleaned
    BY <1>8, <1>11
  <2>2. RemoveArchetypeRow([w EXCEPT !.ents = free(w.ents, e)], a[e], r[e]) = left
    BY <1>4, <1>6
  <2>3. RemoveArchetypeRow([w EXCEPT !.ents = free(@, e)], a[e], r[e]) = left
    BY <2>2
  <2>4. [left EXCEPT !.sparse = SparseCleaned(@, e, a[e])] = cleaned
    BY <1>11, <2>1 DEF IsWorld
  <2>5. PICK place : place = Place(w, e)
    OBVIOUS
  <2>6. place.archetype = a[e] /\ place.row = r[e]
    BY <1>2, <2>5
  <2>7. v = LET l == RemoveArchetypeRow([w EXCEPT !.ents = free(@, e)], place.archetype, place.row)
                c == [l EXCEPT !.sparse = SparseCleaned(@, e, place.archetype)]
                ds == TableOf(place.archetype)
                row == w.arch[place.archetype][place.row].table_row
            IN  TellMoved(RemoveTableRow(c, ds, row), ds, row)
    BY <2>5 DEF Despawned
  <2>8. v = LET c == [left EXCEPT !.sparse = SparseCleaned(@, e, a[e])]
            IN  TellMoved(RemoveTableRow(c, ts, k), ts, k)
    BY <1>3, <1>9, <2>3, <2>6, <2>7
  <2> QED
    BY <1>10, <2>4, <2>8
<1>13. PICK U, u : /\ U = TablesWithout(w.table, ts, k)
                   /\ u = RowsBehind(E, e, g, t, Len(w.table[ts].entities))
  OBVIOUS
<1>14. IsWorld(z) /\ z.ents = left.ents /\ z.arch = left.arch /\ z.sparse = S /\ z.table = U
  <2>1. /\ IsWorld(cleaned) /\ cleaned.ents = left.ents /\ cleaned.arch = left.arch
        /\ cleaned.sparse = S /\ cleaned.table = w.table
    BY <1>8, <1>11 DEF IsWorld
  <2> QED
    BY <1>10, <1>13, <2>1 DEF IsWorld, RemoveTableRow, TablesWithout, RowTaken
<1>15. /\ TableOK(U, F, g, u) /\ SameCells(w.table, g, t, U, g, u, F)
       /\ OnlyTable(w.table, U, ts, Len(w.table[ts].entities) - 1)
  <2>1. TableOK(w.table, E, g, t) /\ InTables(E, g, t) /\ ts = g[e] /\ k = t[e]
    BY <1>1, <1>3, <1>9
  <2> QED
    BY <1>13, <2>1, WithoutTableRow, Zenon
<1>16. ts \in SUBSET TableComponents /\ k >= 1 /\ Len(w.table[ts].entities) \in Nat
  <2>1. ts \in SUBSET TableComponents
    BY <1>9 DEF TableOf
  <2>2. g[e] = ts /\ TableOK(w.table, E, g, t)
    BY <1>1, <1>3, <1>9
  <2> QED
    BY <1>9, <2>1, <2>2, TableForm
<1>17. PICK m, y : m = Len(z.table[ts].entities) + 1 /\ y = Told(F, a, t, ts, m, k)
  OBVIOUS
<1>18. m = Len(w.table[ts].entities)
  BY <1>14, <1>15, <1>16, <1>17 DEF OnlyTable
<1>19. ASSUME NEW f \in F PROVE y[f] = u[f] /\ TablesOf(F, a)[f] = g[f]
  BY <1>3, <1>9, <1>13, <1>17, <1>18 DEF Told, RowsBehind, TablesOf, NewRow
<1>20. TableOK(z.table, F, TablesOf(F, a), y)
  BY <1>14, <1>15, <1>19, TableOKSame
<1>21. Rows(z, F, a, q, t)
  BY <1>7, <1>14 DEF Rows
<1>22. Rows(v, F, a, q, y) /\ OnlyRows(z, v, F)
  BY <1>3, <1>9, <1>12, <1>16, <1>17, <1>20, <1>21, TellMovedForm, Zenon
<1>23. v.table = U /\ v.sparse = S
  BY <1>14, <1>22 DEF OnlyRows
<1>24. LocationsOf(x, v.ents, F)
  <2>1. LocationsOf(x, left.ents, F) /\ LocationsOf(left.ents, v.ents, F) /\ F \subseteq F
    BY <1>5, <1>7, <1>14, <1>22 DEF OnlyRows
  <2> QED
    BY <2>1, LocationsTwice
<1>25. TableOK(v.table, F, TablesOf(F, a), y)
  BY <1>14, <1>20, <1>23
<1>26. SameCells(w.table, TablesOf(E, a), t, v.table, TablesOf(F, a), y, F)
  <2>1. \A f \in F : \A c \in g[f] : CellOf(U, g, u, f, c) = CellOf(w.table, g, t, f, c)
    BY <1>15 DEF SameCells
  <2>2. \A f \in F : \A c : CellOf(v.table, TablesOf(F, a), y, f, c) = CellOf(U, g, u, f, c)
    BY <1>19, <1>23 DEF CellOf
  <2> QED
    BY <1>9, <1>19, <2>1, <2>2 DEF SameCells
<1>27. KeepsTables(w, v, F, a)
  <2>1. F \subseteq E /\ F \subseteq F
    OBVIOUS
  <2> HIDE DEF F
  <2> QED
    BY <1>1, <1>22, <1>26, <2>1, KeepsForm
<1> QED
  BY <1>8, <1>22, <1>23, <1>24, <1>25, <1>27 DEF Gone, Stored, StoredAt

-----------------------------------------------------------------------------
(***************************************************************************)
(* Sparse sets.  F are the entities in the set.                            *)
(***************************************************************************)
At(s, F) == [e \in F |-> s.sparse[e.index]]

IndexOf(F) == {e.index : e \in F}

SetOK(s, F) ==
  /\ s = [entities |-> s.entities, dense |-> s.dense, sparse |-> s.sparse]
  /\ s.dense \in Seq(Values) /\ Len(s.dense) = Len(s.entities)
  /\ DOMAIN s.sparse = IndexOf(F)
  /\ Listed(s.entities, F, At(s, F))

OneIndex(F) == \A e, f \in F : e.index = f.index => e = f

Dense(s, e) == s.dense[s.sparse[e.index]]

KeepsSet(s, t, F) == \A e \in F : Dense(t, e) = Dense(s, e)

LEMMA SetOKForm ==
  ASSUME NEW s, NEW F, SetOK(s, F)
  PROVE  /\ Len(s.entities) \in Nat /\ s.dense \in Seq(Values) /\ Len(s.dense) = Len(s.entities)
         /\ \A e \in F : /\ e.index \in DOMAIN s.sparse
                         /\ s.sparse[e.index] \in 1 .. Len(s.entities)
                         /\ s.entities[s.sparse[e.index]] = e
         /\ \A i \in 1 .. Len(s.entities) :
              s.entities[i] \in F /\ s.sparse[s.entities[i].index] = i
         /\ \A i \in DOMAIN s.sparse : \E e \in F : e.index = i
<1>1. /\ s.dense \in Seq(Values) /\ Len(s.dense) = Len(s.entities)
      /\ DOMAIN s.sparse = IndexOf(F) /\ s.entities \in Seq(F)
      /\ \A e \in F : At(s, F)[e] \in 1 .. Len(s.entities) /\ s.entities[At(s, F)[e]] = e
      /\ \A i \in 1 .. Len(s.entities) : At(s, F)[s.entities[i]] = i
  BY DEF SetOK, Listed
<1>2. \A e \in F : At(s, F)[e] = s.sparse[e.index]
  BY DEF At
<1>3. \A i \in 1 .. Len(s.entities) : s.entities[i] \in F
  BY <1>1
<1>4. /\ \A e \in F : e.index \in DOMAIN s.sparse
      /\ \A i \in DOMAIN s.sparse : \E e \in F : e.index = i
  BY <1>1 DEF IndexOf
<1> QED
  BY <1>1, <1>2, <1>3, <1>4

LEMMA SparseInsertForm ==
  ASSUME NEW s, NEW F, SetOK(s, F), NEW e, NEW G, G = F \cup {e}, OneIndex(G),
         NEW x \in Values, NEW t, t = SparseInsert(s, e, x)
  PROVE  SetOK(t, G) /\ KeepsSet(s, t, F \ {e}) /\ Dense(t, e) = x
<1> DEFINE n == Len(s.entities)
<1>1. /\ n \in Nat /\ s.dense \in Seq(Values) /\ Len(s.dense) = n
      /\ \A f \in F : /\ f.index \in DOMAIN s.sparse /\ s.sparse[f.index] \in 1 .. n
                      /\ s.entities[s.sparse[f.index]] = f
      /\ \A i \in DOMAIN s.sparse : \E f \in F : f.index = i
  BY SetOKForm
<1>2. /\ s = [entities |-> s.entities, dense |-> s.dense, sparse |-> s.sparse]
      /\ DOMAIN s.sparse = IndexOf(F) /\ Listed(s.entities, F, At(s, F))
  BY DEF SetOK
<1>3. e \in F <=> e.index \in DOMAIN s.sparse
  BY <1>1 DEF OneIndex
<1>4. CASE e \in F
  <2>1. PICK d, k : d = [s.dense EXCEPT ![s.sparse[e.index]] = x] /\ k = s.sparse[e.index]
    OBVIOUS
  <2>2. t = [entities |-> s.entities, dense |-> d, sparse |-> s.sparse]
    BY <1>2, <1>3, <1>4, <2>1 DEF SparseInsert
  <2>3. k \in 1 .. n /\ k \in 1 .. Len(s.dense)
    BY <1>1, <1>4, <2>1
  <2>4. d \in Seq(Values) /\ Len(d) = Len(s.dense) /\ d[k] = x
        /\ \A i \in 1 .. n : i # k => d[i] = s.dense[i]
    <3>1. PICK y : y = s.dense
      OBVIOUS
    <3>2. y \in Seq(Values) /\ k \in 1 .. Len(y) /\ Len(y) = n /\ d = [y EXCEPT ![k] = x]
      BY <1>1, <2>1, <2>3, <3>1
    <3> QED
      BY <3>1, <3>2
  <2>5. t.entities = s.entities /\ t.sparse = s.sparse /\ t.dense = d /\ G = F
    BY <1>4, <2>2
  <2>6. At(t, F) = At(s, F)
    BY <2>5 DEF At
  <2>7. SetOK(t, G)
    BY <1>1, <1>2, <2>2, <2>4, <2>5, <2>6 DEF SetOK
  <2>8. ASSUME NEW f \in F \ {e} PROVE Dense(t, f) = Dense(s, f)
    <3>1. s.sparse[f.index] # k
      BY <1>1, <1>4, <2>1
    <3> QED
      BY <1>1, <2>4, <2>5, <3>1 DEF Dense
  <2> QED
    BY <2>1, <2>4, <2>5, <2>7, <2>8 DEF KeepsSet, Dense
<1>5. CASE e \notin F
  <2>1. PICK m, d, p : /\ m = Append(s.entities, e) /\ d = Append(s.dense, x)
                       /\ p = [i \in DOMAIN s.sparse \cup {e.index} |->
                                 IF i = e.index THEN n + 1 ELSE s.sparse[i]]
    OBVIOUS
  <2>2. t = [entities |-> m, dense |-> d, sparse |-> p]
    BY <1>1, <1>3, <1>5, <2>1 DEF SparseInsert
  <2>3. t.entities = m /\ t.dense = d /\ t.sparse = p
    BY <2>2
  <2>4. d \in Seq(Values) /\ Len(d) = n + 1 /\ d[n + 1] = x /\ \A i \in 1 .. n : d[i] = s.dense[i]
    BY <1>1, <2>1
  <2>5. /\ DOMAIN p = IndexOf(F) \cup {e.index} /\ p[e.index] = n + 1
        /\ \A f \in F : f.index # e.index /\ p[f.index] = s.sparse[f.index]
    BY <1>1, <1>2, <1>3, <1>5, <2>1
  <2>6. DOMAIN p = IndexOf(G)
    BY <2>5 DEF IndexOf
  <2>7. /\ At(t, G)[e] = Len(s.entities) + 1
        /\ \A f \in F : At(t, G)[f] = At(s, F)[f]
    BY <2>3, <2>5 DEF At
  <2>8. Listed(m, G, At(t, G))
    <3>1. PICK y, z, a, b : y = s.entities /\ z = F /\ a = At(s, F) /\ b = At(t, G)
      OBVIOUS
    <3>2. Listed(y, z, a) /\ e \notin z /\ m = Append(y, e) /\ b[e] = Len(y) + 1
          /\ \A f \in z : b[f] = a[f]
      BY <1>2, <1>5, <2>1, <2>7, <3>1
    <3>3. Listed(m, z \cup {e}, b)
      BY <3>2, ListedAppend
    <3> QED
      BY <3>1, <3>3
  <2>9. Len(m) = n + 1
    BY <1>2, <2>1 DEF Listed
  <2>10. SetOK(t, G)
    BY <2>2, <2>3, <2>4, <2>6, <2>8, <2>9 DEF SetOK
  <2>11. ASSUME NEW f \in F PROVE Dense(t, f) = Dense(s, f)
    BY <1>1, <2>3, <2>4, <2>5 DEF Dense
  <2> QED
    BY <2>3, <2>4, <2>5, <2>10, <2>11 DEF KeepsSet, Dense
<1> QED
  BY <1>4, <1>5

LEMMA SparseRemoveForm ==
  ASSUME NEW s, NEW F, SetOK(s, F), NEW e, NEW G, G = F \cup {e}, OneIndex(G),
         NEW H, H = F \ {e}, NEW t, t = SparseRemove(s, e)
  PROVE  SetOK(t, H) /\ KeepsSet(s, t, H)
<1> DEFINE n == Len(s.entities)
<1>1. /\ n \in Nat /\ s.dense \in Seq(Values) /\ Len(s.dense) = n
      /\ \A f \in F : /\ f.index \in DOMAIN s.sparse /\ s.sparse[f.index] \in 1 .. n
                      /\ s.entities[s.sparse[f.index]] = f
      /\ \A i \in 1 .. n : s.entities[i] \in F /\ s.sparse[s.entities[i].index] = i
      /\ \A i \in DOMAIN s.sparse : \E f \in F : f.index = i
  BY SetOKForm
<1>2. /\ s = [entities |-> s.entities, dense |-> s.dense, sparse |-> s.sparse]
      /\ DOMAIN s.sparse = IndexOf(F) /\ Listed(s.entities, F, At(s, F))
  BY DEF SetOK
<1>3. e \in F <=> e.index \in DOMAIN s.sparse
  BY <1>1 DEF OneIndex
<1>4. CASE e \notin F
  BY <1>3, <1>4 DEF SparseRemove, KeepsSet
<1>5. CASE e \in F
  <2>1. PICK k, m, d, rest :
           /\ k = s.sparse[e.index]
           /\ m = WithoutRow(s.entities, k) /\ d = WithoutRow(s.dense, k)
           /\ rest = [i \in DOMAIN s.sparse \ {e.index} |-> s.sparse[i]]
    OBVIOUS
  <2>2. PICK p : p = IF k = n THEN rest ELSE [rest EXCEPT ![m[k].index] = k]
    OBVIOUS
  <2>3. t = [entities |-> m, dense |-> d, sparse |-> p]
    BY <1>1, <1>3, <1>5, <2>1, <2>2 DEF SparseRemove
  <2>4. t.entities = m /\ t.dense = d /\ t.sparse = p
    BY <2>3
  <2>5. k \in 1 .. n /\ s.entities[k] = e /\ s.entities \in Seq(F)
    BY <1>1, <1>2, <1>5, <2>1 DEF Listed
  <2>6. /\ Len(m) = n - 1
        /\ \A i \in 1 .. n - 1 : m[i] = s.entities[IF i = k THEN n ELSE i]
    <3>1. PICK y : y = s.entities
      OBVIOUS
    <3>2. y \in Seq(F) /\ k \in 1 .. Len(y) /\ m = WithoutRow(y, k)
      BY <2>1, <2>5, <3>1
    <3>3. Len(m) = Len(y) - 1 /\ \A i \in 1 .. Len(y) - 1 : m[i] = y[IF i = k THEN Len(y) ELSE i]
      BY <3>2, WithoutRowForm
    <3> QED
      BY <3>1, <3>3
  <2>7. /\ d \in Seq(Values) /\ Len(d) = n - 1
        /\ \A i \in 1 .. n - 1 : d[i] = s.dense[IF i = k THEN n ELSE i]
    <3>1. PICK y : y = s.dense
      OBVIOUS
    <3>2. y \in Seq(Values) /\ k \in 1 .. Len(y) /\ d = WithoutRow(y, k) /\ Len(y) = n
      BY <1>1, <2>1, <2>5, <3>1
    <3>3. /\ d \in Seq(Values) /\ Len(d) = Len(y) - 1
          /\ \A i \in 1 .. Len(y) - 1 : d[i] = y[IF i = k THEN Len(y) ELSE i]
      BY <3>2, WithoutRowForm
    <3> QED
      BY <3>1, <3>2, <3>3
  <2>8. /\ DOMAIN p = DOMAIN s.sparse \ {e.index}
        /\ \A f \in F : f # e => p[f.index] = NewRow(s.sparse[f.index], k, n)
    <3>1. \A f \in F : f # e => f.index \in DOMAIN s.sparse \ {e.index}
      BY <1>1, <1>5 DEF OneIndex
    <3>2. DOMAIN rest = DOMAIN s.sparse \ {e.index}
          /\ \A f \in F : f # e => rest[f.index] = s.sparse[f.index]
      BY <2>1, <3>1
    <3>3. CASE k = n
      <4>1. p = rest
        BY <2>2, <3>3
      <4>2. ASSUME NEW f \in F, f # e PROVE s.sparse[f.index] # n
        BY <1>1, <1>5, <2>1, <3>3, <4>2
      <4> QED
        BY <3>2, <4>1, <4>2 DEF NewRow
    <3>4. CASE k # n
      <4>1. PICK l : l = s.entities[n]
        OBVIOUS
      <4>2. m[k] = l /\ l \in F /\ l # e /\ s.sparse[l.index] = n
        <5>1. n \in 1 .. n /\ k \in 1 .. n - 1
          BY <1>1, <2>5, <3>4
        <5>2. m[k] = l
          BY <2>6, <4>1, <5>1
        <5>3. l \in F /\ s.sparse[l.index] = n
          BY <1>1, <4>1, <5>1
        <5> QED
          BY <2>1, <3>4, <5>2, <5>3
      <4>3. p = [rest EXCEPT ![l.index] = k] /\ l.index \in DOMAIN rest
        BY <2>2, <3>1, <3>2, <3>4, <4>2
      <4>4. ASSUME NEW f \in F, f # e PROVE p[f.index] = NewRow(s.sparse[f.index], k, n)
        <5>1. CASE f = l
          BY <4>2, <4>3, <5>1 DEF NewRow
        <5>2. CASE f # l
          <6>1. f.index # l.index /\ s.sparse[f.index] # n
            BY <1>1, <4>1, <4>2, <5>2 DEF OneIndex
          <6> QED
            BY <3>1, <3>2, <4>3, <4>4, <6>1 DEF NewRow
        <5> QED
          BY <5>1, <5>2
      <4> QED
        BY <3>2, <4>3, <4>4
    <3> QED
      BY <3>3, <3>4
  <2>9. DOMAIN p = IndexOf(H)
    <3>1. IndexOf(H) = IndexOf(F) \ {e.index}
      BY <1>5 DEF IndexOf, OneIndex
    <3> QED
      BY <1>2, <2>8, <3>1
  <2>10. Listed(m, H, At(t, H))
    <3>1. PICK y, z, a, b : y = s.entities /\ z = F /\ a = At(s, F) /\ b = At(t, H)
      OBVIOUS
    <3>2. a[e] = k /\ \A f \in z \ {e} : b[f] = NewRow(a[f], a[e], Len(y))
      BY <1>5, <2>1, <2>4, <2>8, <3>1 DEF At
    <3>3. Listed(y, z, a) /\ e \in z /\ m = WithoutRow(y, a[e])
      BY <1>2, <1>5, <2>1, <3>1, <3>2
    <3>4. Listed(m, z \ {e}, b)
      BY <3>2, <3>3, ListedRemove
    <3> QED
      BY <3>1, <3>4
  <2>11. SetOK(t, H)
    BY <2>3, <2>4, <2>6, <2>7, <2>9, <2>10 DEF SetOK
  <2>12. ASSUME NEW f \in H PROVE Dense(t, f) = Dense(s, f)
    <3>1. /\ s.sparse[f.index] \in 1 .. n /\ s.sparse[f.index] # k
          /\ p[f.index] = NewRow(s.sparse[f.index], k, n)
      BY <1>1, <1>5, <2>1, <2>8
    <3>2. ASSUME NEW r \in 1 .. n, r # k PROVE d[NewRow(r, k, n)] = s.dense[r]
      <4>1. CASE r = n
        BY <1>1, <2>5, <2>7, <3>2, <4>1 DEF NewRow
      <4>2. CASE r # n
        BY <1>1, <2>5, <2>7, <3>2, <4>2 DEF NewRow
      <4> QED
        BY <4>1, <4>2
    <3> QED
      BY <2>4, <3>1, <3>2 DEF Dense
  <2> QED
    BY <2>11, <2>12 DEF KeepsSet
<1> QED
  BY <1>4, <1>5

\* Those of E that have component c.
Having(E, a, c) == {e \in E : c \in a[e]}

SparseOK(S, E, a) ==
  /\ S = [c \in SparseComponents |-> S[c]]
  /\ \A c \in SparseComponents : SetOK(S[c], Having(E, a, c))

\* Between E, a and G, b the entity e got, or lost, the components cs.
Gains(E, a, G, b, e, cs) == \A c \in SparseComponents :
  Having(G, b, c) = IF c \in cs THEN Having(E, a, c) \cup {e} ELSE Having(E, a, c)

Loses(E, a, G, b, e, cs) == \A c \in SparseComponents :
  Having(G, b, c) = IF c \in cs THEN Having(E, a, c) \ {e} ELSE Having(E, a, c)

\* All entities but e have what they had, and so has e, but for the components cs.
KeepsSparse(S, T, E, a, e, cs) == \A c \in SparseComponents :
  KeepsSet(S[c], T[c], Having(E, a, c) \ {e}) /\ (c \notin cs => T[c] = S[c])

SparseReads(T, e, cs, x) == \A c \in SparseComponents \cap cs : Dense(T[c], e) = x

LEMMA SparseWrittenForm ==
  ASSUME NEW S, NEW E, NEW a, SparseOK(S, E, a), NEW e, NEW O, O = E \cup {e}, OneIndex(O),
         NEW cs, NEW x \in Values, NEW G, NEW b, Gains(E, a, G, b, e, cs),
         NEW T, T = SparseWritten(S, e, cs, x)
  PROVE  SparseOK(T, G, b) /\ KeepsSparse(S, T, E, a, e, cs) /\ SparseReads(T, e, cs, x)
<1>1. /\ T = [c \in SparseComponents |-> T[c]]
      /\ \A c \in SparseComponents : T[c] = IF c \in cs THEN SparseInsert(S[c], e, x) ELSE S[c]
  BY DEF SparseWritten
<1>2. ASSUME NEW c \in SparseComponents
      PROVE  /\ SetOK(T[c], Having(G, b, c)) /\ KeepsSet(S[c], T[c], Having(E, a, c) \ {e})
             /\ c \notin cs => T[c] = S[c]
             /\ c \in cs => Dense(T[c], e) = x
  <2>1. PICK F, s, t : F = Having(E, a, c) /\ s = S[c] /\ t = T[c]
    OBVIOUS
  <2>2. SetOK(s, F)
    BY <2>1 DEF SparseOK
  <2>3. CASE c \in cs
    <3>1. PICK H : H = F \cup {e}
      OBVIOUS
    <3>2. OneIndex(H)
      BY <2>1, <3>1 DEF OneIndex, Having
    <3>3. t = SparseInsert(s, e, x)
      BY <1>1, <2>1, <2>3
    <3>4. SetOK(t, H) /\ KeepsSet(s, t, F \ {e}) /\ Dense(t, e) = x
      BY <2>2, <3>1, <3>2, <3>3, SparseInsertForm
    <3>5. Having(G, b, c) = H
      BY <2>1, <2>3, <3>1 DEF Gains
    <3> QED
      BY <2>1, <2>3, <3>4, <3>5
  <2>4. CASE c \notin cs
    BY <1>1, <2>1, <2>2, <2>4 DEF Gains, KeepsSet
  <2> QED
    BY <2>3, <2>4
<1> QED
  BY <1>1, <1>2 DEF SparseOK, KeepsSparse, SparseReads

LEMMA SparseCleanedForm ==
  ASSUME NEW S, NEW E, NEW a, SparseOK(S, E, a), NEW e, NEW O, O = E \cup {e}, OneIndex(O),
         NEW cs, NEW G, NEW b, Loses(E, a, G, b, e, cs), NEW T, T = SparseCleaned(S, e, cs)
  PROVE  SparseOK(T, G, b) /\ KeepsSparse(S, T, E, a, e, cs)
<1>1. /\ T = [c \in SparseComponents |-> T[c]]
      /\ \A c \in SparseComponents : T[c] = IF c \in cs THEN SparseRemove(S[c], e) ELSE S[c]
  BY DEF SparseCleaned
<1>2. ASSUME NEW c \in SparseComponents
      PROVE  /\ SetOK(T[c], Having(G, b, c)) /\ KeepsSet(S[c], T[c], Having(E, a, c) \ {e})
             /\ c \notin cs => T[c] = S[c]
  <2>1. PICK F, s, t : F = Having(E, a, c) /\ s = S[c] /\ t = T[c]
    OBVIOUS
  <2>2. SetOK(s, F)
    BY <2>1 DEF SparseOK
  <2>3. CASE c \in cs
    <3>1. PICK H, I : H = F \cup {e} /\ I = F \ {e}
      OBVIOUS
    <3>2. OneIndex(H)
      BY <2>1, <3>1 DEF OneIndex, Having
    <3>3. t = SparseRemove(s, e)
      BY <1>1, <2>1, <2>3
    <3>4. SetOK(t, I) /\ KeepsSet(s, t, I)
      BY <2>2, <3>1, <3>2, <3>3, SparseRemoveForm
    <3>5. Having(G, b, c) = I
      BY <2>1, <2>3, <3>1 DEF Loses
    <3> QED
      BY <2>1, <2>3, <3>1, <3>4, <3>5
  <2>4. CASE c \notin cs
    BY <1>1, <2>1, <2>2, <2>4 DEF Loses, KeepsSet
  <2> QED
    BY <2>3, <2>4
<1> QED
  BY <1>1, <1>2 DEF SparseOK, KeepsSparse

\* Both kinds of components are stored.
Whole(w, E, a) == Stored(w, E, a) /\ SparseOK(w.sparse, E, a)

\* What an entity reads as its component c.
ValueIn(w, e, c) == IF c \in TableComponents THEN TableValue(w, e, c) ELSE Dense(w.sparse[c], e)

KeepsValues(w, v, e, cs) == \A c \in cs : ValueIn(v, e, c) = ValueIn(w, e, c)

KeepsAll(w, v, E, a) == \A e \in E : KeepsValues(w, v, e, a[e])

LEMMA KeepsBoth ==
  ASSUME NEW w, NEW v, NEW E, NEW a, NEW e, NEW cs, KeepsSparse(w.sparse, v.sparse, E, a, e, cs),
         KeepsTables(w, v, E \ {e}, a), \A f \in E : a[f] \in Archetype
  PROVE  KeepsAll(w, v, E \ {e}, a)
<1>1. ASSUME NEW f \in E \ {e}, NEW c \in a[f] PROVE ValueIn(v, f, c) = ValueIn(w, f, c)
  <2>1. CASE c \in TableComponents
    BY <1>1, <2>1 DEF KeepsTables, KeepsColumns, TableOf, ValueIn
  <2>2. CASE c \notin TableComponents
    <3>1. c \in SparseComponents /\ f \in Having(E, a, c) \ {e}
      BY <1>1, <2>2 DEF Archetype, Components, Having
    <3> QED
      BY <2>2, <3>1 DEF KeepsSparse, KeepsSet, ValueIn
  <2> QED
    BY <2>1, <2>2
<1> QED
  BY <1>1 DEF KeepsAll, KeepsValues

-----------------------------------------------------------------------------
(***************************************************************************)
(* Bundles                                                                 *)
(***************************************************************************)
LEMMA StoredForm ==
  ASSUME NEW w, NEW E, NEW a, Stored(w, E, a)
  PROVE  /\ IsWorld(w) /\ w.ents \in Entities /\ E \subseteq Entity /\ OneIndex(E)
         /\ \A e \in E : a[e] \in Archetype /\ Place(w, e).archetype = a[e] /\ Issued(w.ents, e)
<1>1. PICK r, t : StoredAt(w, E, a, r, t)
  BY DEF Stored
<1>2. Rows(w, E, a, r, t)
  BY <1>1 DEF StoredAt
<1>3. /\ IsWorld(w) /\ w.ents \in Entities /\ Rowed(E, a, r, t) /\ E \subseteq Entity
      /\ Located(w.ents, E, a, r, t)
  BY <1>2 DEF Rows, Located
<1>4. \A e \in E : Place(w, e).archetype = a[e]
  BY <1>2, PlaceOf
<1>5. \A e \in E : Issued(w.ents, e)
  BY <1>3 DEF Located, Issued
<1>6. OneIndex(E)
  BY <1>5 DEF OneIndex, Issued, Entity
<1> QED
  BY <1>3, <1>4, <1>5, <1>6 DEF Rowed

LEMMA OneIndexMore ==
  ASSUME NEW x, NEW E, \A f \in E : Issued(x, f), NEW e, Issued(x, e), NEW O, O = E \cup {e}
  PROVE  OneIndex(O)
<1>1. \A f \in O : Issued(x, f)
  OBVIOUS
<1> QED
  BY <1>1 DEF OneIndex, Issued, Entity

LEMMA StoredSame ==
  ASSUME NEW w, NEW E, NEW a, Stored(w, E, a), NEW v, IsWorld(v), v.ents = w.ents,
         v.arch = w.arch, v.table = w.table, NEW b, \A e \in E : b[e] = a[e]
  PROVE  Stored(v, E, b)
<1>1. PICK r, t : StoredAt(w, E, a, r, t)
  BY DEF Stored
<1>2. /\ w.ents \in Entities /\ Rowed(E, a, r, t)
      /\ ArchOK(w.arch, E, a, r) /\ Linked(w.arch, E, a, r, t) /\ Located(w.ents, E, a, r, t)
      /\ TableOK(w.table, E, TablesOf(E, a), t)
  BY <1>1 DEF StoredAt, Rows
<1>3. TablesOf(E, b) = TablesOf(E, a) /\ \A cs : With(E, b, cs) = With(E, a, cs)
  BY DEF TablesOf, With
<1>4. Rowed(E, b, r, t) /\ Linked(v.arch, E, b, r, t) /\ Located(v.ents, E, b, r, t)
  BY <1>2 DEF Rowed, Linked, Located
<1>5. ArchOK(v.arch, E, b, r) /\ TableOK(v.table, E, TablesOf(E, b), t)
  BY <1>2, <1>3 DEF ArchOK
<1> QED
  BY <1>2, <1>4, <1>5 DEF Stored, StoredAt, Rows

LEMMA KeepsTablesTwice ==
  ASSUME NEW w, NEW v, NEW z, NEW E, NEW a, NEW b, KeepsTables(w, v, E, a), KeepsTables(v, z, E, b),
         \A e \in E : b[e] = a[e]
  PROVE  KeepsTables(w, z, E, a)
BY DEF KeepsTables, KeepsColumns

\* e is an entity now, and reads x for its components.
Entered(w, v, E, a, b, e, x) ==
  /\ Whole(v, E \cup {e}, b) /\ LocationsOf(w.ents, v.ents, {e}) /\ KeepsAll(w, v, E, a)
  /\ \A c \in b[e] : ValueIn(v, e, c) = x

LEMMA SpawnNonExistentForm ==
  ASSUME NEW w, NEW E, NEW a, Whole(w, E, a), NEW e, e \notin E, Issued(w.ents, e),
         NEW to \in Archetype, NEW x \in Values, NEW b, b = Put(a, E, e, to),
         NEW v, v = SpawnNonExistent(w, e, to, x)
  PROVE  Entered(w, v, E, a, b, e, x)
<1>1. /\ Stored(w, E, a) /\ SparseOK(w.sparse, E, a)
      /\ \A f \in E : a[f] \in Archetype /\ Issued(w.ents, f)
  BY StoredForm DEF Whole
<1>2. PICK z, O : z = Allocate(w, to, e) /\ O = E \cup {e}
  OBVIOUS
<1>3. Allocated(w, z, E, a, b, e)
  BY <1>1, <1>2, AllocateForm
<1>4. /\ Stored(z, O, b) /\ z.sparse = w.sparse /\ LocationsOf(w.ents, z.ents, {e})
      /\ KeepsTables(w, z, E, a) /\ e \in O
  BY <1>2, <1>3 DEF Allocated
<1>5. v = WriteComponents(z, e, to, x)
  BY <1>2 DEF SpawnNonExistent
<1>6. Written(z, v, O, b, e, to, x)
  BY <1>4, <1>5, WriteForm
<1>7. /\ Stored(v, O, b) /\ v.ents = z.ents /\ v.sparse = SparseWritten(w.sparse, e, to, x)
      /\ KeepsTables(z, v, O \ {e}, b)
      /\ \A c \in TableOf(b[e]) \cap to : TableValue(v, e, c) = x
  BY <1>4, <1>6 DEF Written
<1>8. b[e] = to /\ \A f \in E : b[f] = a[f] /\ f # e
  BY DEF Put
<1>9. OneIndex(O)
  BY <1>1, <1>2, OneIndexMore
<1>10. Gains(E, a, O, b, e, to)
  BY <1>2, <1>8 DEF Gains, Having
<1>11. PICK S, T : S = w.sparse /\ T = v.sparse
  OBVIOUS
<1>12. SparseOK(T, O, b) /\ KeepsSparse(S, T, E, a, e, to) /\ SparseReads(T, e, to, x)
  <2>1. SparseOK(S, E, a) /\ T = SparseWritten(S, e, to, x)
    BY <1>1, <1>7, <1>11
  <2> QED
    BY <1>2, <1>9, <1>10, <2>1, SparseWrittenForm, Zenon
<1>13. KeepsTables(w, v, E, a)
  <2>1. KeepsTables(z, v, E, b)
    BY <1>2, <1>7, <1>8 DEF KeepsTables
  <2> QED
    BY <1>4, <1>8, <2>1, KeepsTablesTwice
<1>14. KeepsAll(w, v, E, a)
  <2>1. E \ {e} = E
    OBVIOUS
  <2>2. KeepsAll(w, v, E \ {e}, a)
    BY <1>1, <1>11, <1>12, <1>13, <2>1, KeepsBoth, Zenon
  <2> QED
    BY <2>1, <2>2
<1>15. \A c \in b[e] : ValueIn(v, e, c) = x
  BY <1>7, <1>8, <1>11, <1>12 DEF SparseReads, ValueIn, TableOf, Archetype, Components
<1> QED
  BY <1>2, <1>4, <1>7, <1>11, <1>12, <1>14, <1>15 DEF Entered, Whole

\* The entity e has other components now; the others read what they had.
Changed(w, v, E, a, b, e) ==
  Whole(v, E, b) /\ LocationsOf(w.ents, v.ents, E) /\ KeepsAll(w, v, E \ {e}, a)

\* The components in the bundle are x.
Reads(v, e, bundle, x) == \A c \in bundle : ValueIn(v, e, c) = x

LEMMA InsertBundleForm ==
  ASSUME NEW w, NEW E, NEW a, Whole(w, E, a), NEW e \in E, NEW bundle \in Archetype,
         NEW x \in Values, NEW b, b = Put(a, E \ {e}, e, a[e] \cup bundle),
         NEW v, v = InsertBundle(w, e, a[e], bundle, x)
  PROVE  /\ Changed(w, v, E, a, b, e) /\ KeepsValues(w, v, e, a[e] \ bundle)
         /\ Reads(v, e, bundle, x)
<1>1. /\ Stored(w, E, a) /\ SparseOK(w.sparse, E, a) /\ w.ents \in Entities /\ OneIndex(E)
      /\ IsWorld(w)
      /\ \A f \in E : a[f] \in Archetype /\ Place(w, f).archetype = a[f]
  BY StoredForm DEF Whole
<1>2. PICK to, z : to = a[e] \cup bundle /\ z = (IF to = a[e] THEN w ELSE Move(w, e, to))
  OBVIOUS
<1>3. /\ to \in Archetype /\ b[e] = to /\ v = WriteComponents(z, e, bundle, x)
      /\ \A f \in E : f # e => b[f] = a[f]
  BY <1>1, <1>2 DEF Archetype, Put, InsertBundle
<1>4. /\ Stored(z, E, b) /\ z.sparse = w.sparse /\ LocationsOf(w.ents, z.ents, E)
      /\ KeepsTables(w, z, E \ {e}, a) /\ KeepsColumns(w, z, e, TableOf(a[e]))
  <2>1. CASE to = a[e]
    <3>1. z = w /\ \A f \in E : b[f] = a[f]
      BY <1>2, <1>3, <2>1
    <3>2. Stored(z, E, b)
      BY <1>1, <3>1, StoredSame
    <3> QED
      BY <1>1, <3>1, <3>2, LocationsItself DEF KeepsTables, KeepsColumns
  <2>2. CASE to # a[e]
    <3>1. z = Move(w, e, to) /\ b = Put(a, E \ {e}, e, to)
      BY <1>2, <2>2
    <3>2. Moved(w, z, E, a, b, e, to)
      BY <1>1, <1>3, <3>1, MoveForm
    <3>3. TableOf(a[e]) \cap TableOf(to) = TableOf(a[e])
      BY <1>2 DEF TableOf
    <3> QED
      BY <3>2, <3>3 DEF Moved
  <2> QED
    BY <2>1, <2>2
<1>5. Written(z, v, E, b, e, bundle, x)
  BY <1>3, <1>4, WriteForm
<1>6. /\ Stored(v, E, b) /\ v.ents = z.ents /\ v.sparse = SparseWritten(w.sparse, e, bundle, x)
      /\ KeepsTables(z, v, E \ {e}, b) /\ KeepsColumns(z, v, e, TableOf(b[e]) \ bundle)
      /\ \A c \in TableOf(b[e]) \cap bundle : TableValue(v, e, c) = x
  BY <1>4, <1>5 DEF Written
<1>7. Gains(E, a, E, b, e, bundle)
  BY <1>2, <1>3 DEF Gains, Having
<1>8. PICK S, T : S = w.sparse /\ T = v.sparse
  OBVIOUS
<1>9. SparseOK(T, E, b) /\ KeepsSparse(S, T, E, a, e, bundle) /\ SparseReads(T, e, bundle, x)
  <2>1. SparseOK(S, E, a) /\ T = SparseWritten(S, e, bundle, x)
    BY <1>1, <1>6, <1>8
  <2>2. PICK O : O = E \cup {e}
    OBVIOUS
  <2>3. OneIndex(O)
    BY <1>1, <2>2 DEF OneIndex
  <2> QED
    BY <1>7, <2>1, <2>2, <2>3, SparseWrittenForm, Zenon
<1>10. KeepsAll(w, v, E \ {e}, a)
  <2>1. KeepsTables(w, v, E \ {e}, a)
    <3>1. PICK F : F = E \ {e}
      OBVIOUS
    <3>2. KeepsTables(w, z, F, a) /\ KeepsTables(z, v, F, b) /\ \A f \in F : b[f] = a[f]
      BY <1>3, <1>4, <1>6, <3>1
    <3>3. KeepsTables(w, v, F, a)
      BY <3>2 DEF KeepsTables, KeepsColumns
    <3> QED
      BY <3>1, <3>3
  <2> QED
    BY <1>1, <1>8, <1>9, <2>1, KeepsBoth, Zenon
<1>11. KeepsValues(w, v, e, a[e] \ bundle)
  <2>1. ASSUME NEW c \in a[e] \ bundle PROVE ValueIn(v, e, c) = ValueIn(w, e, c)
    <3>1. CASE c \in TableComponents
      <4>1. c \in TableOf(a[e]) /\ c \in TableOf(b[e]) \ bundle
        BY <1>2, <1>3, <2>1, <3>1 DEF TableOf
      <4> QED
        BY <1>4, <1>6, <3>1, <4>1 DEF KeepsColumns, ValueIn
    <3>2. CASE c \notin TableComponents
      <4>1. c \in SparseComponents
        BY <1>1, <2>1, <3>2 DEF Archetype, Components
      <4> QED
        BY <1>8, <1>9, <2>1, <3>2, <4>1 DEF KeepsSparse, ValueIn
    <3> QED
      BY <3>1, <3>2
  <2> QED
    BY <2>1 DEF KeepsValues
<1>12. Reads(v, e, bundle, x)
  <2>1. ASSUME NEW c \in bundle PROVE ValueIn(v, e, c) = x
    <3>1. CASE c \in TableComponents
      <4>1. c \in TableOf(b[e]) \cap bundle
        BY <1>2, <1>3, <2>1, <3>1 DEF TableOf
      <4> QED
        BY <1>6, <3>1, <4>1 DEF ValueIn
    <3>2. CASE c \notin TableComponents
      <4>1. c \in SparseComponents \cap bundle
        BY <2>1, <3>2 DEF Archetype, Components
      <4> QED
        BY <1>8, <1>9, <3>2, <4>1 DEF SparseReads, ValueIn
    <3> QED
      BY <3>1, <3>2
  <2> QED
    BY <2>1 DEF Reads
<1> QED
  BY <1>4, <1>6, <1>8, <1>9, <1>10, <1>11, <1>12 DEF Changed, Whole

LEMMA RemoveBundleForm ==
  ASSUME NEW w, NEW E, NEW a, Whole(w, E, a), NEW e \in E, NEW bundle,
         NEW b, b = Put(a, E \ {e}, e, a[e] \ bundle), NEW v, v = RemoveBundle(w, e, bundle)
  PROVE  Changed(w, v, E, a, b, e) /\ KeepsValues(w, v, e, a[e] \ bundle)
<1>1. /\ Stored(w, E, a) /\ SparseOK(w.sparse, E, a) /\ w.ents \in Entities /\ OneIndex(E)
      /\ IsWorld(w) /\ \A f \in E : a[f] \in Archetype /\ Place(w, f).archetype = a[f]
  BY StoredForm DEF Whole
<1>2. PICK removed, to, S, T, z :
         /\ removed = a[e] \cap bundle /\ to = a[e] \ bundle
         /\ S = w.sparse /\ T = SparseCleaned(S, e, removed) /\ z = [w EXCEPT !.sparse = T]
  OBVIOUS
<1>3. v = IF removed = {} THEN w ELSE Move(z, e, to)
  <2>1. z = [w EXCEPT !.sparse = [c \in SparseComponents |->
                IF c \in removed THEN SparseRemove(w.sparse[c], e) ELSE w.sparse[c]]]
    BY <1>2 DEF SparseCleaned
  <2>2. Place(w, e).archetype = a[e]
    BY <1>1
  <2>3. PICK p : p = Place(w, e).archetype
    OBVIOUS
  <2>4. v = IF p \cap bundle = {} THEN w
            ELSE Move([w EXCEPT !.sparse = [c \in SparseComponents |->
                         IF c \in p \cap bundle THEN SparseRemove(w.sparse[c], e)
                         ELSE w.sparse[c]]], e, p \ bundle)
    BY <1>1, <2>3 DEF RemoveBundle, IsWorld
  <2> QED
    BY <1>2, <2>1, <2>2, <2>3, <2>4
<1>4. /\ to \in Archetype /\ b[e] = to /\ b = Put(a, E \ {e}, e, to)
      /\ \A f \in E : f # e => b[f] = a[f]
  BY <1>1, <1>2 DEF Archetype, Put
<1>5. /\ IsWorld(z) /\ z.ents = w.ents /\ z.arch = w.arch /\ z.table = w.table /\ z.sparse = T
      /\ \A f, c : TableValue(z, f, c) = TableValue(w, f, c)
  BY <1>1, <1>2 DEF IsWorld, TableValue, Place
<1>6. CASE removed = {}
  <2>1. v = w /\ to = a[e] /\ \A f \in E : b[f] = a[f]
    BY <1>2, <1>3, <1>4, <1>6
  <2>2. Stored(v, E, b)
    BY <1>1, <2>1, StoredSame
  <2>3. \A c : Having(E, b, c) = Having(E, a, c)
    BY <2>1 DEF Having
  <2>4. SparseOK(v.sparse, E, b)
    BY <1>1, <2>1, <2>3 DEF SparseOK
  <2> QED
    BY <1>1, <2>1, <2>2, <2>4, LocationsItself DEF Changed, Whole, KeepsAll, KeepsValues
<1>7. CASE removed # {}
  <2>1. Stored(z, E, a)
    BY <1>1, <1>5, StoredSame
  <2>2. Moved(z, v, E, a, b, e, to)
    <3>1. v = Move(z, e, to)
      BY <1>3, <1>7
    <3> QED
      BY <1>4, <2>1, <3>1, MoveForm
  <2>3. /\ Stored(v, E, b) /\ v.sparse = T /\ LocationsOf(w.ents, v.ents, E)
        /\ KeepsTables(w, v, E \ {e}, a) /\ KeepsColumns(w, v, e, TableOf(a[e]) \cap TableOf(to))
    BY <1>5, <2>2 DEF Moved, KeepsTables, KeepsColumns
  <2>4. Loses(E, a, E, b, e, removed)
    BY <1>2, <1>4 DEF Loses, Having
  <2>5. SparseOK(T, E, b) /\ KeepsSparse(S, T, E, a, e, removed)
    <3>1. SparseOK(S, E, a)
      BY <1>1, <1>2
    <3>2. PICK O : O = E \cup {e}
      OBVIOUS
    <3>3. OneIndex(O)
      BY <1>1, <3>2 DEF OneIndex
    <3> QED
      BY <1>2, <2>4, <3>1, <3>2, <3>3, SparseCleanedForm, Zenon
  <2>6. KeepsAll(w, v, E \ {e}, a)
    <3>1. KeepsSparse(w.sparse, v.sparse, E, a, e, removed) /\ \A f \in E : a[f] \in Archetype
      BY <1>1, <1>2, <2>3, <2>5
    <3> QED
      BY <2>3, <3>1, KeepsBoth, Zenon
  <2>7. KeepsValues(w, v, e, a[e] \ bundle)
    <3>1. ASSUME NEW c \in a[e] \ bundle PROVE ValueIn(v, e, c) = ValueIn(w, e, c)
      <4>1. CASE c \in TableComponents
        <5>1. c \in TableOf(a[e]) \cap TableOf(to)
          BY <1>2, <3>1, <4>1 DEF TableOf
        <5> QED
          BY <2>3, <4>1, <5>1 DEF KeepsColumns, ValueIn
      <4>2. CASE c \notin TableComponents
        <5>1. c \in SparseComponents /\ c \notin removed
          BY <1>1, <1>2, <3>1, <4>2 DEF Archetype, Components
        <5> QED
          BY <1>2, <2>3, <2>5, <4>2, <5>1 DEF KeepsSparse, ValueIn
      <4> QED
        BY <4>1, <4>2
    <3> QED
      BY <3>1 DEF KeepsValues
  <2> QED
    BY <2>3, <2>5, <2>6, <2>7 DEF Changed, Whole
<1> QED
  BY <1>6, <1>7

-----------------------------------------------------------------------------
(***************************************************************************)
(* The allocator.  Free indices are known, have no location, and are free  *)
(* once; the cursor does not lie behind them.                              *)
(***************************************************************************)
IsFree(x, i) == \E k \in 1 .. Len(x.pending) : x.pending[k] = i

Tidy(x) ==
  /\ x \in Entities /\ x.cursor <= Len(x.pending)
  /\ \A k \in 1 .. Len(x.pending) :
       Known(x, x.pending[k]) /\ x.meta[x.pending[k]].location = NoLocation
  /\ \A k, l \in 1 .. Len(x.pending) : x.pending[k] = x.pending[l] => k = l

Flat(x) == x.cursor = Len(x.pending)

LEMMA EntitiesForm ==
  ASSUME NEW x \in Entities
  PROVE  /\ x = [meta |-> x.meta, pending |-> x.pending, cursor |-> x.cursor, len |-> x.len]
         /\ x.meta \in Seq(Meta) /\ x.pending \in Seq(Nat) /\ x.cursor \in Int /\ x.len \in Int
         /\ Len(x.meta) \in Nat /\ Len(x.pending) \in Nat
         /\ \A i \in 1 .. Len(x.meta) :
              /\ x.meta[i] \in Meta /\ x.meta[i].generation \in Generation
              /\ x.meta[i].location \in Places \cup {NoLocation}
              /\ x.meta[i] = [generation |-> x.meta[i].generation,
                              location |-> x.meta[i].location]
         /\ \A k \in 1 .. Len(x.pending) : x.pending[k] \in Nat
<1>1. /\ x = [meta |-> x.meta, pending |-> x.pending, cursor |-> x.cursor, len |-> x.len]
      /\ x.meta \in Seq(Meta) /\ x.pending \in Seq(Nat) /\ x.cursor \in Int /\ x.len \in Int
  BY DEF Entities
<1>2. PICK m, p : m = x.meta /\ p = x.pending
  OBVIOUS
<1>3. m \in Seq(Meta) /\ p \in Seq(Nat)
  BY <1>1, <1>2
<1>4. \A i \in 1 .. Len(m) : m[i] \in Meta
  BY <1>3
<1>5. \A i \in 1 .. Len(m) : /\ m[i].generation \in Generation
                             /\ m[i].location \in Places \cup {NoLocation}
                             /\ m[i] = [generation |-> m[i].generation, location |-> m[i].location]
  BY <1>4 DEF Meta
<1>6. \A k \in 1 .. Len(p) : p[k] \in Nat
  BY <1>3
<1> QED
  BY <1>1, <1>2, <1>3, <1>4, <1>5, <1>6

LEMMA AliveForm ==
  ASSUME NEW x \in Entities
  PROVE  \A e : e \in Alive(x) <=> Issued(x, e) /\ x.meta[e.index].location # NoLocation
<1>1. \A i \in 1 .. Len(x.meta) : x.meta[i].generation \in Generation /\ i \in Nat
  <2>1. \A i \in 1 .. Len(x.meta) : x.meta[i].generation \in Generation
    BY EntitiesForm, Zenon
  <2>2. \A i \in 1 .. Len(x.meta) : i \in Nat
    OBVIOUS
  <2> QED
    BY <2>1, <2>2
<1>2. ASSUME NEW e, e \in Alive(x) PROVE Issued(x, e) /\ x.meta[e.index].location # NoLocation
  <2>1. PICK i \in 1 .. Len(x.meta) : e = [index |-> i, generation |-> x.meta[i].generation]
    BY <1>2 DEF Alive, ResolveFromIndex, Id, Known
  <2>2. e.index = i /\ e.generation = x.meta[i].generation /\ e \in Entity
    BY <1>1, <2>1 DEF Entity
  <2>3. Exists(x, e)
    BY <1>2 DEF Alive
  <2> QED
    BY <2>2, <2>3 DEF Issued, Exists, Known
<1>3. ASSUME NEW e, Issued(x, e), x.meta[e.index].location # NoLocation PROVE e \in Alive(x)
  <2>1. /\ e \in Entity /\ e.index \in 1 .. Len(x.meta)
        /\ x.meta[e.index].generation = e.generation
    BY <1>3 DEF Issued, Known
  <2>2. e = [index |-> e.index, generation |-> x.meta[e.index].generation]
    BY <2>1 DEF Entity
  <2>3. e = ResolveFromIndex(x, e.index)
    BY <2>1, <2>2 DEF ResolveFromIndex, Known, Id
  <2>4. Exists(x, e)
    BY <1>3, <2>1 DEF Exists, Known
  <2> QED
    BY <2>1, <2>3, <2>4 DEF Alive
<1> QED
  BY <1>2, <1>3

\* Who is alive when the locations of F were given, or changed.
LEMMA AliveThen ==
  ASSUME NEW x \in Entities, NEW y, NEW F, LocationsOf(x, y, F), \A f \in F : Issued(x, f),
         \A f \in F : y.meta[f.index].location # NoLocation
  PROVE  Alive(y) = Alive(x) \cup F
<1>1. y \in Entities /\ Len(y.meta) = Len(x.meta)
      /\ \A i \in 1 .. Len(x.meta) : /\ y.meta[i].generation = x.meta[i].generation
                                     /\ (\A f \in F : f.index # i) => y.meta[i] = x.meta[i]
  BY DEF LocationsOf
<1>2. \A e : Issued(y, e) <=> Issued(x, e)
  BY <1>1 DEF Issued, Known
<1>3. ASSUME NEW e, Issued(x, e), e \notin F PROVE y.meta[e.index] = x.meta[e.index]
  <2>1. \A f \in F : f.index # e.index
    BY <1>3 DEF Issued, Entity
  <2> QED
    BY <1>1, <1>3, <2>1 DEF Issued, Known
<1>4. ASSUME NEW e PROVE e \in Alive(y) <=> e \in Alive(x) \cup F
  <2>1. e \in Alive(y) <=> Issued(y, e) /\ y.meta[e.index].location # NoLocation
    BY <1>1, AliveForm
  <2>2. e \in Alive(x) <=> Issued(x, e) /\ x.meta[e.index].location # NoLocation
    BY AliveForm
  <2>3. CASE e \in F
    BY <1>2, <2>1, <2>3
  <2>4. CASE e \notin F
    BY <1>2, <1>3, <2>1, <2>2, <2>4
  <2> QED
    BY <2>3, <2>4
<1> QED
  BY <1>4

LEMMA TidyThen ==
  ASSUME NEW x, Tidy(x), NEW y, NEW F, LocationsOf(x, y, F), \A f \in F : ~IsFree(x, f.index)
  PROVE  Tidy(y) /\ (Flat(x) => Flat(y)) /\ Reserved(y) = Reserved(x)
<1>1. /\ y \in Entities /\ y.pending = x.pending /\ y.cursor = x.cursor
      /\ Len(y.meta) = Len(x.meta)
      /\ \A i \in 1 .. Len(x.meta) : /\ y.meta[i].generation = x.meta[i].generation
                                     /\ (\A f \in F : f.index # i) => y.meta[i] = x.meta[i]
  BY DEF LocationsOf
<1>2. ASSUME NEW k \in 1 .. Len(y.pending)
      PROVE  Known(y, y.pending[k]) /\ y.meta[y.pending[k]].location = NoLocation
  <2>1. PICK i : i = x.pending[k]
    OBVIOUS
  <2>2. Known(x, i) /\ x.meta[i].location = NoLocation /\ IsFree(x, i) /\ y.pending[k] = i
    BY <1>1, <2>1 DEF Tidy, IsFree
  <2>3. \A f \in F : f.index # i
    BY <2>2
  <2> QED
    BY <1>1, <2>2, <2>3 DEF Known
<1>3. Tidy(y)
  BY <1>1, <1>2 DEF Tidy
<1>4. Awaiting(y) = Awaiting(x)
  BY <1>1 DEF Awaiting, IndicesBetween
<1>5. \A i : ResolveFromIndex(y, i) = ResolveFromIndex(x, i)
  BY <1>1 DEF ResolveFromIndex, Known
<1> QED
  BY <1>1, <1>3, <1>4, <1>5 DEF Flat, Reserved

LEMMA AwaitingForm ==
  ASSUME NEW x, Tidy(x)
  PROVE  \A i : i \in Awaiting(x) <=>
           \/ \E k \in 1 .. Len(x.pending) : k > x.cursor /\ i = x.pending[k]
           \/ i \in Len(x.meta) + 1 .. Len(x.meta) - x.cursor
<1>1. x.cursor \in Int /\ x.cursor <= Len(x.pending) /\ Len(x.pending) \in Nat /\ Len(x.meta) \in Nat
  BY EntitiesForm DEF Tidy
<1>2. PICK c, n, l : c = x.cursor /\ n = Len(x.pending) /\ l = Len(x.meta)
  OBVIOUS
<1>3. Awaiting(x) = {x.pending[k] : k \in AtLeastZero(c) + 1 .. AtLeastZero(n)}
                      \cup (l - AtMostZero(n) + 1 .. l - AtMostZero(c))
  BY <1>2 DEF Awaiting, IndicesBetween
<1>4. AtLeastZero(n) = n /\ AtMostZero(n) = 0
  BY <1>1, <1>2 DEF AtLeastZero, AtMostZero
<1>5. \A k : k \in AtLeastZero(c) + 1 .. n <=> k \in 1 .. n /\ k > c
  BY <1>1, <1>2 DEF AtLeastZero
<1>6. l + 1 .. l - AtMostZero(c) = l + 1 .. l - c
  BY <1>1, <1>2 DEF AtMostZero
<1>7. ASSUME NEW i
      PROVE  i \in Awaiting(x) <=>
               (\E k \in 1 .. n : k > c /\ i = x.pending[k]) \/ i \in l + 1 .. l - c
  <2>1. i \in Awaiting(x) <=>
          \/ \E k \in AtLeastZero(c) + 1 .. n : i = x.pending[k]
          \/ i \in l - AtMostZero(n) + 1 .. l - AtMostZero(c)
    BY <1>3, <1>4
  <2>2. (\E k \in AtLeastZero(c) + 1 .. n : i = x.pending[k])
          <=> \E k \in 1 .. n : k > c /\ i = x.pending[k]
    BY <1>5
  <2>3. l - AtMostZero(n) + 1 .. l - AtMostZero(c) = l + 1 .. l - c
    BY <1>1, <1>2, <1>4, <1>6
  <2> QED
    BY <2>1, <2>2, <2>3
<1> QED
  BY <1>2, <1>7

LEMMA FlatForm ==
  ASSUME NEW x, Tidy(x), Flat(x)
  PROVE  Reserved(x) = {} /\ x.cursor \in Nat
<1>1. Len(x.pending) \in Nat /\ Len(x.meta) \in Nat
  BY EntitiesForm DEF Tidy
<1>2. \A i : i \notin Awaiting(x)
  BY <1>1, AwaitingForm DEF Flat
<1> QED
  BY <1>1, <1>2 DEF Reserved, Flat

\* An id nobody has is promised to a system.
LEMMA ReserveForm ==
  ASSUME NEW x, Tidy(x), NEW y, y = reserve_entity(x)
  PROVE  /\ Tidy(y) /\ Alive(y) = Alive(x) /\ y.meta = x.meta
         /\ \E e : e \notin Reserved(x) \cup Alive(x) /\ Reserved(y) = Reserved(x) \cup {e}
<1>1. /\ x = [meta |-> x.meta, pending |-> x.pending, cursor |-> x.cursor, len |-> x.len]
      /\ x.meta \in Seq(Meta) /\ x.pending \in Seq(Nat) /\ x.cursor \in Int /\ x.len \in Int
      /\ Len(x.meta) \in Nat /\ Len(x.pending) \in Nat
      /\ x.cursor <= Len(x.pending) /\ x \in Entities
  BY EntitiesForm DEF Tidy
<1>2. /\ y = [meta |-> x.meta, pending |-> x.pending, cursor |-> x.cursor - 1, len |-> x.len]
      /\ y.meta = x.meta /\ y.pending = x.pending /\ y.cursor = x.cursor - 1
  BY <1>1 DEF reserve_entity, reserve_entities
<1>3. Tidy(y)
  <2>1. y \in Entities
    BY <1>1, <1>2 DEF Entities
  <2>2. \A i : Known(y, i) <=> Known(x, i)
    BY <1>2 DEF Known
  <2>3. y.cursor <= Len(y.pending)
    BY <1>1, <1>2
  <2> QED
    BY <1>2, <2>1, <2>2, <2>3 DEF Tidy
<1>4. Alive(y) = Alive(x)
  BY <1>2 DEF Alive, ResolveFromIndex, Known, Exists
<1>5. PICK i : i = NextIndex(x)
  OBVIOUS
<1>6. ASSUME NEW j PROVE j \in Awaiting(y) <=> j \in Awaiting(x) \/ j = i
  <2>1. j \in Awaiting(x) <=>
          \/ \E k \in 1 .. Len(x.pending) : k > x.cursor /\ j = x.pending[k]
          \/ j \in Len(x.meta) + 1 .. Len(x.meta) - x.cursor
    BY AwaitingForm
  <2>2. j \in Awaiting(y) <=>
          \/ \E k \in 1 .. Len(x.pending) : k > x.cursor - 1 /\ j = x.pending[k]
          \/ j \in Len(x.meta) + 1 .. Len(x.meta) - (x.cursor - 1)
    BY <1>2, <1>3, AwaitingForm
  <2>3. CASE x.cursor > 0
    <3>1. i = x.pending[x.cursor] /\ x.cursor \in 1 .. Len(x.pending)
      BY <1>1, <1>5, <2>3 DEF NextIndex
    <3> QED
      BY <1>1, <2>1, <2>2, <2>3, <3>1
  <2>4. CASE ~(x.cursor > 0)
    <3>1. i = Len(x.meta) - x.cursor + 1
      BY <1>5, <2>4 DEF NextIndex
    <3> QED
      BY <1>1, <2>1, <2>2, <2>4, <3>1
  <2> QED
    BY <2>3, <2>4
<1>7. i \notin Awaiting(x) /\ (Known(x, i) => x.meta[i].location = NoLocation)
  <2>1. i \in Awaiting(x) <=>
          \/ \E k \in 1 .. Len(x.pending) : k > x.cursor /\ i = x.pending[k]
          \/ i \in Len(x.meta) + 1 .. Len(x.meta) - x.cursor
    BY AwaitingForm
  <2>2. CASE x.cursor > 0
    <3>1. i = x.pending[x.cursor] /\ x.cursor \in 1 .. Len(x.pending)
      BY <1>1, <1>5, <2>2 DEF NextIndex
    <3>2. i \in 1 .. Len(x.meta) /\ x.meta[i].location = NoLocation
      BY <3>1 DEF Tidy, Known
    <3>3. \A k \in 1 .. Len(x.pending) : k > x.cursor => x.pending[k] # i
      BY <1>1, <3>1 DEF Tidy
    <3> QED
      BY <1>1, <2>1, <3>2, <3>3
  <2>3. CASE ~(x.cursor > 0)
    <3>1. i = Len(x.meta) - x.cursor + 1 /\ i > Len(x.meta)
      BY <1>1, <1>5, <2>3 DEF NextIndex
    <3>2. \A k \in 1 .. Len(x.pending) : x.pending[k] # i
      BY <1>1, <3>1 DEF Tidy, Known
    <3> QED
      BY <1>1, <2>1, <3>1, <3>2 DEF Known
  <2> QED
    BY <2>2, <2>3
<1>8. PICK e : e = ResolveFromIndex(x, i)
  OBVIOUS
<1>9. e.index = i
  BY <1>8 DEF ResolveFromIndex, Id
<1>10. Reserved(y) = Reserved(x) \cup {e}
  <2>1. \A j : ResolveFromIndex(y, j) = ResolveFromIndex(x, j)
    BY <1>2 DEF ResolveFromIndex, Known
  <2> QED
    BY <1>6, <1>8, <2>1 DEF Reserved
<1>11. e \notin Reserved(x)
  <2>1. ASSUME NEW j \in Awaiting(x) PROVE ResolveFromIndex(x, j) # e
    <3>1. ResolveFromIndex(x, j).index = j
      BY DEF ResolveFromIndex, Id
    <3> QED
      BY <1>7, <1>9, <2>1, <3>1
  <2> QED
    BY <2>1 DEF Reserved
<1>12. e \notin Alive(x)
  BY <1>1, <1>7, <1>9, AliveForm DEF Issued
<1> QED
  BY <1>2, <1>3, <1>4, <1>10, <1>11, <1>12

\* The places of E are as they were.
KeepsPlaces(x, y, E) == \A f \in E : Known(y, f.index) /\ y.meta[f.index] = x.meta[f.index]

\* The index of e was taken for it, and awaits a location.
Opened(x, y, e) ==
  /\ Tidy(y) /\ Flat(y) /\ Issued(y, e) /\ ~IsFree(y, e.index)
  /\ e \notin Alive(x) /\ Alive(y) = Alive(x) /\ KeepsPlaces(x, y, Alive(x))

\* Only the index of e, which had no location, and new ones changed.
Widened(x, y, e) ==
  /\ Len(x.meta) <= Len(y.meta) /\ Issued(y, e) /\ y.meta[e.index].location = NoLocation
  /\ Known(x, e.index) => x.meta[e.index].location = NoLocation
  /\ \A i \in 1 .. Len(y.meta) : i # e.index =>
       y.meta[i] = IF i \in 1 .. Len(x.meta) THEN x.meta[i] ELSE EMPTY

LEMMA OpenedForm ==
  ASSUME NEW x, Tidy(x), NEW y, Tidy(y), Flat(y), NEW e, Widened(x, y, e), ~IsFree(y, e.index)
  PROVE  Opened(x, y, e)
<1>1. x \in Entities /\ y \in Entities /\ Len(x.meta) \in Nat /\ Len(y.meta) \in Nat
  BY EntitiesForm DEF Tidy
<1>2. \A f : f \in Alive(x) <=> Issued(x, f) /\ x.meta[f.index].location # NoLocation
  BY <1>1, AliveForm
<1>3. \A f : f \in Alive(y) <=> Issued(y, f) /\ y.meta[f.index].location # NoLocation
  BY <1>1, AliveForm
<1>4. EMPTY.location = NoLocation
  BY DEF EMPTY
<1>5. ASSUME NEW f \in Alive(x)
      PROVE  f.index # e.index /\ Known(x, f.index) /\ Known(y, f.index)
             /\ y.meta[f.index] = x.meta[f.index]
  <2>1. f.index # e.index /\ Known(x, f.index)
    BY <1>2 DEF Widened, Issued
  <2>2. f.index \in 1 .. Len(y.meta) /\ f.index \in 1 .. Len(x.meta)
    BY <1>1, <2>1 DEF Widened, Known
  <2> QED
    BY <2>1, <2>2 DEF Widened, Known
<1>6. ASSUME NEW f \in Alive(y) PROVE f \in Alive(x)
  <2>1. Issued(y, f) /\ y.meta[f.index].location # NoLocation /\ f.index \in 1 .. Len(y.meta)
    BY <1>3 DEF Issued, Known
  <2>2. f.index # e.index
    BY <2>1 DEF Widened
  <2>3. y.meta[f.index] = IF f.index \in 1 .. Len(x.meta) THEN x.meta[f.index] ELSE EMPTY
    BY <2>1, <2>2 DEF Widened
  <2>4. f.index \in 1 .. Len(x.meta) /\ y.meta[f.index] = x.meta[f.index]
    BY <1>4, <2>1, <2>3
  <2> QED
    BY <1>2, <2>1, <2>4 DEF Issued, Known
<1>7. ASSUME NEW f \in Alive(x) PROVE f \in Alive(y)
  BY <1>2, <1>3, <1>5, <1>7 DEF Issued
<1>8. e \notin Alive(x)
  BY <1>5
<1> QED
  BY <1>5, <1>6, <1>7, <1>8 DEF Opened, KeepsPlaces, Widened

LEMMA EmptyMeta == EMPTY \in Meta /\ EMPTY.location = NoLocation /\ 1 \in Generation
BY MaxGenerationAssumption DEF EMPTY, Meta, Generation

\* alloc() takes a free index, or a new one.
LEMMA AllocForm ==
  ASSUME NEW x, Tidy(x), Flat(x), NEW y, y = alloc(x), NEW e, e = AllocId(x)
  PROVE  Opened(x, y, e)
<1>1. /\ x = [meta |-> x.meta, pending |-> x.pending, cursor |-> x.cursor, len |-> x.len]
      /\ x.meta \in Seq(Meta) /\ x.pending \in Seq(Nat) /\ x.cursor \in Int /\ x.len \in Int
      /\ Len(x.meta) \in Nat /\ Len(x.pending) \in Nat /\ x \in Entities
  BY EntitiesForm DEF Tidy
<1>2. \A i \in 1 .. Len(x.meta) : x.meta[i].generation \in Generation
  BY <1>1, EntitiesForm, Zenon
<1>3. PICK n, p : n = Len(x.pending) /\ p = x.pending
  OBVIOUS
<1>4. \A k \in 1 .. n : Known(x, p[k]) /\ x.meta[p[k]].location = NoLocation
  BY <1>3 DEF Tidy
<1>5. \A k, l \in 1 .. n : p[k] = p[l] => k = l
  BY <1>3 DEF Tidy
<1>6. p \in Seq(Nat) /\ n = Len(p) /\ n \in Nat
  BY <1>1, <1>3
<1>7. CASE p # <<>>
  <2>1. n >= 1 /\ n \in 1 .. n
    BY <1>6, <1>7
  <2>2. /\ y = [meta |-> x.meta, pending |-> SubSeq(p, 1, n - 1), cursor |-> n - 1,
                len |-> x.len + 1]
        /\ y.meta = x.meta /\ y.pending = SubSeq(p, 1, n - 1) /\ y.cursor = n - 1
    BY <1>1, <1>3, <1>7 DEF alloc
  <2>3. /\ SubSeq(p, 1, n - 1) \in Seq(Nat) /\ Len(SubSeq(p, 1, n - 1)) = n - 1
        /\ \A k \in 1 .. n - 1 : SubSeq(p, 1, n - 1)[k] = p[k]
    BY <1>6, <2>1
  <2>4. y \in Entities
    BY <1>1, <1>6, <2>2, <2>3 DEF Entities
  <2>5. /\ Len(y.pending) = n - 1
        /\ \A k \in 1 .. n - 1 : y.pending[k] = p[k] /\ k \in 1 .. n /\ k # n
    BY <1>6, <2>2, <2>3
  <2>6. \A i : Known(y, i) <=> Known(x, i)
    BY <2>2 DEF Known
  <2>7. Tidy(y) /\ Flat(y)
    <3>1. y.cursor = Len(y.pending) /\ y.cursor <= Len(y.pending)
      BY <1>6, <2>2, <2>5
    <3>2. \A k \in 1 .. Len(y.pending) :
            Known(y, y.pending[k]) /\ y.meta[y.pending[k]].location = NoLocation
      BY <1>4, <2>2, <2>5, <2>6
    <3>3. \A k, l \in 1 .. Len(y.pending) : y.pending[k] = y.pending[l] => k = l
      BY <1>5, <2>5
    <3> QED
      BY <2>4, <3>1, <3>2, <3>3 DEF Tidy, Flat
  <2>8. e = [index |-> p[n], generation |-> x.meta[p[n]].generation]
    BY <1>3, <1>4, <1>7, <2>1 DEF AllocId, AllocIndex, ResolveFromIndex, Id
  <2>9. p[n] \in 1 .. Len(x.meta) /\ x.meta[p[n]].location = NoLocation
    BY <1>4, <2>1 DEF Known
  <2>10. e \in Entity /\ e.index = p[n] /\ e.generation = x.meta[p[n]].generation
    BY <1>2, <2>8, <2>9 DEF Entity
  <2>11. Widened(x, y, e)
    BY <1>1, <2>2, <2>9, <2>10 DEF Widened, Issued, Known
  <2>12. ~IsFree(y, e.index)
    BY <1>5, <2>1, <2>5, <2>10 DEF IsFree
  <2> QED
    BY <2>7, <2>11, <2>12, OpenedForm
<1>8. CASE p = <<>>
  <2>1. n = 0
    BY <1>6, <1>8
  <2>2. /\ y = [meta |-> Append(x.meta, EMPTY), pending |-> p, cursor |-> x.cursor,
                len |-> x.len + 1]
        /\ y.meta = Append(x.meta, EMPTY) /\ y.pending = p /\ y.cursor = x.cursor
    BY <1>1, <1>3, <1>8 DEF alloc
  <2>3. /\ y.meta \in Seq(Meta) /\ Len(y.meta) = Len(x.meta) + 1
        /\ y.meta[Len(x.meta) + 1] = EMPTY
        /\ \A i \in 1 .. Len(x.meta) : y.meta[i] = x.meta[i]
    BY <1>1, <2>2, EmptyMeta
  <2>4. y \in Entities
    BY <1>1, <1>6, <2>2, <2>3 DEF Entities
  <2>5. Tidy(y) /\ Flat(y) /\ \A i : ~IsFree(y, i)
    BY <1>1, <1>3, <1>6, <2>1, <2>2, <2>4 DEF Tidy, Flat, IsFree
  <2>6. e = [index |-> Len(x.meta) + 1, generation |-> 1]
    BY <1>1, <1>3, <1>8 DEF AllocId, AllocIndex, ResolveFromIndex, Id, Known
  <2>7. e \in Entity /\ e.index = Len(x.meta) + 1 /\ e.generation = 1
    BY <1>1, <2>6, EmptyMeta DEF Entity
  <2>8. Issued(y, e)
    BY <1>1, <2>3, <2>7 DEF Issued, Known, EMPTY
  <2>9. ~Known(x, e.index)
    BY <1>1, <2>7 DEF Known
  <2>10. Widened(x, y, e)
    BY <1>1, <2>3, <2>7, <2>8, <2>9, EmptyMeta DEF Widened
  <2> QED
    BY <2>5, <2>10, OpenedForm
<1> QED
  BY <1>7, <1>8

LEMMA NextGeneration == \A g \in Generation : inc_masked_high(g) \in Generation
BY MaxGenerationAssumption DEF Generation, inc_masked_high

\* The index of e is free, for the next generation.
Freed(x, y, e) ==
  /\ Tidy(y) /\ Flat(y) /\ Alive(y) = Alive(x) \ {e} /\ KeepsPlaces(x, y, Alive(x) \ {e})

LEMMA FreeForm ==
  ASSUME NEW x, Tidy(x), Flat(x), NEW e \in Alive(x), NEW y, y = free(x, e)
  PROVE  Freed(x, y, e)
<1>1. /\ x.meta \in Seq(Meta) /\ x.pending \in Seq(Nat) /\ x.cursor \in Int /\ x.len \in Int
      /\ Len(x.meta) \in Nat /\ Len(x.pending) \in Nat /\ x \in Entities
  BY EntitiesForm DEF Tidy
<1>2. PICK n, p, i, g : n = Len(x.pending) /\ p = x.pending /\ i = e.index /\ g = inc_masked_high(e.generation)
  OBVIOUS
<1>3. /\ e \in Entity /\ i \in 1 .. Len(x.meta) /\ x.meta[i].generation = e.generation
      /\ x.meta[i].location # NoLocation /\ g \in Generation /\ i \in Nat
  <2>1. Issued(x, e) /\ x.meta[e.index].location # NoLocation
    BY <1>1, AliveForm
  <2>2. e \in Entity /\ e.index \in 1 .. Len(x.meta) /\ x.meta[e.index].generation = e.generation
    BY <2>1 DEF Issued, Known
  <2>3. e.generation \in Generation /\ e.index \in Nat
    BY <2>2 DEF Entity
  <2> QED
    BY <1>2, <2>1, <2>2, <2>3, NextGeneration
<1>4. PICK z, m : z = [generation |-> g, location |-> NoLocation] /\ m = [x.meta EXCEPT ![i] = z]
  OBVIOUS
<1>5. z \in Meta /\ z.location = NoLocation
  BY <1>3, <1>4 DEF Meta
<1>6. /\ m \in Seq(Meta) /\ Len(m) = Len(x.meta) /\ m[i] = z
      /\ \A j \in 1 .. Len(x.meta) : j # i => m[j] = x.meta[j]
  BY <1>1, <1>3, <1>4, <1>5
<1>7. /\ y = [meta |-> m, pending |-> Append(p, i), cursor |-> n + 1, len |-> x.len - 1]
      /\ y.meta = m /\ y.pending = Append(p, i) /\ y.cursor = n + 1
  BY <1>2, <1>3, <1>4 DEF free
<1>8. p \in Seq(Nat) /\ n = Len(p) /\ n \in Nat
  BY <1>1, <1>2
<1>9. /\ y.pending \in Seq(Nat) /\ Len(y.pending) = n + 1 /\ y.pending[n + 1] = i
      /\ \A k \in 1 .. n : y.pending[k] = p[k]
  BY <1>3, <1>7, <1>8
<1>10. y \in Entities
  BY <1>1, <1>6, <1>7, <1>8, <1>9 DEF Entities
<1>11. \A k \in 1 .. n : p[k] \in 1 .. Len(m) /\ p[k] # i /\ m[p[k]].location = NoLocation
  <2>1. \A k \in 1 .. n : p[k] \in 1 .. Len(x.meta) /\ x.meta[p[k]].location = NoLocation
    BY <1>2 DEF Tidy, Known
  <2> QED
    BY <1>3, <1>6, <2>1
<1>12. \A k, l \in 1 .. n : p[k] = p[l] => k = l
  BY <1>2 DEF Tidy
<1>13. Tidy(y) /\ Flat(y)
  <2>1. ASSUME NEW k \in 1 .. Len(y.pending)
        PROVE  Known(y, y.pending[k]) /\ y.meta[y.pending[k]].location = NoLocation
    <3>1. k = n + 1 \/ k \in 1 .. n
      BY <1>8, <1>9
    <3> QED
      BY <1>3, <1>5, <1>6, <1>7, <1>9, <1>11, <3>1 DEF Known
  <2>2. ASSUME NEW k \in 1 .. Len(y.pending), NEW l \in 1 .. Len(y.pending), y.pending[k] = y.pending[l]
        PROVE  k = l
    <3>1. (k = n + 1 \/ k \in 1 .. n) /\ (l = n + 1 \/ l \in 1 .. n)
      BY <1>8, <1>9
    <3> QED
      BY <1>9, <1>11, <1>12, <2>2, <3>1
  <2>3. y.cursor = Len(y.pending) /\ y.cursor <= Len(y.pending)
    BY <1>7, <1>8, <1>9
  <2> QED
    BY <1>10, <2>1, <2>2, <2>3 DEF Tidy, Flat
<1>14. \A f : f \in Alive(x) <=> Issued(x, f) /\ x.meta[f.index].location # NoLocation
  BY <1>1, AliveForm
<1>15. \A f : f \in Alive(y) <=> Issued(y, f) /\ y.meta[f.index].location # NoLocation
  BY <1>10, AliveForm
<1>16. ASSUME NEW f, Issued(x, f), f.index # i PROVE Issued(y, f) /\ y.meta[f.index] = x.meta[f.index]
  BY <1>6, <1>7, <1>16 DEF Issued, Known
<1>17. ASSUME NEW f, Issued(y, f), f.index # i PROVE Issued(x, f) /\ y.meta[f.index] = x.meta[f.index]
  BY <1>6, <1>7, <1>17 DEF Issued, Known
<1>18. ASSUME NEW f \in Alive(x), f.index = i PROVE f = e
  BY <1>2, <1>3, <1>14, <1>18 DEF Issued, Entity
<1>19. ASSUME NEW f \in Alive(y) PROVE f \in Alive(x) /\ f # e
  <2>1. f.index # i
    BY <1>5, <1>6, <1>7, <1>15
  <2> QED
    BY <1>2, <1>14, <1>15, <1>17, <2>1
<1>20. ASSUME NEW f \in Alive(x), f # e PROVE f \in Alive(y) /\ Known(y, f.index) /\ y.meta[f.index] = x.meta[f.index]
  <2>1. f.index # i
    BY <1>18, <1>20
  <2>2. Issued(y, f) /\ y.meta[f.index] = x.meta[f.index]
    BY <1>14, <1>16, <2>1
  <2> QED
    BY <1>14, <1>15, <2>2 DEF Issued
<1> QED
  BY <1>13, <1>19, <1>20 DEF Freed, KeepsPlaces

\* The caller's id is nobody's, so its index is taken, of its generation.
LEMMA AllocAtForm ==
  ASSUME NEW x, Tidy(x), Flat(x), NEW e \in Ids, AllocAtWithoutReplacement(x, e) = "DidNotExist",
         NEW y, y = alloc_at_without_replacement(x, e)
  PROVE  Opened(x, y, e)
<1>1. /\ x = [meta |-> x.meta, pending |-> x.pending, cursor |-> x.cursor, len |-> x.len]
      /\ x.meta \in Seq(Meta) /\ x.pending \in Seq(Nat) /\ x.cursor \in Int /\ x.len \in Int
      /\ Len(x.meta) \in Nat /\ Len(x.pending) \in Nat /\ x \in Entities
      /\ x.cursor = Len(x.pending)
  BY EntitiesForm DEF Tidy, Flat
<1>2. PICK n, p, i, l, m :
        n = Len(x.pending) /\ p = x.pending /\ i = e.index /\ l = Len(x.meta) /\ m = x.meta
  OBVIOUS
<1>3. p \in Seq(Nat) /\ n = Len(p) /\ n \in Nat /\ l \in Nat /\ m \in Seq(Meta) /\ l = Len(m)
  BY <1>1, <1>2
<1>4. i \in Nat /\ i >= 1 /\ e.generation \in Generation /\ e \in Entity
  BY <1>2, ComponentsAssumption DEF Ids, Entity
<1>5. \A k \in 1 .. n : p[k] \in 1 .. l /\ m[p[k]].location = NoLocation
  BY <1>2 DEF Tidy, Known
<1>6. \A k, j \in 1 .. n : p[k] = p[j] => k = j
  BY <1>2 DEF Tidy
<1>7. \A j \in 1 .. l : m[j] \in Meta /\ m[j] = [generation |-> m[j].generation, location |-> m[j].location]
  BY <1>1, <1>2, EntitiesForm, Zenon
\* In every case:
<1>8. ASSUME NEW q, q \in Seq(Nat), NEW h \in Seq(Meta), i \in 1 .. Len(h), l <= Len(h), NEW z \in Int,
             y = [meta |-> [h EXCEPT ![i].generation = e.generation], pending |-> q,
                  cursor |-> Len(q), len |-> z],
             h[i].location = NoLocation,
             \A j \in 1 .. Len(h) : h[j] = IF j \in 1 .. l THEN m[j] ELSE EMPTY,
             \A k \in 1 .. Len(q) : q[k] \in 1 .. Len(h) /\ q[k] # i /\ h[q[k]].location = NoLocation,
             \A k, j \in 1 .. Len(q) : q[k] = q[j] => k = j
      PROVE  Opened(x, y, e)
  <2>1. PICK f : f = [h EXCEPT ![i].generation = e.generation]
    OBVIOUS
  <2>2. h[i] \in Meta
    BY <1>8
  <2>3. PICK c : c = [h[i] EXCEPT !.generation = e.generation]
    OBVIOUS
  <2>4. f = [h EXCEPT ![i] = c]
    BY <2>1, <2>3
  <2>5. c \in Meta /\ c.generation = e.generation /\ c.location = NoLocation
    BY <1>4, <1>8, <2>2, <2>3 DEF Meta
  <2>6. /\ f \in Seq(Meta) /\ Len(f) = Len(h) /\ f[i] = c
        /\ \A j \in 1 .. Len(h) : j # i => f[j] = h[j]
    BY <1>8, <2>4, <2>5
  <2>7. y.meta = f /\ y.pending = q /\ y.cursor = Len(q)
    BY <1>8, <2>1
  <2>8. Len(q) \in Nat /\ Len(h) \in Nat
    BY <1>8
  <2>9. y \in Entities
    BY <1>8, <2>1, <2>6, <2>8 DEF Entities
  <2>10. \A k \in 1 .. Len(q) : q[k] \in 1 .. Len(f) /\ f[q[k]].location = NoLocation
    BY <1>8, <2>6
  <2>11. Tidy(y) /\ Flat(y)
    BY <1>8, <2>7, <2>8, <2>9, <2>10 DEF Tidy, Flat, Known
  <2>12. Issued(y, e)
    BY <1>2, <1>4, <1>8, <2>5, <2>6, <2>7 DEF Issued, Known
  <2>13. Known(x, e.index) => x.meta[e.index].location = NoLocation
    BY <1>2, <1>8 DEF Known
  <2>14. Widened(x, y, e)
    BY <1>2, <1>8, <2>5, <2>6, <2>7, <2>12, <2>13 DEF Widened
  <2>15. ~IsFree(y, e.index)
    BY <1>2, <1>8, <2>7 DEF IsFree
  <2> QED
    BY <2>11, <2>14, <2>15, OpenedForm
<1>9. CASE ~Known(x, i)
  <2>1. i > l
    BY <1>2, <1>3, <1>4, <1>9 DEF Known
  <2>2. PICK b, h : /\ b = [k \in 1 .. i - 1 - Len(x.meta) |-> Len(x.meta) + k]
                    /\ h = [j \in 1 .. i |-> IF j > Len(x.meta) THEN EMPTY ELSE x.meta[j]]
    OBVIOUS
  <2>3. /\ b \in Seq(Nat) /\ Len(b) = i - 1 - l
        /\ \A k \in 1 .. i - 1 - l : b[k] = l + k
    <3>1. PICK d : d = i - 1 - l
      OBVIOUS
    <3>2. d \in Nat /\ b = [k \in 1 .. d |-> l + k]
      BY <1>2, <1>3, <1>4, <2>1, <2>2, <3>1
    <3>3. \A k \in 1 .. d : l + k \in Nat
      BY <1>3, <3>2
    <3>4. b \in Seq(Nat) /\ Len(b) = d
      BY <3>2, <3>3
    <3> QED
      BY <3>1, <3>2, <3>4
  <2>4. /\ h \in Seq(Meta) /\ Len(h) = i
        /\ \A j \in 1 .. i : h[j] = IF j \in 1 .. l THEN m[j] ELSE EMPTY
    <3>1. \A j \in 1 .. i : h[j] = IF j \in 1 .. l THEN m[j] ELSE EMPTY
      BY <1>2, <1>3, <2>2
    <3>2. \A j \in 1 .. i : h[j] \in Meta
      BY <1>7, <3>1, EmptyMeta
    <3>3. h = [j \in 1 .. i |-> h[j]]
      BY <2>2
    <3> QED
      BY <1>4, <3>1, <3>2, <3>3
  <2>5. y = [[meta |-> h, pending |-> x.pending \o b, cursor |-> Len(x.pending) + Len(b),
              len |-> x.len + 1] EXCEPT !.meta[i].generation = e.generation]
    BY <1>2, <1>9, <2>2 DEF alloc_at_without_replacement
  <2>6. PICK q : q = x.pending \o b
    OBVIOUS
  <2>7. /\ q \in Seq(Nat) /\ Len(q) = n + (i - 1 - l)
        /\ \A k \in 1 .. n : q[k] = p[k]
        /\ \A k \in n + 1 .. n + (i - 1 - l) : q[k] = l + (k - n)
    <3>1. PICK d : d = i - 1 - l
      OBVIOUS
    <3>2. d \in Nat /\ Len(b) = d
      BY <1>3, <1>4, <2>1, <2>3, <3>1
    <3>3. q = p \o b
      BY <1>2, <2>6
    <3>4. /\ q \in Seq(Nat) /\ Len(q) = n + d
          /\ \A k \in 1 .. n : q[k] = p[k]
          /\ \A k \in n + 1 .. n + d : q[k] = b[k - n]
      <4>1. p \in Seq(Nat) /\ b \in Seq(Nat)
        BY <1>3, <2>3
      <4>2. /\ q \in Seq(Nat) /\ Len(q) = Len(p) + Len(b)
            /\ \A k \in 1 .. Len(p) + Len(b) : q[k] = IF k <= Len(p) THEN p[k] ELSE b[k - Len(p)]
        BY <3>3, <4>1, ConcatProperties, Zenon
      <4>3. q \in Seq(Nat) /\ Len(q) = n + d /\ Len(p) = n /\ n \in Nat
        BY <1>3, <3>2, <4>2
      <4>4. ASSUME NEW k \in 1 .. n PROVE q[k] = p[k]
        BY <3>2, <4>2, <4>3
      <4>5. ASSUME NEW k \in n + 1 .. n + d PROVE q[k] = b[k - n]
        <5>1. k \in 1 .. n + d /\ ~(k <= n)
          BY <3>2, <4>3
        <5> QED
          BY <3>2, <4>2, <4>3, <5>1
      <4> QED
        BY <4>3, <4>4, <4>5
    <3>5. \A k \in n + 1 .. n + d : k - n \in 1 .. d
      BY <1>3, <3>2
    <3>6. \A k \in n + 1 .. n + d : q[k] = l + (k - n)
      BY <2>3, <3>1, <3>4, <3>5
    <3> QED
      BY <3>1, <3>4, <3>6
  <2>8. y = [meta |-> [h EXCEPT ![i].generation = e.generation], pending |-> q,
             cursor |-> Len(q), len |-> x.len + 1]
    BY <1>2, <1>3, <2>3, <2>5, <2>6, <2>7
  <2>9. ASSUME NEW k \in 1 .. Len(q)
        PROVE  q[k] \in 1 .. Len(h) /\ q[k] # i /\ h[q[k]].location = NoLocation
    <3>1. CASE k \in 1 .. n
      <4>1. q[k] \in 1 .. l /\ m[q[k]].location = NoLocation
        BY <1>5, <2>7, <3>1
      <4> QED
        BY <1>3, <1>4, <2>1, <2>4, <4>1
    <3>2. CASE k \notin 1 .. n
      <4>1. k \in n + 1 .. n + (i - 1 - l)
        BY <1>3, <1>4, <2>1, <2>7, <3>2
      <4>2. q[k] = l + (k - n)
        BY <2>7, <4>1
      <4>3. q[k] \in 1 .. i /\ q[k] # i /\ q[k] \notin 1 .. l
        BY <1>3, <1>4, <2>1, <4>1, <4>2
      <4> QED
        BY <2>4, <4>3, EmptyMeta
    <3> QED
      BY <3>1, <3>2
  <2>10. ASSUME NEW k \in 1 .. Len(q), NEW j \in 1 .. Len(q), q[k] = q[j] PROVE k = j
    <3>1. \A o \in 1 .. Len(q) : \/ o \in 1 .. n /\ q[o] = p[o] /\ q[o] <= l
                                 \/ o \notin 1 .. n /\ q[o] = l + (o - n) /\ q[o] > l
      BY <1>3, <1>5, <2>7
    <3> QED
      BY <1>3, <1>6, <2>10, <3>1
  <2>11. h[i] = EMPTY /\ i \in 1 .. Len(h) /\ l <= Len(h) /\ x.len + 1 \in Int
    BY <1>1, <1>3, <1>4, <2>1, <2>4
  <2> QED
    BY <1>8, <2>4, <2>7, <2>8, <2>9, <2>10, <2>11, EmptyMeta
<1>10. CASE Known(x, i) /\ PendingAt(x, i) # {}
  <2>1. PICK k \in PendingAt(x, i) : k = CHOOSE o \in PendingAt(x, i) : TRUE
    BY <1>10
  <2>2. k \in 1 .. n /\ p[k] = i /\ n >= 1
    BY <1>2, <1>3, <2>1 DEF PendingAt
  <2>3. PICK q : q = WithoutRow(p, k)
    OBVIOUS
  <2>4. /\ q \in Seq(Nat) /\ Len(q) = n - 1
        /\ \A j \in 1 .. n - 1 : q[j] = p[IF j = k THEN n ELSE j]
    <3>1. k \in 1 .. Len(p)
      BY <1>3, <2>2
    <3>2. PICK S : S = Nat
      OBVIOUS
    <3>3. p \in Seq(S) /\ k \in 1 .. Len(p) /\ q = WithoutRow(p, k)
      BY <1>3, <2>3, <3>1, <3>2
    <3>4. /\ q \in Seq(S) /\ Len(q) = Len(p) - 1
          /\ \A j \in 1 .. Len(p) - 1 : q[j] = p[IF j = k THEN Len(p) ELSE j]
      BY <3>3, WithoutRowForm
    <3> QED
      BY <1>3, <3>2, <3>4
  <2>5. y = [[x EXCEPT !.pending = WithoutRow(@, CHOOSE o \in PendingAt(x, i) : TRUE),
                       !.cursor  = Len(x.pending) - 1,
                       !.len     = @ + 1] EXCEPT !.meta[i].generation = e.generation]
    BY <1>2, <1>10 DEF alloc_at_without_replacement, AllocAtWithoutReplacement
  <2>6. y = [meta |-> [m EXCEPT ![i].generation = e.generation], pending |-> q,
             cursor |-> n - 1, len |-> x.len + 1]
    BY <1>1, <1>2, <2>1, <2>3, <2>5
  <2>7. i \in 1 .. l /\ m[i].location = NoLocation
    BY <1>5, <2>2
  <2>8. \A j \in 1 .. n - 1 : /\ (IF j = k THEN n ELSE j) \in 1 .. n
                              /\ (IF j = k THEN n ELSE j) # k
    BY <1>3, <2>2
  <2>9. \A j \in 1 .. Len(q) : q[j] \in 1 .. l /\ q[j] # i /\ m[q[j]].location = NoLocation
    BY <1>5, <1>6, <2>2, <2>4, <2>8
  <2>10. \A j, o \in 1 .. Len(q) : q[j] = q[o] => j = o
    <3>1. ASSUME NEW j \in 1 .. Len(q), NEW o \in 1 .. Len(q), q[j] = q[o] PROVE j = o
      <4>1. (IF j = k THEN n ELSE j) = (IF o = k THEN n ELSE o)
        BY <1>6, <2>4, <2>8, <3>1
      <4> QED
        BY <1>3, <2>4, <4>1
    <3> QED
      BY <3>1
  <2>11. /\ y = [meta |-> [m EXCEPT ![i].generation = e.generation], pending |-> q,
                 cursor |-> Len(q), len |-> x.len + 1]
         /\ x.len + 1 \in Int /\ l <= Len(m) /\ i \in 1 .. Len(m) /\ m \in Seq(Meta) /\ q \in Seq(Nat)
    BY <1>1, <1>3, <2>4, <2>6, <2>7
  <2>12. \A j \in 1 .. Len(m) : m[j] = IF j \in 1 .. l THEN m[j] ELSE EMPTY
    BY <1>3
  <2> QED
    <3>1. \A j \in 1 .. Len(q) : q[j] \in 1 .. Len(m) /\ q[j] # i /\ m[q[j]].location = NoLocation
      BY <1>3, <2>9
    <3> QED
      BY <1>8, <2>7, <2>10, <2>11, <2>12, <3>1, Zenon
<1>11. CASE Known(x, i) /\ PendingAt(x, i) = {}
  <2>1. m[i].location = NoLocation /\ i \in 1 .. l
    BY <1>2, <1>11 DEF AllocAtWithoutReplacement, Known
  <2>2. y = [x EXCEPT !.meta[i].generation = e.generation]
    BY <1>2, <1>11 DEF alloc_at_without_replacement
  <2>3. y = [meta |-> [m EXCEPT ![i].generation = e.generation], pending |-> p,
             cursor |-> Len(p), len |-> x.len]
    BY <1>1, <1>2, <2>2
  <2>4. \A k \in 1 .. Len(p) : p[k] \in 1 .. Len(m) /\ p[k] # i /\ m[p[k]].location = NoLocation
    BY <1>2, <1>3, <1>5, <1>11 DEF PendingAt
  <2>5. \A j \in 1 .. Len(m) : m[j] = IF j \in 1 .. l THEN m[j] ELSE EMPTY
    BY <1>3
  <2>6. l <= Len(m) /\ i \in 1 .. Len(m) /\ x.len \in Int
    BY <1>1, <1>3, <2>1
  <2> QED
    <3>1. \A k, j \in 1 .. Len(p) : p[k] = p[j] => k = j
      BY <1>3, <1>6
    <3>2. p \in Seq(Nat) /\ m \in Seq(Meta) /\ i \in 1 .. Len(m) /\ l <= Len(m) /\ x.len \in Int
          /\ m[i].location = NoLocation
      BY <1>3, <2>1, <2>6
    <3> QED
      BY <1>8, <2>3, <2>4, <2>5, <3>1, <3>2, Zenon
<1> QED
  BY <1>9, <1>10, <1>11

\* The caller's id is that of an entity: nothing changes.
LEMMA AllocAtExists ==
  ASSUME NEW x, Tidy(x), NEW e \in Ids, AllocAtWithoutReplacement(x, e) = "Exists",
         NEW y, y = alloc_at_without_replacement(x, e)
  PROVE  e \in Alive(x) /\ y = x
<1>1. /\ x = [meta |-> x.meta, pending |-> x.pending, cursor |-> x.cursor, len |-> x.len]
      /\ x.meta \in Seq(Meta) /\ x \in Entities
  BY EntitiesForm DEF Tidy
<1>2. /\ Known(x, e.index) /\ PendingAt(x, e.index) = {} /\ x.meta[e.index].generation = e.generation
      /\ x.meta[e.index].location # NoLocation
  BY DEF AllocAtWithoutReplacement
<1>3. e \in Entity
  BY ComponentsAssumption DEF Ids, Entity
<1>4. e \in Alive(x)
  BY <1>1, <1>2, <1>3, AliveForm DEF Issued
<1>5. PICK i, m : i = e.index /\ m = x.meta
  OBVIOUS
<1>6. i \in 1 .. Len(m) /\ m \in Seq(Meta) /\ m[i].generation = e.generation
  BY <1>1, <1>2, <1>5 DEF Known
<1>7. m[i] \in Meta
  BY <1>6
<1>8. m[i] = [m[i] EXCEPT !.generation = e.generation]
  BY <1>6, <1>7 DEF Meta
<1>9. m = [m EXCEPT ![i] = m[i]]
  BY <1>6
<1>10. m = [m EXCEPT ![i].generation = e.generation]
  BY <1>8, <1>9
<1>11. y = [x EXCEPT !.meta[i].generation = e.generation]
  BY <1>2, <1>5 DEF alloc_at_without_replacement, AllocAtWithoutReplacement
<1>12. y = x
  BY <1>1, <1>5, <1>10, <1>11
<1> QED
  BY <1>4, <1>12

\* flush() takes the reserved indices in this order, each once.
Orders(x, o) ==
  /\ o \in Seq(Nat) /\ Len(o) \in Nat /\ DOMAIN o = 1 .. Len(o)
  /\ \A k \in 1 .. Len(o) : o[k] \in Awaiting(x)
  /\ \A i \in Awaiting(x) : \E k \in 1 .. Len(o) : o[k] = i
  /\ \A k, l \in 1 .. Len(o) : o[k] = o[l] => k = l

LEMMA OrderForm ==
  ASSUME NEW x, Tidy(x), NEW o, o = FlushOrder(x)
  PROVE  Orders(x, o)
<1>1. /\ x.pending \in Seq(Nat) /\ x.cursor \in Int /\ x.cursor <= Len(x.pending)
      /\ Len(x.meta) \in Nat /\ Len(x.pending) \in Nat
  BY EntitiesForm DEF Tidy
<1>2. PICK c, n, l, p, m, h :
        /\ c = x.cursor /\ n = Len(x.pending) /\ l = Len(x.meta) /\ p = x.pending
        /\ m = -AtMostZero(c) /\ h = AtLeastZero(c)
  OBVIOUS
<1>3. /\ c \in Int /\ n \in Nat /\ l \in Nat /\ p \in Seq(Nat) /\ n = Len(p) /\ m \in Nat /\ h \in Nat
      /\ h <= n /\ (m = 0 \/ h = 0) /\ c = h - m
  <2>1. c \in Int /\ n \in Nat /\ l \in Nat /\ p \in Seq(Nat) /\ n = Len(p) /\ c <= n
    BY <1>1, <1>2
  <2>2. PICK z : z = AtMostZero(c)
    OBVIOUS
  <2>3. m = -z /\ z = (IF c < 0 THEN c ELSE 0) /\ h = (IF c > 0 THEN c ELSE 0)
    BY <1>2, <2>2 DEF AtMostZero, AtLeastZero
  <2>4. m \in Nat /\ h \in Nat /\ h <= n /\ (m = 0 \/ h = 0) /\ c = h - m
    <3>1. CASE c > 0
      <4>1. h = c /\ z = 0
        BY <2>1, <2>3, <3>1
      <4>2. z \in Int /\ m \in Int /\ m + z = 0
        BY <2>3, <4>1
      <4>3. m = 0
        BY <4>1, <4>2
      <4> QED
        BY <2>1, <3>1, <4>1, <4>3
    <3>2. CASE c <= 0
      BY <2>1, <2>3, <3>2
    <3> QED
      BY <2>1, <3>1, <3>2
  <2> QED
    BY <2>1, <2>4
<1>4. PICK s, t : s = [k \in 1 .. m |-> l + k] /\ t = SubSeq(p, h + 1, n)
  OBVIOUS
<1>5. o = s \o t
  BY <1>2, <1>4 DEF FlushOrder
<1>6. s \in Seq(Nat) /\ Len(s) = m /\ \A k \in 1 .. m : s[k] = l + k
  <2>1. \A k \in 1 .. m : l + k \in Nat
    BY <1>3
  <2> QED
    BY <1>3, <1>4, <2>1
<1>7. t \in Seq(Nat) /\ Len(t) = n - h /\ \A k \in 1 .. n - h : t[k] = p[h + k]
  <2>1. \A k \in h + 1 .. n : p[k] \in Nat
    BY <1>3
  <2> QED
    BY <1>3, <1>4, <2>1
<1>8. /\ o \in Seq(Nat) /\ Len(o) = m + (n - h)
      /\ \A k \in 1 .. m + (n - h) : o[k] = IF k <= m THEN l + k ELSE p[h + (k - m)]
  <2>1. /\ o \in Seq(Nat) /\ Len(o) = Len(s) + Len(t)
        /\ \A k \in 1 .. Len(s) + Len(t) : o[k] = IF k <= Len(s) THEN s[k] ELSE t[k - Len(s)]
    <3>1. s \in Seq(Nat) /\ t \in Seq(Nat)
      BY <1>6, <1>7
    <3> QED
      BY <1>5, <3>1, ConcatProperties, Zenon
  <2>2. ASSUME NEW k \in 1 .. m + (n - h) PROVE o[k] = IF k <= m THEN l + k ELSE p[h + (k - m)]
    <3>1. CASE k <= m
      BY <1>3, <1>6, <1>7, <2>1, <3>1
    <3>2. CASE ~(k <= m)
      <4>1. o[k] = t[k - m] /\ k - m \in 1 .. n - h
        BY <1>3, <1>6, <1>7, <2>1, <3>2
      <4> QED
        BY <1>7, <3>2, <4>1
    <3> QED
      BY <3>1, <3>2
  <2> QED
    BY <1>6, <1>7, <2>1, <2>2
<1>9. \A i : i \in Awaiting(x) <=>
               (\E k \in 1 .. n : k > c /\ i = p[k]) \/ i \in l + 1 .. l - c
  BY <1>2, AwaitingForm
<1>10. \A k \in 1 .. n : p[k] \in 1 .. l
  BY <1>2 DEF Tidy, Known
<1>11. \A j, k \in 1 .. n : p[j] = p[k] => j = k
  BY <1>2 DEF Tidy
<1>12. ASSUME NEW k \in 1 .. Len(o)
       PROVE  \/ k <= m /\ o[k] = l + k
              \/ k > m /\ h + (k - m) \in 1 .. n /\ h + (k - m) > c /\ o[k] = p[h + (k - m)]
  <2>1. o[k] = IF k <= m THEN l + k ELSE p[h + (k - m)]
    BY <1>8
  <2>2. k \in Nat /\ k >= 1 /\ k <= m + (n - h)
    BY <1>3, <1>8
  <2>3. k > m => h + (k - m) \in 1 .. n /\ h + (k - m) > c
    BY <1>3, <2>2
  <2> QED
    BY <1>3, <2>1, <2>2, <2>3
<1>13. ASSUME NEW k \in 1 .. Len(o) PROVE o[k] \in Awaiting(x)
  <2>1. CASE k <= m
    <3>1. o[k] = l + k /\ m > 0
      BY <1>3, <1>8, <1>12, <2>1
    <3>2. o[k] \in l + 1 .. l - c
      BY <1>3, <1>8, <2>1, <3>1
    <3> QED
      BY <1>9, <3>2
  <2>2. CASE ~(k <= m)
    BY <1>9, <1>12, <2>2
  <2> QED
    BY <2>1, <2>2
<1>14. ASSUME NEW i \in Awaiting(x) PROVE \E k \in 1 .. Len(o) : o[k] = i
  <2>1. CASE i \in l + 1 .. l - c
    <3>1. PICK k : k = i - l
      OBVIOUS
    <3>2. k \in 1 .. m /\ l + k = i /\ k <= m
      BY <1>3, <2>1, <3>1
    <3>3. k \in 1 .. m + (n - h)
      BY <1>3, <3>2
    <3>4. o[k] = i
      BY <1>8, <3>2, <3>3
    <3> QED
      BY <1>8, <3>3, <3>4
  <2>2. CASE \E k \in 1 .. n : k > c /\ i = p[k]
    <3>1. PICK j \in 1 .. n : j > c /\ i = p[j]
      BY <2>2
    <3>2. j > h
      BY <1>2, <1>3, <3>1 DEF AtLeastZero
    <3>3. PICK k : k = j - h + m
      OBVIOUS
    <3>4. k \in 1 .. m + (n - h) /\ ~(k <= m) /\ h + (k - m) = j
      BY <1>3, <3>1, <3>2, <3>3
    <3> QED
      BY <1>8, <3>1, <3>4
  <2> QED
    BY <1>9, <2>1, <2>2
<1>15. ASSUME NEW k \in 1 .. Len(o), NEW j \in 1 .. Len(o), o[k] = o[j] PROVE k = j
  <2>1. k \in Nat /\ j \in Nat
    BY <1>3, <1>8
  <2>2. ASSUME NEW i \in 1 .. Len(o) PROVE i <= m <=> ~(o[i] \in 1 .. l)
    <3>1. i \in Nat /\ i >= 1
      BY <1>3, <1>8
    <3>2. CASE i <= m
      <4>1. o[i] = l + i
        BY <1>3, <1>12, <3>1, <3>2
      <4> QED
        BY <1>3, <3>1, <3>2, <4>1
    <3>3. CASE ~(i <= m)
      BY <1>10, <1>12, <3>3
    <3> QED
      BY <3>2, <3>3
  <2>3. k <= m <=> j <= m
    BY <1>15, <2>2
  <2>4. CASE k <= m
    <3>1. o[k] = l + k /\ o[j] = l + j
      BY <1>3, <1>12, <2>1, <2>3, <2>4
    <3>2. l + k = l + j
      BY <1>15, <3>1
    <3>3. l \in Nat
      BY <1>3
    <3> QED
      BY <2>1, <3>2, <3>3
  <2>5. CASE ~(k <= m)
    <3>1. /\ o[k] = p[h + (k - m)] /\ h + (k - m) \in 1 .. n
          /\ o[j] = p[h + (j - m)] /\ h + (j - m) \in 1 .. n
      BY <1>12, <1>15, <2>2, <2>3, <2>5
    <3>2. h + (k - m) = h + (j - m)
      BY <1>11, <1>15, <3>1
    <3> QED
      BY <1>3, <2>1, <3>2
  <2> QED
    BY <2>4, <2>5
<1> QED
  BY <1>3, <1>8, <1>13, <1>14, <1>15 DEF Orders

\* Every reserved index is at the place that was chosen for it.
Settled(y, R, place) ==
  \A e \in R : Issued(y, e) /\ y.meta[e.index].location = place[e.index]

\* flush() makes the reserved ids entities.
Settles(x, y, R, place) ==
  /\ Tidy(y) /\ Flat(y) /\ Settled(y, R, place)
  /\ Alive(x) \cap R = {} /\ Alive(y) = Alive(x) \cup R /\ KeepsPlaces(x, y, Alive(x))

LEMMA FlushForm ==
  ASSUME NEW x, Tidy(x), NEW place, \A i \in Awaiting(x) : place[i] \in Places,
         NEW y, y = flush(x, place), NEW R, R = Reserved(x)
  PROVE  Settles(x, y, R, place)
<1>1. /\ x.meta \in Seq(Meta) /\ x.pending \in Seq(Nat) /\ x.cursor \in Int /\ x.len \in Int
      /\ Len(x.meta) \in Nat /\ Len(x.pending) \in Nat /\ x \in Entities /\ x.cursor <= Len(x.pending)
  BY EntitiesForm DEF Tidy
<1>2. PICK c, n, l, p, h, g, F :
        /\ c = x.cursor /\ n = Len(x.pending) /\ l = Len(x.meta) /\ p = x.pending
        /\ h = AtLeastZero(c) /\ g = l - AtMostZero(c) /\ F = Awaiting(x)
  OBVIOUS
<1>3. /\ c \in Int /\ n \in Nat /\ l \in Nat /\ p \in Seq(Nat) /\ n = Len(p) /\ c <= n
      /\ x.meta \in Seq(Meta) /\ l = Len(x.meta) /\ x.len \in Int
  BY <1>1, <1>2
<1>4. h \in Nat /\ h <= n /\ (c > 0 => h = c) /\ (c <= 0 => h = 0)
  BY <1>2, <1>3 DEF AtLeastZero
<1>5. g \in Nat /\ l <= g /\ (c >= 0 => g = l) /\ (c < 0 => g = l - c)
  BY <1>2, <1>3 DEF AtMostZero
<1>6. \A i : i \in F <=> (\E k \in 1 .. n : k > c /\ i = p[k]) \/ i \in l + 1 .. l - c
  BY <1>2, AwaitingForm
<1>7. \A k \in 1 .. n : p[k] \in 1 .. l /\ x.meta[p[k]].location = NoLocation
  BY <1>2 DEF Tidy, Known
<1>8. \A j, k \in 1 .. n : p[j] = p[k] => j = k
  BY <1>2 DEF Tidy
<1>9. \A i \in F : i \in 1 .. g /\ i \in Nat /\ (i \in 1 .. l => x.meta[i].location = NoLocation)
  <2>1. ASSUME NEW i \in F
        PROVE  i \in 1 .. g /\ (i \in 1 .. l => x.meta[i].location = NoLocation)
    <3>1. CASE \E k \in 1 .. n : k > c /\ i = p[k]
      <4>1. i \in 1 .. l /\ x.meta[i].location = NoLocation
        BY <1>7, <3>1
      <4> QED
        BY <1>3, <1>5, <4>1
    <3>2. CASE i \in l + 1 .. l - c
      BY <1>3, <1>5, <3>2
    <3> QED
      BY <1>6, <2>1, <3>1, <3>2
  <2> QED
    BY <1>5, <2>1
<1>10. \A i \in 1 .. g : i \notin 1 .. l => i \in F
  <2>1. ASSUME NEW i \in 1 .. g, i \notin 1 .. l PROVE i \in l + 1 .. l - c
    BY <1>3, <1>5, <2>1
  <2> QED
    BY <1>6, <2>1
<1>11. PICK m : m = [i \in 1 .. g |-> IF i \in F
                                       THEN [(IF i > l THEN EMPTY ELSE x.meta[i])
                                               EXCEPT !.location = place[i]]
                                       ELSE x.meta[i]]
  OBVIOUS
<1>12. /\ y = [meta |-> m, pending |-> SubSeq(p, 1, h), cursor |-> h,
               len |-> x.len + (g - l) + (n - h)]
       /\ y.meta = m /\ y.pending = SubSeq(p, 1, h) /\ y.cursor = h
  BY <1>2, <1>11 DEF flush
<1>13. \A i \in 1 .. l : x.meta[i] \in Meta
  BY <1>3
<1>14. ASSUME NEW i \in F
       PROVE  /\ m[i] \in Meta /\ m[i].location = place[i]
              /\ m[i].generation = IF i \in 1 .. l THEN x.meta[i].generation ELSE 1
  <2>1. PICK z : z = IF i > l THEN EMPTY ELSE x.meta[i]
    OBVIOUS
  <2>2. i \in 1 .. g /\ i \in Nat /\ place[i] \in Places
    BY <1>2, <1>9
  <2>3. m[i] = [z EXCEPT !.location = place[i]]
    BY <1>11, <1>14, <2>1, <2>2
  <2>4. z \in Meta /\ z.generation = IF i \in 1 .. l THEN x.meta[i].generation ELSE 1
    <3>1. CASE i > l
      BY <1>3, <2>1, <3>1, EmptyMeta DEF EMPTY
    <3>2. CASE ~(i > l)
      <4>1. i \in 1 .. l /\ z = x.meta[i]
        BY <1>3, <2>1, <2>2, <3>2
      <4> QED
        BY <1>13, <4>1
    <3> QED
      BY <3>1, <3>2
  <2> QED
    BY <2>2, <2>3, <2>4 DEF Meta
<1>15. ASSUME NEW i \in 1 .. l, i \notin F PROVE i \in 1 .. g /\ m[i] = x.meta[i]
  <2>1. i \in 1 .. g
    BY <1>3, <1>5
  <2> QED
    BY <1>11, <1>15, <2>1
<1>16. m \in Seq(Meta) /\ Len(m) = g
  <2>1. \A i \in 1 .. g : m[i] \in Meta
    BY <1>10, <1>13, <1>14, <1>15
  <2>2. m = [i \in 1 .. g |-> m[i]]
    BY <1>11
  <2> QED
    BY <1>5, <2>1, <2>2
<1>17. /\ y.pending \in Seq(Nat) /\ Len(y.pending) = h
       /\ \A k \in 1 .. h : y.pending[k] = p[k] /\ k \in 1 .. n
  BY <1>3, <1>4, <1>12
<1>18. y \in Entities
  <2>1. x.len + (g - l) + (n - h) \in Int /\ h \in Int
    BY <1>3, <1>4, <1>5
  <2> QED
    BY <1>12, <1>16, <1>17, <2>1 DEF Entities
<1>19. ASSUME NEW k \in 1 .. h PROVE p[k] \notin F /\ p[k] \in 1 .. l
  <2>1. k \in 1 .. n /\ k <= c
    BY <1>3, <1>4
  <2>2. ~\E j \in 1 .. n : j > c /\ p[k] = p[j]
    BY <1>3, <1>8, <2>1
  <2>3. p[k] \in 1 .. l
    BY <1>7, <2>1
  <2>4. p[k] \notin l + 1 .. l - c
    BY <1>3, <2>3
  <2> QED
    BY <1>6, <2>2, <2>3, <2>4
<1>20. Tidy(y) /\ Flat(y)
  <2>1. \A k \in 1 .. h : p[k] \in 1 .. Len(m) /\ m[p[k]].location = NoLocation
    BY <1>7, <1>15, <1>16, <1>17, <1>19
  <2>2. \A k \in 1 .. Len(y.pending) :
          Known(y, y.pending[k]) /\ y.meta[y.pending[k]].location = NoLocation
    BY <1>12, <1>17, <2>1 DEF Known
  <2>3. \A j, k \in 1 .. Len(y.pending) : y.pending[j] = y.pending[k] => j = k
    BY <1>8, <1>17
  <2>4. y.cursor = Len(y.pending) /\ y.cursor <= Len(y.pending)
    BY <1>4, <1>12, <1>17
  <2> QED
    BY <1>18, <2>2, <2>3, <2>4 DEF Tidy, Flat
<1>21. ASSUME NEW e
       PROVE  e \in R <=> e \in Entity /\ e.index \in F /\ e.generation = m[e.index].generation
  <2>1. ASSUME NEW i \in F
        PROVE  ResolveFromIndex(x, i) = [index |-> i, generation |-> m[i].generation]
    BY <1>2, <1>14 DEF ResolveFromIndex, Known, Id
  <2>2. \A i \in F : m[i].generation \in Generation /\ i \in Nat
    BY <1>9, <1>14 DEF Meta
  <2>3. ASSUME e \in R
        PROVE  e \in Entity /\ e.index \in F /\ e.generation = m[e.index].generation
    <3>1. PICK i \in F : e = [index |-> i, generation |-> m[i].generation]
      BY <1>2, <2>1, <2>3 DEF Reserved
    <3> QED
      BY <2>2, <3>1 DEF Entity
  <2>4. ASSUME e \in Entity, e.index \in F, e.generation = m[e.index].generation PROVE e \in R
    <3>1. e = [index |-> e.index, generation |-> m[e.index].generation]
      BY <2>4 DEF Entity
    <3>2. e = ResolveFromIndex(x, e.index)
      BY <2>1, <2>4, <3>1
    <3> QED
      BY <1>2, <2>4, <3>2 DEF Reserved
  <2> QED
    BY <2>3, <2>4
<1>22. Settled(y, R, place)
  BY <1>9, <1>12, <1>14, <1>16, <1>21 DEF Settled, Issued, Known
<1>23. \A f : f \in Alive(x) <=> Issued(x, f) /\ x.meta[f.index].location # NoLocation
  BY <1>1, AliveForm
<1>24. \A f : f \in Alive(y) <=> Issued(y, f) /\ y.meta[f.index].location # NoLocation
  BY <1>18, AliveForm
<1>25. ASSUME NEW f \in Alive(x)
       PROVE  f \notin R /\ Known(y, f.index) /\ y.meta[f.index] = x.meta[f.index] /\ f \in Alive(y)
  <2>1. f \in Entity /\ f.index \in 1 .. l /\ x.meta[f.index].location # NoLocation
        /\ x.meta[f.index].generation = f.generation
    BY <1>2, <1>23 DEF Issued, Known
  <2>2. f.index \notin F
    BY <1>9, <2>1
  <2>3. f.index \in 1 .. g /\ m[f.index] = x.meta[f.index]
    BY <1>15, <2>1, <2>2
  <2> QED
    BY <1>12, <1>16, <1>21, <1>24, <2>1, <2>2, <2>3 DEF Issued, Known
<1>26. ASSUME NEW f \in Alive(y), f \notin R PROVE f \in Alive(x)
  <2>1. f \in Entity /\ f.index \in 1 .. g /\ m[f.index].generation = f.generation
        /\ m[f.index].location # NoLocation
    BY <1>12, <1>16, <1>24 DEF Issued, Known
  <2>2. f.index \notin F
    BY <1>21, <1>26, <2>1
  <2>3. f.index \in 1 .. l /\ m[f.index] = x.meta[f.index]
    BY <1>10, <1>15, <2>1, <2>2
  <2> QED
    BY <1>2, <1>23, <2>1, <2>3 DEF Issued, Known
<1>27. \A f \in R : f \in Alive(y)
  <2>1. \A f \in R : place[f.index] \in Places
    BY <1>2, <1>21
  <2>2. NoLocation \notin Places
    BY LocationAssumption DEF Places
  <2> QED
    BY <1>22, <1>24, <2>1, <2>2 DEF Settled
<1>28. Alive(y) = Alive(x) \cup R /\ Alive(x) \cap R = {} /\ KeepsPlaces(x, y, Alive(x))
  BY <1>25, <1>26, <1>27 DEF KeepsPlaces
<1> QED
  BY <1>20, <1>22, <1>28 DEF Settles

-----------------------------------------------------------------------------
(***************************************************************************)
(* A world whose allocator changed elsewhere, and one that is flushed.     *)
(***************************************************************************)
\* Nothing but ids that are nobody's changed.
SameBut(w, v, E, a, y) == Whole(v, E, a) /\ KeepsAll(w, v, E, a) /\ v.ents = y

LEMMA WholeEnts ==
  ASSUME NEW w, NEW E, NEW a, Whole(w, E, a), NEW y \in Entities, KeepsPlaces(w.ents, y, E),
         NEW v, v = [w EXCEPT !.ents = y]
  PROVE  SameBut(w, v, E, a, y)
<1>1. PICK r, t : StoredAt(w, E, a, r, t)
  BY DEF Whole, Stored
<1>2. Rows(w, E, a, r, t) /\ TableOK(w.table, E, TablesOf(E, a), t)
  BY <1>1 DEF StoredAt
<1>3. /\ w = [ents |-> w.ents, arch |-> w.arch, table |-> w.table, sparse |-> w.sparse]
      /\ Rowed(E, a, r, t) /\ ArchOK(w.arch, E, a, r) /\ Linked(w.arch, E, a, r, t)
      /\ Located(w.ents, E, a, r, t)
  BY <1>2 DEF Rows, IsWorld
<1>4. /\ v = [ents |-> y, arch |-> w.arch, table |-> w.table, sparse |-> w.sparse]
      /\ v.ents = y /\ v.arch = w.arch /\ v.table = w.table /\ v.sparse = w.sparse
  BY <1>3
<1>5. Located(v.ents, E, a, r, t)
  BY <1>3, <1>4 DEF Located, KeepsPlaces
<1>6. Rows(v, E, a, r, t)
  BY <1>3, <1>4, <1>5 DEF Rows, IsWorld
<1>7. Stored(v, E, a)
  BY <1>2, <1>4, <1>6 DEF Stored, StoredAt
<1>8. Whole(v, E, a)
  BY <1>4, <1>7 DEF Whole
<1>9. ASSUME NEW e \in E PROVE Place(v, e) = Place(w, e)
  BY <1>4 DEF Place, Location, KeepsPlaces
<1>10. KeepsAll(w, v, E, a)
  BY <1>4, <1>9 DEF KeepsAll, KeepsValues, ValueIn, TableValue
<1> QED
  BY <1>4, <1>8, <1>10 DEF SameBut

LEMMA EntityOfConcat ==
  ASSUME NEW s \in Seq(ArchetypeRow), NEW z \in Seq(ArchetypeRow), NEW t, t = s \o z
  PROVE  EntityOf(t) = EntityOf(s) \o EntityOf(z)
<1>1. PICK u, v : u = EntityOf(s) /\ v = EntityOf(z)
  OBVIOUS
<1>2. /\ u \in Seq(Entity) /\ Len(u) = Len(s) /\ Len(s) \in Nat
      /\ \A i \in 1 .. Len(s) : u[i] = s[i].entity
  BY <1>1, EntityOfForm
<1>3. /\ v \in Seq(Entity) /\ Len(v) = Len(z) /\ Len(z) \in Nat
      /\ \A i \in 1 .. Len(z) : v[i] = z[i].entity
  BY <1>1, EntityOfForm
<1>4. /\ Len(t) = Len(s) + Len(z)
      /\ \A i \in 1 .. Len(s) + Len(z) : t[i] = IF i <= Len(s) THEN s[i] ELSE z[i - Len(s)]
  BY ConcatProperties, Zenon
<1>5. PICK o : o = u \o v
  OBVIOUS
<1>6. /\ o \in Seq(Entity) /\ Len(o) = Len(u) + Len(v)
      /\ \A i \in 1 .. Len(u) + Len(v) : o[i] = IF i <= Len(u) THEN u[i] ELSE v[i - Len(u)]
  <2>1. u \in Seq(Entity) /\ v \in Seq(Entity)
    BY <1>2, <1>3
  <2> QED
    BY <1>5, <2>1, ConcatProperties, Zenon
<1>7. o = [i \in 1 .. Len(o) |-> o[i]]
  BY <1>6
<1>8. ASSUME NEW i \in 1 .. Len(o) PROVE o[i] = t[i].entity
  <2>1. CASE i <= Len(s)
    <3>1. i \in 1 .. Len(s) /\ i \in 1 .. Len(s) + Len(z)
      BY <1>2, <1>3, <1>6, <2>1
    <3>2. o[i] = u[i] /\ t[i] = s[i]
      BY <1>2, <1>3, <1>4, <1>6, <2>1, <3>1
    <3> QED
      BY <1>2, <3>1, <3>2
  <2>2. CASE ~(i <= Len(s))
    <3>1. i - Len(s) \in 1 .. Len(z)
      BY <1>2, <1>3, <1>6, <2>2
    <3>2. o[i] = v[i - Len(s)] /\ t[i] = z[i - Len(s)]
      BY <1>2, <1>3, <1>4, <1>6, <2>2
    <3> QED
      BY <1>3, <3>1, <3>2
  <2> QED
    BY <2>1, <2>2
<1>9. Len(t) = Len(o)
  BY <1>2, <1>3, <1>4, <1>6
<1>10. EntityOf(t) = [i \in 1 .. Len(t) |-> t[i].entity]
  BY DEF EntityOf
<1>11. EntityOf(t) = o
  BY <1>7, <1>8, <1>9, <1>10
<1> QED
  BY <1>1, <1>5, <1>11

\* All reserved ids are entities without components now.
Settlement(w, v, E, a, R, b) ==
  /\ Tidy(v.ents) /\ Flat(v.ents) /\ Alive(v.ents) = E \cup R /\ E \cap R = {}
  /\ Whole(v, E \cup R, b) /\ KeepsAll(w, v, E, a)

LEMMA FlushWorldForm ==
  ASSUME NEW w, NEW E, NEW a, Whole(w, E, a), E = Alive(w.ents), Tidy(w.ents),
         NEW v, v = flush_entities(w), NEW R, R = Reserved(w.ents),
         NEW b, b = [f \in E \cup R |-> IF f \in E THEN a[f] ELSE {}]
  PROVE  Settlement(w, v, E, a, R, b)
<1>1. PICK r, t : StoredAt(w, E, a, r, t)
  BY DEF Whole, Stored
<1>2. Rows(w, E, a, r, t) /\ TableOK(w.table, E, TablesOf(E, a), t)
  BY <1>1 DEF StoredAt
<1>3. /\ w = [ents |-> w.ents, arch |-> w.arch, table |-> w.table, sparse |-> w.sparse]
      /\ Rowed(E, a, r, t) /\ ArchOK(w.arch, E, a, r) /\ Linked(w.arch, E, a, r, t)
      /\ Located(w.ents, E, a, r, t)
  BY <1>2 DEF Rows, IsWorld
<1>4. PICK x, A, T : x = w.ents /\ A = w.arch /\ T = w.table
  OBVIOUS
<1>5. x \in Entities /\ Tidy(x) /\ E = Alive(x) /\ R = Reserved(x)
  BY <1>4 DEF Tidy
<1>6. {} \in Archetype /\ {} \in SUBSET TableComponents /\ TableOf({}) = {}
  BY DEF Archetype, TableOf
<1>7. PICK o, ids, n, m : /\ o = FlushOrder(x) /\ ids = [k \in DOMAIN o |-> ResolveFromIndex(x, o[k])]
                          /\ n = Len(A[{}]) /\ m = Len(T[{}].entities)
  OBVIOUS
<1>8. /\ o \in Seq(Nat) /\ Len(o) \in Nat /\ DOMAIN o = 1 .. Len(o)
      /\ \A k \in 1 .. Len(o) : o[k] \in Awaiting(x)
      /\ \A i \in Awaiting(x) : \E k \in 1 .. Len(o) : o[k] = i
      /\ \A k, l \in 1 .. Len(o) : o[k] = o[l] => k = l
  <2>1. Tidy(x) /\ o = FlushOrder(x)
    BY <1>5, <1>7
  <2>2. Orders(x, o)
    BY <2>1, OrderForm, Zenon
  <2> QED
    BY <2>2 DEF Orders
<1>9. /\ A \in [Archetype -> Seq(ArchetypeRow)] /\ A[{}] \in Seq(ArchetypeRow) /\ n \in Nat
      /\ \A cs \in Archetype : Listed(EntityOf(A[cs]), With(E, a, cs), r)
  BY <1>3, <1>4, <1>6, <1>7 DEF ArchOK
<1>10. /\ IsTable(T[{}], {}) /\ m \in Nat
       /\ Listed(T[{}].entities, With(E, TablesOf(E, a), {}), t)
  <2>1. TableOK(T, E, TablesOf(E, a), t)
    BY <1>2, <1>4
  <2>2. PICK ts, ds : ts = {} /\ ds = TablesOf(E, a)
    OBVIOUS
  <2>3. TableOK(T, E, ds, t) /\ ts \in SUBSET TableComponents
    BY <2>1, <2>2
  <2>4. IsTable(T[ts], ts) /\ Listed(T[ts].entities, With(E, ds, ts), t)
    BY <2>3 DEF TableOK
  <2>5. Len(T[ts].entities) \in Nat
    BY <2>3, TableForm
  <2> QED
    BY <1>7, <2>2, <2>4, <2>5
\* The rows of an index.
<1>11. PICK kth : kth = [i \in Awaiting(x) |-> CHOOSE k \in DOMAIN o : o[k] = i]
  OBVIOUS
<1>12. \A i \in Awaiting(x) : kth[i] \in 1 .. Len(o) /\ o[kth[i]] = i
  BY <1>8, <1>11
<1>13. \A k \in 1 .. Len(o) : kth[o[k]] = k
  BY <1>8, <1>12
<1>14. PICK place :
         place = [i \in Awaiting(x) |->
                   [archetype |-> {}, row |-> n + kth[i], table_row |-> m + kth[i]]]
  OBVIOUS
<1>15. \A i \in Awaiting(x) : place[i] \in Places /\ n + kth[i] \in Nat /\ m + kth[i] \in Nat
  <2>1. \A i \in Awaiting(x) : n + kth[i] \in Nat /\ m + kth[i] \in Nat
    BY <1>9, <1>10, <1>12
  <2> QED
    BY <1>6, <1>14, <2>1 DEF Places
<1>16. PICK y, rows : /\ y = flush(x, place)
                      /\ rows = [k \in DOMAIN o |-> [entity |-> ids[k], table_row |-> m + k]]
  OBVIOUS
<1>17. place = [i \in Awaiting(x) |->
                  LET k == CHOOSE k \in DOMAIN o : o[k] = i
                  IN  [archetype |-> {}, row |-> n + k, table_row |-> m + k]]
  BY <1>11, <1>14
<1>18. v = [w EXCEPT !.ents = y, !.table[{}].entities = @ \o ids, !.arch[{}] = @ \o rows]
  BY <1>4, <1>7, <1>16, <1>17 DEF flush_entities
<1>19. /\ v = [ents |-> y, arch |-> [A EXCEPT ![{}] = @ \o rows],
               table |-> [T EXCEPT ![{}].entities = @ \o ids], sparse |-> w.sparse]
       /\ v.ents = y /\ v.arch = [A EXCEPT ![{}] = @ \o rows]
       /\ v.table = [T EXCEPT ![{}].entities = @ \o ids] /\ v.sparse = w.sparse
  BY <1>3, <1>4, <1>18
<1>20. Settles(x, y, R, place)
  BY <1>5, <1>15, <1>16, FlushForm
<1>21. /\ Tidy(y) /\ Flat(y) /\ Settled(y, R, place)
       /\ E \cap R = {} /\ Alive(y) = E \cup R /\ KeepsPlaces(x, y, E)
  BY <1>5, <1>20 DEF Settles
\* The ids, in the order of their rows.
<1>22. /\ \A e \in R : /\ e.index \in Awaiting(x) /\ e = ResolveFromIndex(x, e.index)
                       /\ e \in Entity /\ Issued(y, e) /\ y.meta[e.index].location = place[e.index]
       /\ \A i \in Awaiting(x) : ResolveFromIndex(x, i) \in R /\ ResolveFromIndex(x, i).index = i
  <2>1. \A i : ResolveFromIndex(x, i).index = i
    BY DEF ResolveFromIndex, Id
  <2>2. \A e : e \in R <=> \E i \in Awaiting(x) : e = ResolveFromIndex(x, i)
    BY <1>5 DEF Reserved
  <2>3. \A e \in R : e \in Entity /\ Issued(y, e) /\ y.meta[e.index].location = place[e.index]
    BY <1>21 DEF Settled, Issued
  <2>4. \A e \in R : e.index \in Awaiting(x) /\ e = ResolveFromIndex(x, e.index)
    BY <2>1, <2>2
  <2> QED
    BY <2>1, <2>2, <2>3, <2>4
<1>23. PICK at : at = [e \in R |-> kth[e.index]]
  OBVIOUS
<1>24. Listed(ids, R, at)
  <2>1. \A k \in 1 .. Len(o) : ids[k] \in R /\ ids[k] = ResolveFromIndex(x, o[k]) /\ ids[k].index = o[k]
    BY <1>7, <1>8, <1>22
  <2>2. ids = [k \in 1 .. Len(o) |-> ids[k]]
    BY <1>7, <1>8
  <2>3. ids \in Seq(R) /\ Len(ids) = Len(o)
    BY <1>8, <2>1, <2>2
  <2>4. \A k \in 1 .. Len(ids) : at[ids[k]] = k
    BY <1>13, <1>23, <2>1, <2>3
  <2>5. \A e \in R : at[e] \in 1 .. Len(ids) /\ ids[at[e]] = e
    BY <1>12, <1>22, <1>23, <2>1, <2>3
  <2> QED
    BY <2>3, <2>4, <2>5 DEF Listed
<1>25. /\ ids \in Seq(R) /\ Len(ids) = Len(o) /\ \A k \in 1 .. Len(o) : ids[k] \in R
       /\ \A e \in R : at[e] \in 1 .. Len(o) /\ ids[at[e]] = e
  <2>1. ids \in Seq(R) /\ Len(ids) = Len(o)
    BY <1>7, <1>8, <1>24 DEF Listed
  <2> QED
    BY <2>1, <1>24 DEF Listed
<1>26. /\ rows \in Seq(ArchetypeRow) /\ Len(rows) = Len(o) /\ EntityOf(rows) = ids
       /\ \A k \in 1 .. Len(o) : rows[k].table_row = m + k
  <2>1. \A k \in 1 .. Len(o) : /\ rows[k] = [entity |-> ids[k], table_row |-> m + k]
                               /\ ids[k] \in Entity /\ m + k \in Nat
    BY <1>8, <1>10, <1>16, <1>22, <1>25
  <2>2. \A k \in 1 .. Len(o) : /\ rows[k] \in ArchetypeRow /\ rows[k].entity = ids[k]
                               /\ rows[k].table_row = m + k
    <3>1. ASSUME NEW k \in 1 .. Len(o)
          PROVE  /\ rows[k] \in ArchetypeRow /\ rows[k].entity = ids[k]
                 /\ rows[k].table_row = m + k
      <4>1. PICK e, l : e = ids[k] /\ l = m + k
        OBVIOUS
      <4>2. rows[k] = [entity |-> e, table_row |-> l] /\ e \in Entity /\ l \in Nat
        BY <2>1, <4>1
      <4> QED
        BY <4>1, <4>2 DEF ArchetypeRow
    <3> QED
      BY <3>1
  <2>3. rows = [k \in 1 .. Len(o) |-> rows[k]] /\ ids = [k \in 1 .. Len(o) |-> ids[k]]
    BY <1>7, <1>8, <1>16
  <2>4. rows \in Seq(ArchetypeRow) /\ Len(rows) = Len(o)
    BY <1>8, <2>2, <2>3
  <2>5. EntityOf(rows) = [k \in 1 .. Len(o) |-> rows[k].entity]
    BY <2>4 DEF EntityOf
  <2>6. EntityOf(rows) = ids
    BY <2>2, <2>3, <2>5
  <2> QED
    BY <2>2, <2>4, <2>6
<1>27. PICK q, u : /\ q = [f \in E \cup R |-> IF f \in E THEN r[f] ELSE n + at[f]]
                   /\ u = [f \in E \cup R |-> IF f \in E THEN t[f] ELSE m + at[f]]
  OBVIOUS
<1>28. /\ \A f \in E : b[f] = a[f] /\ q[f] = r[f] /\ u[f] = t[f] /\ f \in E \cup R
       /\ \A f \in R : b[f] = {} /\ q[f] = n + at[f] /\ u[f] = m + at[f] /\ f \in E \cup R /\ f \notin E
  BY <1>21, <1>27
<1>29. Rowed(E \cup R, b, q, u)
  <2>1. \A f \in E : b[f] \in Archetype /\ q[f] \in Nat /\ u[f] \in Nat
    BY <1>3, <1>28 DEF Rowed
  <2>2. \A f \in R : at[f] \in Nat
    BY <1>25
  <2>3. \A f \in R : b[f] \in Archetype /\ q[f] \in Nat /\ u[f] \in Nat
    BY <1>6, <1>9, <1>10, <1>28, <2>2
  <2> QED
    BY <2>1, <2>3 DEF Rowed
<1>30. PICK rs : rs = A[{}] \o rows
  OBVIOUS
<1>31. /\ rs \in Seq(ArchetypeRow) /\ Len(rs) = n + Len(o)
       /\ \A i \in 1 .. n + Len(o) : rs[i] = IF i <= n THEN A[{}][i] ELSE rows[i - n]
  <2>1. /\ rs \in Seq(ArchetypeRow) /\ Len(rs) = Len(A[{}]) + Len(rows)
        /\ \A i \in 1 .. Len(A[{}]) + Len(rows) :
             rs[i] = IF i <= Len(A[{}]) THEN A[{}][i] ELSE rows[i - Len(A[{}])]
    <3>1. A[{}] \in Seq(ArchetypeRow) /\ rows \in Seq(ArchetypeRow)
      BY <1>9, <1>26
    <3> QED
      BY <1>30, <3>1, ConcatProperties, Zenon
  <2> QED
    BY <1>7, <1>26, <2>1
<1>32. /\ v.arch \in [Archetype -> Seq(ArchetypeRow)] /\ v.arch[{}] = rs
       /\ \A cs \in Archetype : cs # {} => v.arch[cs] = A[cs]
  BY <1>6, <1>9, <1>19, <1>30, <1>31
<1>33. With(E \cup R, b, {}) = With(E, a, {}) \cup R
       /\ \A cs \in Archetype : cs # {} => With(E \cup R, b, cs) = With(E, a, cs)
  BY <1>28 DEF With
<1>34. ArchOK(v.arch, E \cup R, b, q)
  <2>1. EntityOf(rs) = EntityOf(A[{}]) \o ids
    BY <1>9, <1>26, <1>30, EntityOfConcat
  <2>2. Len(EntityOf(A[{}])) = n
    BY <1>7, <1>9, EntityOfForm
  <2>3. Listed(EntityOf(rs), With(E \cup R, b, {}), q)
    <3>1. PICK s, W : s = EntityOf(A[{}]) /\ W = With(E, a, {})
      OBVIOUS
    <3>2. Listed(s, W, r) /\ W \cap R = {} /\ \A f \in W : q[f] = r[f]
      BY <1>6, <1>9, <1>28, <3>1 DEF With
    <3>3. Shifted(R, at, q, Len(s))
      BY <1>28, <2>2, <3>1 DEF Shifted
    <3>4. EntityOf(rs) = s \o ids
      BY <2>1, <3>1
    <3>5. Listed(s, W, q) /\ W \cap R = {}
      BY <3>2, ListedSame
    <3>6. Listed(EntityOf(rs), W \cup R, q)
      BY <1>24, <3>3, <3>4, <3>5, ListedConcat, Zenon
    <3> QED
      BY <1>33, <3>1, <3>6
  <2>4. ASSUME NEW cs \in Archetype, cs # {} PROVE Listed(EntityOf(v.arch[cs]), With(E \cup R, b, cs), q)
    <3>1. PICK s, W : s = EntityOf(A[cs]) /\ W = With(E, a, cs)
      OBVIOUS
    <3>2. Listed(s, W, r) /\ \A f \in W : q[f] = r[f]
      BY <1>9, <1>28, <3>1 DEF With
    <3>3. Listed(s, W, q)
      BY <3>2, ListedSame
    <3> QED
      BY <1>32, <1>33, <2>4, <3>1, <3>3
  <2> QED
    BY <1>32, <2>3, <2>4 DEF ArchOK
<1>35. Linked(v.arch, E \cup R, b, q, u)
  <2>1. ASSUME NEW f \in E PROVE v.arch[b[f]][q[f]].table_row = u[f]
    <3>1. A[a[f]][r[f]].table_row = t[f] /\ a[f] \in Archetype /\ r[f] \in 1 .. Len(A[a[f]])
      <4>1. r[f] \in 1 .. Len(A[a[f]])
        BY <1>3, <1>4, ArchForm
      <4> QED
        BY <1>3, <1>4, <4>1 DEF Linked, Rowed
    <3>2. CASE a[f] = {}
      <4>1. r[f] \in 1 .. n + Len(o) /\ r[f] <= n
        BY <1>7, <1>8, <1>9, <3>1, <3>2
      <4> QED
        BY <1>28, <1>31, <1>32, <3>1, <3>2, <4>1
    <3>3. CASE a[f] # {}
      BY <1>28, <1>32, <3>1, <3>3
    <3> QED
      BY <3>2, <3>3
  <2>2. ASSUME NEW f \in R PROVE v.arch[b[f]][q[f]].table_row = u[f]
    <3>1. at[f] \in 1 .. Len(o)
      BY <1>25
    <3>2. n + at[f] \in 1 .. n + Len(o) /\ ~(n + at[f] <= n) /\ n + at[f] - n = at[f]
      BY <1>8, <1>9, <3>1
    <3>3. PICK i : i = n + at[f]
      OBVIOUS
    <3>4. i \in 1 .. n + Len(o) /\ ~(i <= n) /\ i - n = at[f]
      BY <1>8, <1>9, <3>1, <3>2, <3>3
    <3>5. rs[i] = rows[at[f]]
      BY <1>31, <3>4
    <3> QED
      BY <1>26, <1>28, <1>32, <3>1, <3>3, <3>5
  <2> QED
    BY <2>1, <2>2 DEF Linked
<1>36. Located(y, E \cup R, b, q, u)
  <2>1. ASSUME NEW f \in E
        PROVE  /\ f \in Entity /\ Known(y, f.index) /\ y.meta[f.index].generation = f.generation
               /\ y.meta[f.index].location = [archetype |-> b[f], row |-> q[f], table_row |-> u[f]]
    BY <1>3, <1>4, <1>21, <1>28 DEF Located, KeepsPlaces
  <2>2. ASSUME NEW f \in R
        PROVE  /\ f \in Entity /\ Known(y, f.index) /\ y.meta[f.index].generation = f.generation
               /\ y.meta[f.index].location = [archetype |-> b[f], row |-> q[f], table_row |-> u[f]]
    BY <1>14, <1>22, <1>23, <1>28 DEF Issued
  <2> QED
    BY <2>1, <2>2 DEF Located
<1>37. Rows(v, E \cup R, b, q, u)
  BY <1>19, <1>21, <1>29, <1>34, <1>35, <1>36 DEF Rows, IsWorld, Tidy
<1>38. PICK d, z : d = TablesOf(E, a) /\ z = TablesOf(E \cup R, b)
  OBVIOUS
<1>39. /\ \A f \in E : z[f] = d[f]
       /\ \A f \in R : z[f] = {}
  BY <1>6, <1>28, <1>38 DEF TablesOf
<1>40. /\ T = [ts \in SUBSET TableComponents |-> T[ts]]
       /\ \A ts \in SUBSET TableComponents : IsTable(T[ts], ts) /\ Listed(T[ts].entities, With(E, d, ts), t)
  BY <1>2, <1>4, <1>38 DEF TableOK
<1>41. PICK es : es = T[{}].entities \o ids
  OBVIOUS
<1>42. /\ v.table = [ts \in SUBSET TableComponents |-> v.table[ts]]
       /\ v.table[{}].entities = es /\ v.table[{}] = [entities |-> es, column |-> T[{}].column]
       /\ v.table[{}].column = T[{}].column
       /\ \A ts \in SUBSET TableComponents : ts # {} => v.table[ts] = T[ts]
  <2>1. PICK nil, g : nil = {} /\ g = T[{}]
    OBVIOUS
  <2>2. g = [entities |-> g.entities, column |-> g.column] /\ es = g.entities \o ids /\ g = T[nil]
    BY <1>10, <1>41, <2>1 DEF IsTable
  <2>3. PICK h : h = [entities |-> es, column |-> g.column]
    OBVIOUS
  <2>4. [T[{}] EXCEPT !.entities = T[{}].entities \o ids] = h
    <3>1. PICK s, cols : s = g.entities /\ cols = g.column
      OBVIOUS
    <3>2. g = [entities |-> s, column |-> cols] /\ es = s \o ids /\ h = [entities |-> es, column |-> cols]
      BY <2>2, <2>3, <3>1
    <3>3. PICK k : k = [entities |-> s, column |-> cols]
      OBVIOUS
    <3>4. [k EXCEPT !.entities = es] = [entities |-> es, column |-> cols]
      BY <3>3
    <3>5. T[{}] = k /\ T[{}].entities \o ids = es
      BY <2>1, <2>2, <3>2, <3>3
    <3> QED
      BY <3>2, <3>4, <3>5
  <2>5. v.table = [T EXCEPT ![{}] = [T[{}] EXCEPT !.entities = T[{}].entities \o ids]]
    BY <1>19
  <2>6. v.table = [T EXCEPT ![nil] = h]
    BY <2>1, <2>4, <2>5
  <2>7. nil \in SUBSET TableComponents
    BY <2>1
  <2>8. /\ v.table = [ts \in SUBSET TableComponents |-> v.table[ts]] /\ v.table[nil] = h
        /\ \A ts \in SUBSET TableComponents : ts # nil => v.table[ts] = T[ts]
    BY <1>40, <2>6, <2>7
  <2>9. h.entities = es /\ h.column = g.column /\ h = [entities |-> es, column |-> T[{}].column]
    BY <2>1, <2>3
  <2>10. v.table[{}] = h
    BY <2>1, <2>8
  <2>11. \A ts \in SUBSET TableComponents : ts # {} => v.table[ts] = T[ts]
    BY <2>1, <2>8
  <2> QED
    BY <2>1, <2>8, <2>9, <2>10, <2>11
<1>43. /\ With(E \cup R, z, {}) = With(E, d, {}) \cup R
       /\ \A ts \in SUBSET TableComponents : ts # {} => With(E \cup R, z, ts) = With(E, d, ts)
  BY <1>39 DEF With
<1>44. TableOK(v.table, E \cup R, z, u)
  <2>1. IsTable(v.table[{}], {})
    BY <1>10, <1>42 DEF IsTable
  <2>2. Listed(es, With(E \cup R, z, {}), u)
    <3>1. PICK s, W : s = T[{}].entities /\ W = With(E, d, {})
      OBVIOUS
    <3>2. Listed(s, W, t) /\ W \cap R = {} /\ \A f \in W : u[f] = t[f]
      BY <1>6, <1>28, <1>40, <3>1 DEF With
    <3>3. Shifted(R, at, u, Len(s))
      BY <1>7, <1>28, <3>1 DEF Shifted
    <3>4. es = s \o ids
      BY <1>41, <3>1
    <3>5. Listed(s, W, u) /\ W \cap R = {}
      BY <3>2, ListedSame
    <3>6. Listed(es, W \cup R, u)
      BY <1>24, <3>3, <3>4, <3>5, ListedConcat, Zenon
    <3> QED
      BY <1>43, <3>1, <3>6
  <2>3. ASSUME NEW ts \in SUBSET TableComponents, ts # {}
        PROVE  IsTable(v.table[ts], ts) /\ Listed(v.table[ts].entities, With(E \cup R, z, ts), u)
    <3>1. PICK s, W : s = T[ts].entities /\ W = With(E, d, ts)
      OBVIOUS
    <3>2. Listed(s, W, t) /\ \A f \in W : u[f] = t[f]
      BY <1>28, <1>40, <3>1 DEF With
    <3>3. Listed(s, W, u)
      BY <3>2, ListedSame
    <3> QED
      BY <1>40, <1>42, <1>43, <2>3, <3>1, <3>3
  <2> QED
    BY <1>42, <2>1, <2>2, <2>3 DEF TableOK
<1>45. Stored(v, E \cup R, b)
  BY <1>37, <1>38, <1>44 DEF Stored, StoredAt
<1>46. SparseOK(v.sparse, E \cup R, b)
  <2>1. \A c : Having(E \cup R, b, c) = Having(E, a, c)
    BY <1>28 DEF Having
  <2>2. SparseOK(w.sparse, E, a)
    BY DEF Whole
  <2> QED
    BY <1>19, <2>1, <2>2 DEF SparseOK
<1>47. KeepsAll(w, v, E, a)
  <2>1. ASSUME NEW e \in E PROVE Place(v, e) = Place(w, e) /\ TableOf(Place(w, e).archetype) \in SUBSET TableComponents
    <3>1. Place(v, e) = Place(w, e)
      BY <1>4, <1>19, <1>21 DEF Place, Location, KeepsPlaces
    <3>2. TableOf(Place(w, e).archetype) \in SUBSET TableComponents
      BY DEF TableOf
    <3> QED
      BY <3>1, <3>2
  <2>2. \A ts \in SUBSET TableComponents : v.table[ts].column = T[ts].column
    BY <1>42
  <2> QED
    BY <1>4, <1>19, <2>1, <2>2 DEF KeepsAll, KeepsValues, ValueIn, TableValue
<1> QED
  BY <1>19, <1>21, <1>45, <1>46, <1>47 DEF Settlement, Whole

-----------------------------------------------------------------------------
(***************************************************************************)
(* A world all of whose entities are stored, and what they read.           *)
(***************************************************************************)
Homes(w) == [e \in Alive(w.ents) |-> Place(w, e).archetype]

Good(w) == Tidy(w.ents) /\ Whole(w, Alive(w.ents), Homes(w))

ReadOf(w) == [e \in Alive(w.ents) |-> [c \in Place(w, e).archetype |-> ValueIn(w, e, c)]]

\* E are alive in the world w, and have the components a.
Reading(w, E, a) ==
  /\ Good(w) /\ ReadOf(w) = [e \in E |-> [c \in a[e] |-> ValueIn(w, e, c)]]

LEMMA WholeAlive ==
  ASSUME NEW w, NEW E, NEW a, Whole(w, E, a)
  PROVE  /\ w.ents \in Entities
         /\ \A e \in E : Issued(w.ents, e) /\ w.ents.meta[e.index].location # NoLocation
<1>1. PICK r, t : Rows(w, E, a, r, t)
  BY DEF Whole, Stored, StoredAt
<1>2. Rowed(E, a, r, t) /\ Located(w.ents, E, a, r, t) /\ w.ents \in Entities
  BY <1>1 DEF Rows
<1>3. NoLocation \notin Places
  BY LocationAssumption DEF Places
<1>4. ASSUME NEW e \in E
      PROVE  Issued(w.ents, e) /\ w.ents.meta[e.index].location # NoLocation
  <2>1. [archetype |-> a[e], row |-> r[e], table_row |-> t[e]] \in Places
    BY <1>2, PlaceForm
  <2> QED
    BY <1>2, <1>3, <2>1 DEF Located, Issued
<1> QED
  BY <1>2, <1>4

LEMMA WholeSame ==
  ASSUME NEW w, NEW E, NEW a, Whole(w, E, a), NEW b, \A e \in E : b[e] = a[e]
  PROVE  Whole(w, E, b)
<1>1. Stored(w, E, a) /\ SparseOK(w.sparse, E, a)
  BY DEF Whole
<1>2. IsWorld(w)
  BY <1>1, StoredForm
<1>3. Stored(w, E, b)
  BY <1>1, <1>2, StoredSame
<1>4. \A c : Having(E, b, c) = Having(E, a, c)
  BY DEF Having
<1>5. SparseOK(w.sparse, E, b)
  BY <1>1, <1>4 DEF SparseOK
<1> QED
  BY <1>3, <1>5 DEF Whole

LEMMA ReadingForm ==
  ASSUME NEW w, NEW E, NEW a, Whole(w, E, a), E = Alive(w.ents), Tidy(w.ents)
  PROVE  Reading(w, E, a)
<1>1. \A e \in E : Place(w, e).archetype = a[e]
  BY StoredForm DEF Whole
<1>2. \A e \in E : Homes(w)[e] = a[e]
  BY <1>1 DEF Homes
<1>3. PICK h : h = Homes(w)
  OBVIOUS
<1>4. Whole(w, E, h)
  BY <1>2, <1>3, WholeSame
<1>5. Good(w)
  BY <1>3, <1>4 DEF Good
<1>6. ReadOf(w) = [e \in E |-> [c \in a[e] |-> ValueIn(w, e, c)]]
  BY <1>1 DEF ReadOf
<1> QED
  BY <1>5, <1>6 DEF Reading

LEMMA GoodReading ==
  ASSUME NEW w, Good(w), NEW E, E = Alive(w.ents), NEW a, a = Homes(w)
  PROVE  Reading(w, E, a) /\ Whole(w, E, a) /\ Tidy(w.ents)
<1>1. Whole(w, E, a) /\ Tidy(w.ents)
  BY DEF Good
<1> QED
  BY <1>1, ReadingForm

\* The entities in G read what they read.
LEMMA ReadKept ==
  ASSUME NEW w, NEW v, NEW E, NEW F, NEW a, NEW b, Reading(w, E, a), Reading(v, F, b),
         NEW G, KeepsAll(w, v, G, a), G \subseteq E, G \subseteq F, \A e \in G : b[e] = a[e]
  PROVE  \A e \in G : ReadOf(v)[e] = ReadOf(w)[e]
<1>1. ASSUME NEW e \in G PROVE ReadOf(v)[e] = ReadOf(w)[e]
  <2>1. ReadOf(w)[e] = [c \in a[e] |-> ValueIn(w, e, c)]
    BY DEF Reading
  <2>2. ReadOf(v)[e] = [c \in a[e] |-> ValueIn(v, e, c)]
    BY DEF Reading
  <2>3. \A c \in a[e] : ValueIn(v, e, c) = ValueIn(w, e, c)
    BY DEF KeepsAll, KeepsValues
  <2> QED
    BY <2>1, <2>2, <2>3
<1> QED
  BY <1>1

\* No entity has a free index.
LEMMA NoneFree ==
  ASSUME NEW x, Tidy(x) PROVE \A f \in Alive(x) : ~IsFree(x, f.index)
<1>1. \A f \in Alive(x) : x.meta[f.index].location # NoLocation
  BY AliveForm DEF Tidy
<1> QED
  BY <1>1 DEF Tidy, IsFree

-----------------------------------------------------------------------------
(***************************************************************************)
(* What each operation does to what the entities read.                     *)
(***************************************************************************)
Flushes(w, v) ==
  /\ Good(v) /\ Flat(v.ents) /\ Reserved(v.ents) = {}
  /\ ReadOf(v) = Abstract!Flushed(ReadOf(w), Reserved(w.ents))

LEMMA FlushReads ==
  ASSUME NEW w, Good(w), NEW v, v = flush_entities(w)
  PROVE  Flushes(w, v)
<1>1. PICK E, a, R : E = Alive(w.ents) /\ a = Homes(w) /\ R = Reserved(w.ents)
  OBVIOUS
<1>2. Reading(w, E, a) /\ Whole(w, E, a) /\ Tidy(w.ents)
  BY <1>1, GoodReading
<1>3. PICK b : b = [f \in E \cup R |-> IF f \in E THEN a[f] ELSE {}]
  OBVIOUS
<1>4. Settlement(w, v, E, a, R, b)
  BY <1>1, <1>2, <1>3, FlushWorldForm, Zenon
<1>5. PICK F : F = E \cup R
  OBVIOUS
<1>6. /\ Tidy(v.ents) /\ Flat(v.ents) /\ F = Alive(v.ents) /\ E \cap R = {}
      /\ Whole(v, F, b) /\ KeepsAll(w, v, E, a)
  BY <1>4, <1>5 DEF Settlement
<1>7. Reading(v, F, b)
  BY <1>6, ReadingForm
<1>8. \A e \in E : ReadOf(v)[e] = ReadOf(w)[e]
  <2>1. E \subseteq E /\ E \subseteq F /\ \A e \in E : b[e] = a[e]
    BY <1>3, <1>5
  <2> QED
    BY <1>2, <1>6, <1>7, <2>1, ReadKept
<1>9. \A e \in R : ReadOf(v)[e] = <<>>
  <2>1. ASSUME NEW e \in R PROVE ReadOf(v)[e] = <<>>
    <3>1. b[e] = {} /\ e \in F
      BY <1>3, <1>5, <1>6
    <3>2. ReadOf(v)[e] = [c \in {} |-> ValueIn(v, e, c)]
      BY <1>7, <3>1 DEF Reading
    <3>3. [c \in {} |-> ValueIn(v, e, c)] = <<>>
      OBVIOUS
    <3> QED
      BY <3>2, <3>3
  <2> QED
    BY <2>1
<1>10. DOMAIN ReadOf(w) = E /\ DOMAIN ReadOf(v) = F /\ ReadOf(v) = [e \in F |-> ReadOf(v)[e]]
  BY <1>2, <1>7 DEF Reading
<1>11. ReadOf(v) = Abstract!Flushed(ReadOf(w), R)
  <2>1. \A e \in F : ReadOf(v)[e] = IF e \in E THEN ReadOf(w)[e] ELSE <<>>
    BY <1>5, <1>8, <1>9
  <2>2. ReadOf(v) = [e \in E \cup R |-> IF e \in E THEN ReadOf(w)[e] ELSE <<>>]
    BY <1>5, <1>10, <2>1
  <2> QED
    BY <1>10, <2>2 DEF Abstract!Flushed
<1>12. Good(v) /\ Reserved(v.ents) = {}
  BY <1>6, <1>7, FlatForm DEF Reading
<1> QED
  BY <1>1, <1>6, <1>11, <1>12 DEF Flushes

\* A new entity.
Creates(w, v, e) ==
  /\ Good(v) /\ Flat(v.ents) /\ Reserved(v.ents) = {}
  /\ e \in DOMAIN ReadOf(v) \ DOMAIN ReadOf(w) /\ Abstract!Spawned(ReadOf(w), ReadOf(v), e)

LEMMA CreatesForm ==
  ASSUME NEW w, NEW E, NEW a, Reading(w, E, a), E = Alive(w.ents),
         NEW y, NEW e, Opened(w.ents, y, e), NEW z, SameBut(w, z, E, a, y),
         NEW to, NEW b, b = Put(a, E, e, to), NEW x \in Values, NEW v, Entered(z, v, E, a, b, e, x)
  PROVE  Creates(w, v, e)
<1>1. /\ Tidy(y) /\ Flat(y) /\ Issued(y, e) /\ ~IsFree(y, e.index) /\ e \notin E /\ Alive(y) = E
      /\ y \in Entities
  BY DEF Opened, Tidy
<1>2. PICK F, D : F = E \cup {e} /\ D = {e}
  OBVIOUS
<1>3. /\ Whole(v, F, b) /\ LocationsOf(y, v.ents, D) /\ KeepsAll(z, v, E, a)
      /\ \A c \in b[e] : ValueIn(v, e, c) = x
  BY <1>2 DEF Entered, SameBut
<1>4. KeepsAll(w, v, E, a)
  BY <1>3 DEF SameBut, KeepsAll, KeepsValues
<1>5. v.ents.meta[e.index].location # NoLocation
  BY <1>2, <1>3, WholeAlive
<1>6. PICK u : u = v.ents
  OBVIOUS
<1>7. Alive(u) = E \cup D
  <2>1. LocationsOf(y, u, D) /\ (\A f \in D : Issued(y, f)) /\ \A f \in D : u.meta[f.index].location # NoLocation
    BY <1>1, <1>2, <1>3, <1>5, <1>6
  <2>2. Alive(u) = Alive(y) \cup D
    BY <1>1, <2>1, AliveThen
  <2> QED
    BY <1>1, <2>2
<1>8. Tidy(u) /\ Flat(u)
  <2>1. LocationsOf(y, u, D) /\ \A f \in D : ~IsFree(y, f.index)
    BY <1>1, <1>2, <1>3, <1>6
  <2> QED
    BY <1>1, <2>1, TidyThen
<1>9. Reserved(u) = {}
  BY <1>8, FlatForm
<1>10. F = Alive(v.ents) /\ Tidy(v.ents)
  BY <1>2, <1>6, <1>7, <1>8
<1>11. Reading(v, F, b)
  BY <1>3, <1>10, ReadingForm
<1>12. b[e] = to /\ \A f \in E : b[f] = a[f]
  BY <1>1 DEF Put
<1>13. \A f \in E : ReadOf(v)[f] = ReadOf(w)[f]
  <2>1. E \subseteq E /\ E \subseteq F
    BY <1>2
  <2> QED
    BY <1>4, <1>11, <1>12, <2>1, ReadKept
<1>14. /\ DOMAIN ReadOf(w) = E /\ DOMAIN ReadOf(v) = F /\ ReadOf(w) = [f \in E |-> ReadOf(w)[f]]
       /\ ReadOf(v)[e] = [c \in b[e] |-> ValueIn(v, e, c)]
  BY <1>2, <1>11 DEF Reading
<1>15. PICK s, t : s = ReadOf(w) /\ t = ReadOf(v)
  OBVIOUS
<1>16. Abstract!Without(t, e) = s
  <2>1. DOMAIN t \ {e} = E /\ s = [f \in E |-> s[f]] /\ \A f \in E : t[f] = s[f]
    BY <1>1, <1>2, <1>13, <1>14, <1>15
  <2> QED
    BY <2>1 DEF Abstract!Without
<1>17. t[e] = [c \in DOMAIN t[e] |-> x]
  <2>1. t[e] = [c \in b[e] |-> ValueIn(v, e, c)]
    BY <1>14, <1>15
  <2>2. t[e] = [c \in b[e] |-> x]
    BY <1>3, <2>1
  <2> QED
    BY <2>2
<1>18. Abstract!Spawned(s, t, e)
  BY <1>16, <1>17 DEF Abstract!Spawned
<1> QED
  BY <1>1, <1>2, <1>6, <1>8, <1>9, <1>11, <1>14, <1>15, <1>18 DEF Creates, Reading

LEMMA OpenedSame ==
  ASSUME NEW w, NEW E, NEW a, Whole(w, E, a), E = Alive(w.ents), NEW y, NEW e, Opened(w.ents, y, e),
         NEW z, z = [w EXCEPT !.ents = y]
  PROVE  SameBut(w, z, E, a, y) /\ e \notin E /\ Issued(z.ents, e)
<1>1. y \in Entities /\ KeepsPlaces(w.ents, y, E) /\ e \notin E /\ Issued(y, e)
  BY DEF Opened, Tidy
<1>2. SameBut(w, z, E, a, y)
  BY <1>1, WholeEnts, Zenon
<1> QED
  BY <1>1, <1>2 DEF SameBut

\* World::spawn.
LEMMA SpawnReads ==
  ASSUME NEW w, Good(w), NEW y, NEW e, Opened(w.ents, y, e), NEW z, z = [w EXCEPT !.ents = y],
         NEW to \in Archetype, NEW x \in Values, NEW v, v = SpawnNonExistent(z, e, to, x)
  PROVE  Creates(w, v, e)
<1>1. PICK E, a : E = Alive(w.ents) /\ a = Homes(w)
  OBVIOUS
<1>2. Reading(w, E, a) /\ Whole(w, E, a) /\ Tidy(w.ents)
  BY <1>1, GoodReading
<1>3. SameBut(w, z, E, a, y) /\ e \notin E /\ Issued(z.ents, e)
  BY <1>1, <1>2, OpenedSame, Zenon
<1>4. Whole(z, E, a)
  BY <1>3 DEF SameBut
<1>5. PICK b : b = Put(a, E, e, to)
  OBVIOUS
<1>6. Entered(z, v, E, a, b, e, x)
  BY <1>3, <1>4, <1>5, SpawnNonExistentForm, Zenon
<1> QED
  BY <1>1, <1>2, <1>3, <1>5, <1>6, CreatesForm, Zenon

\* World::get_or_spawn: the entity has no components.
LEMMA AllocateReads ==
  ASSUME NEW w, Good(w), NEW y, NEW e, Opened(w.ents, y, e), NEW z, z = [w EXCEPT !.ents = y],
         NEW v, v = Allocate(z, {}, e)
  PROVE  Creates(w, v, e)
<1>1. PICK E, a : E = Alive(w.ents) /\ a = Homes(w)
  OBVIOUS
<1>2. Reading(w, E, a) /\ Whole(w, E, a) /\ Tidy(w.ents)
  BY <1>1, GoodReading
<1>3. SameBut(w, z, E, a, y) /\ e \notin E /\ Issued(z.ents, e)
  BY <1>1, <1>2, OpenedSame, Zenon
<1>4. Stored(z, E, a) /\ SparseOK(z.sparse, E, a)
  BY <1>3 DEF SameBut, Whole
<1>5. PICK to, b : to = {} /\ b = Put(a, E, e, to)
  OBVIOUS
<1>6. to \in Archetype
  BY <1>5 DEF Archetype
<1>7. Allocated(z, v, E, a, b, e)
  <2>1. v = Allocate(z, to, e)
    BY <1>5
  <2> QED
    BY <1>3, <1>4, <1>5, <1>6, <2>1, AllocateForm, Zenon
<1>8. PICK x \in Values : TRUE
  BY ComponentsAssumption
<1>9. b[e] = {} /\ \A f \in E : b[f] = a[f]
  BY <1>3, <1>5 DEF Put
<1>10. PICK F : F = E \cup {e}
  OBVIOUS
<1>11. Stored(v, F, b) /\ v.sparse = z.sparse /\ LocationsOf(z.ents, v.ents, {e}) /\ KeepsTables(z, v, E, a)
  BY <1>7, <1>10 DEF Allocated
<1>12. \A c : Having(F, b, c) = Having(E, a, c)
  BY <1>3, <1>9, <1>10 DEF Having
<1>13. Whole(v, F, b)
  BY <1>4, <1>11, <1>12 DEF Whole, SparseOK
<1>14. KeepsAll(z, v, E, a)
  <2>1. ASSUME NEW f \in E, NEW c \in a[f] PROVE ValueIn(v, f, c) = ValueIn(z, f, c)
    <3>1. CASE c \in TableComponents
      <4>1. c \in TableOf(a[f])
        BY <2>1, <3>1 DEF TableOf
      <4> QED
        BY <1>11, <2>1, <3>1, <4>1 DEF KeepsTables, KeepsColumns, ValueIn
    <3>2. CASE c \notin TableComponents
      BY <1>11, <3>2 DEF ValueIn
    <3> QED
      BY <3>1, <3>2
  <2> QED
    BY <2>1 DEF KeepsAll, KeepsValues
<1>15. Entered(z, v, E, a, b, e, x)
  BY <1>9, <1>10, <1>11, <1>13, <1>14 DEF Entered
<1> QED
  BY <1>1, <1>2, <1>3, <1>5, <1>8, <1>15, CreatesForm, Zenon

\* The entity e has other components or values, and the allocator is as it was.
Alters(w, v, E, a, b, e) ==
  /\ Good(v) /\ (Flat(w.ents) => Flat(v.ents)) /\ Reserved(v.ents) = Reserved(w.ents)
  /\ Reading(w, E, a) /\ Reading(v, E, b)
  /\ Abstract!Without(ReadOf(v), e) = Abstract!Without(ReadOf(w), e)

LEMMA AltersForm ==
  ASSUME NEW w, NEW E, NEW a, Reading(w, E, a), Tidy(w.ents), E = Alive(w.ents), NEW e \in E,
         NEW to, NEW b, b = Put(a, E \ {e}, e, to), NEW v, Changed(w, v, E, a, b, e)
  PROVE  Alters(w, v, E, a, b, e)
<1>1. Whole(v, E, b) /\ LocationsOf(w.ents, v.ents, E) /\ KeepsAll(w, v, E \ {e}, a)
  BY DEF Changed
<1>2. PICK x, y : x = w.ents /\ y = v.ents
  OBVIOUS
<1>3. \A f \in E : Issued(x, f)
  BY <1>2, AliveForm DEF Tidy
<1>4. \A f \in E : y.meta[f.index].location # NoLocation
  BY <1>1, <1>2, WholeAlive
<1>5. \A f \in E : ~IsFree(x, f.index)
  BY <1>2, NoneFree
<1>6. x \in Entities /\ LocationsOf(x, y, E) /\ Tidy(x)
  BY <1>1, <1>2 DEF Tidy
<1>7. Alive(y) = E
  <2>1. Alive(y) = Alive(x) \cup E
    BY <1>3, <1>4, <1>6, AliveThen
  <2> QED
    BY <1>2, <2>1
<1>8. Tidy(y) /\ (Flat(x) => Flat(y)) /\ Reserved(y) = Reserved(x)
  BY <1>5, <1>6, TidyThen
<1>9. Reading(v, E, b)
  <2>1. E = Alive(v.ents) /\ Tidy(v.ents)
    BY <1>2, <1>7, <1>8
  <2> QED
    BY <1>1, <2>1, ReadingForm
<1>10. PICK G : G = E \ {e}
  OBVIOUS
<1>11. \A f \in G : ReadOf(v)[f] = ReadOf(w)[f]
  <2>1. G \subseteq E /\ \A f \in G : b[f] = a[f]
    BY <1>10 DEF Put
  <2>2. KeepsAll(w, v, G, a)
    BY <1>1, <1>10
  <2> QED
    BY <1>9, <2>1, <2>2, ReadKept
<1>12. DOMAIN ReadOf(w) = E /\ DOMAIN ReadOf(v) = E
  BY <1>9 DEF Reading
<1>13. Abstract!Without(ReadOf(v), e) = Abstract!Without(ReadOf(w), e)
  BY <1>10, <1>11, <1>12 DEF Abstract!Without
<1> QED
  BY <1>2, <1>8, <1>9, <1>13 DEF Alters, Reading

\* What an operation on the components of e is for the abstract store.
Inserts(w, v, e) ==
  /\ Good(v) /\ (Flat(w.ents) => Flat(v.ents)) /\ Reserved(v.ents) = Reserved(w.ents)
  /\ e \in DOMAIN ReadOf(w) \cap DOMAIN ReadOf(v) /\ Abstract!Inserted(ReadOf(w), ReadOf(v), e)

Removes(w, v, e) ==
  /\ Good(v) /\ (Flat(w.ents) => Flat(v.ents)) /\ Reserved(v.ents) = Reserved(w.ents)
  /\ e \in DOMAIN ReadOf(w) \cap DOMAIN ReadOf(v) /\ Abstract!Removed(ReadOf(w), ReadOf(v), e)

\* EntityWorldMut::insert.
LEMMA InsertReads ==
  ASSUME NEW w, Good(w), NEW e \in Alive(w.ents), NEW bundle \in Archetype, NEW x \in Values,
         NEW p, p = Place(w, e).archetype, NEW v, v = InsertBundle(w, e, p, bundle, x)
  PROVE  Inserts(w, v, e)
<1>1. PICK E, a : E = Alive(w.ents) /\ a = Homes(w)
  OBVIOUS
<1>2. Reading(w, E, a) /\ Whole(w, E, a) /\ Tidy(w.ents) /\ e \in E
  BY <1>1, GoodReading
<1>3. p = a[e]
  BY <1>1 DEF Homes
<1>4. PICK to, b : to = a[e] \cup bundle /\ b = Put(a, E \ {e}, e, to)
  OBVIOUS
<1>5. Changed(w, v, E, a, b, e) /\ KeepsValues(w, v, e, a[e] \ bundle) /\ Reads(v, e, bundle, x)
  <2>1. b = Put(a, E \ {e}, e, a[e] \cup bundle) /\ v = InsertBundle(w, e, a[e], bundle, x)
    BY <1>3, <1>4
  <2> QED
    BY <1>2, <2>1, InsertBundleForm, Zenon
<1>6. Alters(w, v, E, a, b, e)
  BY <1>1, <1>2, <1>4, <1>5, AltersForm, Zenon
<1>7. PICK s, t : s = ReadOf(w) /\ t = ReadOf(v)
  OBVIOUS
<1>8. /\ DOMAIN s = E /\ DOMAIN t = E
      /\ s[e] = [c \in a[e] |-> ValueIn(w, e, c)] /\ t[e] = [c \in b[e] |-> ValueIn(v, e, c)]
  BY <1>2, <1>6, <1>7 DEF Alters, Reading
<1>9. b[e] = a[e] \cup bundle
  BY <1>4 DEF Put
<1>10. DOMAIN s[e] = a[e] /\ DOMAIN t[e] = a[e] \cup bundle
  BY <1>8, <1>9
<1>11. ASSUME NEW c \in DOMAIN t[e] PROVE t[e][c] = x \/ (c \in DOMAIN s[e] /\ t[e][c] = s[e][c])
  <2>1. t[e][c] = ValueIn(v, e, c) /\ c \in a[e] \cup bundle
    BY <1>8, <1>9, <1>10
  <2>2. CASE c \in bundle
    BY <1>5, <2>1, <2>2 DEF Reads
  <2>3. CASE c \notin bundle
    <3>1. c \in a[e] \ bundle /\ s[e][c] = ValueIn(w, e, c)
      BY <1>8, <2>1, <2>3
    <3> QED
      BY <1>5, <1>10, <2>1, <3>1 DEF KeepsValues
  <2> QED
    BY <2>2, <2>3
<1>12. Abstract!Without(t, e) = Abstract!Without(s, e)
  BY <1>6, <1>7 DEF Alters
<1>13. Abstract!Inserted(s, t, e)
  BY <1>10, <1>11, <1>12 DEF Abstract!Inserted
<1> QED
  BY <1>2, <1>6, <1>7, <1>8, <1>13 DEF Inserts, Alters

\* EntityWorldMut::remove, take and retain.
LEMMA RemoveReads ==
  ASSUME NEW w, Good(w), NEW e \in Alive(w.ents), NEW bundle, NEW v, v = RemoveBundle(w, e, bundle)
  PROVE  Removes(w, v, e)
<1>1. PICK E, a : E = Alive(w.ents) /\ a = Homes(w)
  OBVIOUS
<1>2. Reading(w, E, a) /\ Whole(w, E, a) /\ Tidy(w.ents) /\ e \in E
  BY <1>1, GoodReading
<1>3. PICK to, b : to = a[e] \ bundle /\ b = Put(a, E \ {e}, e, to)
  OBVIOUS
<1>4. Changed(w, v, E, a, b, e) /\ KeepsValues(w, v, e, to)
  <2>1. b = Put(a, E \ {e}, e, a[e] \ bundle)
    BY <1>3
  <2> QED
    BY <1>2, <1>3, <2>1, RemoveBundleForm, Zenon
<1>5. Alters(w, v, E, a, b, e)
  BY <1>1, <1>2, <1>3, <1>4, AltersForm, Zenon
<1>6. PICK s, t : s = ReadOf(w) /\ t = ReadOf(v)
  OBVIOUS
<1>7. /\ DOMAIN s = E /\ DOMAIN t = E
      /\ s[e] = [c \in a[e] |-> ValueIn(w, e, c)] /\ t[e] = [c \in b[e] |-> ValueIn(v, e, c)]
  BY <1>2, <1>5, <1>6 DEF Alters, Reading
<1>8. b[e] = to /\ to \subseteq a[e]
  BY <1>3 DEF Put
<1>9. DOMAIN t[e] = to /\ DOMAIN s[e] = a[e]
  BY <1>7, <1>8
<1>10. t[e] = [c \in DOMAIN t[e] |-> s[e][c]]
  <2>1. \A c \in to : ValueIn(v, e, c) = s[e][c]
    BY <1>4, <1>7, <1>8 DEF KeepsValues
  <2> QED
    BY <1>7, <1>8, <1>9, <2>1
<1>11. Abstract!Without(t, e) = Abstract!Without(s, e)
  BY <1>5, <1>6 DEF Alters
<1>12. Abstract!Removed(s, t, e)
  BY <1>8, <1>9, <1>10, <1>11 DEF Abstract!Removed
<1> QED
  BY <1>2, <1>5, <1>6, <1>7, <1>12 DEF Removes, Alters

\* World::despawn.
Destroys(w, v, e) ==
  /\ Good(v) /\ Flat(v.ents) /\ Reserved(v.ents) = {}
  /\ e \in DOMAIN ReadOf(w) \ DOMAIN ReadOf(v) /\ ReadOf(v) = Abstract!Without(ReadOf(w), e)

LEMMA DespawnReads ==
  ASSUME NEW w, Good(w), Flat(w.ents), NEW e \in Alive(w.ents), NEW v, v = Despawned(w, e)
  PROVE  Destroys(w, v, e)
<1>1. PICK E, a : E = Alive(w.ents) /\ a = Homes(w)
  OBVIOUS
<1>2. Reading(w, E, a) /\ Whole(w, E, a) /\ Tidy(w.ents) /\ e \in E
  BY <1>1, GoodReading
<1>3. PICK x, y, G : x = free(w.ents, e) /\ y = v.ents /\ G = E \ {e}
  OBVIOUS
<1>4. /\ Tidy(x) /\ Flat(x) /\ Alive(x) = G /\ KeepsPlaces(w.ents, x, G) /\ x \in Entities
  <2>1. Freed(w.ents, x, e)
    BY <1>2, <1>3, FreeForm, Zenon
  <2> QED
    BY <1>1, <1>3, <2>1 DEF Freed, Tidy
<1>5. PICK r, t : StoredAt(w, E, a, r, t)
  BY <1>2 DEF Whole, Stored
<1>6. Located(x, E \ {e}, a, r, t)
  BY <1>3, <1>4, <1>5 DEF StoredAt, Rows, Located, KeepsPlaces
<1>7. Gone(w, v, E, a, e)
  BY <1>2, <1>3, <1>4, <1>5, <1>6, DespawnedForm, Zenon
<1>8. /\ Stored(v, G, a) /\ v.sparse = SparseCleaned(w.sparse, e, a[e])
      /\ LocationsOf(x, y, G) /\ KeepsTables(w, v, G, a)
  BY <1>3, <1>7 DEF Gone
<1>9. /\ OneIndex(E) /\ SparseOK(w.sparse, E, a) /\ \A f \in E : a[f] \in Archetype
  BY <1>2, StoredForm DEF Whole
<1>10. PICK S, T, cs, O : S = w.sparse /\ T = v.sparse /\ cs = a[e] /\ O = E \cup {e}
  OBVIOUS
<1>11. SparseOK(T, G, a) /\ KeepsSparse(S, T, E, a, e, cs)
  <2>1. Loses(E, a, G, a, e, cs)
    BY <1>3, <1>10 DEF Loses, Having
  <2>2. SparseOK(S, E, a) /\ T = SparseCleaned(S, e, cs)
    BY <1>8, <1>9, <1>10
  <2>3. OneIndex(O)
    BY <1>2, <1>9, <1>10 DEF OneIndex
  <2> QED
    BY <1>10, <2>1, <2>2, <2>3, SparseCleanedForm, Zenon
<1>12. Whole(v, G, a)
  BY <1>8, <1>10, <1>11 DEF Whole
<1>13. KeepsAll(w, v, G, a)
  <2>1. KeepsSparse(w.sparse, v.sparse, E, a, e, cs) /\ KeepsTables(w, v, E \ {e}, a)
    BY <1>3, <1>8, <1>10, <1>11
  <2>2. KeepsAll(w, v, E \ {e}, a)
    BY <1>9, <2>1, KeepsBoth, Zenon
  <2> QED
    BY <1>3, <2>2
<1>14. Alive(y) = G
  <2>1. \A f \in G : y.meta[f.index].location # NoLocation
    BY <1>3, <1>12, WholeAlive
  <2>2. \A f \in G : Issued(x, f)
    BY <1>4, AliveForm
  <2>3. Alive(y) = Alive(x) \cup G
    BY <1>4, <1>8, <2>1, <2>2, AliveThen
  <2> QED
    BY <1>4, <2>3
<1>15. Tidy(y) /\ Flat(y)
  <2>1. \A f \in G : ~IsFree(x, f.index)
    BY <1>4, NoneFree
  <2> QED
    BY <1>4, <1>8, <2>1, TidyThen
<1>16. Reading(v, G, a)
  <2>1. G = Alive(v.ents) /\ Tidy(v.ents)
    BY <1>3, <1>14, <1>15
  <2> QED
    BY <1>12, <2>1, ReadingForm
<1>17. \A f \in G : ReadOf(v)[f] = ReadOf(w)[f]
  <2>1. G \subseteq E /\ G \subseteq G /\ \A f \in G : a[f] = a[f]
    BY <1>3
  <2> QED
    BY <1>2, <1>13, <1>16, <2>1, ReadKept
<1>18. DOMAIN ReadOf(w) = E /\ DOMAIN ReadOf(v) = G /\ ReadOf(v) = [f \in G |-> ReadOf(v)[f]]
  BY <1>2, <1>16 DEF Reading
<1>19. ReadOf(v) = Abstract!Without(ReadOf(w), e)
  BY <1>3, <1>17, <1>18 DEF Abstract!Without
<1>20. Reserved(v.ents) = {}
  BY <1>3, <1>15, FlatForm
<1> QED
  BY <1>2, <1>3, <1>15, <1>16, <1>18, <1>19, <1>20 DEF Destroys, Reading

\* A system reserves an id.
Promises(w, v) ==
  /\ Good(v) /\ ReadOf(v) = ReadOf(w)
  /\ \E e : /\ e \notin Reserved(w.ents) \cup DOMAIN ReadOf(w)
            /\ Reserved(v.ents) = Reserved(w.ents) \cup {e}

LEMMA ReserveReads ==
  ASSUME NEW w, Good(w), NEW v, v = [w EXCEPT !.ents = reserve_entity(@)]
  PROVE  Promises(w, v)
<1>1. PICK E, a, x, y : E = Alive(w.ents) /\ a = Homes(w) /\ x = w.ents /\ y = reserve_entity(x)
  OBVIOUS
<1>2. Reading(w, E, a) /\ Whole(w, E, a) /\ Tidy(w.ents)
  BY <1>1, GoodReading
<1>3. /\ Tidy(y) /\ Alive(y) = Alive(x) /\ y.meta = x.meta
      /\ \E e : e \notin Reserved(x) \cup Alive(x) /\ Reserved(y) = Reserved(x) \cup {e}
  BY <1>1, <1>2, ReserveForm
<1>4. KeepsPlaces(x, y, E) /\ y \in Entities
  <2>1. \A f \in E : Known(x, f.index)
    BY <1>1, <1>2, AliveForm DEF Tidy, Issued
  <2> QED
    BY <1>3, <2>1 DEF KeepsPlaces, Known, Tidy
<1>5. SameBut(w, v, E, a, y)
  <2>1. KeepsPlaces(w.ents, y, E) /\ v = [w EXCEPT !.ents = y]
    BY <1>1, <1>4
  <2> QED
    BY <1>2, <1>4, <2>1, WholeEnts, Zenon
<1>6. Whole(v, E, a) /\ KeepsAll(w, v, E, a) /\ v.ents = y
  BY <1>5 DEF SameBut
<1>7. Reading(v, E, a)
  <2>1. E = Alive(v.ents) /\ Tidy(v.ents)
    BY <1>1, <1>3, <1>6
  <2> QED
    BY <1>6, <2>1, ReadingForm
<1>8. ReadOf(v) = ReadOf(w) /\ DOMAIN ReadOf(w) = E
  <2>1. E \subseteq E /\ \A f \in E : a[f] = a[f]
    OBVIOUS
  <2>2. \A f \in E : ReadOf(v)[f] = ReadOf(w)[f]
    BY <1>2, <1>6, <1>7, <2>1, ReadKept
  <2>3. /\ ReadOf(w) = [f \in E |-> ReadOf(w)[f]] /\ DOMAIN ReadOf(w) = E
        /\ ReadOf(v) = [f \in E |-> ReadOf(v)[f]]
    BY <1>2, <1>7 DEF Reading
  <2> QED
    BY <2>2, <2>3
<1> QED
  BY <1>1, <1>3, <1>6, <1>7, <1>8 DEF Promises, Reading

LEMMA NewWorldReads ==
  ASSUME NEW w, w = NewWorld
  PROVE  Good(w) /\ Flat(w.ents) /\ Reserved(w.ents) = {} /\ ReadOf(w) = <<>>
<1>1. PICK x, A, T, S : x = w.ents /\ A = w.arch /\ T = w.table /\ S = w.sparse
  OBVIOUS
<1>2. /\ IsWorld(w) /\ x = NewEntities /\ A = [cs \in Archetype |-> <<>>]
      /\ T = [ts \in SUBSET TableComponents |-> [entities |-> <<>>, column |-> [c \in ts |-> <<>>]]]
      /\ S = [c \in SparseComponents |-> [entities |-> <<>>, dense |-> <<>>, sparse |-> <<>>]]
  BY <1>1 DEF NewWorld, IsWorld
<1>3. x.meta = <<>> /\ x.pending = <<>> /\ x.cursor = 0 /\ x \in Entities
  BY <1>2 DEF NewEntities, Entities
<1>4. Tidy(x) /\ Flat(x)
  BY <1>3 DEF Tidy, Flat
<1>5. Alive(x) = {}
  BY <1>3 DEF Alive
<1>6. PICK E, a : E = {} /\ a = Homes(w)
  OBVIOUS
<1>7. \A at : Listed(<<>>, {}, at)
  BY DEF Listed
<1>8. EntityOf(<<>>) = <<>>
  BY DEF EntityOf
<1>9. \A b, z : With(E, b, z) = {}
  BY <1>6 DEF With
<1>10. ArchOK(A, E, a, a)
  <2>1. \A cs \in Archetype : A[cs] = <<>> /\ EntityOf(A[cs]) = <<>>
    BY <1>2, <1>8
  <2>2. \A cs \in Archetype : Listed(EntityOf(A[cs]), With(E, a, cs), a)
    BY <1>7, <1>9, <2>1
  <2>3. <<>> \in Seq(ArchetypeRow)
    OBVIOUS
  <2>4. A \in [Archetype -> Seq(ArchetypeRow)]
    BY <1>2, <2>3
  <2> QED
    BY <2>2, <2>4 DEF ArchOK
<1>11. TableOK(T, E, TablesOf(E, a), a)
  <2>1. ASSUME NEW ts \in SUBSET TableComponents
        PROVE  IsTable(T[ts], ts) /\ Listed(T[ts].entities, With(E, TablesOf(E, a), ts), a)
    <3>1. T[ts].entities = <<>> /\ T[ts].column = [c \in ts |-> <<>>]
          /\ T[ts] = [entities |-> T[ts].entities, column |-> T[ts].column]
      BY <1>2
    <3>2. <<>> \in Seq(Cell)
      OBVIOUS
    <3> QED
      BY <1>7, <1>9, <3>1, <3>2 DEF IsTable, Columns
  <2> QED
    BY <1>2, <2>1 DEF TableOK
<1>12. Rows(w, E, a, a, a)
  BY <1>1, <1>2, <1>3, <1>6, <1>10 DEF Rows, Rowed, Linked, Located
<1>13. SparseOK(S, E, a)
  <2>1. ASSUME NEW c \in SparseComponents PROVE SetOK(S[c], Having(E, a, c))
    <3>1. Having(E, a, c) = {}
      BY <1>6 DEF Having
    <3>2. PICK s : s = S[c]
      OBVIOUS
    <3>3. s = [entities |-> <<>>, dense |-> <<>>, sparse |-> <<>>]
      BY <1>2, <3>2
    <3>4. DOMAIN s.sparse = IndexOf({})
      BY <3>3 DEF IndexOf
    <3> QED
      BY <1>7, <3>1, <3>2, <3>3, <3>4 DEF SetOK
  <2> QED
    BY <1>2, <2>1 DEF SparseOK
<1>14. Whole(w, E, a)
  BY <1>1, <1>11, <1>12, <1>13 DEF Whole, Stored, StoredAt
<1>15. Reading(w, E, a)
  <2>1. E = Alive(w.ents) /\ Tidy(w.ents)
    BY <1>1, <1>4, <1>5, <1>6
  <2> QED
    BY <1>14, <2>1, ReadingForm
<1>16. ReadOf(w) = <<>>
  BY <1>6, <1>15 DEF Reading
<1> QED
  BY <1>1, <1>4, <1>15, <1>16, FlatForm DEF Reading

-----------------------------------------------------------------------------
(***************************************************************************)
(* Every step of the world is one of the abstract store, or none.          *)
(***************************************************************************)
\* While a batch is inserted no system runs, so no id is reserved.
BatchOK ==
  batch = Off \/ (/\ batch \in [bundle : BatchBundles, inserter : Archetype \cup {Off}]
                  /\ Flat(world.ents))

WInv == Good(world) /\ BatchOK

LEMMA StoreIsRead == Store = ReadOf(world)
BY DEF Store, ReadOf, Value, ValueIn, TableValue, Dense

LEMMA StoreIsReadNext == Store' = ReadOf(world')
BY DEF Store, ReadOf, Value, ValueIn, TableValue, Dense, Place

LEMMA FlatFlushes ==
  ASSUME NEW w, Good(w), Flat(w.ents) PROVE Flushes(w, w)
<1>1. PICK E, a : E = Alive(w.ents) /\ a = Homes(w)
  OBVIOUS
<1>2. Reading(w, E, a) /\ Tidy(w.ents)
  BY <1>1, GoodReading
<1>3. Reserved(w.ents) = {}
  BY <1>2, FlatForm
<1>4. ReadOf(w) = [e \in DOMAIN ReadOf(w) |-> ReadOf(w)[e]]
  BY <1>2 DEF Reading
<1>5. ReadOf(w) = Abstract!Flushed(ReadOf(w), {})
  BY <1>4 DEF Abstract!Flushed
<1> QED
  BY <1>3, <1>5 DEF Flushes

LEMMA PromisesNext == ASSUME Promises(world, world') PROVE Abstract!Next
<1>1. PICK e : /\ e \notin Reserved(world.ents) \cup DOMAIN ReadOf(world)
               /\ Reserved(world'.ents) = Reserved(world.ents) \cup {e}
  BY DEF Promises
<1>2. Store' = Store /\ DOMAIN Store = DOMAIN ReadOf(world)
  BY StoreIsRead, StoreIsReadNext DEF Promises
<1>3. Abstract!Reserve(Store, Store', Reserved(world.ents))
  BY <1>1, <1>2 DEF Abstract!Reserve
<1> QED
  BY <1>3 DEF Abstract!Next

LEMMA FlushesNext == ASSUME Flushes(world, world') PROVE Abstract!Next
<1>1. Store' = Abstract!Flushed(Store, Reserved(world.ents)) /\ Reserved(world'.ents) = {}
  BY StoreIsRead, StoreIsReadNext DEF Flushes
<1> QED
  BY <1>1 DEF Abstract!Next

LEMMA CreatesNext == ASSUME NEW w, Flushes(world, w), NEW e, Creates(w, world', e) PROVE Abstract!Next
<1>1. ReadOf(w) = Abstract!Flushed(Store, Reserved(world.ents))
  BY StoreIsRead DEF Flushes
<1>2. /\ e \in DOMAIN Store' \ DOMAIN ReadOf(w) /\ Abstract!Spawned(ReadOf(w), Store', e)
      /\ Reserved(world'.ents) = {}
  BY StoreIsReadNext DEF Creates
<1> QED
  BY <1>1, <1>2 DEF Abstract!Next

LEMMA DestroysNext == ASSUME NEW w, Flushes(world, w), NEW e, Destroys(w, world', e) PROVE Abstract!Next
<1>1. ReadOf(w) = Abstract!Flushed(Store, Reserved(world.ents))
  BY StoreIsRead DEF Flushes
<1>2. /\ e \in DOMAIN ReadOf(w) \ DOMAIN Store' /\ Store' = Abstract!Without(ReadOf(w), e)
      /\ Reserved(world'.ents) = {}
  BY StoreIsReadNext DEF Destroys
<1> QED
  BY <1>1, <1>2 DEF Abstract!Next

LEMMA InsertsNext == ASSUME NEW e, Inserts(world, world', e) PROVE Abstract!Next
<1>1. /\ e \in DOMAIN Store \cap DOMAIN Store' /\ Abstract!Inserted(Store, Store', e)
      /\ Reserved(world'.ents) = Reserved(world.ents)
  BY StoreIsRead, StoreIsReadNext DEF Inserts
<1> QED
  BY <1>1 DEF Abstract!Next

LEMMA RemovesNext == ASSUME NEW e, Removes(world, world', e) PROVE Abstract!Next
<1>1. /\ e \in DOMAIN Store \cap DOMAIN Store' /\ Abstract!Removed(Store, Store', e)
      /\ Reserved(world'.ents) = Reserved(world.ents)
  BY StoreIsRead, StoreIsReadNext DEF Removes
<1> QED
  BY <1>1 DEF Abstract!Next

LEMMA NowFlushes == ASSUME Good(world) PROVE Flushes(world, Now)
BY FlushReads DEF Now

LEMMA ExistsAlive ==
  ASSUME NEW w, Good(w), NEW e \in Ids, Exists(w.ents, e) PROVE e \in Alive(w.ents)
<1>1. e \in Entity
  BY ComponentsAssumption DEF Ids, Entity
<1>2. w.ents \in Entities
  BY DEF Good, Tidy
<1> QED
  BY <1>1, <1>2, AliveForm DEF Exists, Issued

LEMMA BundlesKnown == \A bundle \in Bundles \cup BatchBundles : bundle \in Archetype
BY ComponentsAssumption DEF Archetype, Components

LEMMA ReserveStep == ASSUME WInv, Reserve PROVE WInv' /\ Abstract!Next
<1>1. Promises(world, world') /\ batch' = Off
  BY ReserveReads DEF WInv, Reserve, Quiet
<1> QED
  BY <1>1, PromisesNext DEF WInv, BatchOK, Promises

LEMMA FlushStep == ASSUME WInv, Flush PROVE WInv' /\ Abstract!Next
<1>1. Flushes(world, world') /\ batch' = Off
  BY NowFlushes DEF WInv, Flush, Quiet
<1> QED
  BY <1>1, FlushesNext DEF WInv, BatchOK, Flushes

LEMMA SpawnStep ==
  ASSUME WInv, NEW bundle \in Bundles, NEW v \in Values, Spawn(bundle, v)
  PROVE  WInv' /\ Abstract!Next
<1>1. PICK w, x, y, e, z : /\ w = Now /\ x = w.ents /\ y = alloc(x) /\ e = AllocId(x)
                           /\ z = [w EXCEPT !.ents = y]
  OBVIOUS
<1>2. Flushes(world, w)
  BY <1>1, NowFlushes DEF WInv
<1>3. Good(w) /\ Tidy(x) /\ Flat(x)
  BY <1>1, <1>2 DEF Flushes, Good
<1>4. Opened(w.ents, y, e)
  BY <1>1, <1>3, AllocForm, Zenon
<1>5. world' = SpawnNonExistent(z, e, bundle, v) /\ batch' = Off
  BY <1>1 DEF Spawn, Quiet
<1>6. bundle \in Archetype
  BY BundlesKnown
<1>7. Creates(w, world', e)
  BY <1>1, <1>3, <1>4, <1>5, <1>6, SpawnReads, Zenon
<1> QED
  BY <1>2, <1>5, <1>7, CreatesNext DEF WInv, BatchOK, Creates

LEMMA InsertStep ==
  ASSUME WInv, NEW e \in Ids, NEW bundle \in Bundles, NEW v \in Values, Insert(e, bundle, v)
  PROVE  WInv' /\ Abstract!Next
<1>1. Good(world) /\ e \in Alive(world.ents) /\ bundle \in Archetype
  BY BundlesKnown, ExistsAlive DEF WInv, Insert
<1>2. PICK p : p = Place(world, e).archetype
  OBVIOUS
<1>3. world' = InsertBundle(world, e, p, bundle, v) /\ batch' = Off
  BY <1>2 DEF Insert, Quiet
<1>4. Inserts(world, world', e)
  BY <1>1, <1>2, <1>3, InsertReads, Zenon
<1> QED
  BY <1>3, <1>4, InsertsNext DEF WInv, BatchOK, Inserts

LEMMA RemoveStep ==
  ASSUME WInv, NEW e \in Ids, NEW bundle, Remove(e, bundle)
  PROVE  WInv' /\ Abstract!Next
<1>1. Good(world) /\ e \in Alive(world.ents)
  BY ExistsAlive DEF WInv, Remove
<1>2. world' = RemoveBundle(world, e, bundle) /\ batch' = Off
  BY DEF Remove, Quiet
<1>3. Removes(world, world', e)
  BY <1>1, <1>2, RemoveReads, Zenon
<1> QED
  BY <1>2, <1>3, RemovesNext DEF WInv, BatchOK, Removes

LEMMA RetainStep ==
  ASSUME WInv, NEW e \in Ids, NEW bundle, Retain(e, bundle)
  PROVE  WInv' /\ Abstract!Next
<1>1. Good(world) /\ e \in Alive(world.ents)
  BY ExistsAlive DEF WInv, Retain
<1>2. PICK removed : removed = Place(world, e).archetype \ bundle
  OBVIOUS
<1>3. world' = RemoveBundle(world, e, removed) /\ batch' = Off
  BY <1>2 DEF Retain, Quiet
<1>4. Removes(world, world', e)
  BY <1>1, <1>3, RemoveReads, Zenon
<1> QED
  BY <1>3, <1>4, RemovesNext DEF WInv, BatchOK, Removes

LEMMA DespawnStep ==
  ASSUME WInv, NEW e \in Ids, Despawn(e)
  PROVE  WInv' /\ Abstract!Next
<1>1. PICK w : w = Now
  OBVIOUS
<1>2. Flushes(world, w)
  BY <1>1, NowFlushes DEF WInv
<1>3. Good(w) /\ Flat(w.ents)
  BY <1>2 DEF Flushes
<1>4. e \in Alive(w.ents)
  BY <1>1, <1>3, ExistsAlive DEF Despawn
<1>5. world' = Despawned(w, e) /\ batch' = Off
  BY <1>1 DEF Despawn, Quiet, Despawned, SparseCleaned
<1>6. Destroys(w, world', e)
  BY <1>3, <1>4, <1>5, DespawnReads, Zenon
<1> QED
  BY <1>2, <1>5, <1>6, DestroysNext DEF WInv, BatchOK, Destroys

LEMMA GetOrSpawnStep ==
  ASSUME WInv, NEW e \in Ids, GetOrSpawn(e)
  PROVE  WInv' /\ Abstract!Next
<1>1. PICK w, x, y, z : /\ w = Now /\ x = w.ents /\ y = alloc_at_without_replacement(x, e)
                        /\ z = [w EXCEPT !.ents = y]
  OBVIOUS
<1>2. Flushes(world, w)
  BY <1>1, NowFlushes DEF WInv
<1>3. Good(w) /\ Tidy(x) /\ Flat(x)
  BY <1>1, <1>2 DEF Flushes, Good
<1>4. batch' = Off
  BY DEF GetOrSpawn, Quiet
<1>5. CASE AllocAtWithoutReplacement(x, e) = "DidNotExist"
  <2>1. Opened(w.ents, y, e)
    BY <1>1, <1>3, <1>5, AllocAtForm, Zenon
  <2>2. world' = Allocate(z, {}, e)
    BY <1>1, <1>5 DEF GetOrSpawn
  <2>3. Creates(w, world', e)
    BY <1>1, <1>3, <2>1, <2>2, AllocateReads, Zenon
  <2> QED
    BY <1>2, <1>4, <2>3, CreatesNext DEF WInv, BatchOK, Creates
<1>6. CASE AllocAtWithoutReplacement(x, e) # "DidNotExist"
  <2>1. world' = w
    BY <1>1, <1>6 DEF GetOrSpawn
  <2>2. Flushes(world, world')
    BY <1>2, <2>1
  <2> QED
    BY <1>4, <2>2, FlushesNext DEF WInv, BatchOK, Flushes
<1> QED
  BY <1>5, <1>6

LEMMA BatchBeginStep ==
  ASSUME WInv, NEW bundle \in BatchBundles, BatchBegin(bundle)
  PROVE  WInv' /\ Abstract!Next
<1>1. Flushes(world, world')
  BY NowFlushes DEF WInv, BatchBegin
<1>2. batch' \in [bundle : BatchBundles, inserter : Archetype \cup {Off}]
  BY DEF BatchBegin
<1> QED
  BY <1>1, <1>2, FlushesNext DEF WInv, BatchOK, Flushes

\* The pointers that were kept are used for entities of their archetype only.
LEMMA InserterForm == \A kept, archetype : Inserter(kept, archetype) = archetype
BY DEF Inserter

LEMMA BatchItemStep ==
  ASSUME WInv, NEW e \in Ids, NEW v \in Values, BatchItem(e, v)
  PROVE  WInv' /\ (Abstract!Next \/ UNCHANGED vars)
<1>1. PICK x, y, z : /\ x = world.ents /\ y = alloc_at_without_replacement(x, e)
                     /\ z = [world EXCEPT !.ents = y]
  OBVIOUS
<1>2. /\ Good(world) /\ Tidy(x) /\ Flat(x)
      /\ batch \in [bundle : BatchBundles, inserter : Archetype \cup {Off}]
  BY <1>1 DEF WInv, BatchOK, Good, BatchItem, Quiet
<1>3. batch.bundle \in Archetype
  BY <1>2, BundlesKnown
<1>4. CASE AllocAtWithoutReplacement(x, e) = "DidNotExist"
  <2>1. Opened(world.ents, y, e)
    BY <1>1, <1>2, <1>4, AllocAtForm, Zenon
  <2>2. /\ world' = SpawnNonExistent(z, e, batch.bundle, v)
        /\ batch' = [batch EXCEPT !.inserter = Off]
    BY <1>1, <1>4 DEF BatchItem
  <2>3. Creates(world, world', e)
    BY <1>1, <1>2, <1>3, <2>1, <2>2, SpawnReads, Zenon
  <2>4. batch' \in [bundle : BatchBundles, inserter : Archetype \cup {Off}]
    BY <1>2, <2>2
  <2>5. Flushes(world, world)
    BY <1>1, <1>2, FlatFlushes
  <2> QED
    BY <2>3, <2>4, <2>5, CreatesNext DEF WInv, BatchOK, Creates
<1>5. CASE AllocAtWithoutReplacement(x, e) = "Exists"
  <2>1. e \in Alive(world.ents)
    BY <1>1, <1>2, <1>5, AllocAtExists
  <2>2. PICK p : p = Place(world, e).archetype
    OBVIOUS
  <2>3. p \in Archetype
    <3>1. Whole(world, Alive(world.ents), Homes(world))
      BY <1>2 DEF Good
    <3>2. PICK E, a : E = Alive(world.ents) /\ a = Homes(world)
      OBVIOUS
    <3>3. Stored(world, E, a)
      BY <3>1, <3>2 DEF Whole
    <3>4. a[e] \in Archetype /\ a[e] = p
      BY <2>1, <2>2, <3>2, <3>3, StoredForm DEF Homes
    <3> QED
      BY <3>4
  <2>4. /\ world' = InsertBundle(world, e, p, batch.bundle, v)
        /\ batch' = [batch EXCEPT !.inserter = p]
    BY <1>1, <1>5, <2>2, InserterForm DEF BatchItem
  <2>5. Inserts(world, world', e)
    BY <1>2, <1>3, <2>1, <2>2, <2>4, InsertReads, Zenon
  <2>6. batch' \in [bundle : BatchBundles, inserter : Archetype \cup {Off}]
    BY <1>2, <2>3, <2>4
  <2>7. Flat(world'.ents)
    BY <1>1, <1>2, <2>5 DEF Inserts
  <2> QED
    BY <2>5, <2>6, <2>7, InsertsNext DEF WInv, BatchOK, Inserts
<1>6. CASE AllocAtWithoutReplacement(x, e) = "ExistsWithWrongGeneration"
  <2>1. UNCHANGED vars
    BY <1>1, <1>6 DEF BatchItem
  <2> QED
    BY <2>1 DEF vars, WInv, BatchOK
<1> QED
  BY <1>1, <1>4, <1>5, <1>6 DEF BatchItem

LEMMA BatchEndStep == ASSUME WInv, BatchEnd PROVE WInv' /\ world' = world
BY DEF WInv, BatchOK, BatchEnd

LEMMA ClearStep == ASSUME WInv, ClearEntities PROVE WInv' /\ Abstract!Next
<1>1. world' = NewWorld /\ batch' = Off
  BY DEF ClearEntities, Quiet
<1>2. Good(world') /\ Reserved(world'.ents) = {} /\ ReadOf(world') = <<>>
  BY <1>1, NewWorldReads
<1>3. Store' = <<>>
  BY <1>2, StoreIsReadNext
<1>4. Abstract!Next
  BY <1>2, <1>3 DEF Abstract!Next
<1> QED
  BY <1>1, <1>2, <1>4 DEF WInv, BatchOK

LEMMA WorldStep ==
  ASSUME WInv, [Next]_vars
  PROVE  WInv' /\ [Abstract!Next]_<<Store, Reserved(world.ents)>>
<1>1. ASSUME world' = world PROVE UNCHANGED <<Store, Reserved(world.ents)>>
  BY <1>1, StoreIsRead, StoreIsReadNext
<1>2. CASE Reserve
  BY <1>2, ReserveStep
<1>3. CASE Flush
  BY <1>3, FlushStep
<1>4. CASE ClearEntities
  BY <1>4, ClearStep
<1>5. CASE BatchEnd
  BY <1>1, <1>5, BatchEndStep
<1>6. CASE \E bundle \in Bundles, v \in Values : Spawn(bundle, v)
  BY <1>6, SpawnStep
<1>7. ASSUME NEW e \in Ids, Despawn(e) \/ GetOrSpawn(e)
      PROVE  WInv' /\ [Abstract!Next]_<<Store, Reserved(world.ents)>>
  BY <1>7, DespawnStep, GetOrSpawnStep
<1>8. ASSUME NEW e \in Ids, NEW v \in Values, BatchItem(e, v)
      PROVE  WInv' /\ [Abstract!Next]_<<Store, Reserved(world.ents)>>
  BY <1>1, <1>8, BatchItemStep DEF vars
<1>9. ASSUME NEW e \in Ids, NEW bundle \in Bundles, Remove(e, bundle) \/ Retain(e, bundle)
      PROVE  WInv' /\ [Abstract!Next]_<<Store, Reserved(world.ents)>>
  BY <1>9, RemoveStep, RetainStep
<1>10. ASSUME NEW e \in Ids, NEW bundle \in Bundles, NEW v \in Values, Insert(e, bundle, v)
       PROVE  WInv' /\ [Abstract!Next]_<<Store, Reserved(world.ents)>>
  BY <1>10, InsertStep
<1>11. CASE \E bundle \in BatchBundles : BatchBegin(bundle)
  BY <1>11, BatchBeginStep
<1>12. CASE UNCHANGED vars
  BY <1>1, <1>12 DEF vars, WInv, BatchOK
<1> QED
  BY <1>2, <1>3, <1>4, <1>5, <1>6, <1>7, <1>8, <1>9, <1>10, <1>11, <1>12 DEF Next

LEMMA WorldInit == ASSUME Init PROVE WInv /\ Abstract!Init
<1>1. Good(world) /\ Reserved(world.ents) = {} /\ ReadOf(world) = <<>>
  BY NewWorldReads DEF Init
<1> QED
  BY <1>1, StoreIsRead DEF Init, WInv, BatchOK, Abstract!Init

\* Entities, archetypes, tables and sparse sets agree on who is where, the free
\* indices are nobody's, and during a batch no id is reserved.
THEOREM WorldInvariant == Spec => []WInv
<1>1. Init => WInv
  BY WorldInit
<1>2. WInv /\ [Next]_vars => WInv'
  BY WorldStep
<1> QED
  BY <1>1, <1>2, PTL DEF Spec

\* Whatever rows an operation moves, no entity but the one it is for reads
\* anything else than before, and that one reads what was written: the world
\* implements the map from entities to components (world/mod.rs, bundle.rs).
THEOREM WorldImplementsEntityStore == Spec => ImplementsEntityStore
<1>1. Init => Abstract!Init
  BY WorldInit
<1>2. WInv /\ [Next]_vars => [Abstract!Next]_<<Store, Reserved(world.ents)>>
  BY WorldStep
<1> QED
  BY <1>1, <1>2, WorldInvariant, PTL DEF Spec, ImplementsEntityStore, Abstract!Spec

-----------------------------------------------------------------------------
(***************************************************************************)
(* The structures agree.                                                   *)
(***************************************************************************)
\* As many indices are in a set as entities.
LEMMA SetCount ==
  ASSUME NEW s, NEW F, SetOK(s, F)
  PROVE  Cardinality(DOMAIN s.sparse) = Len(s.dense)
<1>1. PICK n, D, g : n = Len(s.entities) /\ D = DOMAIN s.sparse
                     /\ g = [i \in 1 .. n |-> s.entities[i].index]
  OBVIOUS
<1>2. /\ n \in Nat /\ Len(s.dense) = n
      /\ \A e \in F : /\ e.index \in D /\ s.sparse[e.index] \in 1 .. n
                      /\ s.entities[s.sparse[e.index]] = e
      /\ \A i \in 1 .. n : s.entities[i] \in F /\ s.sparse[s.entities[i].index] = i
      /\ \A i \in D : \E e \in F : e.index = i
  BY <1>1, SetOKForm
<1>3. g \in [1 .. n -> D]
  BY <1>1, <1>2
<1>4. \A i, j \in 1 .. n : g[i] = g[j] => i = j
  BY <1>1, <1>2
<1>5. \A d \in D : \E i \in 1 .. n : g[i] = d
  BY <1>1, <1>2
<1>6. g \in Bijection(1 .. n, D)
  BY <1>3, <1>4, <1>5 DEF Bijection, Injection, Surjection, IsInjective
<1>7. ExistsBijection(1 .. n, D)
  BY <1>6 DEF ExistsBijection
<1>8. IsFiniteSet(1 .. n) /\ Cardinality(1 .. n) = n
  BY <1>2, FS_Interval
<1>9. Cardinality(D) = n
  BY <1>7, <1>8, FS_Bijection
<1> QED
  BY <1>1, <1>2, <1>9

LEMMA GoodAgrees == ASSUME Good(world) PROVE StorageAgrees
<1>1. PICK w, E, a : w = world /\ E = Alive(w.ents) /\ a = Homes(w)
  OBVIOUS
<1>2. Stored(w, E, a) /\ SparseOK(w.sparse, E, a)
  BY <1>1 DEF Good, Whole
<1>3. PICK r, t : Rows(w, E, a, r, t) /\ TableOK(w.table, E, TablesOf(E, a), t)
  BY <1>2 DEF Stored, StoredAt
<1>4. /\ Rowed(E, a, r, t) /\ ArchOK(w.arch, E, a, r) /\ Linked(w.arch, E, a, r, t)
  BY <1>3 DEF Rows
<1>5. \A e \in E : /\ Place(w, e).archetype = a[e] /\ Place(w, e).row = r[e]
                   /\ Place(w, e).table_row = t[e]
  BY <1>3, PlaceOf
<1>6. /\ \A cs \in Archetype : Len(w.arch[cs]) \in Nat /\ DOMAIN w.arch[cs] = 1 .. Len(w.arch[cs])
      /\ \A e \in E : /\ r[e] \in 1 .. Len(w.arch[a[e]]) /\ w.arch[a[e]][r[e]].entity = e
                      /\ w.arch[a[e]][r[e]] \in ArchetypeRow
      /\ \A cs \in Archetype : \A i \in 1 .. Len(w.arch[cs]) :
           w.arch[cs][i].entity \in E /\ a[w.arch[cs][i].entity] = cs /\ r[w.arch[cs][i].entity] = i
  <2>1. PICK A : A = w.arch
    OBVIOUS
  <2>2. /\ \A cs \in Archetype : A[cs] \in Seq(ArchetypeRow) /\ Len(A[cs]) \in Nat
        /\ \A e \in E : /\ r[e] \in 1 .. Len(A[a[e]]) /\ A[a[e]][r[e]].entity = e
                        /\ A[a[e]][r[e]] \in ArchetypeRow
        /\ \A cs \in Archetype : \A i \in 1 .. Len(A[cs]) :
             A[cs][i].entity \in E /\ a[A[cs][i].entity] = cs /\ r[A[cs][i].entity] = i
    BY <1>4, <2>1, ArchForm
  <2>3. \A cs \in Archetype : DOMAIN A[cs] = 1 .. Len(A[cs])
    BY <2>2
  <2> QED
    BY <2>1, <2>2, <2>3
<1>7. ASSUME NEW e \in E
      PROVE  w.arch[Place(w, e).archetype][Place(w, e).row] =
               [entity |-> e, table_row |-> Place(w, e).table_row]
  <2>1. PICK row : row = w.arch[a[e]][r[e]]
    OBVIOUS
  <2>2. row \in ArchetypeRow /\ row.entity = e /\ row.table_row = t[e]
    BY <1>4, <1>6, <2>1 DEF Linked
  <2>3. row = [entity |-> e, table_row |-> t[e]]
    BY <2>2 DEF ArchetypeRow
  <2> QED
    BY <1>5, <2>1, <2>3
<1>8. PICK b : b = TablesOf(E, a)
  OBVIOUS
<1>9. \A e \in E : b[e] = TableOf(a[e]) /\ TableOf(a[e]) \in SUBSET TableComponents
  BY <1>8 DEF TablesOf, TableOf
<1>10. ASSUME NEW ts \in SUBSET TableComponents
       PROVE  /\ \A e \in E : b[e] = ts => w.table[ts].entities[t[e]] = e
              /\ \A i \in DOMAIN w.table[ts].entities :
                   /\ w.table[ts].entities[i] \in E /\ b[w.table[ts].entities[i]] = ts
                   /\ t[w.table[ts].entities[i]] = i
  <2>1. PICK T : T = w.table
    OBVIOUS
  <2>2. TableOK(T, E, b, t)
    BY <1>3, <1>8, <2>1
  <2>3. /\ \A e \in E : b[e] = ts => T[ts].entities[t[e]] = e
        /\ \A i \in 1 .. Len(T[ts].entities) :
             /\ T[ts].entities[i] \in E /\ b[T[ts].entities[i]] = ts /\ t[T[ts].entities[i]] = i
    BY <2>2, TableForm
  <2>4. Listed(T[ts].entities, With(E, b, ts), t)
    BY <2>2 DEF TableOK
  <2>5. DOMAIN T[ts].entities = 1 .. Len(T[ts].entities)
    BY <2>4 DEF Listed
  <2> QED
    BY <2>1, <2>3, <2>5
<1>11. ASSUME NEW c \in SparseComponents
       PROVE  /\ \A e \in E : c \in Place(w, e).archetype <=> e.index \in DOMAIN w.sparse[c].sparse
              /\ \A i \in DOMAIN w.sparse[c].sparse :
                   w.sparse[c].entities[w.sparse[c].sparse[i]].index = i
              /\ Cardinality(DOMAIN w.sparse[c].sparse) = Len(w.sparse[c].dense)
              /\ \A i \in DOMAIN w.sparse[c].entities : w.sparse[c].entities[i] \in E
  <2>1. PICK s, F : s = w.sparse[c] /\ F = Having(E, a, c)
    OBVIOUS
  <2>2. SetOK(s, F)
    BY <1>2, <2>1 DEF SparseOK
  <2>3. /\ \A e \in F : /\ e.index \in DOMAIN s.sparse /\ s.sparse[e.index] \in 1 .. Len(s.entities)
                        /\ s.entities[s.sparse[e.index]] = e
        /\ \A i \in 1 .. Len(s.entities) : s.entities[i] \in F
        /\ \A i \in DOMAIN s.sparse : \E e \in F : e.index = i
    BY <2>2, SetOKForm
  <2>4. OneIndex(E) /\ F \subseteq E
    BY <1>2, <2>1, StoredForm DEF Having
  <2>5. ASSUME NEW e \in E PROVE c \in Place(w, e).archetype <=> e.index \in DOMAIN s.sparse
    <3>1. c \in Place(w, e).archetype <=> e \in F
      BY <1>5, <2>1 DEF Having
    <3>2. e.index \in DOMAIN s.sparse => e \in F
      BY <2>3, <2>4 DEF OneIndex
    <3> QED
      BY <2>3, <3>1, <3>2
  <2>6. \A i \in DOMAIN s.sparse : s.entities[s.sparse[i]].index = i
    BY <2>3
  <2>7. Cardinality(DOMAIN s.sparse) = Len(s.dense)
    BY <2>2, SetCount
  <2>8. DOMAIN s.entities = 1 .. Len(s.entities)
    BY <2>2 DEF SetOK, Listed
  <2> QED
    BY <2>1, <2>3, <2>4, <2>5, <2>6, <2>7, <2>8
<1>12. \A e \in E : w.table[TableOf(Place(w, e).archetype)].entities[Place(w, e).table_row] = e
  BY <1>5, <1>9, <1>10
<1>13. \A cs \in Archetype : \A i \in DOMAIN w.arch[cs] :
         /\ w.arch[cs][i].entity \in E
         /\ Place(w, w.arch[cs][i].entity).archetype = cs /\ Place(w, w.arch[cs][i].entity).row = i
  BY <1>5, <1>6
<1>14. \A ts \in SUBSET TableComponents : \A i \in DOMAIN w.table[ts].entities :
         /\ w.table[ts].entities[i] \in E
         /\ TableOf(Place(w, w.table[ts].entities[i]).archetype) = ts
         /\ Place(w, w.table[ts].entities[i]).table_row = i
  BY <1>5, <1>9, <1>10
<1> QED
  BY <1>1, <1>7, <1>11, <1>12, <1>13, <1>14 DEF StorageAgrees

\* Archetypes, tables, sparse sets and the locations of the entities agree after
\* every operation, and hold nothing that belongs to no entity (storage/).
THEOREM StorageAlwaysAgrees == Spec => []StorageAgrees
<1>1. WInv => StorageAgrees
  BY GoodAgrees DEF WInv
<1> QED
  BY <1>1, WorldInvariant, PTL
=============================================================================
