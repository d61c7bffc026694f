--------------------------- MODULE DepGraphProofs ---------------------------
(***************************************************************************)
(* calc_dep_graph, for any number of systems with any parameters: the      *)
(* graph it stores is acyclic, orders every two systems that race, and is  *)
(* the one first-fit colouring gives.                                      *)
(*                                                                         *)
(* The argument: the groups split the systems by colour.  While a row has  *)
(* been pruned on neither side a pair of clashing systems waits for each   *)
(* other; once one of the two rows has been, only the system of the higher *)
(* group waits.  So the group numbers rank the finished graph (GraphOK),   *)
(* and a rank excludes cycles.                                             *)
(***************************************************************************)
EXTENDS DepGraph, SequenceTheorems, FiniteSetTheorems, WellFoundedInduction, TLAPS

(***************************************************************************)
(* The compatibility test is sound: systems it lets run at the same time   *)
(* reach no common datum that one of them may change.                      *)
(***************************************************************************)
\* An archetype a query matches satisfies one of the filter sets kept for it.
LEMMA MatchedArchetypePassesAFilter ==
  ASSUME NEW q, NEW archetype, matches_component_set(q, archetype)
  PROVE  \E f \in component_access(q).filter_sets :
            f.with \subseteq archetype /\ f.without \cap archetype = {}
<1>1. PICK alt \in q.any : alt.with \subseteq archetype /\ alt.without \cap archetype = {}
  BY DEF matches_component_set
<1> DEFINE f == [with |-> q.reads \cup q.writes \cup q.with \cup alt.with,
                 without |-> q.without \cup alt.without]
<1>2. f \in component_access(q).filter_sets
  BY DEF component_access
<1>3. f.with \subseteq archetype /\ f.without \cap archetype = {}
  BY <1>1 DEF matches_component_set
<1> QED
  BY <1>2, <1>3

\* Filter sets that rule each other out match no common archetype.
LEMMA RuledOutFiltersAreDisjoint ==
  ASSUME NEW f, NEW g, NEW archetype, is_ruled_out_by(f, g),
         f.with \subseteq archetype, f.without \cap archetype = {},
         g.with \subseteq archetype, g.without \cap archetype = {}
  PROVE  FALSE
BY DEF is_ruled_out_by

\* Compatible accesses do not meet on any archetype, one of them writing.
LEMMA CompatibleAccessesAreDisjoint ==
  ASSUME NEW q \in QueryTerms, NEW r \in QueryTerms, NEW archetype,
         AccessCompatible(component_access(q).access, component_access(r).access)
  PROVE  QueryWrites(q, archetype) \cap QueryReads(r, archetype) = {}
<1> DEFINE a == component_access(q).access
           b == component_access(r).access
<1>1. /\ a.reads_and_writes = q.reads \cup q.writes \cup q.opt_reads \cup q.opt_writes
      /\ a.writes = q.writes \cup q.opt_writes
      /\ a.reads_all <=> q.entity # "none"
      /\ a.writes_all <=> q.entity = "mut"
  BY DEF component_access
<1>2. /\ b.reads_and_writes = r.reads \cup r.writes \cup r.opt_reads \cup r.opt_writes
      /\ b.writes = r.writes \cup r.opt_writes
      /\ b.reads_all <=> r.entity # "none"
      /\ b.writes_all <=> r.entity = "mut"
  BY DEF component_access
<1>3. AccessCompatible(a, b)
  OBVIOUS
<1> HIDE DEF a, b
<1>4. CASE a.writes_all
  <2>1. ~b.reads_all /\ b.reads_and_writes = {}
    BY <1>3, <1>4 DEF AccessCompatible, has_any_read
  <2> QED
    BY <2>1, <1>2 DEF QueryReads
<1>5. CASE ~a.writes_all /\ b.writes_all
  <2>1. ~a.reads_all /\ a.reads_and_writes = {}
    BY <1>3, <1>5 DEF AccessCompatible, has_any_read
  <2> QED
    BY <2>1, <1>1, <1>5 DEF QueryWrites
<1>6. CASE ~a.writes_all /\ ~b.writes_all /\ a.reads_all
  <2>1. q.writes \cup q.opt_writes = {} /\ q.entity # "mut"
    BY <1>1, <1>6 DEF QueryTerms
  <2> QED
    BY <2>1 DEF QueryWrites
<1>7. CASE ~a.writes_all /\ ~b.writes_all /\ ~a.reads_all /\ b.reads_all
  <2>1. a.writes = {}
    BY <1>3, <1>7 DEF AccessCompatible, has_any_write
  <2> QED
    BY <2>1, <1>1, <1>7 DEF QueryWrites
<1>8. CASE ~a.writes_all /\ ~b.writes_all /\ ~a.reads_all /\ ~b.reads_all
  <2>1. a.writes \cap b.reads_and_writes = {}
    BY <1>3, <1>8 DEF AccessCompatible
  <2>2. QueryWrites(q, archetype) \subseteq a.writes
    BY <1>1, <1>8 DEF QueryWrites
  <2>3. QueryReads(r, archetype) \subseteq b.reads_and_writes
    BY <1>2, <1>8 DEF QueryReads
  <2> QED
    BY <2>1, <2>2, <2>3
<1> QED
  BY <1>4, <1>5, <1>6, <1>7, <1>8

LEMMA AccessCompatibleIsSymmetric ==
  ASSUME NEW q \in QueryTerms, NEW r \in QueryTerms,
         AccessCompatible(component_access(q).access, component_access(r).access)
  PROVE  AccessCompatible(component_access(r).access, component_access(q).access)
<1> DEFINE a == component_access(q).access
           b == component_access(r).access
<1>1. /\ a.writes \subseteq a.reads_and_writes
      /\ a.writes_all => a.reads_all
      /\ a.reads_all => a.writes = {}
      /\ a.reads_all \in BOOLEAN /\ a.writes_all \in BOOLEAN
  BY DEF component_access, QueryTerms
<1>2. /\ b.writes \subseteq b.reads_and_writes
      /\ b.writes_all => b.reads_all
      /\ b.reads_all => b.writes = {}
      /\ b.reads_all \in BOOLEAN /\ b.writes_all \in BOOLEAN
  BY DEF component_access, QueryTerms
<1>3. AccessCompatible(a, b)
  OBVIOUS
<1> HIDE DEF a, b
<1>4. AccessCompatible(b, a)
  BY <1>1, <1>2, <1>3 DEF AccessCompatible, has_any_read, has_any_write
<1> QED
  BY <1>4 DEF a, b

\* FilteredAccess::is_compatible, checked against the archetypes.
THEOREM CompatibleQueriesDoNotRace ==
  ASSUME NEW q \in QueryTerms, NEW r \in QueryTerms,
         is_compatible(component_access(q), component_access(r))
  PROVE  ~QueriesRace(q, r)
<1> SUFFICES ASSUME NEW archetype \in Archetypes,
                    matches_component_set(q, archetype),
                    matches_component_set(r, archetype)
             PROVE  /\ QueryWrites(q, archetype) \cap QueryReads(r, archetype) = {}
                    /\ QueryWrites(r, archetype) \cap QueryReads(q, archetype) = {}
  BY DEF QueriesRace
<1>1. CASE AccessCompatible(component_access(q).access, component_access(r).access)
  BY <1>1, CompatibleAccessesAreDisjoint, AccessCompatibleIsSymmetric
<1>2. CASE \A f \in component_access(q).filter_sets, g \in component_access(r).filter_sets :
             is_ruled_out_by(f, g)
  <2>1. PICK f \in component_access(q).filter_sets :
               f.with \subseteq archetype /\ f.without \cap archetype = {}
    BY MatchedArchetypePassesAFilter
  <2>2. PICK g \in component_access(r).filter_sets :
               g.with \subseteq archetype /\ g.without \cap archetype = {}
    BY MatchedArchetypePassesAFilter
  <2>3. is_ruled_out_by(f, g)
    BY <1>2
  <2> QED
    BY <2>1, <2>2, <2>3, RuledOutFiltersAreDisjoint
<1> QED
  BY <1>1, <1>2 DEF is_compatible

LEMMA CompatibleParamsDoNotRace ==
  ASSUME NEW f, NEW g, f # g, NEW p, NEW r, ParamOf(f, p), ParamOf(g, r),
         filter_against_param(p, r), filter_against_param(r, p)
  PROVE  ~ParamsRace(p, r)
<1>1. /\ p.kind \in {"query", "res", "local", "world", "runtime"}
      /\ r.kind \in {"query", "res", "local", "world", "runtime"}
  BY DEF ParamOf
<1>2. p.kind \notin {"world", "runtime"} /\ r.kind \notin {"world", "runtime"}
  BY DEF filter_against_param
<1>3. ~(p.kind = "res" /\ r.kind = "res" /\ p.type = r.type)
  BY DEF filter_against_param
<1>4. ~(p.kind = "local" /\ r = p)
  <2> SUFFICES ASSUME p.kind = "local", r = p PROVE FALSE
    OBVIOUS
  <2>1. p.fn = f
    BY DEF ParamOf, Local
  <2>2. r.fn = g
    BY DEF ParamOf, Local
  <2> QED
    BY <2>1, <2>2
<1>5. ASSUME p.kind = "query", r.kind = "query" PROVE ~QueriesRace(p.terms, r.terms)
  <2>1. p.terms \in QueryTerms /\ p.access = component_access(p.terms)
    BY <1>5 DEF ParamOf, Query
  <2>2. r.terms \in QueryTerms /\ r.access = component_access(r.terms)
    BY <1>5 DEF ParamOf, Query
  <2>3. is_compatible(p.access, r.access)
    BY <1>5 DEF filter_against_param
  <2> QED
    BY <2>1, <2>2, <2>3, CompatibleQueriesDoNotRace
<1> QED
  BY <1>1, <1>2, <1>3, <1>4, <1>5 DEF ParamsRace

\* check_if_compatible never lets two systems with different names run at once
\* when their parameters reach the same datum: whatever the component types,
\* the archetypes, the queries and the resources are.
THEOREM CompatibleSystemsDoNotRace ==
  ASSUME NEW f, NEW g, f # g, NEW first, NEW second,
         \A p \in first : ParamOf(f, p),
         \A p \in second : ParamOf(g, p),
         check_if_compatible(first, second)
  PROVE  ~SystemsRace(first, second)
BY CompatibleParamsDoNotRace DEF check_if_compatible, SystemsRace

\* The order in which the two systems are given does not matter.
LEMMA CompatibleIsSymmetric ==
  ASSUME NEW first, NEW second
  PROVE  check_if_compatible(first, second) <=> check_if_compatible(second, first)
BY DEF check_if_compatible

-----------------------------------------------------------------------------
(***************************************************************************)
(* The graph.                                                              *)
(***************************************************************************)
Clash(i, j) == ~check_if_compatible(SystemAt(i).params, SystemAt(j).params)

NamesUnique ==
  \A i, j \in Ids : SystemAt(i).name = SystemAt(j).name => i = j

\* Systems whose filters are in place.
Filtered == IF pc = "idle" THEN {} ELSE IF pc = "setup" THEN 0 .. cursor - 1 ELSE Ids

FiltersOK ==
  \A i \in Filtered :
    /\ SystemAt(i).name \in DOMAIN system_param_filters
    /\ get_params_filters(i) = SystemAt(i).params

Grouped == IF pc = "group" THEN 0 .. cursor - 1 ELSE Ids

GroupsOK ==
  /\ GroupsCompatible
  /\ pc \in {"idle", "setup"} => groups = << >>
  /\ pc \in {"conflicts", "prune"} => cursor = Len(actions)
  /\ pc \in {"group", "conflicts", "prune"} =>
       /\ \A g \in DOMAIN groups : groups[g] \subseteq Grouped
       /\ \A i \in Grouped : \E g \in DOMAIN groups : i \in groups[g]

\* What has been inserted, then pruned, so far.
Waits(i, j) ==
  CASE pc = "group" -> FALSE
    [] pc = "conflicts" -> Clash(i, j) /\ (i \notin todo \/ j \notin todo)
    [] pc = "prune" ->
         Clash(i, j) /\ ((i \in todo /\ j \in todo) \/ ~MetFirst(i, j))

DepsOK ==
  /\ pc \in {"idle", "setup"} => deps = Empty
  /\ pc \in {"group", "conflicts", "prune"} =>
       /\ DOMAIN deps = Ids
       /\ \A i \in Ids : deps[i] = {j \in Ids \ {i} : Waits(i, j)}

Ranked(G, rank) ==
  \A i, j \in DOMAIN G :
    /\ (j \in G[i]) <=> (Clash(i, j) /\ rank[j] < rank[i])
    /\ i # j /\ Clash(i, j) => rank[i] # rank[j]

GraphOK == \E rank \in [DOMAIN graph -> Nat] : Ranked(graph, rank)

IInv ==
  TypeOK /\ NamesUnique /\ FiltersOK /\ GroupsOK /\ DepsOK /\ GraphOK

-----------------------------------------------------------------------------
(***************************************************************************)
(* Lemmas.                                                                 *)
(***************************************************************************)
Less == {p \in Nat \X Nat : p[1] < p[2]}

LEMMA LessIsWellFounded == IsWellFoundedOn(Less, Nat)
<1>1. OpToRel(<, Nat) = Less
  BY Zenon DEF OpToRel, Less
<1> QED
  BY Zenon, NatLessThanWellFounded, <1>1

LEMMA NonemptyHasLeast ==
  ASSUME NEW T \in SUBSET Nat, T # {}
  PROVE  \E x \in T : \A y \in T : x <= y
<1>1. PICK x \in T : \A y \in T : ~(<<y, x>> \in Less)
  BY LessIsWellFounded, WFMin
<1>2. ASSUME NEW y \in T PROVE x <= y
  <2>1. y < x => <<y, x>> \in Less
    BY DEF Less
  <2> QED
    BY <1>1, <2>1
<1> QED
  BY <1>2

LEMMA ActionsFacts ==
  ASSUME TypeOK
  PROVE  /\ Len(actions) \in Nat
         /\ \A i \in Ids : SystemAt(i) \in Declared
         /\ \A i \in Ids : /\ i \in Nat
                           /\ i < Len(actions)
<1>1. actions \in Seq(Declared)
  BY DEF TypeOK
<1>2. Len(actions) \in Nat
  BY <1>1, LenProperties
<1>3. ASSUME NEW i \in Ids PROVE SystemAt(i) \in Declared
  <2>1. i + 1 \in 1 .. Len(actions)
    BY <1>2 DEF Ids
  <2> QED
    BY <1>1, <2>1, ElementOfSeq DEF SystemAt
<1> QED
  BY <1>2, <1>3 DEF Ids

LEMMA ConflictIsClash ==
  ASSUME FiltersOK, NEW i \in Filtered, NEW j \in Filtered
  PROVE  Conflict(i, j) <=> Clash(i, j)
BY DEF FiltersOK, Conflict, Clash

LEMMA ClashIsSymmetric ==
  ASSUME NEW i, NEW j
  PROVE  Clash(i, j) <=> Clash(j, i)
BY CompatibleIsSymmetric DEF Clash

\* Scanning the groups meets systems in the order of their groups' numbers, and
\* two systems that clash have different numbers.
LEMMA MetFirstIsGroupOrder ==
  ASSUME IInv, pc \in {"conflicts", "prune"},
         NEW i \in Ids, NEW j \in Ids, i # j,
         NEW g \in DOMAIN groups, NEW h \in DOMAIN groups,
         i \in groups[g], j \in groups[h]
  PROVE  /\ g \in Nat /\ h \in Nat
         /\ MetFirst(i, j) <=> g <= h
         /\ Clash(i, j) => g # h
<1>1. DOMAIN groups = 1 .. Len(groups) /\ Len(groups) \in Nat
  BY LenProperties DEF IInv, TypeOK
<1>2. g \in Nat /\ h \in Nat
  BY <1>1
<1>3. \A k, l \in DOMAIN groups : k # l => groups[k] \cap groups[l] = {}
  BY DEF IInv, GroupsOK, GroupsCompatible
<1>4. \A k \in DOMAIN groups : i \in groups[k] => k = g
  BY <1>3
<1>5. \A k \in DOMAIN groups : j \in groups[k] => k = h
  BY <1>3
<1>6. ASSUME MetFirst(i, j) PROVE g <= h
  <2>1. PICK k \in DOMAIN groups : /\ i \in groups[k]
                                   /\ \A l \in 1 .. k - 1 : j \notin groups[l]
    BY <1>6 DEF MetFirst
  <2>2. k = g
    BY <2>1, <1>4
  <2>3. h \notin 1 .. g - 1
    BY <2>1, <2>2
  <2> QED
    BY <2>3, <1>1, <1>2
<1>7. ASSUME g <= h PROVE MetFirst(i, j)
  <2>1. ASSUME NEW l \in 1 .. g - 1 PROVE j \notin groups[l]
    <3>1. l \in DOMAIN groups /\ l # h
      BY <1>1, <1>2, <1>7
    <3> QED
      BY <3>1, <1>5
  <2> QED
    BY <2>1 DEF MetFirst
<1>8. Clash(i, j) => g # h
  <2>1. i \in Filtered /\ j \in Filtered
    BY DEF Filtered
  <2>2. g = h => ~Conflict(i, j)
    BY DEF IInv, GroupsOK, GroupsCompatible
  <2> QED
    BY <2>1, <2>2, ConflictIsClash DEF IInv
<1> QED
  BY <1>2, <1>6, <1>7, <1>8

LEMMA EveryoneGrouped ==
  ASSUME IInv, pc \in {"conflicts", "prune"}
  PROVE  \A i \in Ids : \E g \in DOMAIN groups : i \in groups[g]
BY DEF IInv, GroupsOK, Grouped

\* Of two systems one is met first, and of two that clash only one.
LEMMA MetFirstIsTotal ==
  ASSUME IInv, pc \in {"conflicts", "prune"}, NEW i \in Ids, NEW j \in Ids, i # j
  PROVE  /\ MetFirst(i, j) \/ MetFirst(j, i)
         /\ Clash(i, j) => ~(MetFirst(i, j) /\ MetFirst(j, i))
<1>1. PICK g \in DOMAIN groups : i \in groups[g]
  BY EveryoneGrouped
<1>2. PICK h \in DOMAIN groups : j \in groups[h]
  BY EveryoneGrouped
<1>3. g \in Nat /\ h \in Nat /\ (MetFirst(i, j) <=> g <= h) /\ (Clash(i, j) => g # h)
  BY <1>1, <1>2, MetFirstIsGroupOrder
<1>4. MetFirst(j, i) <=> h <= g
  BY <1>1, <1>2, MetFirstIsGroupOrder
<1> QED
  BY <1>3, <1>4

\* Actions that leave the registered systems alone keep what is said of them.
LEMMA SameActions ==
  ASSUME actions' = actions
  PROVE  /\ Ids' = Ids
         /\ \A i : SystemAt(i)' = SystemAt(i)
         /\ \A i, j : Clash(i, j)' = Clash(i, j)
         /\ NamesUnique => NamesUnique'
BY DEF Ids, SystemAt, Clash, NamesUnique

LEMMA SameGraph ==
  ASSUME actions' = actions, graph' = graph, GraphOK
  PROVE  GraphOK'
BY SameActions DEF GraphOK, Ranked

-----------------------------------------------------------------------------
(***************************************************************************)
(* IInv is inductive: one lemma per action.                                *)
(***************************************************************************)
LEMMA InitIInv == Init => IInv
<1> SUFFICES ASSUME Init PROVE IInv
  OBVIOUS
<1> USE DEF Init, Empty
<1>1. Len(actions) = 0
  BY EmptySeq
<1>2. TypeOK
  BY <1>1, EmptySeq DEF TypeOK, Ids
<1>3. NamesUnique /\ FiltersOK
  BY <1>1 DEF NamesUnique, FiltersOK, Filtered, Ids
<1>4. GroupsOK
  BY <1>1, EmptySeq DEF GroupsOK, GroupsCompatible
<1>5. DepsOK
  BY DEF DepsOK
<1>6. GraphOK
  <2>1. [x \in {} |-> 0] \in [DOMAIN graph -> Nat]
    OBVIOUS
  <2> QED
    BY <2>1 DEF GraphOK, Ranked
<1> QED
  BY <1>2, <1>3, <1>4, <1>5, <1>6 DEF IInv

LEMMA RegisterKeepsIInv ==
  ASSUME IInv, NEW s \in Declared, Register(s)
  PROVE  IInv'
<1>1. /\ actions \in Seq(Declared) /\ pc = "idle" /\ pc' = "idle"
      /\ groups = << >> /\ groups' = << >> /\ deps = Empty /\ deps' = Empty
      /\ cursor' = cursor /\ todo' = todo /\ graph' = graph
      /\ system_param_filters' = system_param_filters
      /\ actions' = Append(actions, s)
      /\ \A i \in Ids : SystemAt(i).name # s.name
  BY DEF IInv, TypeOK, GroupsOK, DepsOK, Register, locals
<1>2. PICK n \in Nat : n = Len(actions)
  BY <1>1, LenProperties
<1>3. /\ actions' \in Seq(Declared)
      /\ Len(actions') = n + 1
      /\ \A k \in 1 .. n : actions'[k] = actions[k]
      /\ actions'[n + 1] = s
  BY <1>1, <1>2, LenProperties, AppendProperties
<1>4. Ids = 0 .. n - 1 /\ Ids' = 0 .. n
  BY <1>2, <1>3 DEF Ids
<1>5. ASSUME NEW i \in Ids PROVE SystemAt(i)' = SystemAt(i)
  <2>1. i + 1 \in 1 .. n
    BY <1>4, <1>2
  <2>2. actions'[i + 1] = actions[i + 1]
    BY <2>1, <1>3
  <2> QED
    BY <2>2 DEF SystemAt
<1>6. SystemAt(n)' = s
  BY <1>3 DEF SystemAt
<1>7. \A i \in Ids' : i \in Ids \/ i = n
  BY <1>4, <1>2
<1>8. TypeOK'
  <2>1. Ids \subseteq Ids' /\ cursor \in 0 .. Len(actions')
    BY <1>2, <1>3, <1>4 DEF IInv, TypeOK
  <2> QED
    BY <1>1, <1>3, <2>1, EmptySeq DEF IInv, TypeOK, Empty
<1>9. NamesUnique'
  <2> SUFFICES ASSUME NEW i \in Ids', NEW j \in Ids', i # j
               PROVE  SystemAt(i)'.name # SystemAt(j)'.name
    BY DEF NamesUnique
  <2>1. CASE i \in Ids /\ j \in Ids
    BY <2>1, <1>5 DEF IInv, NamesUnique
  <2>2. CASE i \in Ids /\ j = n
    BY <2>2, <1>1, <1>5, <1>6
  <2>3. CASE i = n /\ j \in Ids
    BY <2>3, <1>1, <1>5, <1>6
  <2> QED
    BY <2>1, <2>2, <2>3, <1>7
<1>10. FiltersOK'
  BY <1>1 DEF FiltersOK, Filtered
<1>11. GroupsOK'
  BY <1>1, EmptySeq DEF GroupsOK, GroupsCompatible
<1>12. DepsOK'
  BY <1>1 DEF DepsOK, Empty
<1>13. GraphOK'
  <2>1. DOMAIN graph \subseteq Ids
    BY DEF IInv, TypeOK
  <2>2. \A i, j \in DOMAIN graph : Clash(i, j)' <=> Clash(i, j)
    BY <2>1, <1>5 DEF Clash
  <2> QED
    BY <1>1, <2>1, <2>2 DEF IInv, GraphOK, Ranked
<1> QED
  BY <1>8, <1>9, <1>10, <1>11, <1>12, <1>13 DEF IInv

LEMMA CalcDepGraphKeepsIInv ==
  ASSUME IInv, CalcDepGraph
  PROVE  IInv'
<1> USE DEF CalcDepGraph
<1>1. actions' = actions /\ graph' = graph /\ pc' = "setup" /\ cursor' = 0
  OBVIOUS
<1>2. TypeOK'
  BY <1>1, SameActions, ActionsFacts, EmptySeq DEF IInv, TypeOK, Empty
<1>3. FiltersOK'
  BY <1>1 DEF FiltersOK, Filtered
<1>4. GroupsOK'
  BY <1>1, EmptySeq DEF GroupsOK, GroupsCompatible
<1>5. DepsOK'
  BY <1>1 DEF DepsOK
<1> QED
  BY <1>1, <1>2, <1>3, <1>4, <1>5, SameActions, SameGraph DEF IInv

LEMMA SetupFilterKeepsIInv ==
  ASSUME IInv, SetupFilter
  PROVE  IInv'
<1> USE DEF SetupFilter
<1>1. /\ actions' = actions /\ graph' = graph /\ pc' = pc /\ pc = "setup"
      /\ groups' = groups /\ deps' = deps
  OBVIOUS
<1>2. cursor \in Nat /\ cursor \in Ids
  BY ActionsFacts DEF IInv, TypeOK, Ids
<1>3. SystemAt(cursor) \in Declared
  BY <1>2, ActionsFacts DEF IInv
<1>4. TypeOK'
  <2>1. cursor' \in 0 .. Len(actions')
    BY <1>1, <1>2, ActionsFacts DEF IInv, TypeOK
  <2> QED
    BY <2>1, <1>1, <1>3, SameActions, DeclaredAssumption DEF IInv, TypeOK
<1>5. FiltersOK'
  <2> SUFFICES ASSUME NEW i \in Filtered'
               PROVE  /\ SystemAt(i).name \in DOMAIN system_param_filters'
                      /\ system_param_filters'[SystemAt(i).name] = SystemAt(i).params
    BY <1>1, SameActions DEF FiltersOK, get_params_filters
  <2>1. i \in 0 .. cursor
    BY <1>1, <1>2 DEF Filtered
  <2>2. CASE i = cursor
    BY <2>2
  <2>3. CASE i # cursor
    <3>1. i \in Filtered
      BY <2>1, <2>3, <1>1, <1>2 DEF Filtered
    <3>2. i \in Ids
      BY <2>1, <1>2, ActionsFacts DEF IInv, Ids
    <3>3. SystemAt(i).name # SystemAt(cursor).name
      BY <3>2, <1>2, <2>3 DEF IInv, NamesUnique
    <3> QED
      BY <3>1, <3>3 DEF IInv, FiltersOK, get_params_filters
  <2> QED
    BY <2>2, <2>3
<1>6. GroupsOK'
  BY <1>1, EmptySeq DEF IInv, GroupsOK, GroupsCompatible
<1>7. DepsOK'
  BY <1>1 DEF IInv, DepsOK
<1> QED
  BY <1>1, <1>4, <1>5, <1>6, <1>7, SameActions, SameGraph DEF IInv

LEMMA SetupDoneKeepsIInv ==
  ASSUME IInv, SetupDone
  PROVE  IInv'
<1> USE DEF SetupDone
<1>1. /\ actions' = actions /\ graph' = graph /\ pc' = "group" /\ pc = "setup"
      /\ groups' = << >> /\ system_param_filters' = system_param_filters
      /\ cursor = Len(actions) /\ cursor' = 0
  BY DEF IInv, GroupsOK
<1>2. TypeOK'
  BY <1>1, SameActions, ActionsFacts, EmptySeq DEF IInv, TypeOK
<1>3. FiltersOK'
  BY <1>1, SameActions, ActionsFacts DEF IInv, FiltersOK, Filtered, get_params_filters, Ids
<1>4. GroupsOK'
  BY <1>1, EmptySeq DEF GroupsOK, GroupsCompatible, Grouped
<1>5. DepsOK'
  BY <1>1, SameActions DEF DepsOK, Waits
<1> QED
  BY <1>1, <1>2, <1>3, <1>4, <1>5, SameActions, SameGraph DEF IInv

\* While the systems are being grouped.
LEMMA GroupPhase ==
  ASSUME IInv, pc = "group", cursor < Len(actions)
  PROVE  /\ cursor \in Ids
         /\ cursor \in Nat
         /\ \A g \in DOMAIN groups : cursor \notin groups[g]
         /\ 0 .. cursor = (0 .. cursor - 1) \cup {cursor}
         /\ 0 .. cursor \subseteq Ids
<1>1. cursor \in Nat /\ Len(actions) \in Nat
  BY ActionsFacts DEF IInv, TypeOK
<1>2. cursor \in Ids /\ 0 .. cursor \subseteq Ids
  BY <1>1 DEF Ids
<1>3. 0 .. cursor = (0 .. cursor - 1) \cup {cursor}
  BY <1>1
<1>4. cursor \notin 0 .. cursor - 1
  BY <1>1
<1>5. \A g \in DOMAIN groups : groups[g] \subseteq 0 .. cursor - 1
  BY DEF IInv, GroupsOK, Grouped
<1> QED
  BY <1>1, <1>2, <1>3, <1>4, <1>5

LEMMA ConflictIsSymmetric ==
  ASSUME NEW i, NEW j
  PROVE  Conflict(i, j) <=> Conflict(j, i)
BY CompatibleIsSymmetric DEF Conflict

LEMMA SameFilters ==
  ASSUME actions' = actions, system_param_filters' = system_param_filters
  PROVE  \A i, j : Conflict(i, j)' = Conflict(i, j)
BY DEF Conflict, get_params_filters, SystemAt

LEMMA FiltersStay ==
  ASSUME FiltersOK, actions' = actions, system_param_filters' = system_param_filters,
         pc \in {"group", "conflicts", "prune"},
         pc' \in {"idle", "group", "conflicts", "prune"}
  PROVE  FiltersOK'
BY DEF FiltersOK, Filtered, get_params_filters, SystemAt, Ids

LEMMA JoinGroupKeepsIInv ==
  ASSUME IInv, JoinGroup
  PROVE  IInv'
<1>1. /\ actions' = actions /\ graph' = graph /\ pc' = "group" /\ pc = "group"
      /\ system_param_filters' = system_param_filters /\ deps' = deps /\ todo' = todo
      /\ cursor < Len(actions) /\ cursor' = cursor + 1
  BY DEF JoinGroup
<1>2. PICK c : c = cursor
  OBVIOUS
<1>3. PICK g \in DOMAIN groups :
        /\ CompatibleWithGroup(c, groups[g])
        /\ groups' = [groups EXCEPT ![g] = @ \cup {c}]
  BY <1>2 DEF JoinGroup, FirstFit
<1>4. /\ c \in Ids /\ c \in Nat
      /\ \A h \in DOMAIN groups : c \notin groups[h]
      /\ 0 .. c = (0 .. c - 1) \cup {c}
      /\ 0 .. c \subseteq Ids
  BY <1>1, <1>2, GroupPhase
<1>5. /\ groups \in Seq(SUBSET Ids) /\ DOMAIN groups = 1 .. Len(groups)
      /\ groups[g] \cup {c} \in SUBSET Ids
  BY <1>3, <1>4, LenProperties, ElementOfSeq DEF IInv, TypeOK
<1>6. /\ groups' \in Seq(SUBSET Ids)
      /\ DOMAIN groups' = DOMAIN groups
      /\ \A h \in DOMAIN groups :
           groups'[h] = IF h = g THEN groups[g] \cup {c} ELSE groups[h]
  BY <1>3, <1>5, ExceptSeq
<1>7. Ids' = Ids
  BY <1>1, SameActions
<1>8. TypeOK'
  <2>1. cursor' \in 0 .. Len(actions')
    BY <1>1, <1>2, <1>4, ActionsFacts DEF IInv
  <2> QED
    BY <2>1, <1>1, <1>6, <1>7 DEF IInv, TypeOK
<1>9. FiltersOK'
  BY <1>1, FiltersStay DEF IInv
<1>10. GroupsCompatible'
  <2> SUFFICES ASSUME NEW h \in DOMAIN groups, NEW k \in DOMAIN groups,
                      NEW i \in groups'[h], NEW j \in groups'[k]
               PROVE  IF h = k THEN i # j => ~Conflict(i, j) ELSE i # j
    BY <1>1, <1>6, SameFilters DEF GroupsCompatible
  <2>1. GroupsCompatible
    BY DEF IInv, GroupsOK
  <2>2. CASE i \in groups[h] /\ j \in groups[k]
    BY <2>1, <2>2 DEF GroupsCompatible
  <2>3. CASE i = c /\ h = g /\ j \in groups[k]
    BY <2>3, <1>3, <1>4 DEF CompatibleWithGroup
  <2>4. CASE j = c /\ k = g /\ i \in groups[h]
    BY <2>4, <1>3, <1>4, ConflictIsSymmetric DEF CompatibleWithGroup
  <2>5. CASE i = c /\ h = g /\ j = c /\ k = g
    BY <2>5
  <2> QED
    BY <2>2, <2>3, <2>4, <2>5, <1>6
<1>11. GroupsOK'
  <2>1. /\ \A h \in DOMAIN groups : groups[h] \subseteq 0 .. c - 1
        /\ \A i \in 0 .. c - 1 : \E h \in DOMAIN groups : i \in groups[h]
    BY <1>1, <1>2 DEF IInv, GroupsOK, Grouped
  <2>2. /\ \A h \in DOMAIN groups : groups'[h] \subseteq 0 .. c
        /\ \A i \in 0 .. c : \E h \in DOMAIN groups : i \in groups'[h]
    BY <2>1, <1>3, <1>4, <1>6
  <2>3. Grouped' = 0 .. c
    BY <1>1, <1>2, <1>4 DEF Grouped
  <2> QED
    BY <2>2, <2>3, <1>1, <1>6, <1>10 DEF GroupsOK
<1>12. DepsOK'
  BY <1>1, <1>7 DEF IInv, DepsOK, Waits
<1> QED
  BY <1>1, <1>8, <1>9, <1>11, <1>12, SameActions, SameGraph DEF IInv

LEMMA NewGroupKeepsIInv ==
  ASSUME IInv, NewGroup
  PROVE  IInv'
<1>1. /\ actions' = actions /\ graph' = graph /\ pc' = "group" /\ pc = "group"
      /\ system_param_filters' = system_param_filters /\ deps' = deps /\ todo' = todo
      /\ cursor < Len(actions) /\ cursor' = cursor + 1
  BY DEF NewGroup
<1>2. PICK c : c = cursor
  OBVIOUS
<1>3. groups' = Append(groups, {c})
  BY <1>2 DEF NewGroup
<1>4. /\ c \in Ids /\ c \in Nat
      /\ \A h \in DOMAIN groups : c \notin groups[h]
      /\ 0 .. c = (0 .. c - 1) \cup {c}
      /\ 0 .. c \subseteq Ids
  BY <1>1, <1>2, GroupPhase
<1>5. /\ groups \in Seq(SUBSET Ids) /\ DOMAIN groups = 1 .. Len(groups)
      /\ Len(groups) \in Nat
  BY LenProperties DEF IInv, TypeOK
<1>6. PICK n : n = Len(groups) + 1
  OBVIOUS
<1>7. /\ groups' \in Seq(SUBSET Ids)
      /\ DOMAIN groups' = (DOMAIN groups) \cup {n}
      /\ n \notin DOMAIN groups
      /\ groups'[n] = {c}
      /\ \A h \in DOMAIN groups : groups'[h] = groups[h]
  <2>1. {c} \in SUBSET Ids
    BY <1>4
  <2>2. /\ groups' \in Seq(SUBSET Ids)
        /\ Len(groups') = n
        /\ \A h \in 1 .. Len(groups) : groups'[h] = groups[h]
        /\ groups'[n] = {c}
    BY <1>3, <1>5, <1>6, <2>1, AppendProperties
  <2>3. DOMAIN groups' = 1 .. n
    BY <2>2, LenProperties
  <2>4. 1 .. n = (1 .. Len(groups)) \cup {n} /\ n \notin 1 .. Len(groups)
    BY <1>5, <1>6
  <2> QED
    BY <1>5, <2>2, <2>3, <2>4
<1>8. Ids' = Ids
  BY <1>1, SameActions
<1>9. TypeOK'
  <2>1. cursor' \in 0 .. Len(actions')
    BY <1>1, <1>2, <1>4, ActionsFacts DEF IInv
  <2> QED
    BY <2>1, <1>1, <1>7, <1>8 DEF IInv, TypeOK
<1>10. FiltersOK'
  BY <1>1, FiltersStay DEF IInv
<1>11. GroupsCompatible'
  <2> SUFFICES ASSUME NEW h \in (DOMAIN groups) \cup {n},
                      NEW k \in (DOMAIN groups) \cup {n},
                      NEW i \in groups'[h], NEW j \in groups'[k]
               PROVE  IF h = k THEN i # j => ~Conflict(i, j) ELSE i # j
    BY <1>1, <1>7, SameFilters DEF GroupsCompatible
  <2>1. GroupsCompatible
    BY DEF IInv, GroupsOK
  <2>2. CASE h # n /\ k # n
    BY <2>1, <2>2, <1>7 DEF GroupsCompatible
  <2>3. CASE h = n \/ k = n
    BY <2>3, <1>4, <1>7
  <2> QED
    BY <2>2, <2>3
<1>12. GroupsOK'
  <2>1. /\ \A h \in DOMAIN groups : groups[h] \subseteq 0 .. c - 1
        /\ \A i \in 0 .. c - 1 : \E h \in DOMAIN groups : i \in groups[h]
    BY <1>1, <1>2 DEF IInv, GroupsOK, Grouped
  <2>2. /\ \A h \in DOMAIN groups' : groups'[h] \subseteq 0 .. c
        /\ \A i \in 0 .. c : \E h \in DOMAIN groups' : i \in groups'[h]
    BY <2>1, <1>4, <1>7
  <2>3. Grouped' = 0 .. c
    BY <1>1, <1>2, <1>4 DEF Grouped
  <2> QED
    BY <2>2, <2>3, <1>1, <1>11 DEF GroupsOK
<1>13. DepsOK'
  BY <1>1, <1>8 DEF IInv, DepsOK, Waits
<1> QED
  BY <1>1, <1>9, <1>10, <1>12, <1>13, SameActions, SameGraph DEF IInv

LEMMA GroupDoneKeepsIInv ==
  ASSUME IInv, GroupDone
  PROVE  IInv'
<1>1. /\ actions' = actions /\ graph' = graph /\ pc' = "conflicts" /\ pc = "group"
      /\ system_param_filters' = system_param_filters /\ deps' = deps /\ todo' = Ids
      /\ groups' = groups /\ cursor' = cursor /\ cursor = Len(actions)
  BY DEF GroupDone
<1>2. Ids' = Ids
  BY <1>1, SameActions
<1>3. TypeOK'
  BY <1>1, <1>2 DEF IInv, TypeOK
<1>4. FiltersOK'
  BY <1>1, FiltersStay DEF IInv
<1>5. GroupsOK'
  <2>1. GroupsCompatible'
    BY <1>1, SameFilters DEF IInv, GroupsOK, GroupsCompatible
  <2>2. Grouped' = Grouped
    BY <1>1, <1>2 DEF Grouped, Ids
  <2> QED
    BY <2>1, <2>2, <1>1 DEF IInv, GroupsOK
<1>6. DepsOK'
  BY <1>1, <1>2 DEF IInv, DepsOK, Waits
<1> QED
  BY <1>1, <1>3, <1>4, <1>5, <1>6, SameActions, SameGraph DEF IInv

\* The two loops over rows leave the groups and the filters alone.
LEMMA RowLoops ==
  ASSUME IInv, actions' = actions, graph' = graph, groups' = groups, cursor' = cursor,
         system_param_filters' = system_param_filters,
         pc \in {"conflicts", "prune"}, pc' \in {"conflicts", "prune"}
  PROVE  /\ Ids' = Ids
         /\ \A i, j : Clash(i, j)' = Clash(i, j)
         /\ NamesUnique' /\ FiltersOK' /\ GroupsOK' /\ GraphOK'
<1>1. Ids' = Ids /\ NamesUnique' /\ GraphOK' /\ \A i, j : Clash(i, j)' = Clash(i, j)
  BY SameActions, SameGraph DEF IInv
<1>2. FiltersOK'
  BY FiltersStay DEF IInv
<1>3. GroupsCompatible'
  BY SameFilters DEF IInv, GroupsOK, GroupsCompatible
<1>4. Grouped' = Grouped
  BY <1>1 DEF Grouped
<1> QED
  BY <1>1, <1>2, <1>3, <1>4 DEF IInv, GroupsOK

LEMMA AddConflictsKeepsIInv ==
  ASSUME IInv, NEW i \in Ids, AddConflicts(i)
  PROVE  IInv'
<1>1. /\ actions' = actions /\ graph' = graph /\ pc = "conflicts" /\ pc' = "conflicts"
      /\ groups' = groups /\ cursor' = cursor /\ i \in todo /\ todo' = todo \ {i}
      /\ system_param_filters' = system_param_filters
  BY DEF AddConflicts
<1>2. /\ Ids' = Ids /\ \A k, j : Clash(k, j)' = Clash(k, j)
      /\ NamesUnique' /\ FiltersOK' /\ GroupsOK' /\ GraphOK'
  BY <1>1, RowLoops
<1>3. /\ DOMAIN deps = Ids /\ todo \subseteq Ids
      /\ \A k \in Ids : deps[k] = {j \in Ids \ {k} :
                                     Clash(k, j) /\ (k \notin todo \/ j \notin todo)}
  BY <1>1 DEF IInv, TypeOK, DepsOK, Waits
<1>4. \A k, j \in Ids : Conflict(k, j) <=> Clash(k, j)
  BY <1>1, ConflictIsClash DEF IInv, Filtered
<1>5. /\ DOMAIN deps' = Ids
      /\ \A k \in Ids : deps'[k] =
           IF k = i THEN deps[i] \cup {j \in Ids \ {i} : Conflict(i, j)}
           ELSE IF Conflict(i, k) THEN deps[k] \cup {i} ELSE deps[k]
  BY <1>3 DEF AddConflicts
<1>6. ASSUME NEW k \in Ids
      PROVE  deps'[k] = {j \in Ids \ {k} :
                           Clash(k, j) /\ (k \notin todo' \/ j \notin todo')}
  <2>1. CASE k = i
    BY <2>1, <1>1, <1>3, <1>4, <1>5
  <2>2. CASE k # i
    <3>1. deps'[k] = IF Clash(k, i) THEN deps[k] \cup {i} ELSE deps[k]
      BY <2>2, <1>4, <1>5, ClashIsSymmetric
    <3> QED
      BY <2>2, <3>1, <1>1, <1>3
  <2> QED
    BY <2>1, <2>2
<1>7. TypeOK'
  <2>1. \A k \in Ids : deps'[k] \subseteq Ids
    BY <1>6
  <2> QED
    BY <1>1, <1>2, <1>3, <1>5, <2>1 DEF IInv, TypeOK
<1>8. DepsOK'
  BY <1>1, <1>2, <1>5, <1>6 DEF DepsOK, Waits
<1> QED
  BY <1>2, <1>7, <1>8 DEF IInv

LEMMA ConflictsDoneKeepsIInv ==
  ASSUME IInv, ConflictsDone
  PROVE  IInv'
<1>1. /\ actions' = actions /\ graph' = graph /\ pc = "conflicts" /\ pc' = "prune"
      /\ groups' = groups /\ cursor' = cursor /\ todo = {} /\ todo' = Ids
      /\ deps' = deps /\ system_param_filters' = system_param_filters
  BY DEF ConflictsDone
<1>2. /\ Ids' = Ids /\ \A k, j : Clash(k, j)' = Clash(k, j)
      /\ NamesUnique' /\ FiltersOK' /\ GroupsOK' /\ GraphOK'
  BY <1>1, RowLoops
<1>3. TypeOK'
  BY <1>1, <1>2 DEF IInv, TypeOK
<1>4. DepsOK'
  BY <1>1, <1>2 DEF IInv, DepsOK, Waits
<1> QED
  BY <1>2, <1>3, <1>4 DEF IInv

LEMMA PruneKeepsIInv ==
  ASSUME IInv, NEW i \in Ids, Prune(i)
  PROVE  IInv'
<1>1. /\ actions' = actions /\ graph' = graph /\ pc = "prune" /\ pc' = "prune"
      /\ groups' = groups /\ cursor' = cursor /\ i \in todo /\ todo' = todo \ {i}
      /\ system_param_filters' = system_param_filters
  BY DEF Prune
<1>2. /\ Ids' = Ids /\ \A k, j : Clash(k, j)' = Clash(k, j)
      /\ NamesUnique' /\ FiltersOK' /\ GroupsOK' /\ GraphOK'
  BY <1>1, RowLoops
<1>3. /\ DOMAIN deps = Ids /\ todo \subseteq Ids
      /\ \A k \in Ids : deps[k] = {j \in Ids \ {k} :
           Clash(k, j) /\ ((k \in todo /\ j \in todo) \/ ~MetFirst(k, j))}
  BY <1>1 DEF IInv, TypeOK, DepsOK, Waits
<1>4. /\ DOMAIN deps' = Ids
      /\ \A k \in Ids : deps'[k] =
           IF k = i THEN {j \in deps[i] : ~MetFirst(i, j)}
           ELSE IF MetFirst(i, k) THEN deps[k] ELSE deps[k] \ {i}
  BY <1>3 DEF Prune
<1>5. ASSUME NEW k \in Ids
      PROVE  deps'[k] = {j \in Ids \ {k} :
               Clash(k, j) /\ ((k \in todo' /\ j \in todo') \/ ~MetFirst(k, j))}
  <2>1. CASE k = i
    BY <2>1, <1>1, <1>3, <1>4
  <2>2. CASE k # i
    <3>1. /\ MetFirst(i, k) \/ MetFirst(k, i)
          /\ Clash(k, i) => ~(MetFirst(i, k) /\ MetFirst(k, i))
      BY <2>2, <1>1, MetFirstIsTotal
    <3>2. deps'[k] = IF MetFirst(i, k) THEN deps[k] ELSE deps[k] \ {i}
      BY <2>2, <1>4
    <3> QED
      BY <2>2, <3>1, <3>2, <1>1, <1>3
  <2> QED
    BY <2>1, <2>2
<1>6. TypeOK'
  <2>1. \A k \in Ids : deps'[k] \subseteq Ids
    BY <1>5
  <2> QED
    BY <1>1, <1>2, <1>3, <1>4, <2>1 DEF IInv, TypeOK
<1>7. \A k, j : MetFirst(k, j)' = MetFirst(k, j)
  BY <1>1 DEF MetFirst
<1>8. DepsOK'
  BY <1>1, <1>2, <1>4, <1>5, <1>7 DEF DepsOK, Waits
<1> QED
  BY <1>2, <1>6, <1>8 DEF IInv

\* The number of its group ranks a system.
LEMMA StoreGraphKeepsIInv ==
  ASSUME IInv, StoreGraph
  PROVE  IInv'
<1>1. /\ actions' = actions /\ graph' = deps /\ pc = "prune" /\ pc' = "idle"
      /\ groups' = << >> /\ cursor' = 0 /\ todo = {} /\ todo' = {}
      /\ deps' = Empty /\ system_param_filters' = system_param_filters
  BY DEF StoreGraph, IInv
<1>2. Ids' = Ids /\ NamesUnique' /\ \A k, j : Clash(k, j)' = Clash(k, j)
  BY <1>1, SameActions DEF IInv
<1>3. /\ DOMAIN deps = Ids
      /\ \A k \in Ids : deps[k] = {j \in Ids \ {k} : Clash(k, j) /\ ~MetFirst(k, j)}
  BY <1>1 DEF IInv, DepsOK, Waits
<1>4. TypeOK'
  <2>1. 0 \in 0 .. Len(actions)
    BY ActionsFacts DEF IInv
  <2>2. \A k \in Ids : deps[k] \subseteq Ids
    BY <1>3
  <2> QED
    BY <1>1, <1>2, <1>3, <2>1, <2>2, EmptySeq DEF IInv, TypeOK, Empty
<1>5. FiltersOK'
  BY <1>1, FiltersStay DEF IInv
<1>6. GroupsOK'
  BY <1>1, EmptySeq DEF GroupsOK, GroupsCompatible
<1>7. DepsOK'
  BY <1>1 DEF DepsOK, Empty
<1>8. GraphOK'
  <2> DEFINE rank == [k \in Ids |-> CHOOSE g \in DOMAIN groups : k \in groups[g]]
  <2>1. ASSUME NEW k \in Ids
        PROVE  rank[k] \in DOMAIN groups /\ k \in groups[rank[k]]
    <3>1. \E g \in DOMAIN groups : k \in groups[g]
      BY <1>1, EveryoneGrouped
    <3> QED
      BY <3>1
  <2>2. rank \in [Ids -> Nat]
    <3>1. DOMAIN groups = 1 .. Len(groups) /\ Len(groups) \in Nat
      BY LenProperties DEF IInv, TypeOK
    <3> QED
      BY <2>1, <3>1
  <2> HIDE DEF rank
  <2>3. ASSUME NEW k \in Ids, NEW j \in Ids, k # j
        PROVE  /\ MetFirst(k, j) <=> rank[k] <= rank[j]
               /\ Clash(k, j) => rank[k] # rank[j]
    BY <2>1, <2>3, <1>1, MetFirstIsGroupOrder
  <2>4. ASSUME NEW k \in Ids, NEW j \in Ids
        PROVE  /\ (j \in deps[k]) <=> (Clash(k, j) /\ rank[j] < rank[k])
               /\ k # j /\ Clash(k, j) => rank[k] # rank[j]
    <3>1. CASE k = j
      BY <3>1, <1>3, <2>2
    <3>2. CASE k # j
      BY <3>2, <1>3, <2>2, <2>3
    <3> QED
      BY <3>1, <3>2
  <2> QED
    BY <1>1, <1>2, <1>3, <2>2, <2>4 DEF GraphOK, Ranked
<1> QED
  BY <1>2, <1>4, <1>5, <1>6, <1>7, <1>8 DEF IInv

-----------------------------------------------------------------------------
(***************************************************************************)
(* The theorems.                                                           *)
(***************************************************************************)
LEMMA NextKeepsIInv == IInv /\ [Next]_vars => IInv'
<1> SUFFICES ASSUME IInv, [Next]_vars PROVE IInv'
  OBVIOUS
<1>1. ASSUME NEW s \in Declared, Register(s) PROVE IInv'
  BY <1>1, RegisterKeepsIInv
<1>2. CASE CalcDepGraph
  BY <1>2, CalcDepGraphKeepsIInv
<1>3. CASE SetupFilter
  BY <1>3, SetupFilterKeepsIInv
<1>4. CASE SetupDone
  BY <1>4, SetupDoneKeepsIInv
<1>5. CASE JoinGroup
  BY <1>5, JoinGroupKeepsIInv
<1>6. CASE NewGroup
  BY <1>6, NewGroupKeepsIInv
<1>7. CASE GroupDone
  BY <1>7, GroupDoneKeepsIInv
<1>8. ASSUME NEW i \in Ids, AddConflicts(i) PROVE IInv'
  BY <1>8, AddConflictsKeepsIInv
<1>9. CASE ConflictsDone
  BY <1>9, ConflictsDoneKeepsIInv
<1>10. ASSUME NEW i \in Ids, Prune(i) PROVE IInv'
  BY <1>10, PruneKeepsIInv
<1>11. CASE StoreGraph
  BY <1>11, StoreGraphKeepsIInv
<1>12. CASE UNCHANGED vars
  <2>1. /\ actions' = actions /\ graph' = graph /\ pc' = pc /\ groups' = groups
        /\ cursor' = cursor /\ deps' = deps /\ todo' = todo
        /\ system_param_filters' = system_param_filters
    BY <1>12 DEF vars, locals
  <2>2. Ids' = Ids /\ NamesUnique' /\ GraphOK' /\ \A i, j : Clash(i, j)' = Clash(i, j)
    BY <2>1, SameActions, SameGraph DEF IInv
  <2>3. TypeOK'
    BY <2>1, <2>2 DEF IInv, TypeOK
  <2>4. FiltersOK'
    BY <2>1, <2>2, SameActions DEF IInv, FiltersOK, Filtered, get_params_filters
  <2>5. GroupsOK'
    BY <2>1, <2>2, SameFilters DEF IInv, GroupsOK, GroupsCompatible, Grouped
  <2>6. \A i, j : Waits(i, j)' = Waits(i, j)
    BY <2>1, <2>2 DEF Waits, MetFirst
  <2>7. DepsOK'
    BY <2>1, <2>2, <2>6 DEF IInv, DepsOK
  <2> QED
    BY <2>2, <2>3, <2>4, <2>5, <2>7 DEF IInv
<1> QED
  BY <1>1, <1>2, <1>3, <1>4, <1>5, <1>6, <1>7, <1>8, <1>9, <1>10, <1>11, <1>12 DEF Next

\* The inductive invariant.
THEOREM Invariance == Spec => []IInv
BY InitIInv, NextKeepsIInv, PTL DEF Spec

\* calc_dep_graph only ever stores ids of registered systems, whatever the
\* schedule: the executor's lookups by id in `ids` cannot fail.
THEOREM TypeCorrect == Spec => []TypeOK
<1>1. IInv => TypeOK
  BY DEF IInv
<1> QED
  BY <1>1, Invariance, PTL

\* The groups of calc_dep_graph hold no two systems that conflict.
THEOREM GroupsAreCompatible == Spec => []GroupsCompatible
<1>1. IInv => GroupsCompatible
  BY DEF IInv, GroupsOK
<1> QED
  BY <1>1, Invariance, PTL

\* In every stored graph exactly one of two systems that can race waits for the
\* other, however many systems with whatever parameters are registered.
THEOREM EveryRaceIsOrdered == Spec => []RacesAreOrdered
<1>1. ASSUME IInv PROVE RacesAreOrdered
  <2> SUFFICES ASSUME NEW i \in DOMAIN graph, NEW j \in DOMAIN graph, i # j,
                      SystemsRace(SystemAt(i).params, SystemAt(j).params)
               PROVE  (j \in graph[i]) # (i \in graph[j])
    BY DEF RacesAreOrdered
  <2>1. i \in Ids /\ j \in Ids
    BY <1>1 DEF IInv, TypeOK
  <2>2. SystemAt(i) \in Declared /\ SystemAt(j) \in Declared
    BY <1>1, <2>1, ActionsFacts DEF IInv
  <2>3. SystemAt(i).name # SystemAt(j).name
    BY <1>1, <2>1 DEF IInv, NamesUnique
  <2>4. Clash(i, j)
    BY <2>2, <2>3, DeclaredAssumption, CompatibleSystemsDoNotRace DEF Clash
  <2>5. Clash(j, i)
    BY <2>4, ClashIsSymmetric
  <2>6. PICK rank \in [DOMAIN graph -> Nat] : Ranked(graph, rank)
    BY <1>1 DEF IInv, GraphOK
  <2>7. /\ (j \in graph[i]) <=> rank[j] < rank[i]
        /\ (i \in graph[j]) <=> rank[i] < rank[j]
        /\ rank[i] # rank[j]
    BY <2>4, <2>5, <2>6 DEF Ranked
  <2>8. rank[i] \in Nat /\ rank[j] \in Nat
    BY <2>6
  <2> QED
    BY <2>7, <2>8
<1> QED
  BY <1>1, Invariance, PTL

\* No stored graph has a cycle: in every set of its systems one waits for none
\* of the others.
THEOREM GraphIsAcyclic == Spec => []Acyclic
<1>1. ASSUME IInv PROVE Acyclic
  <2> SUFFICES ASSUME NEW S \in SUBSET DOMAIN graph, S # {}
               PROVE  \E i \in S : graph[i] \cap S = {}
    BY DEF Acyclic
  <2>1. PICK rank \in [DOMAIN graph -> Nat] : Ranked(graph, rank)
    BY <1>1 DEF IInv, GraphOK
  <2> DEFINE T == {rank[i] : i \in S}
  <2>2. T \in SUBSET Nat /\ T # {}
    BY <2>1
  <2> HIDE DEF T
  <2>3. PICK x \in T : \A y \in T : x <= y
    BY <2>2, NonemptyHasLeast
  <2>4. PICK i \in S : rank[i] = x
    BY <2>3 DEF T
  <2>5. ASSUME NEW j \in S, j \in graph[i] PROVE FALSE
    <3>1. rank[j] < rank[i]
      BY <2>1, <2>5 DEF Ranked
    <3>2. rank[i] <= rank[j]
      BY <2>3, <2>4 DEF T
    <3>3. rank[i] \in Nat /\ rank[j] \in Nat
      BY <2>1
    <3> QED
      BY <3>1, <3>2, <3>3
  <2> QED
    BY <2>5
<1> QED
  BY <1>1, Invariance, PTL

-----------------------------------------------------------------------------
(***************************************************************************)
(* The graph is that of first-fit colouring.                               *)
(*                                                                         *)
(* Two colourings that give every system the least colour no earlier       *)
(* system it clashes with has are the same as far as both go: there is no  *)
(* first system on which they differ.                                      *)
(***************************************************************************)
IsColouring(n, colour) ==
  /\ colour \in [0 .. n - 1 -> Nat]
  /\ \A i \in 0 .. n - 1 :
       /\ \A j \in 0 .. i - 1 : Clash(i, j) => colour[j] # colour[i]
       /\ \A d \in 0 .. colour[i] - 1 : \E j \in 0 .. i - 1 : Clash(i, j) /\ colour[j] = d

\* A system was refused by each group before its own.
GroupsFirstFit ==
  \A g \in DOMAIN groups : \A i \in groups[g] : \A h \in 1 .. g - 1 :
    \E j \in groups[h] : j < i /\ Clash(i, j)

Coloured(G, n, colour) ==
  /\ IsColouring(n, colour)
  /\ G = [i \in 0 .. n - 1 |-> {j \in 0 .. n - 1 : Clash(i, j) /\ colour[j] < colour[i]}]

GraphColoured == \E n \in 0 .. Len(actions) : \E colour : Coloured(graph, n, colour)

CInv ==
  /\ deps = [i \in DOMAIN deps |-> deps[i]]
  /\ GroupsFirstFit
  /\ GraphColoured

LEMMA ColoursAgree ==
  ASSUME NEW n \in Nat, NEW m \in Nat, n <= m, NEW c, NEW d,
         IsColouring(n, c), IsColouring(m, d), NEW i \in 0 .. n - 1
  PROVE  c[i] = d[i]
<1> DEFINE T == {k \in 0 .. n - 1 : c[k] # d[k]}
<1> SUFFICES ASSUME T # {} PROVE FALSE
  OBVIOUS
<1>1. PICK k \in T : \A l \in T : k <= l
  <2>1. T \in SUBSET Nat
    OBVIOUS
  <2> HIDE DEF T
  <2> QED
    BY <2>1, NonemptyHasLeast
<1>2. k \in 0 .. n - 1 /\ k \in 0 .. m - 1 /\ c[k] # d[k] /\ c[k] \in Nat /\ d[k] \in Nat
  BY DEF IsColouring
<1>3. \A l \in 0 .. k - 1 : c[l] = d[l]
  BY <1>1, <1>2
<1>4. CASE c[k] < d[k]
  <2>1. c[k] \in 0 .. d[k] - 1
    BY <1>2, <1>4
  <2>2. PICK l \in 0 .. k - 1 : Clash(k, l) /\ d[l] = c[k]
    BY <1>2, <2>1 DEF IsColouring
  <2> QED
    BY <1>2, <1>3, <2>2 DEF IsColouring
<1>5. CASE d[k] < c[k]
  <2>1. d[k] \in 0 .. c[k] - 1
    BY <1>2, <1>5
  <2>2. PICK l \in 0 .. k - 1 : Clash(k, l) /\ c[l] = d[k]
    BY <1>2, <2>1 DEF IsColouring
  <2> QED
    BY <1>2, <1>3, <2>2 DEF IsColouring
<1> QED
  BY <1>2, <1>4, <1>5

\* No system has a higher colour than there are systems before it.
LEMMA ColoursAreSmall ==
  ASSUME NEW n \in Nat, NEW c, IsColouring(n, c), NEW i \in 0 .. n - 1
  PROVE  c[i] \in 0 .. i
<1> DEFINE T == {k \in 0 .. n - 1 : c[k] > k}
<1>0. c[i] \in Nat
  BY DEF IsColouring
<1> SUFFICES ASSUME T # {} PROVE FALSE
  BY <1>0
<1>1. PICK k \in T : \A l \in T : k <= l
  <2>1. T \in SUBSET Nat
    OBVIOUS
  <2> HIDE DEF T
  <2> QED
    BY <2>1, NonemptyHasLeast
<1>2. k \in 0 .. n - 1 /\ c[k] \in Nat /\ k \in 0 .. c[k] - 1
  BY DEF IsColouring
<1>3. PICK l \in 0 .. k - 1 : c[l] = k
  BY <1>2 DEF IsColouring
<1> QED
  BY <1>1, <1>2, <1>3

\* The colour Colouring chooses for i, given those before it.
Fits(clash, colour, i, c) ==
  /\ \A j \in 0 .. i - 1 : <<i, j>> \in clash => colour[j] # c
  /\ \A d \in 0 .. c - 1 : \E j \in 0 .. i - 1 : <<i, j>> \in clash /\ colour[j] = d

Greedy(n, clash, colour) ==
  colour = [i \in 0 .. n - 1 |-> CHOOSE c \in 0 .. i : Fits(clash, colour, i, c)]

LEMMA ColouringIsGreedy ==
  ASSUME NEW n, NEW clash
  PROVE  Colouring(n, clash) = CHOOSE f : Greedy(n, clash, f)
BY DEF Colouring, Greedy, Fits

\* The colour a colouring gives is the only one that fits.
LEMMA OnlyOneFits ==
  ASSUME NEW n \in Nat, NEW colour, IsColouring(n, colour), NEW clash,
         \A i, j \in 0 .. n - 1 : <<i, j>> \in clash <=> Clash(i, j),
         NEW i \in 0 .. n - 1
  PROVE  /\ colour[i] \in 0 .. i /\ Fits(clash, colour, i, colour[i])
         /\ \A c \in 0 .. i : Fits(clash, colour, i, c) => c = colour[i]
<1>1. colour[i] \in 0 .. i /\ colour[i] \in Nat
  BY ColoursAreSmall DEF IsColouring
<1>2. \A j \in 0 .. i - 1 : j \in 0 .. n - 1 /\ (<<i, j>> \in clash <=> Clash(i, j))
  OBVIOUS
<1>3. Fits(clash, colour, i, colour[i])
  BY <1>2 DEF Fits, IsColouring
<1>4. ASSUME NEW c \in 0 .. i, Fits(clash, colour, i, c) PROVE c = colour[i]
  <2>1. CASE c < colour[i]
    <3>1. c \in 0 .. colour[i] - 1
      BY <1>1, <2>1
    <3>2. PICK j \in 0 .. i - 1 : Clash(i, j) /\ colour[j] = c
      BY <3>1 DEF IsColouring
    <3> QED
      BY <1>2, <1>4, <3>2 DEF Fits
  <2>2. CASE colour[i] < c
    <3>1. colour[i] \in 0 .. c - 1
      BY <1>1, <2>2
    <3>2. PICK j \in 0 .. i - 1 : <<i, j>> \in clash /\ colour[j] = colour[i]
      BY <1>4, <3>1 DEF Fits
    <3> QED
      BY <1>2, <3>2 DEF IsColouring
  <2> QED
    BY <1>1, <2>1, <2>2
<1> QED
  BY <1>1, <1>3, <1>4

\* A colouring solves the recursion of the reference, and is its only solution.
LEMMA ColouringIsColouring ==
  ASSUME NEW n \in Nat, NEW colour, IsColouring(n, colour), NEW clash,
         \A i, j \in 0 .. n - 1 : <<i, j>> \in clash <=> Clash(i, j)
  PROVE  Colouring(n, clash) = colour
<1>1. Greedy(n, clash, colour)
  <2>1. ASSUME NEW i \in 0 .. n - 1
        PROVE  colour[i] = CHOOSE c \in 0 .. i : Fits(clash, colour, i, c)
    BY OnlyOneFits
  <2>2. colour = [i \in 0 .. n - 1 |-> colour[i]]
    BY DEF IsColouring
  <2> QED
    BY <2>1, <2>2 DEF Greedy
<1>2. ASSUME NEW f, Greedy(n, clash, f) PROVE f = colour
  <2> DEFINE T == {i \in 0 .. n - 1 : f[i] # colour[i]}
  <2>1. ASSUME T # {} PROVE FALSE
    <3>1. PICK i \in T : \A k \in T : i <= k
      <4>1. T \in SUBSET Nat
        OBVIOUS
      <4> HIDE DEF T
      <4> QED
        BY <2>1, <4>1, NonemptyHasLeast
    <3>2. i \in 0 .. n - 1 /\ f[i] # colour[i]
      OBVIOUS
    <3>3. \A j \in 0 .. i - 1 : f[j] = colour[j]
      BY <3>1, <3>2
    <3>4. \A c : Fits(clash, f, i, c) <=> Fits(clash, colour, i, c)
      BY <3>3 DEF Fits
    <3>5. f[i] = CHOOSE c \in 0 .. i : Fits(clash, f, i, c)
      BY <1>2, <3>2 DEF Greedy
    <3>6. f[i] \in 0 .. i /\ Fits(clash, f, i, f[i])
      BY <3>2, <3>4, <3>5, OnlyOneFits
    <3> QED
      BY <3>2, <3>4, <3>6, OnlyOneFits
  <2>2. f = [i \in 0 .. n - 1 |-> f[i]]
    BY <1>2 DEF Greedy
  <2>3. colour = [i \in 0 .. n - 1 |-> colour[i]]
    BY DEF IsColouring
  <2>4. \A i \in 0 .. n - 1 : f[i] = colour[i]
    BY <2>1
  <2> HIDE DEF T
  <2> QED
    BY <2>2, <2>3, <2>4
<1> QED
  BY <1>1, <1>2, ColouringIsGreedy

LEMMA ColouredIsFirstFit ==
  ASSUME NEW n \in Nat, NEW G, NEW colour, Coloured(G, n, colour)
  PROVE  G = FirstFitGraph(Cardinality(DOMAIN G),
               {p \in (DOMAIN G) \X (DOMAIN G) :
                  ~check_if_compatible(SystemAt(p[1]).params, SystemAt(p[2]).params)})
<1> DEFINE clash == {p \in (DOMAIN G) \X (DOMAIN G) : Clash(p[1], p[2])}
<1>1. Cardinality(DOMAIN G) = n
  <2>1. DOMAIN G = 0 .. n - 1
    BY DEF Coloured
  <2>2. Cardinality(0 .. n - 1) = n
    BY FS_Interval
  <2> QED
    BY <2>1, <2>2
<1>2. \A i, j \in 0 .. n - 1 : <<i, j>> \in clash <=> Clash(i, j)
  BY DEF Coloured
<1>3. Colouring(n, clash) = colour
  <2> HIDE DEF clash
  <2> QED
    BY <1>2, ColouringIsColouring DEF Coloured
<1>4. FirstFitGraph(n, clash) =
        [i \in 0 .. n - 1 |-> {j \in 0 .. n - 1 : <<i, j>> \in clash /\ colour[j] < colour[i]}]
  BY <1>3 DEF FirstFitGraph
<1>5. G = [i \in 0 .. n - 1 |-> {j \in 0 .. n - 1 : Clash(i, j) /\ colour[j] < colour[i]}]
  BY DEF Coloured
<1>6. G = FirstFitGraph(n, clash)
  <2> HIDE DEF clash
  <2> QED
    BY <1>2, <1>4, <1>5
<1> QED
  BY <1>1, <1>6 DEF Clash

\* Systems keep their places, so what clashed still does.
LEMMA SameColouring ==
  ASSUME NEW n \in 0 .. Len(actions), n \in 0 .. Len(actions'), NEW colour,
         \A i, j \in 0 .. n - 1 : Clash(i, j)' = Clash(i, j),
         graph' = graph, Coloured(graph, n, colour)
  PROVE  GraphColoured'
<1>0. n \in Nat \/ n \in Int
  OBVIOUS
<1>1. IsColouring(n, colour)'
  <2>1. \A i \in 0 .. n - 1 : \A j \in 0 .. i - 1 : j \in 0 .. n - 1
    BY <1>0
  <2> QED
    BY <2>1 DEF IsColouring, Coloured
<1>2. Coloured(graph, n, colour)'
  BY <1>1 DEF Coloured
<1> QED
  BY <1>2 DEF GraphColoured

LEMMA SameGraphColoured ==
  ASSUME GraphColoured, graph' = graph, actions' = actions
  PROVE  GraphColoured'
BY SameActions, SameColouring DEF GraphColoured

LEMMA InitCInv == Init => CInv
<1> SUFFICES ASSUME Init PROVE CInv
  OBVIOUS
<1> USE DEF Init, Empty
<1>1. Len(actions) = 0 /\ DOMAIN groups = {}
  BY EmptySeq
<1> DEFINE none == [i \in 0 .. 0 - 1 |-> 0]
<1>2. Coloured(graph, 0, none)
  <2>1. 0 .. 0 - 1 = {}
    OBVIOUS
  <2>2. IsColouring(0, none)
    BY <2>1 DEF IsColouring
  <2> QED
    BY <2>1, <2>2 DEF Coloured
<1> HIDE DEF none
<1>3. GraphColoured
  BY <1>1, <1>2 DEF GraphColoured
<1> QED
  BY <1>1, <1>3 DEF CInv, GroupsFirstFit

LEMMA RegisterKeepsCInv ==
  ASSUME IInv, CInv, NEW s \in Declared, Register(s)
  PROVE  CInv'
<1>1. /\ actions \in Seq(Declared) /\ actions' = Append(actions, s) /\ graph' = graph
      /\ groups = << >> /\ groups' = << >> /\ deps' = deps
  BY DEF IInv, TypeOK, GroupsOK, Register, locals
<1>2. /\ Len(actions) \in Nat /\ Len(actions') = Len(actions) + 1
      /\ \A k \in 1 .. Len(actions) : actions'[k] = actions[k]
  BY <1>1, LenProperties, AppendProperties
<1>3. PICK n \in 0 .. Len(actions) : \E colour : Coloured(graph, n, colour)
  BY DEF CInv, GraphColoured
<1>4. \A i \in 0 .. n - 1 : SystemAt(i)' = SystemAt(i)
  BY <1>2 DEF SystemAt
<1>5. \A i, j \in 0 .. n - 1 : Clash(i, j)' = Clash(i, j)
  BY <1>4 DEF Clash
<1>6. GraphColoured'
  BY <1>1, <1>2, <1>3, <1>5, SameColouring
<1> QED
  BY <1>1, <1>6, EmptySeq DEF CInv, GroupsFirstFit

LEMMA JoinGroupKeepsCInv ==
  ASSUME IInv, CInv, JoinGroup
  PROVE  CInv'
<1>1. /\ actions' = actions /\ graph' = graph /\ deps' = deps
      /\ pc = "group" /\ cursor < Len(actions)
  BY DEF JoinGroup
<1>2. PICK g \in DOMAIN groups : /\ FirstFit(g)
                                 /\ groups' = [groups EXCEPT ![g] = @ \cup {cursor}]
  BY DEF JoinGroup
<1>3. PICK c : c = cursor
  OBVIOUS
<1>4. /\ c \in Ids /\ c \in Nat /\ DOMAIN groups = 1 .. Len(groups) /\ Len(groups) \in Nat
      /\ \A h \in DOMAIN groups : groups[h] \subseteq 0 .. c - 1
      /\ \A h \in 1 .. g - 1 : \E j \in groups[h] : Conflict(c, j)
      /\ \A h \in DOMAIN groups : groups'[h] = IF h = g THEN groups[h] \cup {c} ELSE groups[h]
      /\ DOMAIN groups' = DOMAIN groups
  BY <1>1, <1>2, <1>3, GroupPhase, LenProperties
     DEF IInv, TypeOK, GroupsOK, Grouped, FirstFit, CompatibleWithGroup
<1>5. \A j \in 0 .. c - 1 : Conflict(c, j) <=> Clash(c, j)
  <2>1. Filtered = Ids /\ FiltersOK
    BY <1>1 DEF Filtered, IInv
  <2>2. \A j \in 0 .. c - 1 : j \in Ids
    BY <1>4 DEF Ids
  <2> QED
    BY <1>4, <2>1, <2>2, ConflictIsClash
<1>6. GroupsFirstFit'
  <2> SUFFICES ASSUME NEW k \in DOMAIN groups, NEW i \in groups'[k], NEW h \in 1 .. k - 1
               PROVE  \E j \in groups'[h] : j < i /\ Clash(i, j)
    BY <1>1, <1>4, SameActions DEF GroupsFirstFit
  <2>1. h \in DOMAIN groups /\ groups[h] \subseteq groups'[h]
    BY <1>4
  <2>2. CASE i \in groups[k]
    BY <2>1, <2>2 DEF CInv, GroupsFirstFit
  <2>3. CASE i = c /\ k = g
    <3>1. PICK j \in groups[h] : Conflict(c, j)
      BY <1>4, <2>3
    <3>2. j \in 0 .. c - 1
      BY <1>4, <2>1
    <3> QED
      BY <1>4, <1>5, <2>1, <2>3, <3>1, <3>2
  <2> QED
    BY <1>4, <2>2, <2>3
<1> QED
  BY <1>1, <1>6, SameGraphColoured DEF CInv

LEMMA NewGroupKeepsCInv ==
  ASSUME IInv, CInv, NewGroup
  PROVE  CInv'
<1>1. /\ actions' = actions /\ graph' = graph /\ deps' = deps
      /\ pc = "group" /\ cursor < Len(actions)
      /\ groups' = Append(groups, {cursor})
  BY DEF NewGroup
<1>3. PICK c : c = cursor
  OBVIOUS
<1>4. /\ c \in Ids /\ c \in Nat /\ DOMAIN groups = 1 .. Len(groups) /\ Len(groups) \in Nat
      /\ \A h \in DOMAIN groups : groups[h] \subseteq 0 .. c - 1
      /\ \A h \in DOMAIN groups : \E j \in groups[h] : Conflict(c, j)
      /\ groups \in Seq(SUBSET Ids)
  BY <1>1, <1>3, GroupPhase, LenProperties
     DEF IInv, TypeOK, GroupsOK, Grouped, NewGroup, CompatibleWithGroup
<1>5. \A j \in 0 .. c - 1 : Conflict(c, j) <=> Clash(c, j)
  <2>1. Filtered = Ids /\ FiltersOK
    BY <1>1 DEF Filtered, IInv
  <2>2. \A j \in 0 .. c - 1 : j \in Ids
    BY <1>4 DEF Ids
  <2> QED
    BY <1>4, <2>1, <2>2, ConflictIsClash
<1>6. /\ DOMAIN groups' = 1 .. Len(groups) + 1
      /\ \A h \in DOMAIN groups : groups'[h] = groups[h]
      /\ groups'[Len(groups) + 1] = {c}
  <2>1. {c} \in SUBSET Ids
    BY <1>4
  <2>2. /\ groups' \in Seq(SUBSET Ids) /\ Len(groups') = Len(groups) + 1
        /\ \A h \in 1 .. Len(groups) : groups'[h] = groups[h]
        /\ groups'[Len(groups) + 1] = {c}
    BY <1>1, <1>3, <1>4, <2>1, AppendProperties
  <2> QED
    BY <1>4, <2>2, LenProperties
<1>7. GroupsFirstFit'
  <2> SUFFICES ASSUME NEW k \in 1 .. Len(groups) + 1, NEW i \in groups'[k], NEW h \in 1 .. k - 1
               PROVE  \E j \in groups'[h] : j < i /\ Clash(i, j)
    BY <1>1, <1>6, SameActions DEF GroupsFirstFit
  <2>0. h \in DOMAIN groups
    BY <1>4
  <2>1. h \in DOMAIN groups /\ groups[h] = groups'[h]
    BY <1>6, <2>0
  <2>2. CASE k \in DOMAIN groups
    BY <1>6, <2>1, <2>2 DEF CInv, GroupsFirstFit
  <2>3. CASE k = Len(groups) + 1
    <3>1. PICK j \in groups[h] : Conflict(c, j)
      BY <1>4, <2>1
    <3>2. j \in 0 .. c - 1 /\ i = c
      BY <1>4, <1>6, <2>1, <2>3
    <3> QED
      BY <1>4, <1>5, <2>1, <3>1, <3>2
  <2> QED
    BY <1>4, <2>2, <2>3
<1> QED
  BY <1>1, <1>7, SameGraphColoured DEF CInv

\* The stored graph: a system's colour is the number of the groups before its own.
LEMMA StoreGraphColours ==
  ASSUME IInv, CInv, StoreGraph
  PROVE  \E colour : Coloured(deps, Len(actions), colour)
<1>1. pc = "prune" /\ todo = {} /\ Len(actions) \in Nat /\ Ids = 0 .. Len(actions) - 1
  BY ActionsFacts DEF StoreGraph, IInv, Ids
<1>2. deps = [i \in Ids |-> {j \in Ids \ {i} : Clash(i, j) /\ ~MetFirst(i, j)}]
  <2>1. /\ DOMAIN deps = Ids
        /\ \A i \in Ids : deps[i] = {j \in Ids \ {i} : Clash(i, j) /\ ~MetFirst(i, j)}
    BY <1>1 DEF IInv, DepsOK, Waits
  <2>2. deps = [i \in Ids |-> deps[i]]
    BY <2>1 DEF CInv
  <2> QED
    BY <2>1, <2>2
<1>3. DOMAIN groups = 1 .. Len(groups) /\ Len(groups) \in Nat
  BY LenProperties DEF IInv, TypeOK
<1> DEFINE group == [i \in Ids |-> CHOOSE g \in DOMAIN groups : i \in groups[g]]
           colour == [i \in 0 .. Len(actions) - 1 |-> group[i] - 1]
<1>4. ASSUME NEW i \in Ids
      PROVE  group[i] \in 1 .. Len(groups) /\ i \in groups[group[i]]
  <2>1. \E g \in DOMAIN groups : i \in groups[g]
    BY <1>1, EveryoneGrouped
  <2> QED
    BY <1>3, <2>1
<1> HIDE DEF group
<1>5. \A i \in Ids : colour[i] = group[i] - 1 /\ colour[i] \in Nat
  BY <1>1, <1>3, <1>4
<1>6. colour \in [0 .. Len(actions) - 1 -> Nat]
  BY <1>1, <1>5
<1> HIDE DEF colour
<1>7. ASSUME NEW i \in Ids, NEW j \in Ids, i # j
      PROVE  /\ MetFirst(i, j) <=> group[i] <= group[j]
             /\ Clash(i, j) => group[i] # group[j]
  BY <1>1, <1>3, <1>4, <1>7, MetFirstIsGroupOrder
<1>8. ASSUME NEW i \in Ids, NEW j \in Ids
      PROVE  (j # i /\ Clash(i, j) /\ ~MetFirst(i, j)) <=> (Clash(i, j) /\ colour[j] < colour[i])
  <2>1. CASE i = j
    BY <1>5, <2>1
  <2>2. CASE i # j
    BY <1>3, <1>4, <1>5, <1>7, <2>2
  <2> QED
    BY <2>1, <2>2
<1>9. \A h \in DOMAIN groups : \A j \in groups[h] : j \in Ids /\ group[j] = h
  <2> TAKE h \in DOMAIN groups
  <2> TAKE j \in groups[h]
  <2>1. j \in Ids
    BY ElementOfSeq, <1>3 DEF IInv, TypeOK
  <2>2. group[j] \in DOMAIN groups /\ j \in groups[group[j]]
    BY <1>3, <1>4, <2>1
  <2> QED
    BY <2>1, <2>2 DEF IInv, GroupsOK, GroupsCompatible
<1>10. IsColouring(Len(actions), colour)
  <2>1. ASSUME NEW i \in Ids, NEW j \in 0 .. i - 1, Clash(i, j)
        PROVE  colour[j] # colour[i]
    <3>1. j \in Ids /\ i # j
      BY <1>1
    <3> QED
      BY <1>3, <1>4, <1>5, <1>7, <2>1, <3>1
  <2>2. ASSUME NEW i \in Ids, NEW d \in 0 .. colour[i] - 1
        PROVE  \E j \in 0 .. i - 1 : Clash(i, j) /\ colour[j] = d
    <3>1. d + 1 \in 1 .. group[i] - 1 /\ d + 1 \in DOMAIN groups
      BY <1>3, <1>4, <1>5
    <3>2. PICK j \in groups[d + 1] : j < i /\ Clash(i, j)
      BY <1>3, <1>4, <3>1 DEF CInv, GroupsFirstFit
    <3>3. j \in Ids /\ group[j] = d + 1
      BY <1>9, <3>1
    <3>4. j \in 0 .. i - 1 /\ colour[j] = d
      BY <1>1, <1>5, <3>2, <3>3
    <3> QED
      BY <3>2, <3>4
  <2> QED
    BY <1>1, <1>6, <2>1, <2>2 DEF IsColouring
<1>11. Coloured(deps, Len(actions), colour)
  <2>1. \A i \in Ids : {j \in Ids \ {i} : Clash(i, j) /\ ~MetFirst(i, j)}
                         = {j \in Ids : Clash(i, j) /\ colour[j] < colour[i]}
    BY <1>8
  <2> QED
    BY <1>1, <1>2, <1>10, <2>1 DEF Coloured
<1> QED
  BY <1>11

LEMMA StoreGraphKeepsCInv ==
  ASSUME IInv, CInv, StoreGraph
  PROVE  CInv'
<1>1. actions' = actions /\ graph' = deps /\ groups' = << >> /\ deps' = Empty
  BY DEF StoreGraph
<1>2. Len(actions) \in Nat
  BY ActionsFacts DEF IInv
<1>3. PICK colour : Coloured(deps, Len(actions), colour)
  BY StoreGraphColours
<1>4. Coloured(graph, Len(actions), colour)'
  BY <1>1, <1>3, SameActions DEF Coloured, IsColouring
<1>5. GraphColoured'
  <2>1. Len(actions) \in 0 .. Len(actions)'
    BY <1>1, <1>2
  <2> QED
    BY <1>1, <1>4, <2>1 DEF GraphColoured
<1> QED
  BY <1>1, <1>5, EmptySeq DEF CInv, GroupsFirstFit, Empty

LEMMA NextCInv == IInv /\ CInv /\ [Next]_vars => CInv'
<1> SUFFICES ASSUME IInv, CInv, [Next]_vars PROVE CInv'
  OBVIOUS
<1>0. ASSUME actions' = actions, graph' = graph, groups' = groups \/ groups' = << >>,
             deps' = [i \in DOMAIN deps' |-> deps'[i]]
      PROVE  CInv'
  <2>1. GroupsFirstFit'
    BY <1>0, SameActions, EmptySeq DEF CInv, GroupsFirstFit
  <2> QED
    BY <1>0, <2>1, SameGraphColoured DEF CInv
<1>1. ASSUME NEW s \in Declared, Register(s) PROVE CInv'
  BY <1>1, RegisterKeepsCInv
<1>2. CASE CalcDepGraph
  BY <1>0, <1>2 DEF CalcDepGraph, Empty
<1>3. CASE SetupFilter
  BY <1>0, <1>3 DEF SetupFilter, CInv
<1>4. CASE SetupDone
  BY <1>0, <1>4 DEF SetupDone
<1>5. CASE JoinGroup
  BY <1>5, JoinGroupKeepsCInv
<1>6. CASE NewGroup
  BY <1>6, NewGroupKeepsCInv
<1>7. CASE GroupDone
  BY <1>0, <1>7 DEF GroupDone, CInv
<1>8. ASSUME NEW i \in Ids, AddConflicts(i) PROVE CInv'
  BY <1>0, <1>8 DEF AddConflicts
<1>9. CASE ConflictsDone
  BY <1>0, <1>9 DEF ConflictsDone, CInv
<1>10. ASSUME NEW i \in Ids, Prune(i) PROVE CInv'
  BY <1>0, <1>10 DEF Prune
<1>11. CASE StoreGraph
  BY <1>11, StoreGraphKeepsCInv
<1>12. CASE UNCHANGED vars
  BY <1>0, <1>12 DEF vars, locals, CInv
<1> QED
  BY <1>1, <1>2, <1>3, <1>4, <1>5, <1>6, <1>7, <1>8, <1>9, <1>10, <1>11, <1>12 DEF Next

\* The groups are filled by first fit, and the stored graph is coloured by it.
THEOREM FirstFitInvariance == Spec => [](IInv /\ CInv)
<1>1. IInv /\ CInv /\ [Next]_vars => (IInv /\ CInv)'
  BY NextKeepsIInv, NextCInv
<1> QED
  BY <1>1, InitIInv, InitCInv, PTL DEF Spec

\* Whatever order the HashMap yields the systems in, the stored graph is the one
\* of first-fit colouring in registration order.
THEOREM GraphIsAlwaysFirstFit == Spec => []GraphIsFirstFit
<1>1. ASSUME IInv, CInv PROVE GraphIsFirstFit
  <2>1. PICK n \in 0 .. Len(actions) : \E colour : Coloured(graph, n, colour)
    BY <1>1 DEF CInv, GraphColoured
  <2>2. n \in Nat
    BY <1>1, ActionsFacts DEF IInv
  <2> QED
    BY <2>1, <2>2, ColouredIsFirstFit DEF GraphIsFirstFit
<1> QED
  BY <1>1, FirstFitInvariance, PTL

\* A recomputed graph keeps every order there was between systems, however many
\* are registered in between.
THEOREM OrderIsAlwaysStable == Spec => OrderIsStable
<1> DEFINE Kept == \A i \in DOMAIN graph : \A j \in graph[i] :
                     i \in DOMAIN graph' /\ j \in graph'[i]
<1>1. ASSUME IInv, CInv, [Next]_vars, graph' # graph PROVE Kept
  <2>1. StoreGraph
    BY <1>1 DEF Next, vars, Register, CalcDepGraph, SetupFilter, SetupDone, JoinGroup,
                NewGroup, GroupDone, AddConflicts, ConflictsDone, Prune
  <2>2. Len(actions) \in Nat /\ graph' = deps
    BY <1>1, <2>1, ActionsFacts DEF IInv, StoreGraph
  <2>3. PICK d : Coloured(graph', Len(actions), d)
    BY <1>1, <2>1, <2>2, StoreGraphColours
  <2>3a. PICK n \in 0 .. Len(actions) : \E c : Coloured(graph, n, c)
    BY <1>1 DEF CInv, GraphColoured
  <2>4. PICK c : Coloured(graph, n, c)
    BY <2>3a
  <2>5. n \in Nat /\ n <= Len(actions)
    BY <2>2
  <2>6. \A i \in 0 .. n - 1 : i \in 0 .. Len(actions) - 1 /\ c[i] = d[i]
    BY <2>2, <2>3, <2>4, <2>5, ColoursAgree DEF Coloured
  <2> QED
    BY <2>3, <2>4, <2>6 DEF Coloured
<1>2. IInv /\ CInv /\ [Next]_vars => [Kept]_graph
  BY <1>1
<1> QED
  BY <1>2, FirstFitInvariance, PTL DEF Spec, OrderIsStable
=============================================================================
