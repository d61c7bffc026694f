------------------------------ MODULE DepGraph ------------------------------
(***************************************************************************)
(* A schedule's list of systems and its dependency graph: register_dyn     *)
(* appends a system, calc_dep_graph rebuilds the graph (schedule.rs).      *)
(*                                                                         *)
(* calc_dep_graph is sequential; its loops over the HashMap `ids` take the *)
(* systems in an order nobody chose, so those two loops are modelled one   *)
(* row at a time, in any order.                                            *)
(***************************************************************************)
EXTENDS SystemParams, FirstFit, Sequences, FiniteSets

CONSTANTS Declared,     \* the systems that may be registered
          MaxSystems    \* bound on the length of a schedule

ASSUME DeclaredAssumption ==
  \A s \in Declared :
    /\ s = [name |-> s.name, params |-> s.params]
    /\ s.name \in Functions
    /\ \A p \in s.params : ParamOf(s.name, p)
ASSUME MaxSystemsAssumption == MaxSystems \in Nat

VARIABLES
  actions,              \* self.actions, in registration order
  system_param_filters, \* engine.system_param_filters: name -> filters
  graph,                \* self.dep_graph: id -> ids it has to wait for
  pc,                   \* the loop of calc_dep_graph being run, or "idle"
  cursor,               \* the index of its first two loops
  groups,               \* its local: the groups, in creation order
  deps,                 \* its local dep_graph
  todo                  \* rows its last two loops have yet to visit

locals == <<pc, cursor, groups, deps, todo>>
vars == <<actions, system_param_filters, graph, locals>>

\* Systems are known by their index in `actions`, counted from 0.
Ids == 0 .. Len(actions) - 1
SystemAt(i) == actions[i + 1]
Empty == [x \in {} |-> {}]

get_params_filters(i) == system_param_filters[SystemAt(i).name]
Conflict(i, j) == ~check_if_compatible(get_params_filters(i), get_params_filters(j))

TypeOK ==
  /\ actions \in Seq(Declared)
  /\ DOMAIN system_param_filters \subseteq Functions
  /\ \A f \in DOMAIN system_param_filters :
        \A p \in system_param_filters[f] : ParamOf(f, p)
  /\ DOMAIN graph \subseteq Ids
  /\ \A i \in DOMAIN graph : graph[i] \subseteq DOMAIN graph
  /\ pc \in {"idle", "setup", "group", "conflicts", "prune"}
  /\ cursor \in 0 .. Len(actions)
  /\ groups \in Seq(SUBSET Ids)
  /\ DOMAIN deps \subseteq Ids
  /\ \A i \in DOMAIN deps : deps[i] \subseteq Ids
  /\ todo \subseteq Ids

Init ==
  /\ actions = << >>
  /\ system_param_filters = Empty
  /\ graph = Empty
  /\ pc = "idle" /\ cursor = 0 /\ groups = << >> /\ deps = Empty /\ todo = {}

\* register_dyn: names are Uuids, "Must be *unique*!"
Register(s) ==
  /\ pc = "idle"
  /\ Len(actions) < MaxSystems
  /\ \A i \in Ids : SystemAt(i).name # s.name
  /\ actions' = Append(actions, s)
  /\ UNCHANGED <<system_param_filters, graph, locals>>

CalcDepGraph ==
  /\ pc = "idle"
  /\ pc' = "setup" /\ cursor' = 0 /\ groups' = << >> /\ deps' = Empty /\ todo' = {}
  /\ UNCHANGED <<actions, system_param_filters, graph>>

\* setup_filter of one system: its entry is emptied, then refilled.
SetupFilter ==
  /\ pc = "setup" /\ cursor < Len(actions)
  /\ system_param_filters' =
       [f \in DOMAIN system_param_filters \cup {SystemAt(cursor).name} |->
          IF f = SystemAt(cursor).name THEN SystemAt(cursor).params
          ELSE system_param_filters[f]]
  /\ cursor' = cursor + 1
  /\ UNCHANGED <<actions, graph, pc, groups, deps, todo>>

SetupDone ==
  /\ pc = "setup" /\ cursor = Len(actions)
  /\ deps' = [i \in Ids |-> {}]
  /\ pc' = "group" /\ cursor' = 0
  /\ UNCHANGED <<actions, system_param_filters, graph, groups, todo>>

\* Mutant: one tolerant member is enough.
CompatibleWithAny(i, group) == \E other \in group : ~Conflict(i, other)

CompatibleWithGroup(i, group) == \A other \in group : ~Conflict(i, other)

\* Mutant: the last group that fits.
LastFit(g) ==
  /\ g \in DOMAIN groups
  /\ CompatibleWithGroup(cursor, groups[g])
  /\ \A h \in g + 1 .. Len(groups) : ~CompatibleWithGroup(cursor, groups[h])

\* The first group, in creation order, whose members all tolerate the system.
FirstFit(g) ==
  /\ g \in DOMAIN groups
  /\ CompatibleWithGroup(cursor, groups[g])
  /\ \A h \in 1 .. g - 1 : ~CompatibleWithGroup(cursor, groups[h])

JoinGroup ==
  /\ pc = "group" /\ cursor < Len(actions)
  /\ \E g \in DOMAIN groups :
       /\ FirstFit(g)
       /\ groups' = [groups EXCEPT ![g] = @ \cup {cursor}]
  /\ cursor' = cursor + 1
  /\ UNCHANGED <<actions, system_param_filters, graph, pc, deps, todo>>

NewGroup ==
  /\ pc = "group" /\ cursor < Len(actions)
  /\ \A g \in DOMAIN groups : ~CompatibleWithGroup(cursor, groups[g])
  /\ groups' = Append(groups, {cursor})
  /\ cursor' = cursor + 1
  /\ UNCHANGED <<actions, system_param_filters, graph, pc, deps, todo>>

GroupDone ==
  /\ pc = "group" /\ cursor = Len(actions)
  /\ pc' = "conflicts" /\ todo' = Ids
  /\ UNCHANGED <<actions, system_param_filters, graph, cursor, groups, deps>>

\* One iteration of the outer loop over pairs: both directions are inserted.
AddConflicts(i) ==
  /\ pc = "conflicts" /\ i \in todo
  /\ deps' = [k \in DOMAIN deps |->
       IF k = i THEN deps[i] \cup {j \in Ids \ {i} : Conflict(i, j)}
       ELSE IF Conflict(i, k) THEN deps[k] \cup {i} ELSE deps[k]]
  /\ todo' = todo \ {i}
  /\ UNCHANGED <<actions, system_param_filters, graph, pc, cursor, groups>>

\* Mutant: nothing is pruned.
ConflictsDoneNoPrune ==
  /\ pc = "conflicts" /\ todo = {}
  /\ pc' = "prune" /\ todo' = {}
  /\ UNCHANGED <<actions, system_param_filters, graph, cursor, groups, deps>>

ConflictsDone ==
  /\ pc = "conflicts" /\ todo = {}
  /\ pc' = "prune" /\ todo' = Ids
  /\ UNCHANGED <<actions, system_param_filters, graph, cursor, groups, deps>>

\* Scanning the groups in order, i is met before j (or with it).
MetFirst(i, j) ==
  \E g \in DOMAIN groups :
    /\ i \in groups[g]
    /\ \A h \in 1 .. g - 1 : j \notin groups[h]

\* Mutant: of every pair, the row visited first comes first.
PruneByRow(i) ==
  /\ pc = "prune" /\ i \in todo
  /\ deps' = [deps EXCEPT ![i] = @ \ todo]
  /\ todo' = todo \ {i}
  /\ UNCHANGED <<actions, system_param_filters, graph, pc, cursor, groups>>

\* One iteration of the outer pruning loop: of every pair, the system met first
\* stops waiting for the other.
Prune(i) ==
  /\ pc = "prune" /\ i \in todo
  /\ deps' = [k \in DOMAIN deps |->
       IF k = i THEN {j \in deps[i] : ~MetFirst(i, j)}
       ELSE IF MetFirst(i, k) THEN deps[k] ELSE deps[k] \ {i}]
  /\ todo' = todo \ {i}
  /\ UNCHANGED <<actions, system_param_filters, graph, pc, cursor, groups>>

\* self.dep_graph = calc_dep_graph(..); the locals go out of scope.
StoreGraph ==
  /\ pc = "prune" /\ todo = {}
  /\ graph' = deps
  /\ pc' = "idle" /\ cursor' = 0 /\ groups' = << >> /\ deps' = Empty
  /\ UNCHANGED <<actions, system_param_filters, todo>>

Next ==
  \/ \E s \in Declared : Register(s)
  \/ CalcDepGraph
  \/ SetupFilter \/ SetupDone
  \/ JoinGroup \/ NewGroup \/ GroupDone
  \/ \E i \in Ids : AddConflicts(i)
  \/ ConflictsDone
  \/ \E i \in Ids : Prune(i)
  \/ StoreGraph

Spec == Init /\ [][Next]_vars

-----------------------------------------------------------------------------
(***************************************************************************)
(* What the scheduler needs of the graph.                                  *)
(***************************************************************************)

\* Systems whose parameters reach the same data are never both free to run:
\* one of the two waits for the other, and they do not wait for each other.
\* The race is the reference of SystemParams, not the filters' own verdict.
RacesAreOrdered ==
  \A i, j \in DOMAIN graph :
    (i # j /\ SystemsRace(SystemAt(i).params, SystemAt(j).params))
      => ((j \in graph[i]) # (i \in graph[j]))

\* Every set of systems has one that waits for none of the others: whatever has
\* run so far, some system can run next, so the executor cannot get stuck.
Acyclic ==
  \A S \in SUBSET DOMAIN graph :
    S # {} => \E i \in S : graph[i] \cap S = {}

\* The groups being built never hold two systems that cannot run together, and
\* no system is in two of them.
GroupsCompatible ==
  \A g, h \in DOMAIN groups : \A i \in groups[g], j \in groups[h] :
    IF g = h THEN i # j => ~Conflict(i, j) ELSE i # j

\* The graph does not depend on the order in which the HashMap yields the
\* systems: it is the one given by first-fit colouring in registration order.
GraphIsFirstFit ==
  graph = FirstFitGraph(Cardinality(DOMAIN graph),
            {p \in (DOMAIN graph) \X (DOMAIN graph) :
               ~check_if_compatible(SystemAt(p[1]).params, SystemAt(p[2]).params)})

\* A recomputed graph keeps the order of the systems that were in it before:
\* registering more systems never reverses two that were already ordered.
OrderIsStable ==
  [][\A i \in DOMAIN graph : \A j \in graph[i] :
        i \in DOMAIN graph' /\ j \in graph'[i]]_graph
=============================================================================
