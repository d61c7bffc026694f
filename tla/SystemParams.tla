---------------------------- MODULE SystemParams ----------------------------
(***************************************************************************)
(* What a system of krajc declares in its parameter list, and the test the *)
(* scheduler uses to decide whether two systems may run at the same time   *)
(* (system_params/*.rs, check_if_compatible in schedule.rs).               *)
(*                                                                         *)
(* A parameter is one of                                                   *)
(*   Query(q)      SystemQuery<Data, Filter> over the ECS world            *)
(*   Res(t)        Res<T>: exclusive access to one engine resource         *)
(*   Local(f, k)   Local<T>: the cell kept for parameter k of function f   *)
(*   World         EcsWorld: the whole ECS world                           *)
(*   Runtime       Runtime and UnsafeEngineAccess: the whole engine        *)
(* The order of the parameters is irrelevant to everything below, so the   *)
(* parameter list of a system is a set.                                    *)
(***************************************************************************)
EXTENDS Naturals

CONSTANTS Components,   \* component types of the ECS world
          Archetypes,   \* the component sets its entities may have
          Resources,    \* resource types, keyed as the filter does: TypeId
          Functions     \* FunctionSystem names

ASSUME ArchetypesAssumption == Archetypes \subseteq SUBSET Components

(***************************************************************************)
(* Queries.  A query is written down by the terms of its Data and Filter:  *)
(*   reads, writes   &T, Ref<T>, Added<T>, Changed<T>; &mut T, Mut<T>      *)
(*   opt_reads, opt_writes   Option<&T>, Option<&mut T>                    *)
(*   with, without   With<T>, Without<T>                                   *)
(*   any             the branches of one Or<..> of With / Without filters, *)
(*                   {NoFilter} when there is none                         *)
(*   entity          "none", or "ref" / "mut" for EntityRef / EntityMut    *)
(***************************************************************************)
Filters == [with : SUBSET Components, without : SUBSET Components]

NoFilter == [with |-> {}, without |-> {}]

\* EntityRef and EntityMut tolerate no &mut T beside them: their
\* update_component_access, or that of &mut T, asserts it.
QueryTerms ==
  {q \in [reads : SUBSET Components, writes : SUBSET Components,
           opt_reads : SUBSET Components, opt_writes : SUBSET Components,
           with : SUBSET Components, without : SUBSET Components,
           any : SUBSET Filters, entity : {"none", "ref", "mut"}] :
     q.entity # "none" => q.writes \cup q.opt_writes = {}}

Access ==
  [reads_and_writes : SUBSET Components, writes : SUBSET Components,
   reads_all : BOOLEAN, writes_all : BOOLEAN]

FilteredAccess == [access : Access, filter_sets : SUBSET Filters]

\* Mutant: Option<T> is taken to require T.
component_access_option_with(q) ==
  [access |->
     [reads_and_writes |-> q.reads \cup q.writes \cup q.opt_reads \cup q.opt_writes,
      writes |-> q.writes \cup q.opt_writes,
      reads_all |-> q.entity # "none",
      writes_all |-> q.entity = "mut"],
   filter_sets |->
     {[with |-> q.reads \cup q.writes \cup q.opt_reads \cup q.with \cup alt.with,
       without |-> q.without \cup alt.without] : alt \in q.any}]

\* QueryState::new: every term adds to the access through add_read, add_write,
\* read_all or write_all, and to every filter set through and_with and
\* and_without; Option<T> extends the access only; Or multiplies the sets.
component_access(q) ==
  [access |->
     [reads_and_writes |-> q.reads \cup q.writes \cup q.opt_reads \cup q.opt_writes,
      writes |-> q.writes \cup q.opt_writes,
      reads_all |-> q.entity # "none",
      writes_all |-> q.entity = "mut"],
   filter_sets |->
     {[with |-> q.reads \cup q.writes \cup q.with \cup alt.with,
       without |-> q.without \cup alt.without] : alt \in q.any}]

has_any_read(a) == a.reads_all \/ a.reads_and_writes # {}
has_any_write(a) == a.writes_all \/ a.writes # {}

\* Access::is_compatible: the early returns are taken in this order.
AccessCompatible(a, b) ==
  IF a.writes_all THEN ~has_any_read(b)
  ELSE IF b.writes_all THEN ~has_any_read(a)
  ELSE IF a.reads_all THEN ~has_any_write(b)
  ELSE IF b.reads_all THEN ~has_any_write(a)
  ELSE /\ a.writes \cap b.reads_and_writes = {}
       /\ b.writes \cap a.reads_and_writes = {}

is_ruled_out_by(f, g) ==
  \/ f.with \cap g.without # {}
  \/ f.without \cap g.with # {}

\* FilteredAccess::is_compatible
is_compatible(fa, fb) ==
  \/ AccessCompatible(fa.access, fb.access)
  \/ \A f \in fa.filter_sets, g \in fb.filter_sets : is_ruled_out_by(f, g)

-----------------------------------------------------------------------------
(***************************************************************************)
(* Parameters and the filter objects setup_filter keeps for them.          *)
(***************************************************************************)
Query(q) == [kind |-> "query", access |-> component_access(q), terms |-> q]
Res(t) == [kind |-> "res", type |-> t]
Local(f, k) == [kind |-> "local", fn |-> f, position |-> k]
World == [kind |-> "world"]
Runtime == [kind |-> "runtime"]

\* p is a parameter that the system named f can declare: its Local cells are its
\* own.
ParamOf(f, p) ==
  \/ p.kind = "query" /\ p.terms \in QueryTerms /\ p = Query(p.terms)
  \/ p.kind = "res" /\ p.type \in Resources /\ p = Res(p.type)
  \/ p.kind = "local" /\ p.position \in Nat /\ p = Local(f, p.position)
  \/ p.kind = "world" /\ p = World
  \/ p.kind = "runtime" /\ p = Runtime

\* SystemParalellFilter::filter_against_param of the five filterables:
\* EcsWorldFilterable, RuntimeFilterable and NoNoNever tolerate nothing,
\* LocalFilterable everything; the other two look at their own kind only.
filter_against_param(p, other) ==
  CASE p.kind \in {"world", "runtime"} -> FALSE
    [] p.kind = "local" -> TRUE
    [] p.kind = "res" -> (other.kind = "res") => (other.type # p.type)
    [] p.kind = "query" ->
         (other.kind = "query") => is_compatible(p.access, other.access)

check_if_compatible(first, second) ==
  \A param \in first, other_param \in second :
    /\ filter_against_param(param, other_param)
    /\ filter_against_param(other_param, param)

-----------------------------------------------------------------------------
(***************************************************************************)
(* The reference: what the parameters reach when the systems run.  It is   *)
(* independent of the bit sets above: a query touches the entities whose   *)
(* set of components (archetype) its terms match, and on such an entity    *)
(* the components its terms name (or all of them).                         *)
(***************************************************************************)
matches_component_set(q, archetype) ==
  /\ q.reads \cup q.writes \cup q.with \subseteq archetype
  /\ q.without \cap archetype = {}
  /\ \E alt \in q.any : /\ alt.with \subseteq archetype
                        /\ alt.without \cap archetype = {}

QueryReads(q, archetype) ==
  IF q.entity # "none" THEN archetype
  ELSE archetype \cap
         (q.reads \cup q.writes \cup q.opt_reads \cup q.opt_writes)

QueryWrites(q, archetype) ==
  IF q.entity = "mut" THEN archetype
  ELSE archetype \cap (q.writes \cup q.opt_writes)

\* Two queries reach the same component of the same entity, one for writing.
QueriesRace(q, r) ==
  \E archetype \in Archetypes :
    /\ matches_component_set(q, archetype)
    /\ matches_component_set(r, archetype)
    /\ \/ QueryWrites(q, archetype) \cap QueryReads(r, archetype) # {}
       \/ QueryWrites(r, archetype) \cap QueryReads(q, archetype) # {}

\* Two parameters, held by two running systems, give access to the same datum
\* and at least one of them may change it.  Res, Local, EcsWorld and Runtime
\* all dereference to &mut.
ParamsRace(p, r) ==
  \/ p.kind = "query" /\ r.kind = "query" /\ QueriesRace(p.terms, r.terms)
  \/ p.kind = "res" /\ r.kind = "res" /\ p.type = r.type
  \/ p.kind = "local" /\ r = p
  \/ p.kind = "world" /\ r.kind \in {"query", "world"}
  \/ r.kind = "world" /\ p.kind \in {"query", "world"}
  \/ "runtime" \in {p.kind, r.kind}

SystemsRace(first, second) == \E p \in first, r \in second : ParamsRace(p, r)
=============================================================================
