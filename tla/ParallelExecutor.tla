-------------------------- MODULE ParallelExecutor --------------------------
(***************************************************************************)
(* Schedule::execute with `paralellism` on (implement_schedule! in         *)
(* schedule.rs, and its copy in RuntimeUpdateSchedule): the calling thread *)
(* hands systems to worker threads over one unbounded channel and hears of *)
(* their end over another.                                                 *)
(*                                                                         *)
(* The dependency graph is the one calc_dep_graph stored (module DepGraph).*)
(* The workers are spawned before the first message is sent and start by   *)
(* polling, so they are polling in the initial state.                      *)
(***************************************************************************)
EXTENDS Naturals, Sequences, FiniteSets

CONSTANTS Systems,    \* the ids of the schedule's systems
          Workers,    \* the threads: available_parallelism() - 1 of them
          DepGraphs,  \* the dependency graphs calc_dep_graph can produce
          MaxPanics   \* bound on the systems that panic

ASSUME SystemsAssumption == IsFiniteSet(Systems)
ASSUME WorkersAssumption == IsFiniteSet(Workers)
ASSUME DepGraphsAssumption == DepGraphs \subseteq [Systems -> SUBSET Systems]
ASSUME MaxPanicsAssumption == MaxPanics \in Nat

VARIABLES
  dep_graph,   \* self.dep_graph
  pc,          \* the calling thread: "recv", "send", "kill", "join", "returned"
  kills,       \* Kill messages it has still to send
  to_execute, executed, active_deps,
  run_queue,   \* main_tx -> thread_rx, shared by the workers
  done_queue,  \* thread_tx -> main_rx
  worker,      \* what each worker does: Polling, Ended, or Running(s)
  panics       \* systems that have panicked

queues == <<run_queue, done_queue>>
main == <<pc, kills, to_execute, executed, active_deps>>
vars == <<dep_graph, main, queues, worker, panics>>

Kill == [msg |-> "Kill"]
RunSystem(s) == [msg |-> "RunSystem", id |-> s]
SystemExecuted(s) == [msg |-> "SystemExecuted", id |-> s]
Polling == [state |-> "polling"]
Ended == [state |-> "ended"]
Running(s) == [state |-> "running", id |-> s]

TypeOK ==
  /\ dep_graph \in [Systems -> SUBSET Systems]
  /\ pc \in {"recv", "send", "kill", "join", "returned"}
  /\ kills \in 0 .. Cardinality(Workers)
  /\ to_execute \subseteq Systems
  /\ executed \subseteq Systems
  /\ active_deps \subseteq Systems
  /\ run_queue \in Seq({Kill} \cup {RunSystem(s) : s \in Systems})
  /\ done_queue \in Seq({SystemExecuted(s) : s \in Systems})
  /\ worker \in [Workers -> {Polling, Ended} \cup {Running(s) : s \in Systems}]
  /\ panics \in 0 .. MaxPanics

\* Mutant: one dependency that is done is enough.
ReadyWhenAny(s, active) ==
  dep_graph[s] = {} \/ \E d \in dep_graph[s] : d \notin active

\* deps.is_disjoint(&active_deps)
Ready(s, active) == dep_graph[s] \cap active = {}

Init ==
  /\ dep_graph \in DepGraphs
  /\ pc = "recv"
  /\ kills = 0
  /\ executed = {}
  /\ active_deps = Systems
  /\ to_execute = {s \in Systems : Ready(s, Systems)}
  /\ run_queue = << >>
  /\ done_queue = << >>
  /\ worker = [w \in Workers |-> Polling]
  /\ panics = 0

-----------------------------------------------------------------------------
(***************************************************************************)
(* The calling thread.                                                     *)
(***************************************************************************)

\* main_rx.try_recv() finds nothing: the loop goes on to its sending half.
RecvEmpty ==
  /\ pc = "recv"
  /\ done_queue = << >>
  /\ pc' = "send"
  /\ UNCHANGED <<dep_graph, kills, to_execute, executed, active_deps, queues, worker, panics>>

\* Mutant: the completed system stays an active dependency.
RecvKeepsActive ==
  /\ pc = "recv"
  /\ done_queue # << >>
  /\ LET s == Head(done_queue).id IN
       /\ Cardinality(executed \cup {s}) # Cardinality(Systems)
       /\ executed' = executed \cup {s}
       /\ to_execute' = to_execute \cup
            {t \in Systems \ (executed \cup {s}) : Ready(t, active_deps)}
  /\ done_queue' = Tail(done_queue)
  /\ pc' = "send"
  /\ UNCHANGED <<dep_graph, kills, active_deps, run_queue, worker, panics>>

\* SystemExecuted(id) and some system is still missing.  Systems that were
\* dispatched but have not ended are not in `executed`, so they are inserted
\* again.
RecvSystemExecuted ==
  /\ pc = "recv"
  /\ done_queue # << >>
  /\ LET s == Head(done_queue).id IN
       /\ Cardinality(executed \cup {s}) # Cardinality(Systems)
       /\ active_deps' = active_deps \ {s}
       /\ executed' = executed \cup {s}
       /\ to_execute' = to_execute \cup
            {t \in Systems \ (executed \cup {s}) : Ready(t, active_deps \ {s})}
  /\ done_queue' = Tail(done_queue)
  /\ pc' = "send"
  /\ UNCHANGED <<dep_graph, kills, run_queue, worker, panics>>

\* Mutant: the count is one too low.
RecvLastButOne ==
  /\ pc = "recv"
  /\ done_queue # << >>
  /\ LET s == Head(done_queue).id IN
       /\ Cardinality(executed \cup {s}) + 1 >= Cardinality(Systems)
       /\ active_deps' = active_deps \ {s}
       /\ executed' = executed \cup {s}
  /\ done_queue' = Tail(done_queue)
  /\ kills' = Cardinality(Workers)
  /\ pc' = "kill"
  /\ UNCHANGED <<dep_graph, to_execute, run_queue, worker, panics>>

\* SystemExecuted(id) was the last one missing: one Kill per thread is due, and
\* the loop is left before its sending half.
RecvLast ==
  /\ pc = "recv"
  /\ done_queue # << >>
  /\ LET s == Head(done_queue).id IN
       /\ Cardinality(executed \cup {s}) = Cardinality(Systems)
       /\ active_deps' = active_deps \ {s}
       /\ executed' = executed \cup {s}
  /\ done_queue' = Tail(done_queue)
  /\ kills' = Cardinality(Workers)
  /\ pc' = "kill"
  /\ UNCHANGED <<dep_graph, to_execute, run_queue, worker, panics>>

SendKill ==
  /\ pc = "kill"
  /\ kills > 0
  /\ run_queue' = Append(run_queue, Kill)
  /\ kills' = kills - 1
  /\ UNCHANGED <<dep_graph, pc, to_execute, executed, active_deps, done_queue, worker, panics>>

KillDone ==
  /\ pc = "kill"
  /\ kills = 0
  /\ pc' = "join"
  /\ UNCHANGED <<dep_graph, kills, to_execute, executed, active_deps, queues, worker, panics>>

\* Mutant: to_execute is cleared after the first message.
SendOne(s) ==
  /\ pc = "send"
  /\ s \in to_execute
  /\ run_queue' = Append(run_queue, RunSystem(s))
  /\ to_execute' = {}
  /\ UNCHANGED <<dep_graph, pc, kills, executed, active_deps, done_queue, worker, panics>>

\* One iteration of the loop over to_execute, a HashSet: any order.
Send(s) ==
  /\ pc = "send"
  /\ s \in to_execute
  /\ run_queue' = Append(run_queue, RunSystem(s))
  /\ to_execute' = to_execute \ {s}
  /\ UNCHANGED <<dep_graph, pc, kills, executed, active_deps, done_queue, worker, panics>>

SendDone ==
  /\ pc = "send"
  /\ to_execute = {}
  /\ pc' = "recv"
  /\ UNCHANGED <<dep_graph, kills, to_execute, executed, active_deps, queues, worker, panics>>

\* Every thread is joined; the Err of a panicked one is ignored.
Join ==
  /\ pc = "join"
  /\ \A w \in Workers : worker[w] = Ended
  /\ pc' = "returned"
  /\ UNCHANGED <<dep_graph, kills, to_execute, executed, active_deps, queues, worker, panics>>

-----------------------------------------------------------------------------
(***************************************************************************)
(* A worker.  Its try_recv on an empty channel only loops.                 *)
(***************************************************************************)
TakeSystem(w) ==
  /\ worker[w] = Polling
  /\ run_queue # << >>
  /\ Head(run_queue) # Kill
  /\ run_queue' = Tail(run_queue)
  /\ worker' = [worker EXCEPT ![w] = Running(Head(run_queue).id)]
  /\ UNCHANGED <<dep_graph, main, done_queue, panics>>

TakeKill(w) ==
  /\ worker[w] = Polling
  /\ run_queue # << >>
  /\ Head(run_queue) = Kill
  /\ run_queue' = Tail(run_queue)
  /\ worker' = [worker EXCEPT ![w] = Ended]
  /\ UNCHANGED <<dep_graph, main, done_queue, panics>>

\* The system returns; its id is sent back.
Finish(w) ==
  /\ worker[w].state = "running"
  /\ done_queue' = Append(done_queue, SystemExecuted(worker[w].id))
  /\ worker' = [worker EXCEPT ![w] = Polling]
  /\ UNCHANGED <<dep_graph, main, run_queue, panics>>

\* The system panics: the thread unwinds and nothing is sent.
Panic(w) ==
  /\ panics < MaxPanics
  /\ worker[w].state = "running"
  /\ worker' = [worker EXCEPT ![w] = Ended]
  /\ panics' = panics + 1
  /\ UNCHANGED <<dep_graph, main, queues>>

-----------------------------------------------------------------------------
MainStep ==
  \/ RecvEmpty \/ RecvSystemExecuted \/ RecvLast
  \/ \E s \in Systems : Send(s)
  \/ SendDone
  \/ SendKill \/ KillDone \/ Join

WorkerStep(w) == TakeSystem(w) \/ TakeKill(w) \/ Finish(w)

Next == MainStep \/ \E w \in Workers : WorkerStep(w) \/ Panic(w)

Spec == Init /\ [][Next]_vars

\* The operating system runs every thread, and every system returns or panics.
FairSpec ==
  /\ Spec
  /\ WF_vars(MainStep)
  /\ \A w \in Workers : WF_vars(WorkerStep(w))

-----------------------------------------------------------------------------
(***************************************************************************)
(* What the executor guarantees.                                           *)
(***************************************************************************)
Queued(s) == \E k \in DOMAIN run_queue : run_queue[k] = RunSystem(s)
IsRunning(s) == \E w \in Workers : worker[w] = Running(s)
Reported(s) == \E k \in DOMAIN done_queue : done_queue[k] = SystemExecuted(s)

\* A system is handed out, and so started, only after every system it depends
\* on has completed: also when it is handed out more than once.
DepsExecutedFirst ==
  \A s \in Systems :
    (s \in to_execute \/ Queued(s) \/ IsRunning(s) \/ Reported(s))
      => dep_graph[s] \subseteq executed

\* No system is lost: while one is missing it is running, on its way, reported,
\* or it panicked, or it waits for one that is missing too.
NoneLost ==
  panics = 0 =>
    \A s \in Systems \ executed :
      \/ s \in to_execute \/ Queued(s) \/ IsRunning(s) \/ Reported(s)
      \/ dep_graph[s] \ executed # {}

\* When execute returns, every system has completed and no thread of this call is
\* left.  No message is either, but for the Kill of a thread that panicked, unless
\* no thread lived to take what a second copy of a system left in the channel.
CleanReturn ==
  pc = "returned" =>
    /\ executed = Systems
    /\ \A w \in Workers : worker[w] = Ended
    /\ panics < Cardinality(Workers) =>
         Len(run_queue) <= panics /\ \A s \in Systems : ~Queued(s)

\* Systems of which one waits for the other are never run at once, and neither
\* is a system with itself.
ConflictsNotConcurrent ==
  \A v, w \in Workers : \A s, t \in Systems :
    (v # w /\ worker[v] = Running(s) /\ worker[w] = Running(t))
      => s # t /\ s \notin dep_graph[t]

\* execute implements ScheduleRun: a system is completed when its first report
\* has been sent.
Completed == executed \cup {s \in Systems : Reported(s)}

Run == INSTANCE ScheduleRun
         WITH after <- dep_graph, completed <- Completed, returned <- (pc = "returned")

ImplementsScheduleRun == Run!SSpec

\* execute returns, unless a system panicked.
Returns == <>(pc = "returned" \/ panics > 0)
=============================================================================
