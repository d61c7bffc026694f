----------------------- MODULE ParallelExecutorProofs -----------------------
(***************************************************************************)
(* execute with any number of systems, threads and panics: dependencies    *)
(* first, no system lost, and the promise of ScheduleRun.                  *)
(*                                                                         *)
(* The argument: active_deps is the complement of executed, so a system is *)
(* put into to_execute only when all it waits for is in executed, which    *)
(* never shrinks (DepsExecutedFirst is inductive with that).  The other    *)
(* direction, that a system whose dependencies are executed is somewhere   *)
(* between to_execute and done_queue, is lost with the first panic.  Once  *)
(* the loop is left everything is executed, and no thread survives Join.   *)
(***************************************************************************)
EXTENDS ParallelExecutor, FiniteSetTheorems, SequenceTheorems, TLAPS

Messages == {Kill} \cup {RunSystem(s) : s \in Systems}
Reports == {SystemExecuted(s) : s \in Systems}

\* A system is on its way through the executor.
UnderWay(s) == s \in to_execute \/ Queued(s) \/ IsRunning(s) \/ Reported(s)

Left == pc \in {"kill", "join", "returned"}

IInv ==
  /\ TypeOK
  /\ active_deps = Systems \ executed
  /\ DepsExecutedFirst
  /\ NoneLost
  /\ Left => executed = Systems
  /\ pc = "returned" => \A w \in Workers : worker[w] = Ended

-----------------------------------------------------------------------------
(* Messages, and what happens to the systems in a queue. *)

\* The messages of both channels tell each other apart.
LEMMA MessagesDiffer ==
  /\ \A s, t \in Systems : RunSystem(s) = RunSystem(t) => s = t
  /\ \A s, t \in Systems : SystemExecuted(s) = SystemExecuted(t) => s = t
  /\ \A s \in Systems : RunSystem(s) # Kill
  /\ \A s, t \in Systems : Running(s) = Running(t) => s = t
  /\ \A s \in Systems : Running(s) # Polling /\ Running(s) # Ended
<1>1. \A s, t \in Systems : RunSystem(s) = RunSystem(t) => s = t
  <2> TAKE s, t \in Systems
  <2>1. RunSystem(s).id = s /\ RunSystem(t).id = t
    BY DEF RunSystem
  <2> QED BY <2>1
<1>2. \A s, t \in Systems : SystemExecuted(s) = SystemExecuted(t) => s = t
  <2> TAKE s, t \in Systems
  <2>1. SystemExecuted(s).id = s /\ SystemExecuted(t).id = t
    BY DEF SystemExecuted
  <2> QED BY <2>1
<1>3. \A s \in Systems : RunSystem(s) # Kill
  <2> TAKE s \in Systems
  <2>1. RunSystem(s).msg = "RunSystem" /\ Kill.msg = "Kill"
    BY DEF RunSystem, Kill
  <2> QED BY <2>1
<1>4. \A s, t \in Systems : Running(s) = Running(t) => s = t
  <2> TAKE s, t \in Systems
  <2>1. Running(s).id = s /\ Running(t).id = t
    BY DEF Running
  <2> QED BY <2>1
<1>5. \A s \in Systems : Running(s) # Polling /\ Running(s) # Ended
  <2> TAKE s \in Systems
  <2>1. Running(s).state = "running" /\ Polling.state = "polling" /\ Ended.state = "ended"
    BY DEF Running, Polling, Ended
  <2> QED BY <2>1
<1> QED BY <1>1, <1>2, <1>3, <1>4, <1>5

\* Elements of a sequence after Append, and of its Head and Tail.
LEMMA AppendElements ==
  ASSUME NEW S, NEW q \in Seq(S), NEW x \in S, NEW y
  PROVE  /\ Append(q, x) \in Seq(S)
         /\ (\E k \in DOMAIN Append(q, x) : Append(q, x)[k] = y)
              <=> ((\E k \in DOMAIN q : q[k] = y) \/ x = y)
<1>1. /\ Append(q, x) \in Seq(S)
      /\ DOMAIN q = 1 .. Len(q) /\ Len(q) \in Nat
      /\ DOMAIN Append(q, x) = 1 .. Len(q) + 1
      /\ \A k \in 1 .. Len(q) : Append(q, x)[k] = q[k]
      /\ Append(q, x)[Len(q) + 1] = x
  OBVIOUS
<1>2. (\E k \in DOMAIN q : q[k] = y) => \E k \in DOMAIN Append(q, x) : Append(q, x)[k] = y
  BY <1>1
<1>3. x = y => \E k \in DOMAIN Append(q, x) : Append(q, x)[k] = y
  BY <1>1
<1>4. ASSUME NEW k \in DOMAIN Append(q, x), Append(q, x)[k] = y
      PROVE  (\E j \in DOMAIN q : q[j] = y) \/ x = y
  <2>1. k \in 1 .. Len(q) \/ k = Len(q) + 1
    BY <1>1
  <2> QED BY <2>1, <1>1, <1>4
<1> QED BY <1>1, <1>2, <1>3, <1>4

LEMMA TailElements ==
  ASSUME NEW S, NEW q \in Seq(S), q # << >>, NEW y
  PROVE  /\ Tail(q) \in Seq(S) /\ Head(q) \in S
         /\ (\E k \in DOMAIN q : q[k] = y)
              <=> ((\E k \in DOMAIN Tail(q) : Tail(q)[k] = y) \/ Head(q) = y)
<1>1. /\ Tail(q) \in Seq(S) /\ Head(q) \in S
      /\ DOMAIN q = 1 .. Len(q) /\ Len(q) \in Nat /\ Len(q) # 0
      /\ Len(Tail(q)) = Len(q) - 1
      /\ DOMAIN Tail(q) = 1 .. Len(q) - 1
      /\ \A k \in 1 .. Len(q) - 1 : Tail(q)[k] = q[k + 1]
      /\ Head(q) = q[1]
  OBVIOUS
<1>2. ASSUME NEW k \in DOMAIN Tail(q), Tail(q)[k] = y
      PROVE  \E j \in DOMAIN q : q[j] = y
  <2>1. k + 1 \in DOMAIN q /\ q[k + 1] = y
    BY <1>1, <1>2
  <2> QED BY <2>1
<1>3. Head(q) = y => \E j \in DOMAIN q : q[j] = y
  BY <1>1
<1>4. ASSUME NEW k \in DOMAIN q, q[k] = y
      PROVE  (\E j \in DOMAIN Tail(q) : Tail(q)[j] = y) \/ Head(q) = y
  <2>1. CASE k = 1
    BY <2>1, <1>1, <1>4
  <2>2. CASE k # 1
    <3>1. k - 1 \in DOMAIN Tail(q) /\ Tail(q)[k - 1] = y
      BY <2>2, <1>1, <1>4
    <3> QED BY <3>1
  <2> QED BY <2>1, <2>2
<1> QED BY <1>1, <1>2, <1>3, <1>4

\* What the four operations on the channels change.
LEMMA RunQueueSend ==
  ASSUME TypeOK, NEW x \in Messages, run_queue' = Append(run_queue, x)
  PROVE  run_queue' \in Seq(Messages) /\ \A s : Queued(s)' <=> Queued(s) \/ x = RunSystem(s)
<1>1. run_queue \in Seq(Messages)
  BY DEF TypeOK, Messages
<1> QED BY <1>1, AppendElements DEF Queued

LEMMA RunQueueTake ==
  ASSUME TypeOK, run_queue # << >>, run_queue' = Tail(run_queue)
  PROVE  /\ run_queue' \in Seq(Messages) /\ Head(run_queue) \in Messages
         /\ \A s : Queued(s) <=> Queued(s)' \/ Head(run_queue) = RunSystem(s)
<1>1. run_queue \in Seq(Messages)
  BY DEF TypeOK, Messages
<1> QED BY <1>1, TailElements DEF Queued

LEMMA DoneQueueSend ==
  ASSUME TypeOK, NEW x \in Reports, done_queue' = Append(done_queue, x)
  PROVE  /\ done_queue' \in Seq(Reports)
         /\ \A s : Reported(s)' <=> Reported(s) \/ x = SystemExecuted(s)
<1>1. done_queue \in Seq(Reports)
  BY DEF TypeOK, Reports
<1> QED BY <1>1, AppendElements DEF Reported

LEMMA DoneQueueTake ==
  ASSUME TypeOK, done_queue # << >>, done_queue' = Tail(done_queue)
  PROVE  /\ done_queue' \in Seq(Reports) /\ Head(done_queue) \in Reports
         /\ \A s : Reported(s) <=> Reported(s)' \/ Head(done_queue) = SystemExecuted(s)
<1>1. done_queue \in Seq(Reports)
  BY DEF TypeOK, Reports
<1> QED BY <1>1, TailElements DEF Reported

\* The report that is received names a system.
LEMMA ReportReceived ==
  ASSUME TypeOK, done_queue # << >>
  PROVE  /\ Head(done_queue).id \in Systems
         /\ Reported(Head(done_queue).id)
         /\ \A s \in Systems : Head(done_queue) = SystemExecuted(s) => s = Head(done_queue).id
<1>1. /\ Head(done_queue) \in Reports
      /\ \A y : (\E k \in DOMAIN done_queue : done_queue[k] = y)
           <=> ((\E k \in DOMAIN Tail(done_queue) : Tail(done_queue)[k] = y) \/ Head(done_queue) = y)
  <2>1. done_queue \in Seq(Reports)
    BY DEF TypeOK, Reports
  <2> QED BY <2>1, TailElements
<1>2. PICK s \in Systems : Head(done_queue) = SystemExecuted(s)
  BY <1>1 DEF Reports
<1>3. Head(done_queue).id = s
  BY <1>2 DEF SystemExecuted
<1>4. Reported(s)
  BY <1>1, <1>2 DEF Reported
<1> QED BY <1>2, <1>3, <1>4, MessagesDiffer

\* The loop counts: it is left when no system is missing.
LEMMA AllCounted ==
  ASSUME NEW T \in SUBSET Systems, Cardinality(T) = Cardinality(Systems)
  PROVE  T = Systems
BY SystemsAssumption, FS_Subset


-----------------------------------------------------------------------------
(* Every action preserves the invariant. *)

\* Passing a system on, from to_execute to a thread and on to main_rx.
LEMMA FlowKept ==
  ASSUME IInv, UNCHANGED <<dep_graph, executed, active_deps, panics>>,
         \A s \in Systems : UnderWay(s)' <=> UnderWay(s)
  PROVE  /\ (active_deps = Systems \ executed)'
         /\ DepsExecutedFirst' /\ NoneLost'
BY DEF IInv, UnderWay, DepsExecutedFirst, NoneLost

\* Passing nothing on.
LEMMA FlowStill ==
  ASSUME IInv, UNCHANGED <<dep_graph, executed, active_deps, panics, to_execute, queues, worker>>
  PROVE  /\ (active_deps = Systems \ executed)'
         /\ DepsExecutedFirst' /\ NoneLost'
BY DEF IInv, queues, DepsExecutedFirst, NoneLost, Queued, IsRunning, Reported

LEMMA RecvEmptyIInv ==
  ASSUME IInv, RecvEmpty PROVE IInv'
<1>1. TypeOK'
  BY DEF IInv, TypeOK, RecvEmpty, queues
<1>2. (active_deps = Systems \ executed)' /\ DepsExecutedFirst' /\ NoneLost'
  BY FlowStill DEF RecvEmpty
<1> QED BY <1>1, <1>2 DEF IInv, RecvEmpty, Left

LEMMA SendDoneIInv ==
  ASSUME IInv, SendDone PROVE IInv'
<1>1. TypeOK'
  BY DEF IInv, TypeOK, SendDone, queues
<1>2. (active_deps = Systems \ executed)' /\ DepsExecutedFirst' /\ NoneLost'
  BY FlowStill DEF SendDone
<1> QED BY <1>1, <1>2 DEF IInv, SendDone, Left

LEMMA KillDoneIInv ==
  ASSUME IInv, KillDone PROVE IInv'
<1>1. TypeOK'
  BY DEF IInv, TypeOK, KillDone, queues
<1>2. (active_deps = Systems \ executed)' /\ DepsExecutedFirst' /\ NoneLost'
  BY FlowStill DEF KillDone
<1> QED BY <1>1, <1>2 DEF IInv, KillDone, Left

LEMMA JoinIInv ==
  ASSUME IInv, Join PROVE IInv'
<1>1. TypeOK'
  BY DEF IInv, TypeOK, Join, queues
<1>2. (active_deps = Systems \ executed)' /\ DepsExecutedFirst' /\ NoneLost'
  BY FlowStill DEF Join
<1> QED BY <1>1, <1>2 DEF IInv, Join, Left

LEMMA SendKillIInv ==
  ASSUME IInv, SendKill PROVE IInv'
<1>1. Kill \in Messages /\ TypeOK /\ run_queue' = Append(run_queue, Kill)
  BY DEF Messages, IInv, SendKill
<1>2. run_queue' \in Seq(Messages) /\ \A s : Queued(s)' <=> Queued(s) \/ Kill = RunSystem(s)
  BY <1>1, RunQueueSend
<1>3. Cardinality(Workers) \in Nat
  BY WorkersAssumption, FS_CardinalityType
<1>4. TypeOK'
  BY <1>2, <1>3 DEF IInv, TypeOK, SendKill, Messages
<1>5. \A s \in Systems : UnderWay(s)' <=> UnderWay(s)
  BY <1>2, MessagesDiffer DEF SendKill, UnderWay, IsRunning, Reported
<1>6. (active_deps = Systems \ executed)' /\ DepsExecutedFirst' /\ NoneLost'
  BY <1>5, FlowKept DEF SendKill
<1> QED BY <1>4, <1>6 DEF IInv, SendKill, Left

LEMMA SendIInv ==
  ASSUME IInv, NEW s \in Systems, Send(s) PROVE IInv'
<1>1. RunSystem(s) \in Messages /\ TypeOK /\ run_queue' = Append(run_queue, RunSystem(s))
  BY DEF Messages, IInv, Send
<1>2. /\ run_queue' \in Seq(Messages)
      /\ \A t : Queued(t)' <=> Queued(t) \/ RunSystem(s) = RunSystem(t)
  BY <1>1, RunQueueSend
<1>4. TypeOK'
  BY <1>2 DEF IInv, TypeOK, Send, Messages
<1>5. \A t \in Systems : UnderWay(t)' <=> UnderWay(t)
  BY <1>2, MessagesDiffer DEF Send, UnderWay, IsRunning, Reported
<1>6. (active_deps = Systems \ executed)' /\ DepsExecutedFirst' /\ NoneLost'
  BY <1>5, FlowKept DEF Send
<1> QED BY <1>4, <1>6 DEF IInv, Send, Left

\* The systems that became ready are inserted, and the one that was reported is executed.
LEMMA RecvSystemExecutedIInv ==
  ASSUME IInv, RecvSystemExecuted PROVE IInv'
<1> DEFINE s == Head(done_queue).id
<1>1. TypeOK /\ done_queue # << >> /\ done_queue' = Tail(done_queue)
  BY DEF IInv, RecvSystemExecuted
<1>2. s \in Systems /\ \A t \in Systems : Head(done_queue) = SystemExecuted(t) => t = s
  BY <1>1, ReportReceived
<1>3. /\ done_queue' \in Seq(Reports)
      /\ \A t : Reported(t) <=> Reported(t)' \/ Head(done_queue) = SystemExecuted(t)
  BY <1>1, DoneQueueTake
<1>4. /\ executed' = executed \cup {s}
      /\ active_deps' = active_deps \ {s}
      /\ to_execute' = to_execute \cup
           {t \in Systems \ (executed \cup {s}) : Ready(t, active_deps \ {s})}
      /\ pc' = "send"
      /\ UNCHANGED <<dep_graph, kills, run_queue, worker, panics>>
  BY DEF RecvSystemExecuted
<1>5. TypeOK'
  BY <1>2, <1>3, <1>4 DEF IInv, TypeOK, Reports
<1>6. (active_deps = Systems \ executed)'
  BY <1>4 DEF IInv
<1>7. \A t \in Systems : Ready(t, active_deps') <=> dep_graph[t] \subseteq executed'
  BY <1>6 DEF IInv, TypeOK, Ready
<1>8. \A t \in Systems : (Queued(t)' <=> Queued(t)) /\ (IsRunning(t)' <=> IsRunning(t))
  BY <1>4 DEF Queued, IsRunning
<1>9. DepsExecutedFirst'
  <2> SUFFICES ASSUME NEW t \in Systems,
                      (t \in to_execute \/ Queued(t) \/ IsRunning(t) \/ Reported(t))'
               PROVE  dep_graph[t] \subseteq executed'
    BY <1>4 DEF DepsExecutedFirst
  <2>1. CASE t \in to_execute \/ Queued(t) \/ IsRunning(t) \/ Reported(t)
    BY <2>1, <1>4 DEF IInv, DepsExecutedFirst
  <2>2. CASE ~(t \in to_execute \/ Queued(t) \/ IsRunning(t) \/ Reported(t))
    <3>1. Ready(t, active_deps')
      BY <2>2, <1>3, <1>4, <1>8
    <3> QED BY <3>1, <1>7
  <2> QED BY <2>1, <2>2
<1>10. NoneLost'
  <2> SUFFICES ASSUME panics = 0, NEW t \in Systems \ executed',
                      dep_graph[t] \subseteq executed'
               PROVE  (t \in to_execute \/ Queued(t) \/ IsRunning(t) \/ Reported(t))'
    BY <1>4 DEF NoneLost
  <2>1. Ready(t, active_deps') /\ t \in Systems \ (executed \cup {s})
    BY <1>4, <1>7
  <2> QED BY <2>1, <1>4
<1> QED BY <1>4, <1>5, <1>6, <1>9, <1>10 DEF IInv, Left

LEMMA RecvLastIInv ==
  ASSUME IInv, RecvLast PROVE IInv'
<1> DEFINE s == Head(done_queue).id
<1>1. TypeOK /\ done_queue # << >> /\ done_queue' = Tail(done_queue)
  BY DEF IInv, RecvLast
<1>2. s \in Systems
  BY <1>1, ReportReceived
<1>3. /\ done_queue' \in Seq(Reports)
      /\ \A t : Reported(t) <=> Reported(t)' \/ Head(done_queue) = SystemExecuted(t)
  BY <1>1, DoneQueueTake
<1>4. /\ executed' = executed \cup {s}
      /\ active_deps' = active_deps \ {s}
      /\ Cardinality(executed \cup {s}) = Cardinality(Systems)
      /\ pc' = "kill" /\ kills' = Cardinality(Workers)
      /\ UNCHANGED <<dep_graph, to_execute, run_queue, worker, panics>>
  BY DEF RecvLast
<1>5. Cardinality(Workers) \in Nat
  BY WorkersAssumption, FS_CardinalityType
<1>6. TypeOK'
  BY <1>2, <1>3, <1>4, <1>5 DEF IInv, TypeOK, Reports
<1>7. executed' = Systems
  <2>1. executed \cup {s} \in SUBSET Systems
    BY <1>2 DEF IInv, TypeOK
  <2> QED BY <2>1, <1>4, AllCounted
<1>8. (active_deps = Systems \ executed)'
  BY <1>4 DEF IInv
<1>9. DepsExecutedFirst'
  BY <1>6, <1>7 DEF DepsExecutedFirst, TypeOK
<1>10. NoneLost'
  BY <1>7 DEF NoneLost
<1> QED BY <1>4, <1>6, <1>7, <1>8, <1>9, <1>10 DEF IInv, Left

\* Whoever runs is a thread that has not ended, so execute has not returned.
LEMMA WorkerKinds ==
  ASSUME IInv, NEW w \in Workers
  PROVE  /\ worker[w] = Polling => worker[w] # Ended /\ \A s : worker[w] # Running(s)
         /\ worker[w].state = "running" =>
              /\ worker[w] # Ended
              /\ worker[w].id \in Systems
              /\ worker[w] = Running(worker[w].id)
<1>1. worker[w] \in {Polling, Ended} \cup {Running(s) : s \in Systems}
  BY DEF IInv, TypeOK
<1>2. /\ Polling.state = "polling" /\ Ended.state = "ended"
      /\ \A s : Running(s).state = "running" /\ Running(s).id = s
  BY DEF Polling, Ended, Running
<1>3. ASSUME worker[w].state = "running"
      PROVE  worker[w] # Ended /\ worker[w].id \in Systems /\ worker[w] = Running(worker[w].id)
  <2>1. PICK s \in Systems : worker[w] = Running(s)
    BY <1>1, <1>2, <1>3
  <2> QED BY <2>1, <1>2
<1>4. worker[w] = Polling => worker[w] # Ended /\ \A s : worker[w] # Running(s)
  BY <1>2
<1> QED BY <1>3, <1>4

\* What the other threads do when one changes: each runs the system it ran before.
LEMMA ThreadChanges ==
  ASSUME IInv, NEW w \in Workers, NEW x, worker' = [worker EXCEPT ![w] = x]
  PROVE  /\ \A s : IsRunning(s) =>
              IsRunning(s)' \/ worker[w] = Running(s)
         /\ \A s : IsRunning(s)' => IsRunning(s) \/ x = Running(s)
         /\ \A s : x = Running(s) => IsRunning(s)'
<1>1. worker \in [Workers -> {Polling, Ended} \cup {Running(s) : s \in Systems}]
  BY DEF IInv, TypeOK
<1>2. worker'[w] = x /\ \A v \in Workers : v # w => worker'[v] = worker[v]
  BY <1>1
<1> QED BY <1>2 DEF IsRunning

LEMMA TakeSystemIInv ==
  ASSUME IInv, NEW w \in Workers, TakeSystem(w) PROVE IInv'
<1>1. /\ TypeOK /\ run_queue # << >> /\ run_queue' = Tail(run_queue)
      /\ Head(run_queue) # Kill /\ worker[w] = Polling
      /\ worker' = [worker EXCEPT ![w] = Running(Head(run_queue).id)]
      /\ UNCHANGED <<dep_graph, main, done_queue, panics>>
  BY DEF IInv, TakeSystem
<1>2. /\ run_queue' \in Seq(Messages) /\ Head(run_queue) \in Messages
      /\ \A t : Queued(t) <=> Queued(t)' \/ Head(run_queue) = RunSystem(t)
  BY <1>1, RunQueueTake
<1>3. PICK s \in Systems : Head(run_queue) = RunSystem(s)
  BY <1>1, <1>2 DEF Messages
<1>4. worker' = [worker EXCEPT ![w] = Running(s)]
  <2>1. Head(run_queue).id = s
    BY <1>3 DEF RunSystem
  <2> QED BY <1>1, <2>1
<1>5. TypeOK'
  BY <1>1, <1>2, <1>4 DEF IInv, TypeOK, main, Messages
<1>6. \A t \in Systems : UnderWay(t)' <=> UnderWay(t)
  <2>1. /\ \A t : worker[w] # Running(t)
        /\ \A t : IsRunning(t) => IsRunning(t)' \/ worker[w] = Running(t)
        /\ \A t : IsRunning(t)' => IsRunning(t) \/ Running(s) = Running(t)
        /\ IsRunning(s)'
    BY <1>1, <1>4, WorkerKinds, ThreadChanges
  <2>2. \A t \in Systems : (RunSystem(s) = RunSystem(t) => s = t) /\ (Running(s) = Running(t) => s = t)
    BY MessagesDiffer
  <2>3. \A t : (t \in to_execute)' <=> t \in to_execute
    BY <1>1 DEF main
  <2>4. \A t : Reported(t)' <=> Reported(t)
    BY <1>1 DEF Reported
  <2>5. \A t \in Systems : (Queued(t)' \/ IsRunning(t)') <=> (Queued(t) \/ IsRunning(t))
    BY <1>2, <1>3, <2>1, <2>2
  <2> QED BY <2>3, <2>4, <2>5 DEF UnderWay
<1>7. (active_deps = Systems \ executed)' /\ DepsExecutedFirst' /\ NoneLost'
  BY <1>1, <1>6, FlowKept DEF main
<1>8. pc # "returned"
  BY <1>1, WorkerKinds DEF IInv
<1> QED BY <1>1, <1>5, <1>7, <1>8 DEF IInv, Left, main

LEMMA TakeKillIInv ==
  ASSUME IInv, NEW w \in Workers, TakeKill(w) PROVE IInv'
<1>1. /\ TypeOK /\ run_queue # << >> /\ run_queue' = Tail(run_queue)
      /\ Head(run_queue) = Kill /\ worker[w] = Polling
      /\ worker' = [worker EXCEPT ![w] = Ended]
      /\ UNCHANGED <<dep_graph, main, done_queue, panics>>
  BY DEF IInv, TakeKill
<1>2. /\ run_queue' \in Seq(Messages)
      /\ \A t : Queued(t) <=> Queued(t)' \/ Head(run_queue) = RunSystem(t)
  BY <1>1, RunQueueTake
<1>3. TypeOK'
  BY <1>1, <1>2 DEF IInv, TypeOK, main, Messages
<1>4. \A t \in Systems : UnderWay(t)' <=> UnderWay(t)
  <2>1. \A t \in Systems : Queued(t)' <=> Queued(t)
    BY <1>1, <1>2, MessagesDiffer
  <2>2. /\ \A t : worker[w] # Running(t)
        /\ \A t : IsRunning(t) => IsRunning(t)' \/ worker[w] = Running(t)
        /\ \A t : IsRunning(t)' => IsRunning(t) \/ Ended = Running(t)
    BY <1>1, WorkerKinds, ThreadChanges
  <2>3. \A t \in Systems : IsRunning(t)' <=> IsRunning(t)
    BY <2>2, MessagesDiffer
  <2>4. \A t : ((t \in to_execute)' <=> t \in to_execute) /\ (Reported(t)' <=> Reported(t))
    BY <1>1 DEF main, Reported
  <2> QED BY <2>1, <2>3, <2>4 DEF UnderWay
<1>5. (active_deps = Systems \ executed)' /\ DepsExecutedFirst' /\ NoneLost'
  BY <1>1, <1>4, FlowKept DEF main
<1>6. pc # "returned"
  BY <1>1, WorkerKinds DEF IInv
<1> QED BY <1>1, <1>3, <1>5, <1>6 DEF IInv, Left, main

LEMMA FinishIInv ==
  ASSUME IInv, NEW w \in Workers, Finish(w) PROVE IInv'
<1> DEFINE s == worker[w].id
<1>1. /\ TypeOK
      /\ done_queue' = Append(done_queue, SystemExecuted(s))
      /\ worker' = [worker EXCEPT ![w] = Polling]
      /\ UNCHANGED <<dep_graph, main, run_queue, panics>>
  BY DEF IInv, Finish
<1>2. worker[w] # Ended /\ s \in Systems /\ worker[w] = Running(s)
  BY WorkerKinds DEF Finish
<1>3. SystemExecuted(s) \in Reports
  BY <1>2 DEF Reports
<1>4. /\ done_queue' \in Seq(Reports)
      /\ \A t : Reported(t)' <=> Reported(t) \/ SystemExecuted(s) = SystemExecuted(t)
  BY <1>1, <1>3, DoneQueueSend
<1>5. TypeOK'
  BY <1>1, <1>4 DEF IInv, TypeOK, main, Reports
<1>6. \A t \in Systems : UnderWay(t)' <=> UnderWay(t)
  <2>1. /\ \A t : IsRunning(t) => IsRunning(t)' \/ worker[w] = Running(t)
        /\ \A t : IsRunning(t)' => IsRunning(t) \/ Polling = Running(t)
    BY <1>1, ThreadChanges
  <2>2. \A t \in Systems : /\ SystemExecuted(s) = SystemExecuted(t) => s = t
                           /\ Running(s) = Running(t) => s = t
                           /\ Polling # Running(t)
    BY <1>2, MessagesDiffer
  <2>3. IsRunning(s)
    BY <1>2 DEF IsRunning
  <2>4. \A t : ((t \in to_execute)' <=> t \in to_execute) /\ (Queued(t)' <=> Queued(t))
    BY <1>1 DEF main, Queued
  <2>5. \A t \in Systems : (IsRunning(t)' \/ Reported(t)') <=> (IsRunning(t) \/ Reported(t))
    BY <1>2, <1>4, <2>1, <2>2, <2>3
  <2> QED BY <2>4, <2>5 DEF UnderWay
<1>7. (active_deps = Systems \ executed)' /\ DepsExecutedFirst' /\ NoneLost'
  BY <1>1, <1>6, FlowKept DEF main
<1>8. pc # "returned"
  BY <1>2 DEF IInv
<1> QED BY <1>1, <1>5, <1>7, <1>8 DEF IInv, Left, main

\* A panic takes a system out of the flow, and is counted.
LEMMA PanicIInv ==
  ASSUME IInv, NEW w \in Workers, Panic(w) PROVE IInv'
<1>1. /\ worker' = [worker EXCEPT ![w] = Ended]
      /\ panics' = panics + 1 /\ panics < MaxPanics
      /\ UNCHANGED <<dep_graph, main, queues>>
  BY DEF Panic
<1>2. panics \in 0 .. MaxPanics /\ panics' \in 0 .. MaxPanics /\ panics' # 0
  BY <1>1, MaxPanicsAssumption DEF IInv, TypeOK
<1>3. TypeOK'
  BY <1>1, <1>2 DEF IInv, TypeOK, main, queues
<1>4. \A t \in Systems : UnderWay(t)' => UnderWay(t)
  <2>1. \A t : IsRunning(t)' => IsRunning(t) \/ Ended = Running(t)
    BY <1>1, ThreadChanges
  <2>2. \A t \in Systems : IsRunning(t)' => IsRunning(t)
    BY <2>1, MessagesDiffer
  <2>3. \A t : /\ (t \in to_execute)' <=> t \in to_execute
               /\ Queued(t)' <=> Queued(t)
               /\ Reported(t)' <=> Reported(t)
    BY <1>1 DEF main, queues, Queued, Reported
  <2> QED BY <2>2, <2>3 DEF UnderWay
<1>5. DepsExecutedFirst'
  <2>1. \A t \in Systems : UnderWay(t) => dep_graph[t] \subseteq executed
    BY DEF IInv, DepsExecutedFirst, UnderWay
  <2>2. \A t \in Systems : UnderWay(t)' => dep_graph'[t] \subseteq executed'
    BY <1>1, <1>4, <2>1 DEF main
  <2> QED BY <2>2 DEF DepsExecutedFirst, UnderWay
<1>6. NoneLost'
  BY <1>2 DEF NoneLost
<1>7. (active_deps = Systems \ executed)'
  BY <1>1 DEF IInv, main
<1>8. pc = "returned" => \A v \in Workers : worker'[v] = Ended
  BY <1>1 DEF IInv, TypeOK
<1> QED BY <1>1, <1>3, <1>5, <1>6, <1>7, <1>8 DEF IInv, Left, main

-----------------------------------------------------------------------------
LEMMA InitIInv ==
  ASSUME Init PROVE IInv
<1>1. /\ dep_graph \in [Systems -> SUBSET Systems]
      /\ Cardinality(Workers) \in Nat
  BY DepGraphsAssumption, WorkersAssumption, FS_CardinalityType DEF Init
<1>2. TypeOK
  BY <1>1, MaxPanicsAssumption DEF Init, TypeOK
<1>3. \A s \in Systems : ~Queued(s) /\ ~IsRunning(s) /\ ~Reported(s)
  BY MessagesDiffer DEF Init, Queued, IsRunning, Reported
<1>4. DepsExecutedFirst /\ NoneLost
  BY <1>1, <1>3 DEF Init, DepsExecutedFirst, NoneLost, Ready
<1> QED BY <1>2, <1>4 DEF Init, IInv, Left

LEMMA NextIInv ==
  ASSUME IInv, [Next]_vars PROVE IInv'
<1>1. CASE RecvEmpty \/ SendDone \/ KillDone \/ Join
  BY <1>1, RecvEmptyIInv, SendDoneIInv, KillDoneIInv, JoinIInv
<1>2. CASE RecvSystemExecuted \/ RecvLast
  BY <1>2, RecvSystemExecutedIInv, RecvLastIInv
<1>3. CASE SendKill \/ \E s \in Systems : Send(s)
  BY <1>3, SendKillIInv, SendIInv
<1>4. ASSUME NEW w \in Workers, WorkerStep(w) \/ Panic(w) PROVE IInv'
  BY <1>4, TakeSystemIInv, TakeKillIInv, FinishIInv, PanicIInv DEF WorkerStep
<1>5. CASE UNCHANGED vars
  <2>1. TypeOK' /\ (Left => executed = Systems)'
        /\ (pc = "returned" => \A w \in Workers : worker[w] = Ended)'
    BY <1>5 DEF vars, main, queues, IInv, TypeOK, Left
  <2>2. (active_deps = Systems \ executed)' /\ DepsExecutedFirst' /\ NoneLost'
    BY <1>5, FlowStill DEF vars, main
  <2> QED BY <2>1, <2>2 DEF IInv
<1> QED BY <1>1, <1>2, <1>3, <1>4, <1>5 DEF Next, MainStep

\* The invariant of execute, whatever the graph and however many threads.
THEOREM ExecutorInvariant == Spec => []IInv
BY InitIInv, NextIInv, PTL DEF Spec

\* The channels carry what they may, and the calling thread's sets hold its systems.
THEOREM TypeCorrect == Spec => []TypeOK
<1>1. IInv => TypeOK
  BY DEF IInv
<1> QED BY <1>1, ExecutorInvariant, PTL

\* No system is handed out, started or reported before everything it depends on completed.
THEOREM DependenciesFirst == Spec => []DepsExecutedFirst
<1>1. IInv => DepsExecutedFirst
  BY DEF IInv
<1> QED BY <1>1, ExecutorInvariant, PTL

\* Without a panic no system is lost between the calling thread and the workers.
THEOREM NoSystemLost == Spec => []NoneLost
<1>1. IInv => NoneLost
  BY DEF IInv
<1> QED BY <1>1, ExecutorInvariant, PTL

-----------------------------------------------------------------------------
(* The promise of ScheduleRun. *)

\* A report takes its system from a thread to done_queue, and from there to executed.
LEMMA StepCompletes ==
  ASSUME IInv, IInv', Next
  PROVE  \/ UNCHANGED Run!svars
         \/ Run!Return
         \/ \E s \in Systems : Run!Complete(s)
<1> USE DEF Run!svars
<1>1. ASSUME UNCHANGED <<dep_graph, executed, done_queue>>, (pc = "returned")' <=> pc = "returned"
      PROVE  UNCHANGED Run!svars
  BY <1>1 DEF Completed, Reported
<1>2. CASE RecvEmpty \/ SendDone \/ KillDone \/ SendKill \/ \E s \in Systems : Send(s)
  BY <1>1, <1>2 DEF RecvEmpty, SendDone, KillDone, SendKill, Send, queues
<1>3. ASSUME NEW w \in Workers, TakeSystem(w) \/ TakeKill(w) \/ Panic(w)
      PROVE  UNCHANGED Run!svars
  BY <1>1, <1>3 DEF TakeSystem, TakeKill, Panic, main, queues
<1>4. CASE RecvSystemExecuted \/ RecvLast
  <2> DEFINE s == Head(done_queue).id
  <2>1. /\ TypeOK /\ done_queue # << >> /\ done_queue' = Tail(done_queue)
        /\ executed' = executed \cup {s}
        /\ dep_graph' = dep_graph /\ pc # "returned" /\ pc' # "returned"
    BY <1>4 DEF IInv, RecvSystemExecuted, RecvLast
  <2>2. /\ s \in Systems /\ Reported(s)
        /\ \A t \in Systems : Head(done_queue) = SystemExecuted(t) => t = s
    BY <2>1, ReportReceived
  <2>3. \A t : Reported(t) <=> Reported(t)' \/ Head(done_queue) = SystemExecuted(t)
    BY <2>1, DoneQueueTake
  <2>4. \A t \in Systems : (t \in executed' \/ Reported(t)') <=> (t \in executed \/ Reported(t))
    BY <2>1, <2>2, <2>3
  <2>5. executed \subseteq Systems /\ executed' \subseteq Systems
    BY DEF IInv, TypeOK
  <2>6. Completed' = Completed
    BY <2>4, <2>5 DEF Completed
  <2> QED BY <2>1, <2>6
<1>5. CASE Join
  <2>1. /\ pc = "join" /\ pc' = "returned"
        /\ UNCHANGED <<dep_graph, executed, queues>>
    BY <1>5 DEF Join
  <2>2. executed = Systems
    BY <2>1 DEF IInv, Left
  <2>3. Completed = Systems
    BY <2>2 DEF Completed
  <2>4. UNCHANGED <<dep_graph, Completed>>
    BY <2>1 DEF Completed, Reported, queues
  <2> QED BY <2>1, <2>3, <2>4 DEF Run!Return
<1>6. ASSUME NEW w \in Workers, Finish(w)
      PROVE  UNCHANGED Run!svars \/ \E s \in Systems : Run!Complete(s)
  <2> DEFINE s == worker[w].id
  <2>1. /\ TypeOK
        /\ done_queue' = Append(done_queue, SystemExecuted(s))
        /\ UNCHANGED <<dep_graph, main, run_queue, panics>>
    BY <1>6 DEF IInv, Finish
  <2>2. worker[w] # Ended /\ s \in Systems /\ worker[w] = Running(s)
    BY <1>6, WorkerKinds DEF Finish
  <2>3. SystemExecuted(s) \in Reports
    BY <2>2 DEF Reports
  <2>4. \A t : Reported(t)' <=> Reported(t) \/ SystemExecuted(s) = SystemExecuted(t)
    BY <2>1, <2>3, DoneQueueSend
  <2>5. \A t \in Systems : Reported(t)' <=> Reported(t) \/ t = s
    BY <2>2, <2>4, MessagesDiffer
  <2>6. Completed' = Completed \cup {s}
    BY <2>1, <2>2, <2>5 DEF Completed, main
  <2>7. pc # "returned" /\ pc' = pc /\ dep_graph' = dep_graph
    BY <2>1, <2>2 DEF IInv, main
  <2>8. dep_graph[s] \subseteq Completed
    BY <2>2 DEF IInv, DepsExecutedFirst, IsRunning, Completed
  <2>9. CASE s \in Completed
    BY <2>6, <2>7, <2>9
  <2>10. CASE s \notin Completed
    BY <2>2, <2>6, <2>7, <2>8, <2>10 DEF Run!Complete
  <2> QED BY <2>9, <2>10
<1> QED BY <1>2, <1>3, <1>4, <1>5, <1>6 DEF Next, MainStep, WorkerStep

\* execute implements ScheduleRun: whatever the threads do, systems complete one by one,
\* none before its dependencies, and the call returns when all have completed.
THEOREM ExecuteImplementsScheduleRun == Spec => ImplementsScheduleRun
<1>1. Init => Run!SInit
  <2> SUFFICES ASSUME Init PROVE Run!SInit
    OBVIOUS
  <2>1. dep_graph \in [Systems -> SUBSET Systems] /\ pc # "returned"
    BY DepGraphsAssumption DEF Init
  <2>2. Completed = {}
    BY MessagesDiffer DEF Init, Completed, Reported
  <2> QED BY <2>1, <2>2 DEF Run!SInit
<1>2. ASSUME IInv, IInv', [Next]_vars
      PROVE  [Run!SNext]_(Run!svars)
  <2>1. CASE Next
    BY <1>2, <2>1, StepCompletes DEF Run!SNext
  <2>2. CASE UNCHANGED vars
    BY <2>2 DEF vars, main, queues, Run!svars, Completed, Reported
  <2> QED BY <1>2, <2>1, <2>2
<1> QED BY <1>1, <1>2, ExecutorInvariant, PTL DEF Spec, ImplementsScheduleRun, Run!SSpec

-----------------------------------------------------------------------------
(***************************************************************************)
(* What is left behind.  The Kill messages are the last of run_queue, and  *)
(* there are as many as were sent and not taken; a thread that ended took  *)
(* one or panicked.  Once one was taken nothing else is in the channel.    *)
(***************************************************************************)
EndedThreads == {w \in Workers : worker[w] = Ended}
KillsTaken == Cardinality(EndedThreads) - panics
KillsInQueue == IF Left THEN Cardinality(Workers) - kills - KillsTaken ELSE 0

KillsLast ==
  \A k \in 1 .. Len(run_queue) :
    run_queue[k] = Kill <=> k > Len(run_queue) - KillsInQueue

KInv ==
  /\ KillsInQueue \in 0 .. Len(run_queue)
  /\ KillsLast
  /\ KillsTaken \in Nat
  /\ KillsTaken # 0 => Left /\ KillsInQueue = Len(run_queue)
  /\ pc \in {"join", "returned"} => kills = 0

LEMMA KillNumbers ==
  ASSUME TypeOK
  PROVE  /\ Cardinality(Workers) \in Nat
         /\ IsFiniteSet(EndedThreads) /\ Cardinality(EndedThreads) \in Nat
         /\ panics \in Nat /\ kills \in Nat
         /\ Len(run_queue) \in Nat /\ DOMAIN run_queue = 1 .. Len(run_queue)
         /\ run_queue \in Seq(Messages)
<1>1. EndedThreads \subseteq Workers
  BY DEF EndedThreads
<1>2. IsFiniteSet(EndedThreads)
  BY <1>1, WorkersAssumption, FS_Subset
<1>3. Cardinality(Workers) \in Nat /\ Cardinality(EndedThreads) \in Nat
  BY <1>2, WorkersAssumption, FS_CardinalityType
<1>4. run_queue \in Seq(Messages)
  BY DEF TypeOK, Messages
<1>5. panics \in Nat /\ kills \in Nat
  BY <1>3, MaxPanicsAssumption DEF TypeOK
<1> QED BY <1>2, <1>3, <1>4, <1>5

\* A thread that ends adds one to those that have ended.
LEMMA ThreadEnds ==
  ASSUME TypeOK, NEW w \in Workers, worker[w] # Ended, worker' = [worker EXCEPT ![w] = Ended]
  PROVE  Cardinality(EndedThreads') = Cardinality(EndedThreads) + 1
<1>1. EndedThreads' = EndedThreads \cup {w} /\ w \notin EndedThreads
  BY DEF EndedThreads, TypeOK
<1> QED BY <1>1, KillNumbers, FS_AddElement

\* A thread that goes on changes nothing about them.
LEMMA ThreadGoesOn ==
  ASSUME TypeOK, NEW w \in Workers, NEW x, x # Ended, worker[w] # Ended,
         worker' = [worker EXCEPT ![w] = x]
  PROVE  EndedThreads' = EndedThreads
BY DEF EndedThreads, TypeOK

\* Steps that change neither run_queue nor the count.
LEMMA KInvStill ==
  ASSUME KInv, UNCHANGED run_queue,
         KillsInQueue' = KillsInQueue, KillsTaken' = KillsTaken, Left => Left',
         (pc \in {"join", "returned"} => kills = 0)'
  PROVE  KInv'
BY DEF KInv, KillsLast

LEMMA MainKInv ==
  ASSUME IInv, KInv, MainStep PROVE KInv'
<1>1. TypeOK
  BY DEF IInv
<1>2. /\ Cardinality(Workers) \in Nat /\ Cardinality(EndedThreads) \in Nat
      /\ panics \in Nat /\ kills \in Nat
      /\ Len(run_queue) \in Nat /\ run_queue \in Seq(Messages)
  BY <1>1, KillNumbers
<1>3. ASSUME UNCHANGED <<worker, panics>> PROVE KillsTaken' = KillsTaken
  BY <1>3 DEF KillsTaken, EndedThreads
<1>4. CASE RecvEmpty \/ SendDone \/ RecvSystemExecuted \/ KillDone \/ Join
  <2>1. /\ UNCHANGED <<run_queue, worker, panics, kills>>
        /\ Left' <=> Left
        /\ (pc \in {"join", "returned"} => kills = 0)'
    BY <1>4 DEF KInv, Left, queues, RecvEmpty, SendDone, RecvSystemExecuted, KillDone, Join
  <2>2. KillsInQueue' = KillsInQueue
    BY <1>3, <2>1 DEF KillsInQueue
  <2> QED BY <1>3, <2>1, <2>2, KInvStill
<1>5. CASE RecvLast
  <2>1. /\ UNCHANGED <<run_queue, worker, panics>> /\ ~Left /\ Left'
        /\ kills' = Cardinality(Workers) /\ pc' = "kill"
    BY <1>5 DEF Left, RecvLast
  <2>2. KillsTaken = 0 /\ KillsTaken' = KillsTaken
    BY <1>3, <2>1 DEF KInv
  <2>3. KillsInQueue' = 0 /\ KillsInQueue = 0
    BY <1>2, <2>1, <2>2 DEF KillsInQueue
  <2> QED BY <2>1, <2>2, <2>3, KInvStill
<1>6. CASE SendKill
  <2>1. /\ pc = "kill" /\ pc' = "kill" /\ Left /\ Left'
        /\ run_queue' = Append(run_queue, Kill) /\ kills' = kills - 1
        /\ UNCHANGED <<worker, panics>>
    BY <1>6 DEF SendKill, Left
  <2>2. KillsInQueue' = KillsInQueue + 1
    BY <1>2, <1>3, <2>1 DEF KillsInQueue, KillsTaken
  <2>3. /\ Len(run_queue') = Len(run_queue) + 1
        /\ run_queue'[Len(run_queue) + 1] = Kill
        /\ \A k \in 1 .. Len(run_queue) : run_queue'[k] = run_queue[k]
    BY <1>2, <2>1 DEF Messages
  <2>4. KillsLast'
    BY <1>2, <2>2, <2>3 DEF KInv, KillsLast
  <2> QED BY <1>2, <1>3, <2>1, <2>2, <2>3, <2>4 DEF KInv
<1>7. ASSUME NEW s \in Systems, Send(s) PROVE KInv'
  <2>1. /\ ~Left /\ ~Left' /\ pc' = "send"
        /\ run_queue' = Append(run_queue, RunSystem(s))
        /\ UNCHANGED <<worker, panics>>
    BY <1>7 DEF Send, Left
  <2>2. KillsInQueue' = 0 /\ KillsInQueue = 0
    BY <2>1 DEF KillsInQueue
  <2>3. /\ Len(run_queue') = Len(run_queue) + 1
        /\ run_queue'[Len(run_queue) + 1] = RunSystem(s)
        /\ \A k \in 1 .. Len(run_queue) : run_queue'[k] = run_queue[k]
    BY <1>2, <2>1 DEF Messages
  <2>4. RunSystem(s) # Kill
    BY MessagesDiffer
  <2>5. KillsLast'
    BY <1>2, <2>2, <2>3, <2>4 DEF KInv, KillsLast
  <2> QED BY <1>2, <1>3, <2>1, <2>2, <2>3, <2>5 DEF KInv
<1> QED BY <1>4, <1>5, <1>6, <1>7 DEF MainStep

LEMMA WorkerKInv ==
  ASSUME IInv, KInv, NEW w \in Workers, WorkerStep(w) \/ Panic(w) PROVE KInv'
<1>1. TypeOK
  BY DEF IInv
<1>2. /\ Cardinality(Workers) \in Nat /\ Cardinality(EndedThreads) \in Nat
      /\ panics \in Nat /\ kills \in Nat
      /\ Len(run_queue) \in Nat /\ run_queue \in Seq(Messages)
  BY <1>1, KillNumbers
<1>3. UNCHANGED <<pc, kills>> /\ (Left' <=> Left)
  BY DEF WorkerStep, TakeSystem, TakeKill, Finish, Panic, main, Left
<1>4. ASSUME run_queue # << >>, run_queue' = Tail(run_queue)
      PROVE  /\ Len(run_queue') = Len(run_queue) - 1 /\ Len(run_queue) # 0
             /\ Head(run_queue) = run_queue[1]
             /\ \A k \in 1 .. Len(run_queue) - 1 : run_queue'[k] = run_queue[k + 1]
  BY <1>2, <1>4
<1>5. CASE TakeSystem(w)
  <2>1. /\ run_queue # << >> /\ run_queue' = Tail(run_queue) /\ Head(run_queue) # Kill
        /\ worker[w] # Ended /\ panics' = panics
        /\ worker' = [worker EXCEPT ![w] = Running(Head(run_queue).id)]
    BY <1>5, WorkerKinds DEF TakeSystem
  <2>2. Running(Head(run_queue).id) # Ended
    BY DEF Running, Ended
  <2>3. KillsTaken' = KillsTaken
    BY <1>1, <2>1, <2>2, ThreadGoesOn DEF KillsTaken
  <2>4. KillsInQueue' = KillsInQueue
    BY <1>3, <2>3 DEF KillsInQueue
  <2>5. KillsInQueue \in 0 .. Len(run_queue) - 1
    BY <1>2, <1>4, <2>1 DEF KInv, KillsLast
  <2>6. KillsLast'
    BY <1>2, <1>4, <2>1, <2>4, <2>5 DEF KInv, KillsLast
  <2>7. KillsTaken = 0
    BY <1>2, <2>5 DEF KInv
  <2> QED BY <1>2, <1>3, <1>4, <2>1, <2>3, <2>4, <2>5, <2>6, <2>7 DEF KInv
<1>6. CASE TakeKill(w)
  <2>1. /\ run_queue # << >> /\ run_queue' = Tail(run_queue) /\ Head(run_queue) = Kill
        /\ worker[w] # Ended /\ panics' = panics
        /\ worker' = [worker EXCEPT ![w] = Ended]
    BY <1>6, WorkerKinds DEF TakeKill
  <2>2. KillsInQueue = Len(run_queue) /\ Left
    BY <1>2, <1>4, <2>1 DEF KInv, KillsLast, KillsInQueue
  <2>3. KillsTaken' = KillsTaken + 1
    <3>1. Cardinality(EndedThreads)' = Cardinality(EndedThreads) + 1
      BY <1>1, <2>1, ThreadEnds
    <3> QED BY <1>2, <2>1, <3>1 DEF KillsTaken
  <2>4. KillsInQueue' = KillsInQueue - 1
    BY <1>2, <1>3, <2>2, <2>3 DEF KillsInQueue, KillsTaken
  <2>5. KillsLast'
    BY <1>2, <1>4, <2>1, <2>2, <2>4 DEF KInv, KillsLast
  <2> QED BY <1>2, <1>3, <1>4, <2>1, <2>2, <2>3, <2>4, <2>5 DEF KInv
<1>7. CASE Finish(w)
  <2>1. /\ UNCHANGED <<run_queue, panics>> /\ worker[w] # Ended
        /\ worker' = [worker EXCEPT ![w] = Polling]
    BY <1>7, WorkerKinds DEF Finish
  <2>2. Polling # Ended
    BY DEF Polling, Ended
  <2>3. KillsTaken' = KillsTaken
    BY <1>1, <2>1, <2>2, ThreadGoesOn DEF KillsTaken
  <2>4. KillsInQueue' = KillsInQueue
    BY <1>3, <2>3 DEF KillsInQueue
  <2> QED BY <1>3, <2>1, <2>3, <2>4, KInvStill DEF KInv
<1>8. CASE Panic(w)
  <2>1. /\ UNCHANGED run_queue /\ worker[w] # Ended /\ panics' = panics + 1
        /\ worker' = [worker EXCEPT ![w] = Ended]
    BY <1>8, WorkerKinds DEF Panic, queues
  <2>2. KillsTaken' = KillsTaken
    <3>1. Cardinality(EndedThreads)' = Cardinality(EndedThreads) + 1
      BY <1>1, <2>1, ThreadEnds
    <3> QED BY <1>2, <2>1, <3>1 DEF KillsTaken
  <2>3. KillsInQueue' = KillsInQueue
    BY <1>3, <2>2 DEF KillsInQueue
  <2> QED BY <1>3, <2>1, <2>2, <2>3, KInvStill DEF KInv
<1> QED BY <1>5, <1>6, <1>7, <1>8 DEF WorkerStep

LEMMA InitKInv ==
  ASSUME Init PROVE KInv
<1>1. \A w \in Workers : worker[w] # Ended
  BY DEF Init, Polling, Ended
<1>2. EndedThreads = {}
  BY <1>1 DEF EndedThreads
<1>3. Cardinality(EndedThreads) = 0
  BY <1>2, FS_EmptySet
<1> QED BY <1>3 DEF Init, KInv, KillsLast, KillsInQueue, KillsTaken, Left

LEMMA ReturnedIsClean ==
  ASSUME IInv, KInv PROVE CleanReturn
<1> SUFFICES ASSUME pc = "returned"
             PROVE  /\ executed = Systems
                    /\ \A w \in Workers : worker[w] = Ended
                    /\ panics < Cardinality(Workers) =>
                         Len(run_queue) <= panics /\ \A s \in Systems : ~Queued(s)
  BY DEF CleanReturn
<1>1. /\ Cardinality(Workers) \in Nat /\ panics \in Nat
      /\ Len(run_queue) \in Nat /\ DOMAIN run_queue = 1 .. Len(run_queue)
  BY KillNumbers DEF IInv
<1>2. executed = Systems /\ Left /\ kills = 0 /\ \A w \in Workers : worker[w] = Ended
  BY DEF IInv, KInv, Left
<1>3. EndedThreads = Workers
  BY <1>2 DEF EndedThreads
<1>4. KillsTaken = Cardinality(Workers) - panics /\ KillsInQueue = panics
  BY <1>1, <1>2, <1>3 DEF KillsTaken, KillsInQueue
<1>5. ASSUME panics < Cardinality(Workers)
      PROVE  Len(run_queue) <= panics /\ \A s \in Systems : ~Queued(s)
  <2>1. KillsInQueue = Len(run_queue)
    <3>1. KillsTaken # 0
      BY <1>1, <1>4, <1>5
    <3> QED BY <3>1 DEF KInv
  <2>2. \A k \in DOMAIN run_queue : run_queue[k] = Kill
    BY <1>1, <2>1 DEF KInv, KillsLast
  <2> QED BY <1>1, <1>4, <2>1, <2>2, MessagesDiffer DEF Queued
<1> QED BY <1>2, <1>5

\* execute returns with every system completed and no thread left; it leaves no message
\* behind but the Kill of a thread that panicked, unless every thread did.
THEOREM ReturnIsClean == Spec => []CleanReturn
<1>1. ASSUME IInv, KInv, [Next]_vars PROVE KInv'
  <2>1. CASE Next
    BY <1>1, <2>1, MainKInv, WorkerKInv DEF Next
  <2>2. CASE UNCHANGED vars
    BY <1>1, <2>2 DEF vars, main, queues, KInv, KillsLast, KillsInQueue, KillsTaken,
                 EndedThreads, Left
  <2> QED BY <1>1, <2>1, <2>2
<1> QED BY <1>1, InitKInv, ReturnedIsClean, ExecutorInvariant, PTL DEF Spec

=============================================================================
