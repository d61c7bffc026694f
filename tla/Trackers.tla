------------------------------ MODULE Trackers ------------------------------
(***************************************************************************)
(* How systems learn what happened since they last ran.                    *)
(*                                                                         *)
(* The world counts ticks, 32 bits that wrap around; every system takes    *)
(* one when it begins and marks what it writes with it.  Something is new  *)
(* to a system if its mark is younger than the system's last tick.  Ages   *)
(* are differences modulo 2^32, so marks are moved up before they get too  *)
(* old, at the start of a schedule.                                        *)
(*                                                                         *)
(* Events are such a value.  They lie in two buffers; an update drops the  *)
(* older one, and a registry calls it only if events were sent lately.     *)
(* Every reader has a cursor of its own into the two.                      *)
(*                                                                         *)
(* One kind of events is modelled; what else runs in the world shows as    *)
(* ticks that pass.                                                        *)
(***************************************************************************)
EXTENDS Integers, Sequences, FiniteSets

CONSTANTS Modulus,    \* 2^32
          Threshold,  \* CHECK_TICK_THRESHOLD
          Readers,    \* systems with an EventReader
          NotRunning,
          MaxEvents,  \* bound: how many events are sent
          MaxTime     \* bound: how many ticks pass

MAX_CHANGE_AGE == Modulus - 1 - (2 * Threshold - 1)

ASSUME TicksAssumption ==
  /\ Modulus \in Nat /\ Threshold \in Nat \ {0}
  /\ MAX_CHANGE_AGE > 0

Tick == 0 .. Modulus - 1

(***************************************************************************)
(* Tick                                                                    *)
(***************************************************************************)
\* wrapping_sub and wrapping_add(1)
relative_to(t, other) == IF t >= other THEN t - other ELSE t - other + Modulus
successor(t) == IF t = Modulus - 1 THEN 0 ELSE t + 1

AtMost(n, bound) == IF n < bound THEN n ELSE bound

is_newer_than(t, last_run, this_run) ==
  AtMost(relative_to(this_run, last_run), MAX_CHANGE_AGE)
    > AtMost(relative_to(this_run, t), MAX_CHANGE_AGE)

\* Mutant: what has just reached the greatest age is left alone.
check_tick_late(t, now) ==
  IF relative_to(now, t) > MAX_CHANGE_AGE + 1
  THEN relative_to(now, MAX_CHANGE_AGE) ELSE t

check_tick(t, now) ==
  IF relative_to(now, t) > MAX_CHANGE_AGE
  THEN relative_to(now, MAX_CHANGE_AGE) ELSE t

(***************************************************************************)
(* Events: ids count from 0.                                               *)
(***************************************************************************)
NoEvents == [events |-> <<>>, start_event_count |-> 0]

\* Slice::get(k..), nothing if that is behind the end.
From(s, k) == SubSeq(s, k + 1, Len(s))

saturating_sub(n, k) == IF n > k THEN n - k ELSE 0

\* What EventIteratorWithId::new finds for a cursor.
Unread(e, cursor) ==
  From(e.a.events, saturating_sub(cursor, e.a.start_event_count))
    \o From(e.b.events, saturating_sub(cursor, e.b.start_event_count))

send(e) == [e EXCEPT !.b.events = Append(@, e.event_count), !.event_count = @ + 1]

\* Mutant: the start of the new buffer is not set.
update_keeping_start(e) ==
  [e EXCEPT !.a = e.b, !.b = [e.a EXCEPT !.events = <<>>]]

update(e) ==
  [e EXCEPT !.a = e.b,
            !.b = [events |-> <<>>, start_event_count |-> e.event_count]]

clear(e) ==
  LET empty == [events |-> <<>>, start_event_count |-> e.event_count]
  IN  [e EXCEPT !.a = empty, !.b = empty]

(***************************************************************************)
(* State                                                                   *)
(***************************************************************************)
VARIABLES
  change_tick,        \* of the world
  last_check_tick,    \* of the world: when marks were last moved up
  changed,            \* mark of Events
  last_run, this_run, \* of every system
  events,             \* the value
  cursor,             \* reader -> last_event_count
  registry,           \* should_update, previously_updated, and the Local
                      \* last_change_tick of event_update_system
  time,               \* history: ticks since the world was made
  chance,             \* history: when a schedule last started
  wrote,              \* history: when Events was last written
  ran,                \* history: when each system last began, and begins now
  news,               \* history: systems that Events was written for
  seen,               \* history: reader -> ids it was given, in order
  age,                \* history: id -> runs of event_update_system since
  updated,            \* history: when event_update_system last ran
  slow                \* history: it once came too late to see a change

ticks == <<change_tick, last_check_tick, changed, last_run, this_run>>
values == <<events, cursor, registry>>
clock == <<time, chance, wrote, ran, news>>
log == <<seen, age, updated, slow>>
vars == <<ticks, values, clock, log>>

Init ==
  /\ change_tick = 1 /\ last_check_tick = 0 /\ changed = 1
  /\ last_run = [s \in Readers |-> relative_to(1, MAX_CHANGE_AGE)]
  /\ this_run = [s \in Readers |-> NotRunning]
  /\ events = [a |-> NoEvents, b |-> NoEvents, event_count |-> 0]
  /\ cursor = [r \in Readers |-> 0]
  /\ registry = [should_update |-> "Always", previously_updated |-> FALSE,
                 last_change_tick |-> 0]
  /\ time = 1 /\ chance = 0 /\ wrote = 1
  /\ ran = [s \in Readers |-> [last |-> 1 - MAX_CHANGE_AGE, this |-> 1]]
  /\ news = Readers
  /\ seen = [r \in Readers |-> <<>>]
  /\ age = <<>>
  /\ updated = 0 /\ slow = FALSE

Running(s) == this_run[s] # NotRunning
Quiet == \A s \in Readers : ~Running(s)

\* A system takes a tick.  A schedule starts at least once in so many.
increment_change_tick ==
  /\ time < chance + Threshold
  /\ time < MaxTime
  /\ change_tick' = successor(change_tick)
  /\ time' = time + 1

(***************************************************************************)
(* Readers                                                                 *)
(***************************************************************************)
\* FunctionSystem::run_unsafe of a reader begins, and ends.
Begin(r) ==
  /\ ~Running(r)
  /\ this_run' = [this_run EXCEPT ![r] = change_tick]
  /\ ran' = [ran EXCEPT ![r].this = time]
  /\ increment_change_tick
  /\ UNCHANGED <<last_check_tick, changed, last_run, values, chance, wrote, news, log>>

End(r) ==
  /\ Running(r)
  /\ last_run' = [last_run EXCEPT ![r] = this_run[r]]
  /\ this_run' = [this_run EXCEPT ![r] = NotRunning]
  /\ ran' = [ran EXCEPT ![r].last = ran[r].this]
  /\ news' = news \ {r}
  /\ UNCHANGED <<change_tick, last_check_tick, changed, values, time, chance, wrote, log>>

\* Something else runs, or clear_trackers.
Other ==
  /\ increment_change_tick
  /\ UNCHANGED <<last_check_tick, changed, last_run, this_run, values, chance, wrote,
                 ran, news, log>>

\* Events is written through a pointer that marks it with the tick of whoever
\* writes.  Nobody else touches it meanwhile, so a writer is one step.
Write(e) ==
  /\ Quiet
  /\ events' = e
  /\ changed' = change_tick
  /\ wrote' = time
  /\ news' = Readers
  /\ UNCHANGED <<last_check_tick, last_run, this_run, cursor, registry, chance, ran,
                 seen, updated, slow>>

\* A system has its tick to itself; the world goes on with the same.
Alone == increment_change_tick
Direct == UNCHANGED <<change_tick, time>>

\* EventWriter::send, World::send_event
Send ==
  /\ events.event_count < MaxEvents
  /\ Write(send(events))
  /\ age' = Append(age, 0)
  /\ Alone \/ Direct

\* Events::clear, and drain, which leaves the same behind.
Clear ==
  /\ Write(clear(events))
  /\ age' = [id \in DOMAIN age |-> 2]
  /\ Alone \/ Direct

\* A reader takes the first k events it has not read.
Read(r, k) ==
  LET unread == Unread(events, cursor[r])
  IN  /\ Running(r)
      /\ k \in 1 .. Len(unread)
      /\ cursor' = [cursor EXCEPT ![r] = events.event_count - Len(unread) + k]
      /\ seen' = [seen EXCEPT ![r] = @ \o SubSeq(unread, 1, k)]
      /\ UNCHANGED <<ticks, events, registry, clock, age, updated, slow>>

(***************************************************************************)
(* The update of events                                                    *)
(***************************************************************************)
\* EventRegistry::run_updates
has_changed == is_newer_than(changed, registry.last_change_tick, change_tick)

\* Mutant: the older buffer waits for the next change.
must_update_on_change == has_changed

\* Also once more when nothing changed any more, to drop the older buffer.
must_update == registry.previously_updated \/ has_changed

\* event_update_condition and event_update_system, an exclusive system.
Update ==
  /\ Quiet
  /\ registry.should_update \in {"Always", "Ready"}
  /\ events' = IF must_update THEN update(events) ELSE events
  /\ registry' =
       [should_update |-> IF registry.should_update = "Always"
                          THEN "Always" ELSE "Waiting",
        previously_updated |->
          must_update /\ (has_changed \/ ~registry.previously_updated),
        last_change_tick |-> change_tick]
  /\ increment_change_tick
  /\ age' = [id \in DOMAIN age |-> AtMost(age[id] + 1, 2)]
  /\ updated' = time
  /\ slow' = (slow \/ time - updated >= MAX_CHANGE_AGE)
  /\ UNCHANGED <<last_check_tick, changed, last_run, this_run, cursor, chance, wrote,
                 ran, news, seen>>

\* signal_event_update_system
Signal ==
  /\ registry' = [registry EXCEPT !.should_update = "Ready"]
  /\ increment_change_tick
  /\ UNCHANGED <<last_check_tick, changed, last_run, this_run, events, cursor, chance,
                 wrote, ran, news, log>>

(***************************************************************************)
(* World::check_change_ticks, at the start of a schedule.  The systems of  *)
(* that schedule are not among those of the world while it runs, and are   *)
(* left out.                                                               *)
(***************************************************************************)
StartSchedule(schedule) ==
  /\ Quiet
  /\ chance' = time
  /\ IF relative_to(change_tick, last_check_tick) < Threshold
     THEN UNCHANGED <<last_check_tick, changed, last_run>>
     ELSE /\ last_check_tick' = change_tick
          /\ changed' = check_tick(changed, change_tick)
          /\ last_run' = [s \in Readers |-> IF s \in schedule THEN last_run[s]
                                            ELSE check_tick(last_run[s], change_tick)]
  /\ UNCHANGED <<change_tick, this_run, values, time, wrote, ran, news, log>>

Next ==
  \/ \E r \in Readers : Begin(r) \/ End(r)
  \/ \E r \in Readers, k \in 1 .. MaxEvents : Read(r, k)
  \/ Send \/ Clear \/ Other \/ Update \/ Signal
  \/ \E schedule \in SUBSET Readers : StartSchedule(schedule)

Spec == Init /\ [][Next]_vars

(***************************************************************************)
(* Properties                                                              *)
(***************************************************************************)
\* is_changed, as a running system sees it.
is_changed(s) == is_newer_than(changed, last_run[s], this_run[s])

\* A system is told of a change exactly if there was one since its last run
\* that is not older than MAX_CHANGE_AGE ticks: no wrap-around hides a change
\* or shows an old one again.  A system that did not run for 2^32 ticks is
\* excused: it may always have been in the schedule that was just starting.
ChangesAreSeen ==
  \A s \in Readers :
    Running(s) /\ ran[s].this - ran[s].last < Modulus =>
      (is_changed(s) <=> s \in news /\ ran[s].this - wrote < MAX_CHANGE_AGE)

Stored == {events.a.events[i] : i \in DOMAIN events.a.events}
            \cup {events.b.events[i] : i \in DOMAIN events.b.events}

Seen(r) == {seen[r][i] : i \in DOMAIN seen[r]}

\* A reader gets every event once, in the order they were sent, unless it was
\* cleared or the reader did not read between two updates.
ReadOnce ==
  \A r \in Readers :
    LET all == seen[r] \o Unread(events, cursor[r])
    IN  /\ \A i, j \in DOMAIN all : i < j => all[i] < all[j]
        /\ \A id \in 0 .. events.event_count - 1 :
             (\A i \in DOMAIN all : all[i] # id) => age[id + 1] >= 2

\* An event is dropped by the second run of event_update_system after it was
\* sent, also when nothing is sent any more; unless the system came so late
\* once that it took the last change for an old one.
NothingIsKept == slow \/ \A id \in Stored : age[id + 1] < 2
=============================================================================
