--------------------------- MODULE TrackersProofs ---------------------------
(***************************************************************************)
(* No wrap-around of the ticks hides a change or shows an old one again,   *)
(* whatever the width of a tick and the threshold of the scan are.         *)
(*                                                                         *)
(* A mark's age, by the ticks, is its age in time up to MAX_CHANGE_AGE and *)
(* not less than that afterwards.  This is inductive because a mark that   *)
(* is scanned never gets older than MAX_CHANGE_AGE by more than the ticks  *)
(* since the scan, which are fewer than 2 * Threshold: one Threshold until *)
(* a schedule starts and finds the scan due, one until a schedule starts.  *)
(***************************************************************************)
EXTENDS Trackers, SequenceTheorems, TLAPS

\* What the ticks show of an age is as good as the true one.
Exact(shown, true) ==
  /\ shown <= true
  /\ true <= MAX_CHANGE_AGE => shown = true
  /\ true > MAX_CHANGE_AGE => shown >= MAX_CHANGE_AGE

SinceScan == relative_to(change_tick, last_check_tick)

TicksTyped ==
  /\ change_tick \in Tick /\ last_check_tick \in Tick /\ changed \in Tick
  /\ last_run \in [Readers -> Tick]
  /\ this_run \in [Readers -> Tick \cup {NotRunning}]
  /\ time \in Int /\ chance \in Int /\ wrote \in Int
  /\ ran \in [Readers -> [last : Int, this : Int]]

\* The scan is never overdue by more than a Threshold.
ScanIsDue ==
  /\ chance <= time /\ time <= chance + Threshold
  /\ SinceScan <= time - chance + Threshold - 1

\* The mark of Events is always scanned.
ChangedExact ==
  /\ Exact(relative_to(change_tick, changed), time - wrote)
  /\ relative_to(change_tick, changed) <= MAX_CHANGE_AGE + SinceScan

\* The tick of a system may never be, and wraps if the system does not run.
RanExact ==
  \A s \in Readers :
    time - ran[s].last < Modulus =>
      Exact(relative_to(change_tick, last_run[s]), time - ran[s].last)

\* So does the tick a system runs with.
BeganExact ==
  \A s \in Readers :
    Running(s) /\ time - ran[s].this < Modulus =>
      Exact(relative_to(change_tick, this_run[s]), time - ran[s].this)

\* A change is news to the systems that began before it.
NewsIsLater ==
  /\ wrote <= time
  /\ \A s \in Readers :
       /\ s \in news <=> wrote > ran[s].last
       /\ ran[s].last < time
       /\ Running(s) => wrote <= ran[s].this /\ ran[s].this < time

IInv ==
  /\ TicksTyped /\ ScanIsDue /\ ChangedExact /\ RanExact /\ BeganExact /\ NewsIsLater
  /\ ChangesAreSeen

-----------------------------------------------------------------------------
(***************************************************************************)
(* Ages by the ticks.                                                      *)
(***************************************************************************)
LEMMA Bounds ==
  /\ Modulus \in Nat /\ Threshold \in Nat /\ Threshold > 0
  /\ MAX_CHANGE_AGE \in Nat /\ MAX_CHANGE_AGE > 0
  /\ MAX_CHANGE_AGE + 2 * Threshold = Modulus
  BY TicksAssumption DEF MAX_CHANGE_AGE

LEMMA RelativeType ==
  ASSUME NEW t \in Tick, NEW o \in Tick
  PROVE  relative_to(t, o) \in Tick /\ relative_to(t, t) = 0
  BY Bounds DEF relative_to, Tick

LEMMA OneTickLater ==
  ASSUME NEW t \in Tick, NEW o \in Tick, NEW true \in Int,
         Exact(relative_to(t, o), true), relative_to(t, o) + 1 < Modulus
  PROVE  /\ successor(t) \in Tick
         /\ relative_to(successor(t), o) = relative_to(t, o) + 1
         /\ Exact(relative_to(successor(t), o), true + 1)
  BY Bounds DEF relative_to, successor, Tick, Exact

\* A scan makes a mark as old as it was, but not older than MAX_CHANGE_AGE.
LEMMA Scanned ==
  ASSUME NEW t \in Tick, NEW now \in Tick
  PROVE  /\ check_tick(t, now) \in Tick
         /\ relative_to(now, check_tick(t, now))
              = AtMost(relative_to(now, t), MAX_CHANGE_AGE)
  BY Bounds DEF check_tick, relative_to, Tick, AtMost

\* is_newer_than of exact ages compares the true ones.
LEMMA NewerIsExact ==
  ASSUME NEW t \in Tick, NEW o \in Tick, NEW now \in Tick,
         NEW age_t \in Int, NEW age_o \in Int,
         Exact(relative_to(now, t), age_t), Exact(relative_to(now, o), age_o)
  PROVE  is_newer_than(t, o, now) <=> age_t < age_o /\ age_t < MAX_CHANGE_AGE
  BY Bounds DEF is_newer_than, relative_to, Tick, AtMost, Exact

-----------------------------------------------------------------------------
(***************************************************************************)
(* The inductive invariant.                                                *)
(***************************************************************************)
LEMMA InitIInv == Init => IInv
<1> SUFFICES ASSUME Init PROVE IInv OBVIOUS
<1> USE DEF Init
<1>1. MAX_CHANGE_AGE \in Tick /\ 1 \in Tick /\ 0 \in Tick
  BY Bounds DEF Tick
<1>2. relative_to(1, MAX_CHANGE_AGE) \in Tick
  BY <1>1, RelativeType
<1>3. TicksTyped
  BY <1>1, <1>2, Bounds DEF TicksTyped
<1>4. ScanIsDue /\ ChangedExact
  BY <1>1, Bounds DEF ScanIsDue, SinceScan, ChangedExact, Exact, relative_to
<1>5. relative_to(1, relative_to(1, MAX_CHANGE_AGE)) = MAX_CHANGE_AGE
  BY <1>1, Bounds DEF relative_to, Tick
<1>6. RanExact /\ BeganExact /\ NewsIsLater
  BY <1>5, Bounds DEF RanExact, BeganExact, NewsIsLater, Exact, Running
<1>7. ChangesAreSeen
  BY DEF ChangesAreSeen, Running
<1> QED
  BY <1>3, <1>4, <1>6, <1>7 DEF IInv

\* A tick passes for the scan.
LEMMA TickPasses ==
  ASSUME TicksTyped, ScanIsDue, increment_change_tick,
         UNCHANGED <<last_check_tick, chance>>
  PROVE  /\ time' \in Int /\ change_tick' \in Tick
         /\ ScanIsDue' /\ SinceScan' = SinceScan + 1
<1>1. SinceScan \in Tick /\ SinceScan + 1 < Modulus
  BY RelativeType, Bounds DEF TicksTyped, ScanIsDue, SinceScan, increment_change_tick, Tick
<1>2. Exact(SinceScan, SinceScan)
  BY <1>1, Bounds DEF Exact, Tick
<1>3. change_tick' \in Tick /\ SinceScan' = SinceScan + 1
  BY <1>1, <1>2, OneTickLater DEF TicksTyped, SinceScan, increment_change_tick, Tick
<1> QED
  BY <1>1, <1>3, Bounds DEF TicksTyped, ScanIsDue, increment_change_tick, Tick

\* A tick passes for a mark `o` of Events, written at time `w`.
LEMMA MarkAges ==
  ASSUME TicksTyped, ScanIsDue, increment_change_tick,
         UNCHANGED <<last_check_tick, chance>>,
         NEW o \in Tick, NEW w \in Int,
         Exact(relative_to(change_tick, o), time - w),
         relative_to(change_tick, o) <= MAX_CHANGE_AGE + SinceScan
  PROVE  /\ Exact(relative_to(change_tick', o), time' - w)
         /\ relative_to(change_tick', o) <= MAX_CHANGE_AGE + SinceScan'
<1>1. SinceScan \in Tick /\ relative_to(change_tick, o) \in Tick
  BY RelativeType DEF TicksTyped, SinceScan
<1>2. relative_to(change_tick, o) + 1 < Modulus
  BY <1>1, Bounds DEF TicksTyped, ScanIsDue, increment_change_tick, Tick
<1>3. SinceScan' = SinceScan + 1
  BY TickPasses
<1>4. time - w \in Int /\ time' - w = (time - w) + 1
  BY DEF TicksTyped, increment_change_tick
<1>5. /\ relative_to(change_tick', o) = relative_to(change_tick, o) + 1
      /\ Exact(relative_to(change_tick', o), (time - w) + 1)
  BY <1>2, <1>4, OneTickLater DEF TicksTyped, increment_change_tick
<1> QED
  BY <1>1, <1>3, <1>4, <1>5, Bounds DEF Tick

\* A tick passes for a system that last ran at time `w` with tick `o`.
LEMMA SystemAges ==
  ASSUME TicksTyped, increment_change_tick,
         NEW o \in Tick, NEW w \in Int, w <= time,
         time - w < Modulus => Exact(relative_to(change_tick, o), time - w)
  PROVE  time' - w < Modulus => Exact(relative_to(change_tick', o), time' - w)
<1> SUFFICES ASSUME time' - w < Modulus
             PROVE  Exact(relative_to(change_tick', o), time' - w)
  OBVIOUS
<1>1. time - w \in Int /\ time' - w = (time - w) + 1 /\ time - w < Modulus
  BY Bounds DEF TicksTyped, increment_change_tick
<1>2. relative_to(change_tick, o) \in Tick
  BY RelativeType DEF TicksTyped
<1>3. relative_to(change_tick, o) + 1 < Modulus
  BY <1>1, <1>2, Bounds DEF Exact, Tick
<1> QED
  BY <1>1, <1>3, OneTickLater DEF TicksTyped, increment_change_tick

\* A tick passes and nothing is written: what is known of ages stays true.
LEMMA AllAge ==
  ASSUME IInv, increment_change_tick,
         UNCHANGED <<last_check_tick, chance, changed, wrote, last_run>>,
         \A s \in Readers : ran'[s].last = ran[s].last
  PROVE  ChangedExact' /\ RanExact'
<1> USE DEF IInv
<1>1. time - wrote \in Int /\ changed \in Tick /\ wrote \in Int
  BY DEF TicksTyped
<1>2. ChangedExact'
  BY <1>1, MarkAges DEF ChangedExact
<1>3. ASSUME NEW s \in Readers
      PROVE  time' - ran[s].last < Modulus =>
               Exact(relative_to(change_tick', last_run[s]), time' - ran[s].last)
  BY SystemAges DEF TicksTyped, RanExact, NewsIsLater
<1>4. RanExact'
  BY <1>3 DEF RanExact
<1> QED
  BY <1>2, <1>4

\* The same for a system that goes on running.
LEMMA RunningAges ==
  ASSUME IInv, increment_change_tick, NEW s \in Readers, Running(s),
         this_run'[s] = this_run[s], ran'[s] = ran[s],
         (time - ran[s].this < Modulus)'
  PROVE  Exact(relative_to(change_tick, this_run[s]), time - ran[s].this)'
<1> USE DEF IInv
<1>1. this_run[s] \in Tick /\ ran[s].this \in Int /\ ran[s].this <= time
  BY DEF TicksTyped, Running, NewsIsLater
<1>2. time - ran[s].this < Modulus =>
        Exact(relative_to(change_tick, this_run[s]), time - ran[s].this)
  BY DEF BeganExact
<1> QED
  BY <1>1, <1>2, SystemAges

\* A system that goes on running sees what it saw.
LEMMA RunningSees ==
  ASSUME IInv, UNCHANGED <<changed, wrote>>, NEW s \in Readers, Running(s),
         this_run'[s] = this_run[s], last_run'[s] = last_run[s], ran'[s] = ran[s],
         s \in news' <=> s \in news, (ran[s].this - ran[s].last < Modulus)'
  PROVE  (is_changed(s) <=> s \in news /\ ran[s].this - wrote < MAX_CHANGE_AGE)'
  BY DEF IInv, ChangesAreSeen, is_changed

LEMMA BeginIInv ==
  ASSUME IInv, NEW r \in Readers, Begin(r)
  PROVE  IInv'
<1> USE DEF IInv
<1>1. /\ increment_change_tick /\ time' = time + 1
      /\ change_tick' = successor(change_tick)
      /\ UNCHANGED <<last_check_tick, chance, changed, wrote, last_run, news>>
      /\ this_run' = [this_run EXCEPT ![r] = change_tick]
      /\ ran' = [ran EXCEPT ![r].this = time]
  BY DEF Begin, increment_change_tick
<1>2. TicksTyped'
  BY <1>1, TickPasses DEF TicksTyped
<1>3. ScanIsDue'
  BY <1>1, TickPasses
<1>4. /\ \A s \in Readers : ran'[s].last = ran[s].last
      /\ this_run'[r] = change_tick /\ ran'[r].this = time
      /\ \A s \in Readers \ {r} : this_run'[s] = this_run[s] /\ ran'[s] = ran[s]
  BY <1>1 DEF TicksTyped
<1>5. ChangedExact' /\ RanExact'
  BY <1>1, <1>4, AllAge
<1>6. NewsIsLater'
  BY <1>1, <1>4 DEF NewsIsLater, TicksTyped, Running
<1>7. BeganExact'
  <2> SUFFICES ASSUME NEW s \in Readers, Running(s)', (time - ran[s].this < Modulus)'
               PROVE  Exact(relative_to(change_tick, this_run[s]), time - ran[s].this)'
    BY DEF BeganExact
  <2>1. CASE s = r
    <3>1. relative_to(change_tick, change_tick) = 0 /\ change_tick \in Tick
      BY RelativeType DEF TicksTyped
    <3>2. Exact(0, 0) /\ 0 + 1 < Modulus /\ 0 \in Int /\ time' - time = 0 + 1
      BY <1>1, Bounds DEF Exact, TicksTyped
    <3>3. Exact(relative_to(change_tick', change_tick), 0 + 1)
      BY <1>1, <3>1, <3>2, OneTickLater
    <3> QED
      BY <1>4, <2>1, <3>2, <3>3
  <2>2. CASE s # r
    BY <1>1, <1>4, <2>2, RunningAges DEF Running
  <2> QED
    BY <2>1, <2>2
<1>8. ChangesAreSeen'
  <2> SUFFICES ASSUME NEW s \in Readers, Running(s)', (ran[s].this - ran[s].last < Modulus)'
               PROVE  (is_changed(s) <=> s \in news /\ ran[s].this - wrote < MAX_CHANGE_AGE)'
    BY DEF ChangesAreSeen
  <2>1. CASE s = r
    <3>1. Exact(relative_to(change_tick, last_run[r]), time - ran[r].last)
      BY <1>4, <2>1 DEF RanExact
    <3>2. is_newer_than(changed, last_run[r], change_tick)
            <=> time - wrote < time - ran[r].last /\ time - wrote < MAX_CHANGE_AGE
      BY <3>1, NewerIsExact DEF TicksTyped, ChangedExact
    <3> QED
      BY <1>1, <1>4, <2>1, <3>2 DEF is_changed, NewsIsLater, TicksTyped
  <2>2. CASE s # r
    BY <1>1, <1>4, <2>2, RunningSees DEF Running
  <2> QED
    BY <2>1, <2>2
<1> QED
  BY <1>2, <1>3, <1>5, <1>6, <1>7, <1>8

LEMMA EndIInv ==
  ASSUME IInv, NEW r \in Readers, End(r)
  PROVE  IInv'
<1> USE DEF IInv
<1>1. /\ Running(r)
      /\ UNCHANGED <<change_tick, time, last_check_tick, chance, changed, wrote>>
      /\ last_run' = [last_run EXCEPT ![r] = this_run[r]]
      /\ this_run' = [this_run EXCEPT ![r] = NotRunning]
      /\ ran' = [ran EXCEPT ![r].last = ran[r].this]
      /\ news' = news \ {r}
  BY DEF End
<1>2. this_run[r] \in Tick
  BY <1>1 DEF TicksTyped, Running
<1>3. TicksTyped'
  BY <1>1, <1>2 DEF TicksTyped
<1>4. /\ last_run'[r] = this_run[r] /\ this_run'[r] = NotRunning
      /\ ran'[r].last = ran[r].this /\ ran'[r].this = ran[r].this
      /\ \A s \in Readers \ {r} : /\ this_run'[s] = this_run[s] /\ ran'[s] = ran[s]
                                  /\ last_run'[s] = last_run[s]
  BY <1>1 DEF TicksTyped
<1>5. ScanIsDue' /\ ChangedExact'
  BY <1>1 DEF ScanIsDue, SinceScan, ChangedExact
<1>6. RanExact'
  BY <1>1, <1>4 DEF RanExact, BeganExact
<1>7. BeganExact'
  BY <1>1, <1>4 DEF BeganExact, Running
<1>8. NewsIsLater'
  BY <1>1, <1>4 DEF NewsIsLater, Running, TicksTyped
<1>9. ChangesAreSeen'
  BY <1>1, <1>4, RunningSees DEF ChangesAreSeen, Running
<1> QED
  BY <1>3, <1>5, <1>6, <1>7, <1>8, <1>9

\* A tick passes while readers neither begin nor end.
LEMMA TickIInv ==
  ASSUME IInv, increment_change_tick,
         UNCHANGED <<last_check_tick, chance, changed, wrote, last_run, this_run, ran, news>>
  PROVE  IInv'
<1> USE DEF IInv
<1>1. TicksTyped' /\ ScanIsDue'
  BY TickPasses DEF TicksTyped
<1>2. ChangedExact' /\ RanExact'
  BY AllAge
<1>3. BeganExact'
  BY RunningAges DEF BeganExact, Running
<1>4. NewsIsLater'
  BY DEF NewsIsLater, Running, TicksTyped, increment_change_tick
<1>5. ChangesAreSeen'
  BY DEF ChangesAreSeen, is_changed, Running
<1> QED
  BY <1>1, <1>2, <1>3, <1>4, <1>5

\* Whoever writes Events does so with the present tick, and may take the next.
LEMMA WriteIInv ==
  ASSUME IInv, NEW e, Write(e), Alone \/ Direct
  PROVE  IInv'
<1> USE DEF IInv
<1>1. /\ Quiet /\ changed' = change_tick /\ wrote' = time /\ news' = Readers
      /\ UNCHANGED <<last_check_tick, last_run, this_run, chance, ran>>
  BY DEF Write
<1>2. \A s \in Readers : ~Running(s) /\ ~Running(s)'
  BY <1>1 DEF Quiet, Running
<1>3. BeganExact' /\ ChangesAreSeen'
  BY <1>2 DEF BeganExact, ChangesAreSeen
<1>4. NewsIsLater'
  <2>1. time <= time' /\ time \in Int /\ time' \in Int
    BY DEF TicksTyped, Alone, Direct, increment_change_tick
  <2>2. \A s \in Readers : time > ran[s].last
    BY DEF NewsIsLater, TicksTyped
  <2> QED
    BY <1>1, <1>2, <2>1, <2>2 DEF NewsIsLater, TicksTyped
<1>5. relative_to(change_tick, change_tick) = 0 /\ SinceScan \in Tick
  BY RelativeType DEF TicksTyped, SinceScan
<1>6. Exact(0, time - time) /\ 0 <= MAX_CHANGE_AGE + SinceScan
  BY <1>5, Bounds DEF Exact, TicksTyped, Tick
<1>7. CASE Alone
  <2> USE <1>7 DEF Alone
  <2>1. TicksTyped' /\ ScanIsDue'
    BY <1>1, TickPasses DEF TicksTyped
  <2>2. ChangedExact'
    BY <1>1, <1>5, <1>6, MarkAges DEF ChangedExact, TicksTyped
  <2>3. RanExact'
    <3>1. ASSUME NEW s \in Readers
          PROVE  time' - ran[s].last < Modulus =>
                   Exact(relative_to(change_tick', last_run[s]), time' - ran[s].last)
      BY SystemAges DEF TicksTyped, RanExact, NewsIsLater
    <3> QED
      BY <1>1, <3>1 DEF RanExact
  <2> QED
    BY <1>3, <1>4, <2>1, <2>2, <2>3
<1>8. CASE Direct
  <2>1. UNCHANGED <<change_tick, time>>
    BY <1>8 DEF Direct
  <2>2. TicksTyped' /\ ScanIsDue' /\ RanExact'
    BY <1>1, <2>1 DEF TicksTyped, ScanIsDue, SinceScan, RanExact
  <2>3. ChangedExact'
    BY <1>1, <1>5, <1>6, <2>1 DEF ChangedExact, SinceScan
  <2> QED
    BY <1>3, <1>4, <2>2, <2>3
<1> QED
  BY <1>7, <1>8

LEMMA StartScheduleIInv ==
  ASSUME IInv, NEW schedule \in SUBSET Readers, StartSchedule(schedule)
  PROVE  IInv'
<1> USE DEF IInv
<1>1. /\ Quiet /\ chance' = time
      /\ UNCHANGED <<change_tick, this_run, time, wrote, ran, news>>
  BY DEF StartSchedule
<1>2. \A s \in Readers : ~Running(s) /\ ~Running(s)'
  BY <1>1 DEF Quiet, Running
<1>3. BeganExact' /\ ChangesAreSeen' /\ NewsIsLater'
  BY <1>1, <1>2 DEF BeganExact, ChangesAreSeen, NewsIsLater
<1>4. CASE SinceScan < Threshold
  <2>1. UNCHANGED <<last_check_tick, changed, last_run>>
    BY <1>4 DEF StartSchedule, SinceScan
  <2>2. TicksTyped' /\ ChangedExact' /\ RanExact'
    BY <1>1, <2>1 DEF TicksTyped, ChangedExact, RanExact, SinceScan
  <2>3. SinceScan \in Tick /\ SinceScan' = SinceScan
    BY <1>1, <2>1, RelativeType DEF TicksTyped, SinceScan
  <2>4. ScanIsDue'
    BY <1>1, <1>4, <2>3, Bounds DEF ScanIsDue, TicksTyped, Tick
  <2> QED
    BY <1>3, <2>2, <2>4
<1>5. CASE ~(SinceScan < Threshold)
  <2>1. /\ last_check_tick' = change_tick
        /\ changed' = check_tick(changed, change_tick)
        /\ last_run' = [s \in Readers |-> IF s \in schedule THEN last_run[s]
                                          ELSE check_tick(last_run[s], change_tick)]
    BY <1>5 DEF StartSchedule, SinceScan
  <2>2. TicksTyped'
    BY <1>1, <2>1, Scanned DEF TicksTyped
  <2>3. SinceScan' = 0
    BY <1>1, <2>1, RelativeType DEF SinceScan, TicksTyped
  <2>4. ScanIsDue'
    BY <1>1, <2>3, Bounds DEF ScanIsDue, TicksTyped
  <2>5. ASSUME NEW o \in Tick, NEW true \in Int, Exact(relative_to(change_tick, o), true)
        PROVE  /\ Exact(relative_to(change_tick, check_tick(o, change_tick)), true)
               /\ relative_to(change_tick, check_tick(o, change_tick)) <= MAX_CHANGE_AGE
    <3>1. relative_to(change_tick, o) \in Int
      BY RelativeType DEF TicksTyped, Tick
    <3>2. relative_to(change_tick, check_tick(o, change_tick))
            = AtMost(relative_to(change_tick, o), MAX_CHANGE_AGE)
      BY Scanned DEF TicksTyped
    <3> QED
      BY <2>5, <3>1, <3>2, Bounds DEF Exact, AtMost
  <2>6. ChangedExact'
    BY <1>1, <2>1, <2>3, <2>5, Bounds DEF ChangedExact, TicksTyped
  <2>7. RanExact'
    <3> SUFFICES ASSUME NEW s \in Readers, time - ran[s].last < Modulus
                 PROVE  Exact(relative_to(change_tick, last_run'[s]), time - ran[s].last)
      BY <1>1 DEF RanExact
    <3>1. /\ Exact(relative_to(change_tick, last_run[s]), time - ran[s].last)
          /\ last_run[s] \in Tick /\ time - ran[s].last \in Int
      BY DEF RanExact, TicksTyped
    <3> QED
      BY <2>1, <2>5, <3>1
  <2> QED
    BY <1>3, <2>2, <2>4, <2>6, <2>7
<1> QED
  BY <1>4, <1>5

LEMMA NextIInv == IInv /\ [Next]_vars => IInv'
<1> SUFFICES ASSUME IInv, [Next]_vars PROVE IInv' OBVIOUS
<1>1. ASSUME NEW r \in Readers, Begin(r) PROVE IInv'
  BY <1>1, BeginIInv
<1>2. ASSUME NEW r \in Readers, End(r) PROVE IInv'
  BY <1>2, EndIInv
<1>3. ASSUME UNCHANGED <<ticks, clock>> PROVE IInv'
  BY <1>3 DEF ticks, clock, IInv, TicksTyped, ScanIsDue, SinceScan, ChangedExact, RanExact,
    BeganExact, NewsIsLater, ChangesAreSeen, is_changed, Running
<1>4. ASSUME NEW r \in Readers, NEW k \in 1 .. MaxEvents, Read(r, k) PROVE IInv'
  BY <1>3, <1>4 DEF Read
<1>5. ASSUME Send PROVE IInv'
  BY <1>5, WriteIInv DEF Send
<1>6. ASSUME Clear PROVE IInv'
  BY <1>6, WriteIInv DEF Clear
<1>7. ASSUME Other PROVE IInv'
  BY <1>7, TickIInv DEF Other
<1>8. ASSUME Update PROVE IInv'
  BY <1>8, TickIInv DEF Update
<1>9. ASSUME Signal PROVE IInv'
  BY <1>9, TickIInv DEF Signal
<1>10. ASSUME NEW schedule \in SUBSET Readers, StartSchedule(schedule) PROVE IInv'
  BY <1>10, StartScheduleIInv
<1>11. CASE UNCHANGED vars
  BY <1>3, <1>11 DEF vars
<1> QED
  BY <1>1, <1>2, <1>4, <1>5, <1>6, <1>7, <1>8, <1>9, <1>10, <1>11 DEF Next

\* Every system is told of every change exactly once, however often the ticks
\* wrap around, for any width of a tick and any threshold of the scan.
THEOREM ChangesAreAlwaysSeen == Spec => []ChangesAreSeen
<1>1. IInv => ChangesAreSeen
  BY DEF IInv
<1> QED
  BY <1>1, InitIInv, NextIInv, PTL DEF Spec

-----------------------------------------------------------------------------
(***************************************************************************)
(* Events.  Every reader gets every event once and in order, and no event  *)
(* is kept for more than two updates.                                      *)
(*                                                                         *)
(* Ids are consecutive: the older buffer holds those from its start to the *)
(* start of the newer one, which holds the rest.  So what a cursor has not *)
(* read is an interval of ids, too.                                        *)
(***************************************************************************)
Start(e) == e.a.start_event_count
Middle(e) == e.b.start_event_count

\* The sequence of the ids from k to n - 1.
IsIds(s, k, n) == Len(s) = n - k /\ \A i \in 1 .. Len(s) : s[i] = k + i - 1

Buffer == [events : Seq(Nat), start_event_count : Nat]

EventsTyped ==
  /\ events \in [a : Buffer, b : Buffer, event_count : Nat]
  /\ cursor \in [Readers -> Nat]
  /\ seen \in [Readers -> Seq(Nat)]
  /\ age \in Seq(Nat)
  /\ Len(age) = events.event_count

Consecutive(e) ==
  /\ Start(e) <= Middle(e) /\ Middle(e) <= e.event_count
  /\ IsIds(e.a.events, Start(e), Middle(e))
  /\ IsIds(e.b.events, Middle(e), e.event_count)

\* What is in neither buffer, or only in the older one, is old.
AgesHold ==
  /\ \A id \in 0 .. Start(events) - 1 : age[id + 1] >= 2
  /\ \A id \in 0 .. Middle(events) - 1 : age[id + 1] >= 1

InOrder(s) == \A i, j \in 1 .. Len(s) : i < j => s[i] < s[j]
Below(s, c) == \A i \in 1 .. Len(s) : s[i] < c
Misses(s, c) ==
  \A id \in 0 .. c - 1 : (\A i \in 1 .. Len(s) : s[i] # id) => age[id + 1] >= 2

\* What a reader was given is behind its cursor, in order, and what it was not
\* given is old.
SeenHolds ==
  \A r \in Readers :
    /\ cursor[r] <= events.event_count
    /\ InOrder(seen[r]) /\ Below(seen[r], cursor[r]) /\ Misses(seen[r], cursor[r])

EInv == EventsTyped /\ Consecutive(events) /\ AgesHold /\ SeenHolds

-----------------------------------------------------------------------------
LEMMA FromType ==
  ASSUME NEW s \in Seq(Nat), NEW k \in Nat
  PROVE  /\ From(s, k) \in Seq(Nat)
         /\ Len(From(s, k)) = saturating_sub(Len(s), k)
         /\ \A i \in 1 .. Len(From(s, k)) : From(s, k)[i] = s[k + i]
<1>1. Len(s) \in Nat /\ \A i \in k + 1 .. Len(s) : s[i] \in Nat
  BY LenProperties, ElementOfSeq
<1>2. /\ From(s, k) \in Seq(Nat)
      /\ Len(From(s, k)) = IF k + 1 <= Len(s) THEN Len(s) - (k + 1) + 1 ELSE 0
      /\ \A i \in 1 .. Len(s) - (k + 1) + 1 : From(s, k)[i] = s[(k + 1) + i - 1]
  <2>1. PICK m \in Nat : m = k + 1
    OBVIOUS
  <2>2. PICK n \in Nat : n = Len(s)
    BY <1>1
  <2>3. /\ SubSeq(s, m, n) \in Seq(Nat)
        /\ Len(SubSeq(s, m, n)) = IF m <= n THEN n - m + 1 ELSE 0
        /\ \A i \in 1 .. n - m + 1 : SubSeq(s, m, n)[i] = s[m + i - 1]
    BY <1>1, <2>1, <2>2, SubSeqProperties
  <2>4. From(s, k) = SubSeq(s, m, n)
    BY <2>1, <2>2 DEF From
  <2> QED
    BY <2>1, <2>2, <2>3, <2>4
<1>3. Len(From(s, k)) = saturating_sub(Len(s), k)
  BY <1>1, <1>2 DEF saturating_sub
<1>4. ASSUME NEW i \in 1 .. Len(From(s, k)) PROVE From(s, k)[i] = s[k + i]
  <2>1. i \in 1 .. Len(s) - (k + 1) + 1 /\ (k + 1) + i - 1 = k + i
    BY <1>1, <1>2
  <2> QED
    BY <1>2, <2>1
<1> QED
  BY <1>2, <1>3, <1>4

\* The first id a cursor has not read.
FirstUnread(e, c) == IF c > Start(e) THEN c ELSE Start(e)

LEMMA UnreadIsInterval ==
  ASSUME EventsTyped, Consecutive(events), NEW c \in 0 .. events.event_count
  PROVE  /\ Unread(events, c) \in Seq(Nat)
         /\ IsIds(Unread(events, c), FirstUnread(events, c), events.event_count)
<1> DEFINE a == events.a.events
           b == events.b.events
           m == Start(events)
           n == Middle(events)
           k == events.event_count
           ka == saturating_sub(c, m)
           kb == saturating_sub(c, n)
           fa == From(a, ka)
           fb == From(b, kb)
<1>1. /\ a \in Seq(Nat) /\ b \in Seq(Nat) /\ m \in Nat /\ n \in Nat /\ k \in Nat
      /\ m <= n /\ n <= k /\ c \in Nat /\ c <= k
      /\ Len(a) = n - m /\ Len(b) = k - n
  BY DEF EventsTyped, Buffer, Consecutive, IsIds, Start, Middle
<1>2. /\ \A i \in 1 .. Len(a) : a[i] = m + i - 1
      /\ \A i \in 1 .. Len(b) : b[i] = n + i - 1
  BY DEF Consecutive, IsIds
<1>3. Unread(events, c) = fa \o fb
  BY DEF Unread, Start, Middle
<1>4. ka \in Nat /\ kb \in Nat
  BY <1>1 DEF saturating_sub
<1>5. /\ fa \in Seq(Nat) /\ Len(fa) = saturating_sub(Len(a), ka)
      /\ \A i \in 1 .. Len(fa) : fa[i] = a[ka + i]
  BY <1>1, <1>4, FromType
<1>6. /\ fb \in Seq(Nat) /\ Len(fb) = saturating_sub(Len(b), kb)
      /\ \A i \in 1 .. Len(fb) : fb[i] = b[kb + i]
  BY <1>1, <1>4, FromType
<1>7. FirstUnread(events, c) = IF c > m THEN c ELSE m
  BY DEF FirstUnread
<1>11. ka = saturating_sub(c, m) /\ kb = saturating_sub(c, n)
  OBVIOUS
<1> HIDE DEF a, b, fa, fb, m, n, k, ka, kb
<1>8. /\ fa \o fb \in Seq(Nat)
      /\ Len(fa \o fb) = Len(fa) + Len(fb)
      /\ \A i \in 1 .. Len(fa \o fb) :
           (fa \o fb)[i] = IF i <= Len(fa) THEN fa[i] ELSE fb[i - Len(fa)]
  <2>1. fa \in Seq(Nat) /\ fb \in Seq(Nat)
    BY <1>5, <1>6
  <2>2. /\ fa \o fb \in Seq(Nat)
        /\ Len(fa \o fb) = Len(fa) + Len(fb)
        /\ \A i \in 1 .. Len(fa) + Len(fb) :
             (fa \o fb)[i] = IF i <= Len(fa) THEN fa[i] ELSE fb[i - Len(fa)]
    BY <2>1, ConcatProperties, Zenon
  <2> QED
    BY <2>2, Zenon
<1>9. CASE c <= n
  <2>1. kb = 0 /\ Len(fb) = k - n
    BY <1>1, <1>6, <1>9, <1>11 DEF saturating_sub
  <2>2. ASSUME NEW i \in 1 .. Len(fb) PROVE fb[i] = n + i - 1
    <3>1. kb = 0 /\ Len(fb) = Len(b)
      BY <1>1, <2>1
    <3>2. fb[i] = b[kb + i] /\ kb + i = i /\ i \in 1 .. Len(b)
      BY <1>6, <3>1
    <3> QED
      BY <1>2, <3>2
  <2>3. Len(fa) = n - FirstUnread(events, c)
    BY <1>1, <1>5, <1>7, <1>9, <1>11 DEF saturating_sub
  <2>4. \A i \in 1 .. Len(fa) : ka + i \in 1 .. Len(a) /\ m + ka = FirstUnread(events, c)
    BY <1>1, <1>4, <1>7, <1>11, <2>3 DEF saturating_sub
  <2>5. ASSUME NEW i \in 1 .. Len(fa) PROVE fa[i] = FirstUnread(events, c) + i - 1
    <3>1. fa[i] = a[ka + i] /\ a[ka + i] = m + (ka + i) - 1
      BY <1>2, <1>5, <2>4
    <3> QED
      BY <1>1, <1>4, <2>4, <3>1
  <2>6. Len(fa \o fb) = k - FirstUnread(events, c)
    BY <1>1, <1>7, <1>8, <2>1, <2>3
  <2>7. ASSUME NEW i \in 1 .. Len(fa \o fb)
        PROVE  (fa \o fb)[i] = FirstUnread(events, c) + i - 1
    <3>1. CASE i <= Len(fa)
      BY <1>8, <2>5, <3>1
    <3>2. CASE i > Len(fa)
      <4>1. Len(fa) \in Nat /\ i - Len(fa) \in 1 .. Len(fb)
        BY <1>5, <1>6, <1>8, <3>2
      <4>2. (fa \o fb)[i] = n + (i - Len(fa)) - 1
        BY <1>8, <2>2, <3>2, <4>1
      <4> QED
        BY <1>1, <1>7, <2>3, <4>1, <4>2
    <3> QED
      BY <1>5, <3>1, <3>2
  <2> QED
    BY <1>3, <1>8, <2>6, <2>7 DEF IsIds, k
<1>10. CASE c > n
  <2>1. FirstUnread(events, c) = c /\ kb = c - n /\ ka = c - m
    BY <1>1, <1>7, <1>10, <1>11 DEF saturating_sub
  <2>2. Len(fa) = 0
    BY <1>1, <1>5, <1>10, <2>1 DEF saturating_sub
  <2>3. Len(fb) = k - c
    BY <1>1, <1>6, <1>10, <2>1 DEF saturating_sub
  <2>4. \A i \in 1 .. Len(fb) : kb + i \in 1 .. Len(b) /\ n + kb = c
    BY <1>1, <1>4, <2>1, <2>3
  <2>5. ASSUME NEW i \in 1 .. Len(fb) PROVE fb[i] = c + i - 1
    <3>1. fb[i] = b[kb + i] /\ b[kb + i] = n + (kb + i) - 1
      BY <1>2, <1>6, <2>4
    <3> QED
      BY <1>1, <1>4, <2>4, <3>1
  <2>6. Len(fa \o fb) = k - c
    BY <1>1, <1>8, <2>2, <2>3
  <2>7. ASSUME NEW i \in 1 .. Len(fa \o fb) PROVE (fa \o fb)[i] = c + i - 1
    BY <1>1, <1>8, <2>2, <2>3, <2>5, <2>6
  <2> QED
    BY <1>3, <1>8, <2>1, <2>6, <2>7 DEF IsIds, k
<1> QED
  BY <1>1, <1>9, <1>10

\* Giving a reader an interval of ids from where its cursor is.
LEMMA GivenMore ==
  ASSUME EventsTyped, AgesHold, NEW s \in Seq(Nat), NEW c \in Nat,
         InOrder(s), Below(s, c), Misses(s, c),
         NEW u \in Seq(Nat), NEW m \in Nat, IsIds(u, FirstUnread(events, c), m)
  PROVE  InOrder(s \o u) /\ Below(s \o u, m) /\ Misses(s \o u, m)
<1> DEFINE n == FirstUnread(events, c)
<1>1. /\ n \in Nat /\ c <= n /\ Start(events) \in Nat
      /\ \A id \in c .. n - 1 : id < Start(events)
  BY DEF FirstUnread, Start, EventsTyped, Buffer
<1>2. /\ Len(u) = m - n /\ Len(u) \in Nat /\ n <= m
      /\ \A i \in 1 .. Len(u) : u[i] = n + i - 1
  BY <1>1 DEF IsIds
<1>3. /\ s \o u \in Seq(Nat) /\ Len(s) \in Nat
      /\ Len(s \o u) = Len(s) + Len(u)
      /\ \A i \in 1 .. Len(s) : (s \o u)[i] = s[i]
      /\ \A i \in 1 .. Len(u) : (s \o u)[Len(s) + i] = u[i]
  OBVIOUS
<1> HIDE DEF n
<1>4. /\ \A i \in 1 .. Len(s) : (s \o u)[i] \in Nat /\ (s \o u)[i] < n
      /\ \A i \in Len(s) + 1 .. Len(s \o u) : (s \o u)[i] = n + (i - Len(s)) - 1
  <2>1. ASSUME NEW i \in 1 .. Len(s) PROVE (s \o u)[i] \in Nat /\ (s \o u)[i] < n
    BY <1>1, <1>3 DEF Below
  <2>2. ASSUME NEW i \in Len(s) + 1 .. Len(s \o u)
        PROVE  (s \o u)[i] = n + (i - Len(s)) - 1
    <3>1. i - Len(s) \in 1 .. Len(u) /\ i = Len(s) + (i - Len(s))
      BY <1>2, <1>3
    <3>2. (s \o u)[i] = u[i - Len(s)]
      BY <1>3, <3>1
    <3> QED
      BY <1>2, <3>1, <3>2
  <2> QED
    BY <2>1, <2>2
<1>5. Below(s \o u, m)
  <2> SUFFICES ASSUME NEW i \in 1 .. Len(s \o u) PROVE (s \o u)[i] < m
    BY DEF Below
  <2>1. CASE i \in 1 .. Len(s)
    BY <1>1, <1>2, <1>4, <2>1
  <2>2. CASE i \in Len(s) + 1 .. Len(s \o u)
    <3>1. (s \o u)[i] = n + (i - Len(s)) - 1
      BY <1>4, <2>2
    <3>2. i \in Int /\ i <= Len(s) + Len(u)
      BY <1>3, <2>2
    <3> QED
      BY <1>1, <1>2, <1>3, <3>1, <3>2
  <2> QED
    BY <1>2, <1>3, <2>1, <2>2
<1>6. InOrder(s \o u)
  <2> SUFFICES ASSUME NEW i \in 1 .. Len(s \o u), NEW j \in 1 .. Len(s \o u), i < j
               PROVE  (s \o u)[i] < (s \o u)[j]
    BY DEF InOrder
  <2>1. CASE j <= Len(s)
    BY <1>3, <2>1 DEF InOrder
  <2>2. CASE j > Len(s)
    <3>1. (s \o u)[j] = n + (j - Len(s)) - 1
      BY <1>3, <1>4, <2>2
    <3>2. CASE i <= Len(s)
      <4>1. i \in 1 .. Len(s)
        BY <3>2
      <4>2. (s \o u)[i] \in Nat /\ (s \o u)[i] < n
        BY <1>4, <4>1
      <4> QED
        BY <1>1, <1>3, <2>2, <3>1, <4>2, SMTT(30)
    <3>3. CASE i > Len(s)
      BY <1>1, <1>3, <1>4, <2>2, <3>1, <3>3
    <3> QED
      BY <1>3, <3>2, <3>3
  <2> QED
    BY <1>3, <2>1, <2>2
<1>7. Misses(s \o u, m)
  <2> SUFFICES ASSUME NEW id \in 0 .. m - 1, \A i \in 1 .. Len(s \o u) : (s \o u)[i] # id
               PROVE  age[id + 1] >= 2
    BY DEF Misses
  <2>1. CASE id < c
    <3>1. \A i \in 1 .. Len(s) : s[i] # id
      BY <1>2, <1>3
    <3> QED
      BY <2>1, <3>1 DEF Misses
  <2>2. CASE id >= c /\ id < n
    <3>1. id \in c .. n - 1
      BY <1>1, <2>2
    <3>2. id \in 0 .. Start(events) - 1
      BY <1>1, <3>1
    <3> QED
      BY <3>2 DEF AgesHold
  <2>3. CASE id >= n
    <3>1. id - n + 1 \in 1 .. Len(u) /\ u[id - n + 1] = id
      BY <1>1, <1>2, <2>3
    <3>2. Len(s) + (id - n + 1) \in 1 .. Len(s \o u)
      BY <1>2, <1>3, <3>1
    <3> QED
      BY <1>3, <3>1, <3>2
  <2> QED
    BY <1>1, <2>1, <2>2, <2>3
<1> QED
  BY <1>5, <1>6, <1>7

-----------------------------------------------------------------------------
(***************************************************************************)
(* The inductive invariant.                                                *)
(***************************************************************************)
LEMMA InitEInv == Init => EInv
<1> SUFFICES ASSUME Init PROVE EInv OBVIOUS
<1> USE DEF Init, NoEvents
<1>1. EventsTyped
  BY DEF EventsTyped, Buffer
<1>2. Consecutive(events) /\ AgesHold
  BY DEF Consecutive, IsIds, AgesHold, Start, Middle
<1>3. SeenHolds
  BY DEF SeenHolds, InOrder, Below, Misses
<1> QED
  BY <1>1, <1>2, <1>3 DEF EInv

\* Ages only grow: what is old stays old.
LEMMA MissesStay ==
  ASSUME EventsTyped, NEW s \in Seq(Nat), NEW c \in 0 .. events.event_count, Misses(s, c),
         \A i \in 1 .. Len(age) : age[i] >= 2 => age'[i] >= 2
  PROVE  Misses(s, c)'
<1> SUFFICES ASSUME NEW id \in 0 .. c - 1, \A i \in 1 .. Len(s) : s[i] # id
             PROVE  age'[id + 1] >= 2
  BY DEF Misses
<1>1. id + 1 \in 1 .. Len(age) /\ age[id + 1] >= 2
  BY DEF Misses, EventsTyped
<1> QED
  BY <1>1

LEMMA SeenStays ==
  ASSUME EventsTyped, SeenHolds, UNCHANGED <<cursor, seen>>,
         events'.event_count \in Nat, events.event_count <= events'.event_count,
         \A i \in 1 .. Len(age) : age[i] >= 2 => age'[i] >= 2
  PROVE  SeenHolds'
<1> SUFFICES ASSUME NEW r \in Readers
             PROVE  /\ cursor[r] <= events'.event_count
                    /\ InOrder(seen[r]) /\ Below(seen[r], cursor[r])
                    /\ Misses(seen[r], cursor[r])'
  BY DEF SeenHolds, InOrder, Below
<1>1. /\ cursor[r] \in 0 .. events.event_count /\ seen[r] \in Seq(Nat)
      /\ InOrder(seen[r]) /\ Below(seen[r], cursor[r]) /\ Misses(seen[r], cursor[r])
  BY DEF EventsTyped, SeenHolds
<1>2. Misses(seen[r], cursor[r])'
  BY <1>1, MissesStay
<1> QED
  BY <1>1, <1>2 DEF EventsTyped

\* Records, field by field.
LEMMA ReplaceBuffers ==
  ASSUME NEW e \in [a : Buffer, b : Buffer, event_count : Nat],
         NEW x \in Buffer, NEW y \in Buffer
  PROVE  [e EXCEPT !.a = x, !.b = y] = [a |-> x, b |-> y, event_count |-> e.event_count]
<1> DEFINE f == [e EXCEPT !.a = x]
<1>1. f = [a |-> x, b |-> e.b, event_count |-> e.event_count]
  OBVIOUS
<1>2. f \in [a : Buffer, b : Buffer, event_count : Nat]
  BY <1>1
<1>3. [e EXCEPT !.a = x, !.b = y] = [f EXCEPT !.b = y]
  OBVIOUS
<1> HIDE DEF f
<1>4. [f EXCEPT !.b = y] = [a |-> f.a, b |-> y, event_count |-> f.event_count]
  BY <1>2
<1> QED
  BY <1>1, <1>3, <1>4

LEMMA ExtendBuffer ==
  ASSUME NEW e \in [a : Buffer, b : Buffer, event_count : Nat],
         NEW s \in Seq(Nat), NEW k \in Nat
  PROVE  [e EXCEPT !.b.events = s, !.event_count = k]
           = [a |-> e.a, event_count |-> k,
              b |-> [events |-> s, start_event_count |-> e.b.start_event_count]]
<1> DEFINE y == [e.b EXCEPT !.events = s]
           f == [e EXCEPT !.b = y]
<1>1. y = [events |-> s, start_event_count |-> e.b.start_event_count] /\ y \in Buffer
  BY DEF Buffer
<1>2. [e EXCEPT !.b.events = s, !.event_count = k] = [f EXCEPT !.event_count = k]
  OBVIOUS
<1> HIDE DEF y
<1>3. f = [a |-> e.a, b |-> y, event_count |-> e.event_count]
  BY Z3T(30)
<1>4. f \in [a : Buffer, b : Buffer, event_count : Nat]
  BY <1>1, <1>3
<1> HIDE DEF f
<1>5. [f EXCEPT !.event_count = k] = [a |-> f.a, b |-> f.b, event_count |-> k]
  BY <1>4
<1> QED
  BY <1>1, <1>2, <1>3, <1>5

LEMMA SendEInv ==
  ASSUME EInv, Send
  PROVE  EInv'
<1> USE DEF EInv
<1> DEFINE k == events.event_count
           s == events.b.events
           n == Middle(events)
<1>1. /\ events' = send(events) /\ age' = Append(age, 0) /\ UNCHANGED <<cursor, seen>>
  BY DEF Send, Write
<1>2. /\ k \in Nat /\ s \in Seq(Nat) /\ age \in Seq(Nat) /\ Len(age) = k
      /\ n \in Nat /\ Start(events) \in Nat /\ events.a \in Buffer
      /\ Start(events) <= n /\ n <= k
      /\ events = [a |-> events.a, b |-> [events |-> s, start_event_count |-> n],
                   event_count |-> k]
  BY DEF EventsTyped, Buffer, Consecutive, Start, Middle
<1>3. /\ IsIds(events.a.events, Start(events), n) /\ Len(s) = k - n
      /\ \A i \in 1 .. Len(s) : s[i] = n + i - 1
  BY DEF Consecutive, IsIds
<1>4. send(events) = [events EXCEPT !.b.events = Append(s, k), !.event_count = k + 1]
  BY DEF send
<1> HIDE DEF s, n, k
<1>5. events' = [a |-> events.a,
                 b |-> [events |-> Append(s, k), start_event_count |-> n],
                 event_count |-> k + 1]
  <2>1. /\ Append(s, k) \in Seq(Nat) /\ k + 1 \in Nat /\ events.b.start_event_count = n
        /\ events \in [a : Buffer, b : Buffer, event_count : Nat]
    BY <1>2 DEF EventsTyped, Middle, n
  <2>2. [events EXCEPT !.b.events = Append(s, k), !.event_count = k + 1]
          = [a |-> events.a, event_count |-> k + 1,
             b |-> [events |-> Append(s, k), start_event_count |-> n]]
    BY <2>1, ExtendBuffer
  <2> QED
    BY <1>1, <1>4, <2>2, Zenon
<1>6. /\ events'.event_count = k + 1 /\ events'.b.events = Append(s, k)
      /\ events'.a.events = events.a.events
      /\ Start(events)' = Start(events) /\ Middle(events)' = n
  BY <1>5 DEF Start, Middle
<1>7. /\ age' \in Seq(Nat) /\ Len(age') = k + 1
      /\ \A i \in 1 .. Len(age) : age'[i] = age[i]
  BY <1>1, <1>2
<1>8. EventsTyped'
  <2>1. [events |-> Append(s, k), start_event_count |-> n] \in Buffer
    BY <1>2 DEF Buffer
  <2> QED
    BY <1>1, <1>2, <1>5, <1>7, <2>1 DEF EventsTyped
<1>9. Consecutive(events)'
  <2>1. /\ Append(s, k) \in Seq(Nat) /\ Len(Append(s, k)) = Len(s) + 1
        /\ \A i \in 1 .. Len(s) : Append(s, k)[i] = s[i]
        /\ Append(s, k)[Len(s) + 1] = k
    BY <1>2
  <2>2. ASSUME NEW i \in 1 .. Len(s) + 1 PROVE Append(s, k)[i] = n + i - 1
    BY <1>2, <1>3, <2>1
  <2>3. IsIds(Append(s, k), n, k + 1)
    BY <1>2, <1>3, <2>1, <2>2 DEF IsIds
  <2>4. IsIds(Append(s, k), Middle(events)', events'.event_count)
    BY <1>6, <2>3
  <2> QED
    BY <1>2, <1>3, <1>6, <2>4 DEF Consecutive
<1>10. AgesHold'
  <2>1. ASSUME NEW id \in 0 .. n - 1
        PROVE  /\ age'[id + 1] >= 1
               /\ id \in 0 .. Start(events) - 1 => age'[id + 1] >= 2
    <3>1. id + 1 \in 1 .. Len(age)
      BY <1>2, <1>3
    <3>2. age'[id + 1] = age[id + 1]
      BY <1>7, <3>1
    <3> QED
      BY <3>1, <3>2 DEF AgesHold, n
  <2> QED
    BY <1>2, <1>6, <2>1 DEF AgesHold
<1>11. SeenHolds'
  <2>1. events'.event_count \in Nat /\ events.event_count <= events'.event_count
    BY <1>2, <1>6 DEF k
  <2> QED
    BY <1>1, <1>7, <2>1, SeenStays
<1> QED
  BY <1>8, <1>9, <1>10, <1>11

LEMMA ClearEInv ==
  ASSUME EInv, Clear
  PROVE  EInv'
<1> USE DEF EInv
<1> DEFINE k == events.event_count
           empty == [events |-> <<>>, start_event_count |-> k]
<1>1. /\ events' = clear(events) /\ UNCHANGED <<cursor, seen>>
      /\ age' = [id \in DOMAIN age |-> 2]
  BY DEF Clear, Write
<1>2. k \in Nat /\ age \in Seq(Nat) /\ Len(age) = k /\ DOMAIN age = 1 .. k
  BY DEF EventsTyped
<1>3. clear(events) = [a |-> empty, b |-> empty, event_count |-> k]
  <2>1. empty \in Buffer /\ events \in [a : Buffer, b : Buffer, event_count : Nat]
    BY <1>2 DEF Buffer, EventsTyped
  <2>2. clear(events) = [events EXCEPT !.a = empty, !.b = empty]
    BY Zenon DEF clear
  <2> QED
    BY <2>1, <2>2, ReplaceBuffers
<1>4. empty \in Buffer /\ empty.start_event_count = k /\ empty.events = <<>>
  BY <1>2 DEF Buffer
<1> HIDE DEF k, empty
<1>5. events' = [a |-> empty, b |-> empty, event_count |-> k]
  BY <1>1, <1>3
<1>6. /\ Start(events)' = k /\ Middle(events)' = k /\ events'.event_count = k
      /\ events'.a.events = <<>> /\ events'.b.events = <<>>
  BY <1>4, <1>5 DEF Start, Middle
<1>7. age' \in Seq(Nat) /\ Len(age') = k /\ \A i \in 1 .. k : age'[i] = 2
  BY <1>1, <1>2
<1>8. EventsTyped'
  BY <1>1, <1>2, <1>4, <1>5, <1>7 DEF EventsTyped
<1>9. Consecutive(events)'
  BY <1>2, <1>6 DEF Consecutive, IsIds
<1>10. AgesHold'
  <2>1. ASSUME NEW id \in 0 .. k - 1 PROVE age'[id + 1] = 2
    BY <1>2, <1>7
  <2> QED
    BY <1>6, <2>1 DEF AgesHold
<1>11. SeenHolds'
  <2>1. /\ events'.event_count \in Nat /\ events.event_count <= events'.event_count
        /\ \A i \in 1 .. Len(age) : age[i] >= 2 => age'[i] >= 2
    BY <1>2, <1>6, <1>7 DEF k
  <2> QED
    BY <1>1, <2>1, SeenStays
<1> QED
  BY <1>8, <1>9, <1>10, <1>11

\* What every update does to the ages.
LEMMA UpdateAges ==
  ASSUME EventsTyped, age' = [id \in DOMAIN age |-> AtMost(age[id] + 1, 2)]
  PROVE  /\ age' \in Seq(Nat) /\ Len(age') = Len(age)
         /\ \A i \in 1 .. Len(age) : age'[i] >= 1
         /\ \A i \in 1 .. Len(age) : age[i] >= 1 => age'[i] >= 2
<1>1. /\ age \in Seq(Nat) /\ DOMAIN age = 1 .. Len(age) /\ Len(age) \in Nat
      /\ \A i \in 1 .. Len(age) : age[i] \in Nat
  BY DEF EventsTyped
<1>2. \A n \in Nat : /\ AtMost(n + 1, 2) \in Nat /\ AtMost(n + 1, 2) >= 1
                     /\ n >= 1 => AtMost(n + 1, 2) >= 2
  BY DEF AtMost
<1>3. age' = [i \in 1 .. Len(age) |-> AtMost(age[i] + 1, 2)]
  BY <1>1, Zenon
<1>4. \A i \in 1 .. Len(age) : age'[i] = AtMost(age[i] + 1, 2) /\ age'[i] \in Nat
  BY <1>1, <1>2, <1>3
<1>5. age' \in [1 .. Len(age) -> Nat]
  BY <1>3, <1>4
<1>6. age' \in Seq(Nat) /\ Len(age') = Len(age)
  BY <1>1, <1>5
<1> QED
  BY <1>1, <1>2, <1>4, <1>6

LEMMA UpdateEInv ==
  ASSUME EInv, Update
  PROVE  EInv'
<1> USE DEF EInv
<1>1. /\ events' = IF must_update THEN update(events) ELSE events
      /\ UNCHANGED <<cursor, seen>>
  BY DEF Update
<1>2. /\ events.event_count \in Nat /\ Len(age) = events.event_count
      /\ Start(events) \in Nat /\ Middle(events) \in Nat
      /\ Start(events) <= Middle(events) /\ Middle(events) <= events.event_count
      /\ events.a \in Buffer /\ events.b \in Buffer
  BY DEF EventsTyped, Buffer, Consecutive, Start, Middle
<1>3. /\ age' \in Seq(Nat) /\ Len(age') = Len(age)
      /\ \A i \in 1 .. Len(age) : age'[i] >= 1
      /\ \A i \in 1 .. Len(age) : age[i] >= 1 => age'[i] >= 2
  BY UpdateAges DEF Update
<1>4. \A i \in 1 .. Len(age) : age[i] >= 2 => age'[i] >= 2
  BY <1>3 DEF EventsTyped
<1>5. CASE must_update
  <2>1. events' = [a |-> events.b,
                   b |-> [events |-> <<>>, start_event_count |-> events.event_count],
                   event_count |-> events.event_count]
    BY <1>1, <1>5 DEF EventsTyped, update
  <2>2. [events |-> <<>>, start_event_count |-> events.event_count] \in Buffer
    BY <1>2 DEF Buffer
  <2>3. EventsTyped'
    BY <1>1, <1>2, <1>3, <2>1, <2>2 DEF EventsTyped
  <2>4. /\ Start(events)' = Middle(events) /\ Middle(events)' = events.event_count
        /\ events'.event_count = events.event_count
        /\ events'.a.events = events.b.events /\ events'.b.events = <<>>
    BY <2>1 DEF Start, Middle
  <2>5. Consecutive(events)'
    BY <1>2, <2>4 DEF Consecutive, IsIds, Start, Middle
  <2>6. AgesHold'
    <3>1. ASSUME NEW id \in 0 .. Middle(events) - 1 PROVE age'[id + 1] >= 2
      <4>1. id + 1 \in 1 .. Len(age) /\ age[id + 1] >= 1
        BY <1>2 DEF AgesHold
      <4> QED
        BY <1>3, <4>1
    <3>2. ASSUME NEW id \in 0 .. events.event_count - 1 PROVE age'[id + 1] >= 1
      BY <1>2, <1>3
    <3> QED
      BY <2>4, <3>1, <3>2 DEF AgesHold
  <2>7. events'.event_count \in Nat /\ events.event_count <= events'.event_count
    BY <1>2, <2>4
  <2>8. SeenHolds'
    BY <1>1, <1>4, <2>7, SeenStays
  <2> QED
    BY <2>3, <2>5, <2>6, <2>8
<1>6. CASE ~must_update
  <2>1. events' = events
    BY <1>1, <1>6
  <2>2. EventsTyped' /\ Consecutive(events)'
    BY <1>1, <1>3, <2>1 DEF EventsTyped, Consecutive, Start, Middle
  <2>3. ASSUME NEW id \in 0 .. Middle(events) - 1
        PROVE  /\ age'[id + 1] >= 1
               /\ id \in 0 .. Start(events) - 1 => age'[id + 1] >= 2
    <3>1. id + 1 \in 1 .. Len(age) /\ age[id + 1] >= 1
      BY <1>2 DEF AgesHold
    <3> QED
      BY <1>3, <3>1
  <2>4. AgesHold'
    BY <1>2, <2>1, <2>3 DEF AgesHold, Start, Middle
  <2>5. events'.event_count \in Nat /\ events.event_count <= events'.event_count
    BY <1>2, <2>1
  <2>6. SeenHolds'
    BY <1>1, <1>4, <2>5, SeenStays
  <2> QED
    BY <2>2, <2>4, <2>6
<1> QED
  BY <1>5, <1>6

LEMMA ReadEInv ==
  ASSUME EInv, NEW r \in Readers, NEW k \in 1 .. MaxEvents, Read(r, k)
  PROVE  EInv'
<1> USE DEF EInv
<1> DEFINE c == cursor[r]
           n == FirstUnread(events, c)
           u == Unread(events, c)
           new == SubSeq(u, 1, k)
<1>1. /\ k \in 1 .. Len(u)
      /\ cursor' = [cursor EXCEPT ![r] = events.event_count - Len(u) + k]
      /\ seen' = [seen EXCEPT ![r] = seen[r] \o new]
      /\ UNCHANGED <<events, age>>
  BY DEF Read
<1>2. /\ c \in 0 .. events.event_count /\ c \in Nat /\ events.event_count \in Nat
      /\ seen[r] \in Seq(Nat) /\ n \in Nat
  BY DEF EventsTyped, SeenHolds, FirstUnread, Start, Buffer
<1>3. u \in Seq(Nat) /\ IsIds(u, n, events.event_count)
  BY <1>2, UnreadIsInterval
<1> HIDE DEF u
<1>11. Len(u) = events.event_count - n /\ events.event_count - Len(u) + k = n + k
  BY <1>1, <1>2, <1>3 DEF IsIds
<1>4. Len(u) = events.event_count - n /\ cursor' = [cursor EXCEPT ![r] = n + k]
  BY <1>1, <1>11
<1>5. new \in Seq(Nat) /\ IsIds(new, n, n + k) /\ n + k <= events.event_count
  <2> HIDE DEF n
  <2>1. k \in Nat /\ k <= Len(u) /\ Len(u) \in Nat
    BY <1>1, <1>3, LenProperties
  <2>2. \A i \in 1 .. Len(u) : u[i] = n + i - 1
    BY <1>3 DEF IsIds
  <2>3. new \in Seq(Nat) /\ Len(new) = k /\ \A i \in 1 .. k : new[i] = u[i]
    BY <1>3, <2>1
  <2>4. \A i \in 1 .. k : new[i] = n + i - 1
    BY <2>1, <2>2, <2>3
  <2>5. (n + k) - n = k /\ n + k <= events.event_count
    BY <1>2, <1>4, <2>1
  <2> HIDE DEF new
  <2> QED
    BY <2>3, <2>4, <2>5 DEF IsIds
<1> HIDE DEF new, n
<1>6. /\ InOrder(seen[r] \o new) /\ Below(seen[r] \o new, n + k)
      /\ Misses(seen[r] \o new, n + k)
  BY <1>1, <1>2, <1>5, GivenMore DEF SeenHolds, n
<1>7. /\ cursor'[r] = n + k /\ seen'[r] = seen[r] \o new
      /\ \A s \in Readers \ {r} : cursor'[s] = cursor[s] /\ seen'[s] = seen[s]
  BY <1>1, <1>4 DEF EventsTyped
<1>8. EventsTyped'
  <2>1. n + k \in Nat /\ seen[r] \o new \in Seq(Nat)
    BY <1>1, <1>2, <1>5
  <2> QED
    BY <1>1, <1>4, <2>1 DEF EventsTyped
<1>9. Consecutive(events)' /\ AgesHold'
  BY <1>1 DEF Consecutive, AgesHold, Start, Middle
<1>10. SeenHolds'
  <2> SUFFICES ASSUME NEW s \in Readers
               PROVE  /\ cursor'[s] <= events.event_count
                      /\ InOrder(seen'[s]) /\ Below(seen'[s], cursor'[s])
                      /\ Misses(seen'[s], cursor'[s])
    BY <1>1 DEF SeenHolds, InOrder, Below, Misses
  <2>1. CASE s = r
    BY <1>5, <1>6, <1>7, <2>1
  <2>2. CASE s # r
    BY <1>7, <2>2 DEF SeenHolds
  <2> QED
    BY <2>1, <2>2
<1> QED
  BY <1>8, <1>9, <1>10

LEMMA NextEInv == EInv /\ [Next]_vars => EInv'
<1> SUFFICES ASSUME EInv, [Next]_vars PROVE EInv' OBVIOUS
<1>1. ASSUME UNCHANGED <<events, cursor, seen, age>> PROVE EInv'
  BY <1>1 DEF EInv, EventsTyped, Consecutive, AgesHold, Start, Middle, SeenHolds, InOrder,
    Below, Misses
<1>2. ASSUME NEW r \in Readers, Begin(r) \/ End(r) PROVE EInv'
  BY <1>1, <1>2 DEF Begin, End, values, log
<1>3. ASSUME NEW r \in Readers, NEW k \in 1 .. MaxEvents, Read(r, k) PROVE EInv'
  BY <1>3, ReadEInv
<1>4. CASE Other
  BY <1>1, <1>4 DEF Other, values, log
<1>5. CASE Signal
  BY <1>1, <1>5 DEF Signal, log
<1>6. ASSUME NEW schedule \in SUBSET Readers, StartSchedule(schedule) PROVE EInv'
  BY <1>1, <1>6 DEF StartSchedule, values, log
<1>7. CASE UNCHANGED vars
  BY <1>1, <1>7 DEF vars, values, log
<1> QED
  BY <1>2, <1>3, <1>4, <1>5, <1>6, <1>7, SendEInv, ClearEInv, UpdateEInv DEF Next

\* Every reader gets every event once and in order, whatever the readers and however
\* many events are sent, unless it does not read between two updates.
THEOREM EventsAreReadOnce == Spec => []ReadOnce
<1>1. EInv => ReadOnce
  <2> SUFFICES ASSUME EInv, NEW r \in Readers
               PROVE  LET all == seen[r] \o Unread(events, cursor[r])
                      IN  /\ \A i, j \in DOMAIN all : i < j => all[i] < all[j]
                          /\ \A id \in 0 .. events.event_count - 1 :
                               (\A i \in DOMAIN all : all[i] # id) => age[id + 1] >= 2
    BY DEF ReadOnce
  <2> DEFINE u == Unread(events, cursor[r])
  <2>1. /\ cursor[r] \in 0 .. events.event_count /\ cursor[r] \in Nat
        /\ events.event_count \in Nat /\ seen[r] \in Seq(Nat)
    BY DEF EInv, EventsTyped, SeenHolds
  <2>2. u \in Seq(Nat) /\ IsIds(u, FirstUnread(events, cursor[r]), events.event_count)
    BY <2>1, UnreadIsInterval DEF EInv
  <2> HIDE DEF u
  <2>3. InOrder(seen[r] \o u) /\ Misses(seen[r] \o u, events.event_count)
    BY <2>1, <2>2, GivenMore DEF EInv, SeenHolds
  <2>4. DOMAIN (seen[r] \o u) = 1 .. Len(seen[r] \o u)
    BY <2>1, <2>2
  <2> QED
    BY <2>3, <2>4 DEF u, InOrder, Misses
<1> QED
  BY <1>1, InitEInv, NextEInv, PTL DEF Spec

-----------------------------------------------------------------------------
(***************************************************************************)
(* The update is never skipped while an event is stored.                   *)
(***************************************************************************)
RegistryTyped ==
  /\ registry \in [should_update : {"Always", "Ready", "Waiting"},
                   previously_updated : BOOLEAN, last_change_tick : Tick]
  /\ updated \in Int /\ updated < time
  /\ slow \in BOOLEAN

\* The tick of event_update_system is never scanned, but it runs in time.
UpdatedExact ==
  time - updated < Modulus =>
    Exact(relative_to(change_tick, registry.last_change_tick), time - updated)

\* What is in a buffer is as old as the buffer, and brings the next update about.
KeptBriefly ==
  /\ \A i \in 1 .. Len(events.a.events) : age[events.a.events[i] + 1] <= 1
  /\ \A i \in 1 .. Len(events.b.events) : age[events.b.events[i] + 1] = 0
  /\ events.a.events # <<>> => registry.previously_updated
  /\ events.b.events # <<>> => wrote > updated

KInv == RegistryTyped /\ UpdatedExact /\ (slow \/ KeptBriefly)

LEMMA InitKInv == Init => KInv
<1> SUFFICES ASSUME Init PROVE KInv OBVIOUS
<1> USE DEF Init, NoEvents
<1>1. RegistryTyped
  <2>1. 0 \in Tick /\ FALSE \in BOOLEAN /\ updated \in Int /\ updated < time
    BY Bounds DEF Tick
  <2>2. slow \in BOOLEAN
    BY Zenon
  <2>3. registry \in [should_update : {"Always", "Ready", "Waiting"},
                     previously_updated : BOOLEAN, last_change_tick : Tick]
    BY <2>1
  <2> QED
    BY <2>1, <2>2, <2>3 DEF RegistryTyped
<1>2. UpdatedExact
  BY Bounds DEF UpdatedExact, Exact, relative_to
<1>3. KeptBriefly
  BY DEF KeptBriefly
<1> QED
  BY <1>1, <1>2, <1>3 DEF KInv

\* Time passes for event_update_system.
LEMMA UpdatedAges ==
  ASSUME IInv, KInv, UNCHANGED <<registry.last_change_tick, updated>>,
         increment_change_tick \/ UNCHANGED <<change_tick, time>>
  PROVE  UpdatedExact' /\ updated < time'
<1> USE DEF KInv
<1>1. registry.last_change_tick \in Tick /\ updated \in Int /\ updated <= time
  BY DEF RegistryTyped, IInv, TicksTyped
<1>2. CASE increment_change_tick
  <2>1. time' - updated < Modulus =>
          Exact(relative_to(change_tick', registry.last_change_tick), time' - updated)
    BY <1>1, <1>2, SystemAges DEF IInv, UpdatedExact
  <2> QED
    BY <1>1, <1>2, <2>1 DEF UpdatedExact, increment_change_tick, IInv, TicksTyped
<1>3. CASE UNCHANGED <<change_tick, time>>
  BY <1>3 DEF UpdatedExact, RegistryTyped
<1> QED
  BY <1>2, <1>3

\* What lies in a buffer has an age.
LEMMA StoredIndices ==
  ASSUME EInv
  PROVE  /\ \A i \in 1 .. Len(events.a.events) :
              /\ events.a.events[i] + 1 \in 1 .. events.event_count
              /\ age[events.a.events[i] + 1] \in Nat
         /\ \A i \in 1 .. Len(events.b.events) :
              /\ events.b.events[i] + 1 \in 1 .. events.event_count
              /\ age[events.b.events[i] + 1] \in Nat
<1> DEFINE m == Start(events)
           n == Middle(events)
           k == events.event_count
           s == events.a.events
           t == events.b.events
<1>1. m \in Nat /\ n \in Nat /\ k \in Nat /\ m <= n /\ n <= k
  BY DEF EInv, EventsTyped, Buffer, Consecutive, Start, Middle
<1>2. IsIds(s, m, n) /\ IsIds(t, n, k)
  BY DEF EInv, Consecutive
<1>3. age \in Seq(Nat) /\ Len(age) = k
  BY DEF EInv, EventsTyped
<1>4. s \in Seq(Nat) /\ t \in Seq(Nat)
  BY DEF EInv, EventsTyped, Buffer
<1> HIDE DEF m, n, k, s, t
<1>5. ASSUME NEW i \in 1 .. Len(s) PROVE s[i] + 1 \in 1 .. k /\ age[s[i] + 1] \in Nat
  <2>1. s[i] = m + i - 1 /\ i <= n - m
    BY <1>2, <1>4, <1>5 DEF IsIds
  <2>2. s[i] + 1 \in 1 .. k
    BY <1>1, <2>1
  <2> QED
    BY <1>3, <2>2
<1>6. ASSUME NEW i \in 1 .. Len(t) PROVE t[i] + 1 \in 1 .. k /\ age[t[i] + 1] \in Nat
  <2>1. t[i] = n + i - 1 /\ i <= k - n
    BY <1>2, <1>4, <1>6 DEF IsIds
  <2>2. t[i] + 1 \in 1 .. k
    BY <1>1, <2>1
  <2> QED
    BY <1>3, <2>2
<1> QED
  BY <1>5, <1>6 DEF s, t, k

\* Nothing happens to the events.
LEMMA ElsewhereKInv ==
  ASSUME IInv, KInv, UNCHANGED <<events, wrote, age, updated, slow>>,
         registry'.should_update \in {"Always", "Ready", "Waiting"},
         registry' = [registry EXCEPT !.should_update = registry'.should_update],
         increment_change_tick \/ UNCHANGED <<change_tick, time>>
  PROVE  KInv'
<1> USE DEF KInv
<1>1. UNCHANGED <<registry.last_change_tick, registry.previously_updated>>
  BY DEF RegistryTyped
<1>2. UpdatedExact' /\ updated < time'
  BY <1>1, UpdatedAges
<1>3. RegistryTyped'
  BY <1>2 DEF RegistryTyped
<1>4. (slow \/ KeptBriefly)'
  BY <1>1 DEF KeptBriefly
<1> QED
  BY <1>2, <1>3, <1>4

LEMMA WriteKInv ==
  ASSUME IInv, KInv, Send \/ Clear
  PROVE  /\ RegistryTyped' /\ UpdatedExact' /\ UNCHANGED <<registry, updated, slow>>
         /\ wrote' > updated
<1>1. UNCHANGED <<registry, updated, slow>> /\ wrote' = time
  BY DEF Send, Clear, Write
<1>2. increment_change_tick \/ UNCHANGED <<change_tick, time>>
  BY DEF Send, Clear, Alone, Direct
<1>3. UpdatedExact' /\ updated < time'
  BY <1>1, <1>2, UpdatedAges
<1> QED
  BY <1>1, <1>3 DEF KInv, RegistryTyped

LEMMA SendKInv ==
  ASSUME IInv, EInv, KInv, Send
  PROVE  KInv'
<1> DEFINE s == events.b.events
           k == events.event_count
<1>1. /\ events' = send(events) /\ age' = Append(age, 0)
  BY DEF Send, Write
<1>2. /\ RegistryTyped' /\ UpdatedExact' /\ UNCHANGED <<registry, updated, slow>>
      /\ wrote' > updated
  BY WriteKInv
<1>3. /\ events.a.events \in Seq(Nat) /\ s \in Seq(Nat) /\ k \in Nat
      /\ age \in Seq(Nat) /\ Len(age) = k
      /\ events \in [a : Buffer, b : Buffer, event_count : Nat]
  BY DEF EInv, EventsTyped, Buffer
<1>4. events'.a.events = events.a.events /\ events'.b.events = Append(s, k)
  <2>1. send(events) = [a |-> events.a, event_count |-> k + 1,
                        b |-> [events |-> Append(s, k),
                               start_event_count |-> events.b.start_event_count]]
    <3>1. Append(s, k) \in Seq(Nat) /\ k + 1 \in Nat
      BY <1>3
    <3> QED
      BY <1>3, <3>1, ExtendBuffer DEF send
  <2> QED
    BY <1>1, <2>1
<1>5. /\ \A i \in 1 .. Len(events.a.events) : events.a.events[i] + 1 \in 1 .. k
      /\ \A i \in 1 .. Len(s) : s[i] + 1 \in 1 .. k
  BY StoredIndices
<1> HIDE DEF s, k
<1>6. age'[k + 1] = 0 /\ \A i \in 1 .. k : age'[i] = age[i]
  BY <1>1, <1>3
<1>7. ASSUME KeptBriefly PROVE KeptBriefly'
  <2>1. ASSUME NEW i \in 1 .. Len(Append(s, k)) PROVE age'[Append(s, k)[i] + 1] = 0
    <3>1. CASE i = Len(s) + 1
      BY <1>3, <1>6, <3>1
    <3>2. CASE i # Len(s) + 1
      <4>1. i \in 1 .. Len(s) /\ Append(s, k)[i] = s[i]
        BY <1>3, <3>2
      <4> QED
        BY <1>5, <1>6, <1>7, <4>1 DEF KeptBriefly, s
    <3> QED
      BY <3>1, <3>2
  <2>2. ASSUME NEW i \in 1 .. Len(events.a.events)
        PROVE  age'[events.a.events[i] + 1] <= 1
    BY <1>5, <1>6, <1>7 DEF KeptBriefly
  <2> QED
    BY <1>2, <1>4, <1>7, <2>1, <2>2 DEF KeptBriefly
<1> QED
  BY <1>2, <1>7 DEF KInv

LEMMA ClearKInv ==
  ASSUME IInv, EInv, KInv, Clear
  PROVE  KInv'
<1> DEFINE empty == [events |-> <<>>, start_event_count |-> events.event_count]
<1>1. events' = clear(events)
  BY DEF Clear, Write
<1>2. /\ RegistryTyped' /\ UpdatedExact'
  BY WriteKInv
<1>3. clear(events) = [events EXCEPT !.a = empty, !.b = empty]
  BY Zenon DEF clear
<1>4. empty \in Buffer /\ events \in [a : Buffer, b : Buffer, event_count : Nat]
  BY DEF EInv, EventsTyped, Buffer
<1>5. events'.a.events = <<>> /\ events'.b.events = <<>>
  <2>1. events' = [a |-> empty, b |-> empty, event_count |-> events.event_count]
    BY <1>1, <1>3, <1>4, ReplaceBuffers
  <2> QED
    BY <2>1
<1>6. KeptBriefly'
  BY <1>5 DEF KeptBriefly
<1> QED
  BY <1>2, <1>6 DEF KInv

LEMMA UpdateKInv ==
  ASSUME IInv, EInv, KInv, Update
  PROVE  KInv'
<1> DEFINE a == events.a.events
           b == events.b.events
<1>1. /\ events' = IF must_update THEN update(events) ELSE events
      /\ registry' = [should_update |-> IF registry.should_update = "Always"
                                        THEN "Always" ELSE "Waiting",
                      previously_updated |->
                        must_update /\ (has_changed \/ ~registry.previously_updated),
                      last_change_tick |-> change_tick]
      /\ increment_change_tick /\ updated' = time /\ wrote' = wrote
      /\ age' = [id \in DOMAIN age |-> AtMost(age[id] + 1, 2)]
      /\ slow' = (slow \/ time - updated >= MAX_CHANGE_AGE)
  BY DEF Update
<1>2. RegistryTyped'
  BY <1>1 DEF RegistryTyped, KInv, IInv, TicksTyped, increment_change_tick
<1>3. UpdatedExact'
  <2>1. relative_to(change_tick, change_tick) = 0 /\ change_tick \in Tick
    BY RelativeType DEF IInv, TicksTyped
  <2>2. Exact(0, 0) /\ 0 + 1 < Modulus /\ 0 \in Int /\ time' - time = 0 + 1
    BY <1>1, Bounds DEF Exact, IInv, TicksTyped, increment_change_tick
  <2>3. Exact(relative_to(change_tick', change_tick), 0 + 1)
    BY <1>1, <2>1, <2>2, OneTickLater DEF increment_change_tick
  <2> QED
    BY <1>1, <2>2, <2>3 DEF UpdatedExact
<1>4. ASSUME ~slow' PROVE KeptBriefly'
  <2>1. KeptBriefly /\ time - updated < MAX_CHANGE_AGE
    <3>1. ~slow /\ ~(time - updated >= MAX_CHANGE_AGE)
      BY <1>1, <1>4, Zenon
    <3>2. time \in Int /\ updated \in Int /\ MAX_CHANGE_AGE \in Nat
      BY Bounds DEF KInv, RegistryTyped, IInv, TicksTyped
    <3>3. KeptBriefly
      BY <3>1 DEF KInv
    <3> QED
      BY <3>1, <3>2, <3>3
  <2>2. has_changed <=> wrote > updated
    <3>1. Exact(relative_to(change_tick, registry.last_change_tick), time - updated)
      BY <2>1, Bounds DEF KInv, UpdatedExact, IInv, TicksTyped, RegistryTyped
    <3>2. has_changed <=> /\ time - wrote < time - updated
                          /\ time - wrote < MAX_CHANGE_AGE
      BY <3>1, NewerIsExact DEF has_changed, KInv, RegistryTyped, IInv, TicksTyped, ChangedExact
    <3> QED
      BY <2>1, <3>2, Bounds DEF KInv, RegistryTyped, IInv, TicksTyped
  <2>3. b # <<>> => has_changed
    BY <2>1, <2>2 DEF KeptBriefly
  <2>4. CASE must_update
    <3>1. events'.a.events = b /\ events'.b.events = <<>>
      BY <1>1, <2>4 DEF update, EInv, EventsTyped
    <3>2. ASSUME NEW i \in 1 .. Len(b) PROVE age'[b[i] + 1] <= 1
      <4>1. age[b[i] + 1] = 0
        BY <2>1 DEF KeptBriefly
      <4>2. b[i] + 1 \in DOMAIN age
        BY StoredIndices DEF EInv, EventsTyped
      <4> QED
        BY <1>1, <4>1, <4>2 DEF AtMost
    <3>3. b # <<>> => registry'.previously_updated
      BY <1>1, <2>3, <2>4
    <3> QED
      BY <3>1, <3>2, <3>3 DEF KeptBriefly
  <2>5. CASE ~must_update
    <3>1. a = <<>> /\ b = <<>>
      BY <2>1, <2>3, <2>5 DEF must_update, KeptBriefly
    <3> QED
      BY <1>1, <2>5, <3>1 DEF KeptBriefly
  <2> QED
    BY <2>4, <2>5
<1> QED
  BY <1>2, <1>3, <1>4 DEF KInv

LEMMA NextKInv == IInv /\ EInv /\ KInv /\ [Next]_vars => KInv'
<1> SUFFICES ASSUME IInv, EInv, KInv, [Next]_vars PROVE KInv' OBVIOUS
<1>1. /\ registry.should_update \in {"Always", "Ready", "Waiting"}
      /\ registry = [registry EXCEPT !.should_update = registry.should_update]
  BY DEF KInv, RegistryTyped
<1>2. ASSUME UNCHANGED <<events, wrote, age, updated, slow, registry>>,
             increment_change_tick \/ UNCHANGED <<change_tick, time>>
      PROVE  KInv'
  BY <1>1, <1>2, ElsewhereKInv
<1>3. ASSUME NEW r \in Readers, Begin(r) \/ End(r) PROVE KInv'
  BY <1>2, <1>3 DEF Begin, End, values, log
<1>4. ASSUME NEW r \in Readers, NEW k \in 1 .. MaxEvents, Read(r, k) PROVE KInv'
  BY <1>2, <1>4 DEF Read, ticks, clock
<1>5. CASE Other
  BY <1>2, <1>5 DEF Other, values, log
<1>6. CASE Signal
  <2>1. registry' = [registry EXCEPT !.should_update = "Ready"]
    BY <1>6 DEF Signal
  <2>2. registry'.should_update = "Ready"
    BY <2>1 DEF KInv, RegistryTyped
  <2> QED
    BY <1>6, <2>1, <2>2, ElsewhereKInv DEF Signal, log
<1>7. ASSUME NEW schedule \in SUBSET Readers, StartSchedule(schedule) PROVE KInv'
  BY <1>2, <1>7 DEF StartSchedule, values, log
<1>8. CASE UNCHANGED vars
  BY <1>2, <1>8 DEF vars, ticks, values, clock, log
<1> QED
  BY <1>3, <1>4, <1>5, <1>6, <1>7, <1>8, SendKInv, ClearKInv, UpdateKInv DEF Next

\* No event outlives the second run of event_update_system after it was sent, at any
\* width of a tick, as long as that system runs once in MAX_CHANGE_AGE ticks.
THEOREM NothingIsEverKept == Spec => []NothingIsKept
<1>1. EInv /\ KInv => NothingIsKept
  <2> SUFFICES ASSUME EInv, KInv, ~slow, NEW id \in Stored PROVE age[id + 1] < 2
    BY DEF NothingIsKept
  <2>1. KeptBriefly
    BY DEF KInv
  <2>2. \/ \E i \in 1 .. Len(events.a.events) : id = events.a.events[i]
        \/ \E i \in 1 .. Len(events.b.events) : id = events.b.events[i]
    BY DEF Stored, EInv, EventsTyped, Buffer
  <2>3. age[id + 1] \in Nat
    BY <2>2, StoredIndices
  <2> QED
    BY <2>1, <2>2, <2>3 DEF KeptBriefly
<1> QED
  BY <1>1, InitIInv, NextIInv, InitEInv, NextEInv, InitKInv, NextKInv, PTL DEF Spec
=============================================================================
