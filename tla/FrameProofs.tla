---------------------------- MODULE FrameProofs -----------------------------
(***************************************************************************)
(* The frame loop, for any keys and buttons and queues of any length.  The *)
(* state of a frame is tied to that of the frame before by what the reset  *)
(* keeps, and the camera to the keys by the events that are still queued:  *)
(* a press in flight may be followed by a release, a release in flight     *)
(* stops the camera even while another key is down.                        *)
(*                                                                         *)
(* Behind it, the draw passes of a frame: see the second half.             *)
(***************************************************************************)
EXTENDS FrameLoop, DrawPasses, SequenceTheorems, TLAPS

(* The inductive invariant. *)
Phases == {"reset", "requests", "callbacks", "pump", "events", "requests_again", "update",
           "render", "ended", "panicked"}

\* The phases between the reset of a frame and its update, which a panic is among.
Collecting == {"requests", "callbacks", "pump", "events", "requests_again", "update", "panicked"}

Event == [kind : {"raw", "window"}, of : Keys, state : {"Pressed", "Released"}]
         \cup [kind : {"button"}, of : Buttons, state : {"Pressed", "Released"}]
         \cup [kind : {"motion", "close"}]
         \cup [kind : {"resized"}, to : 0 .. 1]

TypeOK ==
  /\ phase \in Phases /\ should_run \in BOOLEAN
  /\ pending \in Seq(Event) /\ events \in Seq(Event)
  /\ phase \notin {"events", "panicked"} => events = <<>>
  /\ down \in [{"raw", "window", "button"} -> SUBSET (Keys \cup Buttons)]
  /\ unsent \in Nat /\ main_exec \in Nat /\ loaded \in Nat
  /\ key_states \subseteq Keys /\ prev_key_states \subseteq Keys
  /\ button_states \subseteq Buttons /\ prev_button_states \subseteq Buttons
  /\ forward \in {0, 1} /\ size \in {0, 1} /\ mouse_motion \in {0, 1}

\* What was pressed since the last reset is noted, and so is what became of a button.
Noticed ==
  /\ key_states \ prev_key_states \subseteq presses
  /\ \A b \in Buttons :
       /\ <<b, "Pressed">> \in button_events => b \in presses
       /\ b \in button_states \ prev_button_states => <<b, "Pressed">> \in button_events
       /\ b \in prev_button_states \ button_states => <<b, "Released">> \in button_events

\* What the last update saw is still the state, or what the reset has kept of it.
Remembered ==
  shown = IF phase \in Collecting THEN prev_key_states \cup prev_button_states
                                  ELSE key_states \cup button_states

\* The events of the window that move the camera forward, or stop it.
Moves(e, state) == e.kind = "window" /\ e.of \in Forward /\ e.state = state

Queued == events \o pending

\* With these events to come and the keys d down, the camera stops once they are up and
\* handled: a key that went down is down, or a release is queued behind its press; and
\* nothing moves the camera but a key that is down or whose release is queued.
Stops(queued, d, f) ==
  /\ \A i \in 1 .. Len(queued) : Moves(queued[i], "Pressed") =>
       \/ queued[i].of \in d
       \/ \E j \in 1 .. Len(queued) : j > i /\ Moves(queued[j], "Released")
  /\ f = 1 =>
       \/ d \cap Forward # {}
       \/ \E j \in 1 .. Len(queued) : Moves(queued[j], "Released")

WillStop == Stops(Queued, down["window"], forward)

IInv == TypeOK /\ Noticed /\ Remembered /\ WillStop

-----------------------------------------------------------------------------
(***************************************************************************)
(* Queues.                                                                 *)
(***************************************************************************)
LEMMA AppendedBehind ==
  ASSUME NEW s \in Seq(Event), NEW t \in Seq(Event), NEW e \in Event
  PROVE  /\ Append(t, e) \in Seq(Event) /\ s \o t \in Seq(Event)
         /\ s \o Append(t, e) = Append(s \o t, e)
<1>1. Append(t, e) = t \o <<e>> /\ Append(s \o t, e) = (s \o t) \o <<e>>
  BY AppendIsConcat, ConcatProperties
<1>2. <<e>> \in Seq(Event) /\ s \o t \in Seq(Event) /\ Append(t, e) \in Seq(Event)
  BY ConcatProperties, AppendProperties
<1> QED
  BY <1>1, <1>2, ConcatAssociative

LEMMA TakenInFront ==
  ASSUME NEW s \in Seq(Event), s # <<>>, NEW t \in Seq(Event)
  PROVE  /\ s[1] \in Event /\ Tail(s) \in Seq(Event)
         /\ s \o t \in Seq(Event) /\ s \o t # <<>>
         /\ (s \o t)[1] = s[1] /\ Tail(s) \o t = Tail(s \o t)
<1>1. /\ Tail(s) \in Seq(Event) /\ s \o t \in Seq(Event) /\ Head(s) = s[1] /\ s[1] \in Event
      /\ Len(s) \in Nat /\ Len(s) > 0 /\ Len(t) \in Nat
  BY HeadTailProperties, ConcatProperties, LenProperties, EmptySeq, ElementOfSeq
<1>2. s = <<s[1]>> \o Tail(s)
  BY <1>1, SMTT(30)
<1>3. s \o t = <<s[1]>> \o (Tail(s) \o t)
  BY <1>1, <1>2, ConcatAssociative, ConcatProperties
<1>4. Tail(s) \o t = Tail(s \o t) /\ (s \o t)[1] = s[1] /\ s \o t # <<>>
  BY <1>1, ConcatProperties, SMTT(30)
<1> QED
  BY <1>1, <1>4

\* An event that comes in: a press is of a key that is down, and a key that is not down
\* any more has its release in it.
LEMMA StopsBehind ==
  ASSUME NEW q \in Seq(Event), NEW e \in Event, NEW d, NEW d2, NEW f,
         Stops(q, d, f),
         Moves(e, "Pressed") => e.of \in d2,
         \A k \in Forward : k \in d => k \in d2 \/ Moves(e, "Released")
  PROVE  Stops(Append(q, e), d2, f)
<1> DEFINE r == Append(q, e)
<1>1. /\ Len(q) \in Nat /\ Len(r) = Len(q) + 1 /\ r[Len(r)] = e
      /\ \A i \in 1 .. Len(q) : r[i] = q[i]
  BY AppendProperties, LenProperties
<1> HIDE DEF r
<1>2. /\ 1 .. Len(q) \subseteq 1 .. Len(r) /\ Len(r) \in 1 .. Len(r)
      /\ \A i \in 1 .. Len(q) : i < Len(r)
      /\ \A i \in 1 .. Len(r) : i \in 1 .. Len(q) \/ i = Len(r)
  BY <1>1
<1>3. ASSUME NEW i \in 1 .. Len(r), Moves(r[i], "Pressed")
      PROVE  r[i].of \in d2 \/ \E j \in 1 .. Len(r) : j > i /\ Moves(r[j], "Released")
  <2>1. CASE i = Len(r)
    BY <1>1, <1>3, <2>1
  <2>2. CASE i \in 1 .. Len(q)
    <3>1. q[i].of \in Forward /\ r[i] = q[i]
      BY <1>1, <1>3, <2>2 DEF Moves
    <3>2. CASE q[i].of \in d
      BY <1>1, <1>2, <2>2, <3>1, <3>2
    <3>3. CASE \E j \in 1 .. Len(q) : j > i /\ Moves(q[j], "Released")
      BY <1>1, <1>2, <3>3
    <3> QED
      BY <1>3, <2>2, <3>1, <3>2, <3>3 DEF Stops
  <2> QED
    BY <1>2, <2>1, <2>2
<1>4. ASSUME f = 1
      PROVE  d2 \cap Forward # {} \/ \E j \in 1 .. Len(r) : Moves(r[j], "Released")
  <2>1. CASE d \cap Forward # {}
    BY <1>1, <1>2, <2>1
  <2>2. CASE \E j \in 1 .. Len(q) : Moves(q[j], "Released")
    BY <1>1, <1>2, <2>2
  <2> QED
    BY <1>4, <2>1, <2>2 DEF Stops
<1> QED
  BY <1>3, <1>4 DEF Stops, r

\* An event that is handled: only its press moves the camera, and its release stops it.
LEMMA StopsInFront ==
  ASSUME NEW q \in Seq(Event), q # <<>>, NEW d, NEW f, NEW g,
         Stops(q, d, f),
         g = 1 => Moves(q[1], "Pressed") \/ (f = 1 /\ ~Moves(q[1], "Released"))
  PROVE  Stops(Tail(q), d, g)
<1> DEFINE r == Tail(q)
<1>1. /\ Len(q) \in Nat /\ Len(q) > 0 /\ Len(r) = Len(q) - 1
      /\ \A i \in 1 .. Len(r) : r[i] = q[i + 1]
  BY HeadTailProperties, LenProperties, EmptySeq
<1> HIDE DEF r
<1>2. /\ 1 \in 1 .. Len(q)
      /\ \A i \in 1 .. Len(r) : i + 1 \in 1 .. Len(q)
      /\ \A j \in 1 .. Len(q) : j > 1 => j - 1 \in 1 .. Len(r) /\ (j - 1) + 1 = j
      /\ \A i \in 1 .. Len(r) : \A j \in 1 .. Len(q) : j > i + 1 => j > 1 /\ j - 1 > i
  BY <1>1
<1>3. ASSUME NEW i \in 1 .. Len(r), Moves(r[i], "Pressed")
      PROVE  r[i].of \in d \/ \E j \in 1 .. Len(r) : j > i /\ Moves(r[j], "Released")
  <2>1. CASE q[i + 1].of \in d
    BY <1>1, <2>1
  <2>2. CASE \E j \in 1 .. Len(q) : j > i + 1 /\ Moves(q[j], "Released")
    <3>1. PICK j \in 1 .. Len(q) : j > i + 1 /\ Moves(q[j], "Released")
      BY <2>2
    <3>2. j - 1 \in 1 .. Len(r) /\ j - 1 > i /\ r[j - 1] = q[j]
      BY <1>1, <1>2, <3>1
    <3> QED
      BY <3>1, <3>2
  <2> QED
    BY <1>1, <1>2, <1>3, <2>1, <2>2 DEF Stops
<1>4. ASSUME g = 1
      PROVE  d \cap Forward # {} \/ \E j \in 1 .. Len(r) : Moves(r[j], "Released")
  <2>1. ASSUME NEW j \in 1 .. Len(q), j > 1, Moves(q[j], "Released")
        PROVE  \E l \in 1 .. Len(r) : Moves(r[l], "Released")
    <3>1. j - 1 \in 1 .. Len(r) /\ r[j - 1] = q[j]
      BY <1>1, <1>2, <2>1
    <3> QED
      BY <2>1, <3>1
  <2>2. CASE Moves(q[1], "Pressed")
    <3>1. q[1].of \in d \/ \E j \in 1 .. Len(q) : j > 1 /\ Moves(q[j], "Released")
      BY <1>2, <2>2 DEF Stops
    <3> QED
      BY <2>1, <2>2, <3>1 DEF Moves
  <2>3. CASE f = 1 /\ ~Moves(q[1], "Released")
    <3>1. d \cap Forward # {} \/ \E j \in 1 .. Len(q) : Moves(q[j], "Released")
      BY <2>3 DEF Stops
    <3>2. \A j \in 1 .. Len(q) : j = 1 \/ j > 1
      BY <1>1
    <3> QED
      BY <2>1, <2>3, <3>1, <3>2
  <2> QED
    BY <1>4, <2>2, <2>3
<1> QED
  BY <1>3, <1>4 DEF Stops, r

-----------------------------------------------------------------------------
(***************************************************************************)
(* The steps.                                                              *)
(***************************************************************************)
LEMMA InitIInv == Init => IInv
<1> SUFFICES ASSUME Init PROVE IInv
  OBVIOUS
<1> USE DEF Init
<1>1. /\ <<>> \in Seq(Event) /\ Queued = <<>>
      /\ Len(Queued) = 0
  BY DEF Queued
<1>2. TypeOK
  <2>1. down \in [{"raw", "window", "button"} -> SUBSET (Keys \cup Buttons)]
    OBVIOUS
  <2>2. MaxRequests \in Nat
    BY BoundsAssumption
  <2> QED
    BY <1>1, <2>1, <2>2 DEF TypeOK, Phases
<1>3. Noticed /\ Remembered
  BY DEF Noticed, Remembered, Collecting
<1>4. WillStop
  BY <1>1 DEF WillStop, Stops
<1> QED
  BY <1>2, <1>3, <1>4 DEF IInv

\* The steps of the world outside queue an event, or nothing.
LEMMA QueueKeepsIInv ==
  ASSUME IInv, UNCHANGED Rest, NEW e \in Event, Queue(e), UNCHANGED <<unsent, main_exec, loaded>>,
         down' \in [{"raw", "window", "button"} -> SUBSET (Keys \cup Buttons)],
         Moves(e, "Pressed") => e.of \in down'["window"],
         \A k \in Forward : k \in down["window"] => k \in down'["window"] \/ Moves(e, "Released")
  PROVE  IInv'
<1> USE DEF Rest, keyboard, mouse, camera, history
<1>1. /\ pending' = Append(pending, e) /\ pending \in Seq(Event) /\ events \in Seq(Event)
      /\ pending' \in Seq(Event) /\ Queued \in Seq(Event) /\ Queued' = Append(Queued, e)
  BY AppendedBehind DEF Queue, IInv, TypeOK, Queued
<1>2. TypeOK'
  BY <1>1 DEF IInv, TypeOK
<1>3. Noticed' /\ Remembered'
  BY DEF IInv, Noticed, Remembered
<1>4. Stops(Queued, down["window"], forward)
  BY DEF IInv, WillStop
<1>5. Stops(Queued', down'["window"], forward)
  <2> DEFINE d == down["window"]
             d2 == down'["window"]
  <2>1. \A k \in Forward : k \in d => k \in d2 \/ Moves(e, "Released")
    OBVIOUS
  <2>2. Moves(e, "Pressed") => e.of \in d2
    OBVIOUS
  <2> HIDE DEF d, d2
  <2>3. Stops(Append(Queued, e), d2, forward)
    BY <1>1, <1>4, <2>1, <2>2, StopsBehind DEF d
  <2> QED
    BY <1>1, <2>3 DEF d2
<1>6. WillStop'
  BY <1>5 DEF WillStop
<1> QED
  BY <1>2, <1>3, <1>6 DEF IInv

LEMMA EnvironmentIInv == IInv /\ Environment => IInv'
<1> SUFFICES ASSUME IInv, Environment PROVE IInv'
  OBVIOUS
<1>0. down \in [{"raw", "window", "button"} -> SUBSET (Keys \cup Buttons)] /\ Forward \subseteq Keys
  BY KeysAssumption DEF IInv, TypeOK
<1>1. ASSUME NEW device \in {"raw", "window", "button"}, NEW x \in Keys \cup Buttons,
             device = "button" => x \in Buttons, device # "button" => x \in Keys,
             Press(device, x) \/ Release(device, x)
      PROVE  IInv'
  <2>1. CASE Press(device, x)
    <3> DEFINE e == [kind |-> device, of |-> x, state |-> "Pressed"]
    <3>1. e \in Event /\ e.kind = device /\ e.of = x /\ e.state = "Pressed"
      BY <1>1 DEF Event
    <3>2. down' = [down EXCEPT ![device] = @ \cup {x}] /\ Queue(e)
          /\ UNCHANGED <<Rest, unsent, main_exec, loaded>>
      BY <2>1 DEF Press
    <3> HIDE DEF e
    <3>3. /\ down' \in [{"raw", "window", "button"} -> SUBSET (Keys \cup Buttons)]
          /\ down["window"] \subseteq down'["window"]
          /\ device = "window" => x \in down'["window"]
      BY <1>0, <1>1, <3>2
    <3> QED
      BY <3>1, <3>2, <3>3, QueueKeepsIInv DEF Moves
  <2>2. CASE Release(device, x)
    <3> DEFINE e == [kind |-> device, of |-> x, state |-> "Released"]
    <3>1. e \in Event /\ e.kind = device /\ e.of = x /\ e.state = "Released"
      BY <1>1 DEF Event
    <3>2. down' = [down EXCEPT ![device] = @ \ {x}] /\ Queue(e)
          /\ UNCHANGED <<Rest, unsent, main_exec, loaded>>
      BY <2>2 DEF Release
    <3> HIDE DEF e
    <3>3. /\ down' \in [{"raw", "window", "button"} -> SUBSET (Keys \cup Buttons)]
          /\ down'["window"] = IF device = "window" THEN down["window"] \ {x} ELSE down["window"]
      BY <1>0, <1>1, <3>2
    <3>4. \A k \in Forward : k \in down["window"] => k \in down'["window"] \/ Moves(e, "Released")
      BY <3>1, <3>3 DEF Moves
    <3>5. ~Moves(e, "Pressed")
      BY <3>1 DEF Moves
    <3> QED
      BY <3>1, <3>2, <3>3, <3>4, <3>5, QueueKeepsIInv
  <2> QED
    BY <1>1, <2>1, <2>2
<1>2. CASE Signal
  <2>1. PICK e \in {[kind |-> "motion"], [kind |-> "close"]} \cup [kind : {"resized"}, to : 0 .. 1] :
          Queue(e) /\ UNCHANGED <<Rest, down, unsent, main_exec, loaded>>
    BY <1>2 DEF Signal
  <2>2. e \in Event /\ e.kind # "window"
    BY DEF Event
  <2> QED
    BY <1>0, <2>1, <2>2, QueueKeepsIInv DEF Moves
<1>3. CASE SendRequest
  <2>1. /\ UNCHANGED <<Rest, pending, down>>
        /\ unsent' \in Nat /\ main_exec' \in Nat /\ loaded' \in Nat
    BY <1>3 DEF SendRequest, IInv, TypeOK
  <2> QED
    BY <2>1 DEF IInv, TypeOK, Noticed, Remembered, WillStop, Queued, Rest, keyboard, mouse, camera,
                history
<1> QED
  BY <1>1, <1>2, <1>3 DEF Environment

\* The steps of the loop that handle no event.
LEMMA PhasesIInv ==
  ASSUME IInv,
         \/ Reset \/ RunRequest \/ RequestsDone \/ RunCallback \/ Pump
         \/ EventsDone \/ Update \/ Render \/ RegisterPanics
  PROVE  IInv'
<1> USE DEF system, keyboard, mouse, camera, history, Goto
<1>1. TypeOK'
  <2>1. CASE Reset \/ RequestsDone \/ EventsDone \/ Update \/ Render
    BY <2>1 DEF Reset, RequestsDone, EventsDone, Update, Render, IInv, TypeOK, Phases
  <2>2. CASE RunRequest \/ RunCallback
    BY <2>2 DEF RunRequest, RunCallback, IInv, TypeOK, Phases
  <2>3. CASE Pump
    BY <2>3 DEF Pump, IInv, TypeOK, Phases
  <2>4. CASE RegisterPanics
    BY <2>4 DEF RegisterPanics, IInv, TypeOK, Phases
  <2> QED
    BY <2>1, <2>2, <2>3, <2>4
<1>2. Queued' = Queued
  <2>1. CASE Pump
    <3>1. events = <<>> /\ events' = pending /\ pending' = <<>> /\ pending \in Seq(Event)
      BY <2>1 DEF Pump, IInv, TypeOK
    <3> QED
      BY <3>1, ConcatEmptySeq DEF Queued
  <2>2. CASE ~Pump
    BY <2>2 DEF Reset, RunRequest, RequestsDone, RunCallback, EventsDone, Update, Render,
                RegisterPanics, Queued
  <2> QED
    BY <2>1, <2>2
<1>3. down' = down /\ forward' = forward
  BY DEF Reset, RunRequest, RequestsDone, RunCallback, Pump, EventsDone, Update, Render,
            RegisterPanics
<1>4. WillStop'
  BY <1>2, <1>3 DEF IInv, WillStop
<1>5. Noticed' /\ Remembered'
  <2>1. CASE Reset
    BY <2>1 DEF Reset, IInv, Noticed, Remembered, Collecting
  <2>2. CASE RunRequest \/ RequestsDone \/ RunCallback \/ Pump \/ EventsDone
    BY <2>2 DEF RunRequest, RequestsDone, RunCallback, Pump, EventsDone, IInv, Noticed, Remembered,
                Collecting
  <2>3. CASE Update
    BY <2>3 DEF Update, IInv, Noticed, Remembered, Collecting
  <2>4. CASE Render
    BY <2>4 DEF Render, IInv, Noticed, Remembered, Collecting
  <2>5. CASE RegisterPanics
    BY <2>5 DEF RegisterPanics, Arrived, IInv, Noticed, Remembered, Collecting
  <2> QED
    BY <2>1, <2>2, <2>3, <2>4, <2>5
<1> QED
  BY <1>1, <1>4, <1>5 DEF IInv

\* A handler that leaves the keyboard's and the camera's state as the event has it.
LEMMA HandledKeepsIInv ==
  ASSUME IInv, phase = "events", events # <<>>, Handled,
         TypeOK' /\ Noticed', UNCHANGED <<prev_key_states, prev_button_states, shown>>,
         forward' = 1 => \/ Moves(events[1], "Pressed")
                         \/ forward = 1 /\ ~Moves(events[1], "Released")
  PROVE  IInv'
<1>1. /\ Queued \in Seq(Event) /\ Queued # <<>> /\ Queued[1] = events[1]
      /\ Queued' = Tail(Queued) /\ down' = down
  BY TakenInFront DEF IInv, TypeOK, Queued, Handled, system
<1>2. WillStop'
  <2> DEFINE d == down["window"]
  <2>1. Stops(Queued, d, forward)
    BY DEF IInv, WillStop
  <2> HIDE DEF d
  <2>2. Stops(Tail(Queued), d, forward')
    BY <1>1, <2>1, StopsInFront
  <2> QED
    BY <1>1, <2>2 DEF WillStop, d
<1>3. Remembered'
  BY DEF IInv, Remembered, Handled, Collecting
<1> QED
  BY <1>2, <1>3 DEF IInv

LEMMA EventsIInv ==
  ASSUME IInv,
         RawKey \/ MouseButton \/ MouseMotion \/ ProcessKeyboard \/ CloseRequested \/ Resize
  PROVE  IInv'
<1> USE DEF system, keyboard, mouse, camera, history, Arrived
<1>1. /\ phase = "events" /\ events # <<>> /\ Handled
      /\ UNCHANGED <<prev_key_states, prev_button_states, shown>>
  BY DEF RawKey, MouseButton, MouseMotion, ProcessKeyboard, CloseRequested, Resize
<1>2. events[1] \in Event /\ Tail(events) \in Seq(Event)
  BY <1>1, TakenInFront, EmptySeq DEF IInv, TypeOK
<1>3. /\ events' \in Seq(Event) /\ pending' = pending /\ down' = down /\ phase' = phase
      /\ UNCHANGED <<unsent, main_exec, loaded>>
  BY <1>1, <1>2 DEF Handled
<1>4. CASE RawKey
  <2>1. /\ events[1].of \in Keys /\ events[1].kind = "raw"
        /\ events[1].state \in {"Pressed", "Released"}
    BY <1>2, <1>4 DEF RawKey, Event
  <2>2. TypeOK'
    BY <1>1, <1>3, <1>4, <2>1 DEF RawKey, IInv, TypeOK, With
  <2>3. Noticed'
    BY <1>4 DEF RawKey, IInv, Noticed, With, Noted
  <2> QED
    BY <1>1, <1>4, <2>1, <2>2, <2>3, HandledKeepsIInv DEF RawKey, Moves
<1>5. CASE MouseButton
  <2>1. /\ events[1].of \in Buttons /\ events[1].kind = "button"
        /\ events[1].state \in {"Pressed", "Released"}
    BY <1>2, <1>5 DEF MouseButton, Event
  <2>2. TypeOK'
    BY <1>1, <1>3, <1>5, <2>1 DEF MouseButton, IInv, TypeOK, With
  <2>3. Noticed'
    BY <1>5, <2>1 DEF MouseButton, IInv, Noticed, With, Noted
  <2> QED
    BY <1>1, <1>5, <2>1, <2>2, <2>3, HandledKeepsIInv DEF MouseButton, Moves
<1>6. CASE MouseMotion \/ CloseRequested \/ Resize
  <2>1. events[1].kind # "window" /\ forward' = forward
    BY <1>6 DEF MouseMotion, CloseRequested, Resize
  <2>2. Resize => events[1].to \in {0, 1}
    BY <1>2 DEF Resize, Event
  <2>3. TypeOK'
    BY <1>1, <1>3, <1>6, <2>2 DEF MouseMotion, CloseRequested, Resize, IInv, TypeOK
  <2>4. Noticed'
    BY <1>6 DEF MouseMotion, CloseRequested, Resize, IInv, Noticed
  <2> QED
    BY <1>1, <2>1, <2>3, <2>4, HandledKeepsIInv DEF Moves
<1>7. CASE ProcessKeyboard
  <2>1. events[1].kind = "window" /\ events[1].state \in {"Pressed", "Released"}
    BY <1>2, <1>7 DEF ProcessKeyboard, Event
  <2>2. TypeOK'
    BY <1>1, <1>3, <1>7 DEF ProcessKeyboard, IInv, TypeOK
  <2>3. Noticed'
    BY <1>7 DEF ProcessKeyboard, IInv, Noticed
  <2>4. forward' = 1 => \/ Moves(events[1], "Pressed")
                        \/ forward = 1 /\ ~Moves(events[1], "Released")
    BY <1>7, <2>1 DEF ProcessKeyboard, Moves
  <2> QED
    BY <1>1, <2>2, <2>3, <2>4, HandledKeepsIInv
<1> QED
  BY <1>4, <1>5, <1>6, <1>7

LEMMA NextIInv == IInv /\ [Next]_vars => IInv'
<1> SUFFICES ASSUME IInv, [Next]_vars PROVE IInv'
  OBVIOUS
<1>1. CASE UNCHANGED vars
  BY <1>1 DEF vars, system, keyboard, mouse, camera, history, IInv, TypeOK, Noticed, Remembered,
              WillStop, Queued
<1> QED
  BY <1>1, EnvironmentIInv, PhasesIInv, EventsIInv DEF Next, Loop

THEOREM FrameInvariant == Spec => []IInv
BY InitIInv, NextIInv, PTL DEF Spec

-----------------------------------------------------------------------------
(***************************************************************************)
(* What the invariant says.                                                *)
(***************************************************************************)

\* Whatever is pressed and released while a frame runs, a system finds a key or button
\* just pressed only in the frame its press was registered in.
THEOREM PressIsAlwaysFresh == Spec => []PressIsFresh
<1>1. IInv => PressIsFresh
  BY DEF IInv, Noticed, PressIsFresh, KeyPressed, ButtonPressed
<1> QED
  BY <1>1, FrameInvariant, PTL

\* No update without a modifier misses that a key went down since the one before, or that a
\* button did or came up, however often it changed in between.
THEOREM EdgesAreAlwaysSeen == Spec => []EdgesAreSeen
<1>1. IInv => EdgesAreSeen
  <2> SUFFICES ASSUME IInv, AtUpdate PROVE EdgesAreSeen
    BY DEF EdgesAreSeen
  <2>1. shown = prev_key_states \cup prev_button_states
    BY DEF IInv, Remembered, Collecting, AtUpdate
  <2>2. \A b \in Buttons : b \notin prev_key_states
    BY DevicesAssumption DEF IInv, TypeOK
  <2> QED
    BY <2>1, <2>2 DEF IInv, Noticed, EdgesAreSeen, KeyHeld, KeyPressed, ButtonHeld, ButtonPressed,
                      ButtonReleased
<1> QED
  BY <1>1, FrameInvariant, PTL

\* With any number of keys that share a direction, and events in flight in two queues,
\* the camera stands still once the releases are handled.
THEOREM StopsWithoutItsKeys == Spec => []StopsWithoutKeys
<1>1. IInv => StopsWithoutKeys
  <2> SUFFICES ASSUME IInv, down["window"] \cap Forward = {},
                      \A i \in 1 .. Len(pending) : pending[i].kind # "window",
                      \A i \in 1 .. Len(events) : events[i].kind # "window"
               PROVE  forward = 0
    BY DEF StopsWithoutKeys
  <2>1. /\ events \in Seq(Event) /\ pending \in Seq(Event) /\ forward \in {0, 1}
    BY DEF IInv, TypeOK
  <2>2. /\ Len(Queued) = Len(events) + Len(pending) /\ Len(events) \in Nat /\ Len(pending) \in Nat
        /\ \A j \in 1 .. Len(events) : Queued[j] = events[j]
        /\ \A j \in Len(events) + 1 .. Len(events) + Len(pending) :
             Queued[j] = pending[j - Len(events)]
    BY <2>1, ConcatProperties, LenProperties DEF Queued
  <2>3. ASSUME NEW j \in 1 .. Len(Queued) PROVE Queued[j].kind # "window"
    <3>1. CASE j \in 1 .. Len(events)
      BY <2>2, <3>1
    <3>2. CASE j \notin 1 .. Len(events)
      <4>1. /\ j \in Len(events) + 1 .. Len(events) + Len(pending)
            /\ j - Len(events) \in 1 .. Len(pending)
        BY <2>2, <3>2
      <4> QED
        BY <2>2, <4>1
    <3> QED
      BY <3>1, <3>2
  <2> QED
    BY <2>1, <2>3 DEF IInv, WillStop, Stops, Moves
<1> QED
  BY <1>1, FrameInvariant, PTL

-----------------------------------------------------------------------------
(***************************************************************************)
(* The pointers render() follows, for any materials and any number of      *)
(* groups: which of them dangle, and what is drawn by the others.          *)
(*                                                                         *)
(* The argument: a pointer of this frame belongs to a material whose       *)
(* system has run or runs (FreshBegun).  So the clear() a system starts    *)
(* with drops no element such a pointer shows, and only a push can hurt    *)
(* them: by moving the vector, which is what puts the material into moved. *)
(* A vector never moves under a pointer while it makes its first           *)
(* allocation, because without one there is no pointer (Allocated).        *)
(***************************************************************************)
Begun(m) == m \in done \/ (running # Idle /\ running.material = m)

FreshBegun == \A i \in Fresh : Begun(draw_passes[i].material)

Room ==
  running # Idle => running.groups + local_passes[running.material].len <= MaxGroups

Allocated ==
  \A m \in Materials :
    /\ local_passes[m].capacity = 0 => \A i \in DOMAIN draw_passes : draw_passes[i].material # m
    /\ local_passes[m].capacity = 0 \/ local_passes[m].capacity >= FirstCapacity

\* Every pass pushed so far has its pointer.
Listed(m) == \A s \in 1 .. local_passes[m].len : \E i \in Fresh : draw_passes[i] = Pointer(m, s)

\* No pass has two.
ListedOnce(m) ==
  \A i, j \in Fresh : draw_passes[i] = draw_passes[j] /\ draw_passes[i].material = m => i = j

BegunListed == \A m \in Materials \ moved : Begun(m) => Listed(m) /\ ListedOnce(m)

DrawIInv ==
  /\ DrawTypeOK
  /\ Room
  /\ Allocated
  /\ FreshBegun
  /\ DanglingIsExplained
  /\ BegunListed
  /\ MovesBeyondFour

-----------------------------------------------------------------------------
Pass == [material : Materials, buffer : Nat, slot : 1 .. MaxGroups]

LEMMA Types ==
  ASSUME DrawTypeOK
  PROVE  /\ draw_passes \in Seq(Pass)
         /\ Len(draw_passes) \in Nat /\ DOMAIN draw_passes = 1 .. Len(draw_passes)
         /\ kept \in Nat /\ kept <= Len(draw_passes)
         /\ \A m \in Materials :
              /\ local_passes[m].buffer \in Nat
              /\ local_passes[m].len \in 0 .. MaxGroups
              /\ local_passes[m].capacity \in Nat
              /\ local_passes[m].len <= local_passes[m].capacity
         /\ \A i \in 1 .. Len(draw_passes) :
              /\ draw_passes[i].material \in Materials
              /\ draw_passes[i].buffer \in Nat
              /\ draw_passes[i].slot \in 1 .. MaxGroups
<1>1. draw_passes \in Seq(Pass) /\ kept \in 0 .. Len(draw_passes)
  BY DEF DrawTypeOK, Pass
<1>2. Len(draw_passes) \in Nat /\ DOMAIN draw_passes = 1 .. Len(draw_passes)
  BY <1>1
<1>3. \A i \in 1 .. Len(draw_passes) : draw_passes[i] \in Pass
  BY <1>1, <1>2
<1>4. \A m \in Materials :
        /\ local_passes[m] \in [buffer : Nat, len : 0 .. MaxGroups, capacity : Nat]
        /\ local_passes[m].len <= local_passes[m].capacity
  BY DEF DrawTypeOK
<1> QED BY <1>1, <1>2, <1>3, <1>4 DEF Pass

\* A frame is rendered when every system has ended.
LEMMA RenderingIsIdle ==
  ASSUME DrawTypeOK, Rendering PROVE running = Idle
BY DEF DrawTypeOK, Rendering

LEMMA InitDrawIInv == DrawInit => DrawIInv
<1> SUFFICES ASSUME DrawInit PROVE DrawIInv
  OBVIOUS
<1> USE MaxGroupsAssumption DEF DrawInit
<1>1. \A m \in Materials : local_passes[m] = [buffer |-> 0, len |-> 0, capacity |-> 0]
  OBVIOUS
<1>2. DrawTypeOK
  BY <1>1 DEF DrawTypeOK
<1>3. Room /\ Allocated /\ FreshBegun /\ DanglingIsExplained /\ MovesBeyondFour
  BY <1>1 DEF Room, Allocated, FreshBegun, DanglingIsExplained, MovesBeyondFour, Fresh
<1>4. BegunListed
  BY DEF BegunListed, Begun
<1> QED BY <1>2, <1>3, <1>4 DEF DrawIInv

\* clear() drops what no pointer of this frame shows.
LEMMA StartIInv ==
  ASSUME DrawIInv, NEW m \in Materials, Start(m) PROVE DrawIInv'
<1>1. PICK n \in 0 .. MaxGroups : running' = [material |-> m, groups |-> n]
  BY DEF Start
<1>2. /\ running = Idle /\ m \notin done
      /\ local_passes' = [local_passes EXCEPT ![m].len = 0]
      /\ UNCHANGED <<draw_passes, done, looping, kept, moved>>
  BY DEF Start, pointers
<1>3. DrawTypeOK /\ \A k \in Materials :
        /\ local_passes'[k].buffer = local_passes[k].buffer
        /\ local_passes'[k].capacity = local_passes[k].capacity
        /\ local_passes'[k].len = IF k = m THEN 0 ELSE local_passes[k].len
  BY <1>2 DEF DrawIInv, DrawTypeOK
<1>4. DrawTypeOK'
  BY <1>1, <1>2, <1>3, MaxGroupsAssumption DEF DrawTypeOK
<1>5. Room'
  BY <1>1, <1>3, MaxGroupsAssumption DEF Room
<1>6. Allocated'
  BY <1>2, <1>3 DEF DrawIInv, Allocated
<1>7. \A i \in Fresh : draw_passes[i].material \in done /\ draw_passes[i].material # m
  BY <1>2 DEF DrawIInv, FreshBegun, Begun
<1>8. FreshBegun'
  BY <1>2, <1>7 DEF FreshBegun, Fresh, Begun
<1>9. DanglingIsExplained'
  <2> SUFFICES ASSUME NEW i \in DOMAIN draw_passes, Dangles(draw_passes[i])', i \notin 1 .. kept
               PROVE  draw_passes[i].material \in moved
    BY <1>2, <1>3, Types DEF DanglingIsExplained
  <2>1. i \in Fresh /\ draw_passes[i].material \in Materials
    BY <1>3, Types DEF Fresh
  <2>2. Dangles(draw_passes[i])
    BY <1>2, <1>3, <1>7, <2>1 DEF Dangles
  <2> QED BY <1>3, <2>1, <2>2, Types DEF DrawIInv, DanglingIsExplained, Fresh
<1>10. BegunListed'
  <2> SUFFICES ASSUME NEW k \in Materials \ moved, Begun(k)'
               PROVE  Listed(k)' /\ ListedOnce(k)'
    BY <1>2 DEF BegunListed
  <2>1. CASE k = m
    <3>1. Listed(k)'
      BY <1>3, <2>1 DEF Listed
    <3>2. ListedOnce(k)'
      BY <1>2, <1>7, <2>1 DEF ListedOnce, Fresh
    <3> QED BY <3>1, <3>2
  <2>2. CASE k # m
    <3>1. Begun(k)
      BY <1>1, <1>2, <2>2 DEF Begun
    <3>2. Listed(k) /\ ListedOnce(k)
      BY <3>1 DEF DrawIInv, BegunListed
    <3> QED BY <1>2, <1>3, <2>2, <3>2 DEF Listed, ListedOnce, Fresh, Pointer
  <2> QED BY <2>1, <2>2
<1>11. MovesBeyondFour'
  BY <1>2, <1>3, <1>4 DEF DrawIInv, MovesBeyondFour, DrawTypeOK
<1> QED BY <1>4, <1>5, <1>6, <1>8, <1>9, <1>10, <1>11 DEF DrawIInv

LEMMA FinishIInv ==
  ASSUME DrawIInv, Finish PROVE DrawIInv'
<1>1. /\ running # Idle /\ done' = done \cup {running.material} /\ running' = Idle
      /\ UNCHANGED <<local_passes, draw_passes, looping, kept, moved>>
  BY DEF Finish, pointers
<1>2. running.material \in Materials
  BY <1>1 DEF DrawIInv, DrawTypeOK
<1>3. DrawTypeOK'
  BY <1>1, <1>2 DEF DrawIInv, DrawTypeOK
<1>4. \A m : Begun(m)' <=> Begun(m)
  BY <1>1 DEF Begun
<1>5. Room' /\ Allocated' /\ MovesBeyondFour'
  BY <1>1 DEF DrawIInv, Room, Allocated, MovesBeyondFour
<1>6. FreshBegun'
  BY <1>1, <1>4 DEF DrawIInv, FreshBegun, Fresh
<1>7. DanglingIsExplained'
  BY <1>1 DEF DrawIInv, DanglingIsExplained, Dangles
<1>8. \A m : (Listed(m)' <=> Listed(m)) /\ (ListedOnce(m)' <=> ListedOnce(m))
  BY <1>1 DEF Listed, ListedOnce, Fresh, Pointer
<1>9. BegunListed'
  BY <1>1, <1>4, <1>8 DEF DrawIInv, BegunListed
<1> QED BY <1>3, <1>5, <1>6, <1>7, <1>9 DEF DrawIInv

LEMMA RenderPassesIInv ==
  ASSUME DrawIInv, RenderPasses PROVE DrawIInv'
<1>1. /\ draw_passes' = << >> /\ done' = {} /\ kept' = 0 /\ moved' = {}
      /\ UNCHANGED <<local_passes, running, looping>>
  BY DEF RenderPasses
<1>2. running = Idle
  BY RenderingIsIdle DEF DrawIInv, RenderPasses
<1>3. DrawTypeOK'
  BY <1>1, <1>2 DEF DrawIInv, DrawTypeOK
<1>4. Room' /\ Allocated' /\ MovesBeyondFour' /\ FreshBegun' /\ DanglingIsExplained'
  BY <1>1, <1>2 DEF DrawIInv, Room, Allocated, MovesBeyondFour, FreshBegun, Fresh, DanglingIsExplained
<1>5. BegunListed'
  BY <1>1, <1>2 DEF BegunListed, Begun
<1> QED BY <1>3, <1>4, <1>5 DEF DrawIInv

LEMMA RenderFailsIInv ==
  ASSUME DrawIInv, RenderFails PROVE DrawIInv'
<1>1. /\ done' = {} /\ kept' = Len(draw_passes)
      /\ UNCHANGED <<local_passes, draw_passes, running, looping, moved>>
  BY DEF RenderFails
<1>2. running = Idle
  BY RenderingIsIdle DEF DrawIInv, RenderFails
<1>3. DrawTypeOK /\ Len(draw_passes) \in Nat /\ DOMAIN draw_passes = 1 .. Len(draw_passes)
  BY Types DEF DrawIInv
<1>4. DrawTypeOK'
  BY <1>1, <1>2, <1>3 DEF DrawTypeOK
<1>5. Room' /\ Allocated' /\ MovesBeyondFour'
  BY <1>1, <1>2 DEF DrawIInv, Room, Allocated, MovesBeyondFour
<1>6. FreshBegun' /\ DanglingIsExplained'
  BY <1>1, <1>3 DEF FreshBegun, Fresh, DanglingIsExplained
<1>7. BegunListed'
  BY <1>1, <1>2 DEF BegunListed, Begun
<1> QED BY <1>4, <1>5, <1>6, <1>7 DEF DrawIInv

LEMMA LeaveIInv ==
  ASSUME DrawIInv, looping' \in BOOLEAN,
         UNCHANGED <<local_passes, draw_passes, running, done, pointers>>
  PROVE  DrawIInv'
<1>1. DrawTypeOK' /\ Room' /\ Allocated' /\ MovesBeyondFour' /\ DanglingIsExplained' /\ FreshBegun'
  BY DEF DrawIInv, pointers, DrawTypeOK, Room, Allocated, MovesBeyondFour, DanglingIsExplained, Dangles,
         FreshBegun, Fresh, Begun
<1>2. BegunListed'
  BY DEF DrawIInv, pointers, BegunListed, Begun, Listed, ListedOnce, Fresh, Pointer
<1> QED BY <1>1, <1>2 DEF DrawIInv

-----------------------------------------------------------------------------
(* A push, and the pointer taken after it. *)

LEMMA AddPassFacts ==
  ASSUME DrawIInv, AddPass
  PROVE  \E m \in Materials, b \in Nat :
           /\ running # Idle /\ running.material = m /\ m \notin done
           /\ running.groups \in 1 .. MaxGroups
           /\ running' = [running EXCEPT !.groups = @ - 1]
           /\ UNCHANGED <<done, looping, kept>>
           /\ b \in Buffers(m)
           /\ Push(m, b)
           /\ draw_passes' = Append(draw_passes,
                [material |-> m, buffer |-> b, slot |-> local_passes[m].len + 1])
<1> DEFINE m == running.material
<1>1. running.groups > 0
  BY DEF AddPass
<1>2. running # Idle
  BY <1>1 DEF Idle
<1>3. running \in [material : Materials \ done, groups : 0 .. MaxGroups]
  BY <1>2 DEF DrawIInv, DrawTypeOK
<1>4. m \in Materials /\ m \notin done /\ running.groups \in 1 .. MaxGroups
  BY <1>1, <1>3, MaxGroupsAssumption
<1>5. PICK b \in Buffers(m) :
        /\ Push(m, b)
        /\ draw_passes' = Append(draw_passes,
             [material |-> m, buffer |-> b, slot |-> local_passes[m].len + 1])
  BY DEF AddPass
<1>6. b \in Nat
  BY <1>4, Types DEF Buffers, DrawIInv
<1>7. running' = [running EXCEPT !.groups = @ - 1] /\ UNCHANGED <<done, looping, kept>>
  BY DEF AddPass
<1> QED BY <1>2, <1>4, <1>5, <1>6, <1>7

\* The vector pushed to: where it is, how long, how large, and whether its elements moved.
LEMMA PushFacts ==
  ASSUME DrawIInv, NEW m \in Materials, NEW b \in Buffers(m), Push(m, b)
  PROVE  /\ \A k \in Materials \ {m} : local_passes'[k] = local_passes[k]
         /\ local_passes'[m] = [buffer |-> b, len |-> local_passes[m].len + 1,
                                capacity |-> local_passes'[m].capacity]
         /\ local_passes'[m].capacity \in Nat
         /\ local_passes'[m].capacity >= local_passes[m].len + 1
         /\ local_passes'[m].capacity >= local_passes[m].capacity
         /\ local_passes'[m].capacity >= FirstCapacity
         /\ \/ moved' = moved
            \/ moved' = moved \cup {m} /\ local_passes'[m].capacity > 4
         /\ m \notin moved' =>
              /\ moved' = moved
              /\ b = local_passes[m].buffer \/ ~PointedAt(m)
<1> DEFINE v == local_passes[m]
<1>1. /\ v \in [buffer : Nat, len : 0 .. MaxGroups, capacity : Nat]
      /\ v.len \in Nat /\ v.buffer \in Nat /\ v.capacity \in Nat /\ v.len <= v.capacity
      /\ v.capacity = 0 \/ v.capacity >= 4
      /\ v = [buffer |-> v.buffer, len |-> v.len, capacity |-> v.capacity]
  BY MaxGroupsAssumption DEF DrawIInv, DrawTypeOK, Allocated, FirstCapacity
<1>2. CASE v.len < v.capacity
  <2>1. /\ b = v.buffer /\ moved' = moved
        /\ local_passes' = [local_passes EXCEPT ![m].len = @ + 1]
    BY <1>2 DEF Push
  <2>2. /\ local_passes'[m] = [v EXCEPT !.len = v.len + 1]
        /\ \A k \in Materials \ {m} : local_passes'[k] = local_passes[k]
    BY <2>1 DEF DrawIInv, DrawTypeOK
  <2>3. local_passes'[m].capacity = v.capacity
    BY <1>1, <2>2
  <2> QED BY <1>1, <1>2, <2>1, <2>2, <2>3 DEF FirstCapacity
<1>3. CASE ~(v.len < v.capacity)
  <2>1. /\ local_passes' = [local_passes EXCEPT
             ![m] = [buffer |-> b, len |-> v.len + 1, capacity |-> Grown(v.capacity)]]
        /\ moved' = IF b # v.buffer /\ PointedAt(m) THEN moved \cup {m} ELSE moved
    BY <1>3 DEF Push
  <2>2. /\ local_passes'[m] = [buffer |-> b, len |-> v.len + 1, capacity |-> Grown(v.capacity)]
        /\ \A k \in Materials \ {m} : local_passes'[k] = local_passes[k]
    BY <2>1 DEF DrawIInv, DrawTypeOK
  <2>3. v.capacity = 0 => ~PointedAt(m)
    BY DEF DrawIInv, Allocated, PointedAt
  <2>4. /\ Grown(v.capacity) \in Nat /\ Grown(v.capacity) >= 4
        /\ v.capacity # 0 => Grown(v.capacity) > 4
        /\ Grown(v.capacity) > v.capacity
    BY <1>1 DEF Grown, FirstCapacity
  <2> QED BY <1>1, <1>3, <2>1, <2>2, <2>3, <2>4 DEF FirstCapacity
<1> QED BY <1>2, <1>3

\* The pointers after a push: those there were, and one more.
LEMMA AddPassIInv ==
  ASSUME DrawIInv, AddPass PROVE DrawIInv'
<1>1. PICK m \in Materials, b \in Nat :
        /\ running # Idle /\ running.material = m /\ m \notin done
        /\ running.groups \in 1 .. MaxGroups
        /\ running' = [running EXCEPT !.groups = @ - 1]
        /\ UNCHANGED <<done, looping, kept>>
        /\ b \in Buffers(m)
        /\ Push(m, b)
        /\ draw_passes' = Append(draw_passes,
             [material |-> m, buffer |-> b, slot |-> local_passes[m].len + 1])
  BY AddPassFacts
<1> DEFINE len == local_passes[m].len
           new == [material |-> m, buffer |-> b, slot |-> len + 1]
           L == Len(draw_passes)
<1>2. DrawTypeOK /\ \A k \in Materials \ {m} : local_passes'[k] = local_passes[k]
  BY <1>1, PushFacts DEF DrawIInv
<1>3. /\ local_passes'[m].buffer = b /\ local_passes'[m].len = len + 1
      /\ local_passes'[m].capacity \in Nat
      /\ local_passes'[m].capacity >= len + 1
      /\ local_passes'[m].capacity >= local_passes[m].capacity
      /\ local_passes'[m].capacity >= FirstCapacity
  <2>1. local_passes'[m] = [buffer |-> b, len |-> len + 1, capacity |-> local_passes'[m].capacity]
    BY <1>1, PushFacts
  <2>2. local_passes'[m].buffer = b /\ local_passes'[m].len = len + 1
    BY <2>1
  <2> QED BY <1>1, <2>2, PushFacts
<1>4. len \in Nat /\ len + 1 \in 1 .. MaxGroups
  BY <1>1, <1>2, Types, MaxGroupsAssumption DEF DrawIInv, Room
<1>5. /\ new \in Pass /\ draw_passes' \in Seq(Pass)
      /\ L \in Nat /\ Len(draw_passes') = L + 1
      /\ DOMAIN draw_passes = 1 .. L /\ DOMAIN draw_passes' = 1 .. L + 1
      /\ draw_passes'[L + 1] = new
      /\ \A i \in 1 .. L : draw_passes'[i] = draw_passes[i]
      /\ kept \in Nat /\ kept <= L
  <2>1. new \in Pass
    BY <1>4 DEF Pass
  <2>2. draw_passes \in Seq(Pass) /\ kept \in Nat /\ kept <= L
    BY <1>2, Types
  <2> QED BY <1>1, <2>1, <2>2
<1>6. /\ moved \subseteq moved' /\ moved' \subseteq moved \cup {m}
      /\ m \in moved' => m \in moved \/ local_passes'[m].capacity > 4
      /\ m \notin moved' => b = local_passes[m].buffer \/ ~PointedAt(m)
  BY <1>1, PushFacts
<1>7. /\ Fresh' = Fresh \cup {L + 1} /\ L + 1 \notin Fresh
      /\ \A i \in Fresh : i \in 1 .. L
  BY <1>1, <1>5 DEF Fresh
<1>8. /\ running'.material = m /\ running'.groups = running.groups - 1
      /\ running'.groups \in 0 .. MaxGroups
      /\ running' \in [material : Materials \ done, groups : 0 .. MaxGroups]
  <2>1. running \in [material : Materials \ done, groups : 0 .. MaxGroups]
    BY <1>1, <1>2 DEF DrawTypeOK
  <2> QED BY <1>1, <2>1, MaxGroupsAssumption
<1>9. \A k \in Materials : Begun(k)' => Begun(k)
  BY <1>1, <1>8 DEF Begun
<1>10. DrawTypeOK'
  <2>1. local_passes' \in [Materials -> [buffer : Nat, len : 0 .. MaxGroups, capacity : Nat]]
    <3>1. DOMAIN local_passes' = Materials /\ local_passes' = [k \in Materials |-> local_passes'[k]]
      BY <1>1 DEF DrawIInv, DrawTypeOK, Push
    <3>2. local_passes'[m] \in [buffer : Nat, len : 0 .. MaxGroups, capacity : Nat]
      <4>1. local_passes'[m] = [buffer |-> b, len |-> len + 1, capacity |-> local_passes'[m].capacity]
        BY <1>1, PushFacts
      <4> QED BY <4>1, <1>1, <1>3, <1>4
    <3>3. \A k \in Materials \ {m} :
            local_passes'[k] \in [buffer : Nat, len : 0 .. MaxGroups, capacity : Nat]
      BY <1>2 DEF DrawTypeOK
    <3> QED BY <3>1, <3>2, <3>3
  <2>2. \A k \in Materials : local_passes'[k].len <= local_passes'[k].capacity
    BY <1>2, <1>3 DEF DrawTypeOK
  <2>3. moved' \subseteq Materials /\ done' = done /\ looping' = looping /\ kept' = kept
    BY <1>1, <1>2, <1>6 DEF DrawTypeOK
  <2>4. kept' \in 0 .. Len(draw_passes')
    BY <1>5, <2>3
  <2> QED BY <1>2, <1>5, <1>8, <2>1, <2>2, <2>3, <2>4 DEF DrawTypeOK, Pass
<1>11. Room'
  BY <1>1, <1>2, <1>3, <1>8, Types DEF DrawIInv, Room
<1>12. Allocated'
  <2> SUFFICES ASSUME NEW k \in Materials
               PROVE  /\ local_passes'[k].capacity = 0 =>
                           \A i \in DOMAIN draw_passes' : draw_passes'[i].material # k
                      /\ local_passes'[k].capacity = 0 \/ local_passes'[k].capacity >= FirstCapacity
    BY DEF Allocated
  <2>1. CASE k = m
    BY <1>3, <2>1 DEF FirstCapacity
  <2>2. CASE k # m
    BY <1>2, <1>5, <2>2 DEF DrawIInv, Allocated
  <2> QED BY <2>1, <2>2
<1>13. \A k \in Materials : Begun(k) <=> Begun(k)'
  <2>1. running' # Idle
    BY <1>8, MaterialsAssumption DEF Idle
  <2> QED BY <1>1, <1>8, <2>1 DEF Begun
<1>14. Begun(m)
  BY <1>1 DEF Begun
<1>15. FreshBegun'
  <2>1. \A i \in Fresh : Begun(draw_passes[i].material)
    BY DEF DrawIInv, FreshBegun
  <2>2. \A i \in Fresh' : draw_passes'[i].material \in Materials
    BY <1>2, <1>5, <1>7, Types
  <2>3. \A i \in Fresh' : \E k \in Materials : k = draw_passes'[i].material /\ Begun(k)
    BY <1>5, <1>7, <1>14, <2>1, <2>2
  <2>4. \A i \in Fresh' : \E k \in Materials : k = draw_passes'[i].material /\ Begun(k)'
    BY <1>13, <2>3
  <2> QED BY <2>4 DEF FreshBegun, Begun
\* A pointer of this frame to a vector that did not move shows what it showed.
<1>16. \A i \in Fresh : draw_passes[i].material \notin moved =>
         /\ draw_passes[i].buffer = local_passes[draw_passes[i].material].buffer
         /\ draw_passes[i].slot <= local_passes[draw_passes[i].material].len
  <2> SUFFICES ASSUME NEW i \in Fresh, draw_passes[i].material \notin moved
               PROVE  ~Dangles(draw_passes[i])
    BY <1>2, <1>5, <1>7, Types DEF Dangles
  <2>1. ~(i <= kept) /\ i \in DOMAIN draw_passes
    BY <1>5 DEF Fresh
  <2> QED BY <2>1 DEF DrawIInv, DanglingIsExplained
<1>17. \A i \in Fresh : draw_passes[i].material = m /\ m \notin moved' => b = local_passes[m].buffer
  <2> SUFFICES ASSUME NEW i \in Fresh, draw_passes[i].material = m, m \notin moved'
               PROVE  PointedAt(m)
    BY <1>6
  <2>1. i \in DOMAIN draw_passes /\ m \notin moved
    BY <1>5, <1>6, <1>7
  <2> QED BY <1>16, <2>1 DEF PointedAt
<1>18. \A i \in Fresh : draw_passes[i].material \notin moved' =>
         /\ draw_passes[i].buffer = local_passes'[draw_passes[i].material].buffer
         /\ draw_passes[i].slot <= local_passes'[draw_passes[i].material].len
  <2> SUFFICES ASSUME NEW i \in Fresh, draw_passes[i].material \notin moved'
               PROVE  /\ draw_passes[i].buffer = local_passes'[draw_passes[i].material].buffer
                      /\ draw_passes[i].slot <= local_passes'[draw_passes[i].material].len
    OBVIOUS
  <2> DEFINE k == draw_passes[i].material
  <2>1. /\ k \in Materials /\ k \notin moved
        /\ local_passes[k].len \in Nat /\ draw_passes[i].slot \in Nat
    BY <1>2, <1>5, <1>6, <1>7, Types, MaxGroupsAssumption
  <2>2. draw_passes[i].buffer = local_passes[k].buffer /\ draw_passes[i].slot <= local_passes[k].len
    BY <1>16, <2>1
  <2>3. CASE k # m
    BY <1>2, <2>1, <2>2, <2>3
  <2>4. CASE k = m
    BY <1>3, <1>17, <2>1, <2>2, <2>4
  <2> QED BY <2>3, <2>4
<1>19. DanglingIsExplained'
  <2> SUFFICES ASSUME NEW i \in DOMAIN draw_passes', ~(i <= kept),
                      draw_passes'[i].material \notin moved'
               PROVE  ~Dangles(draw_passes[i])'
    BY <1>1 DEF DanglingIsExplained
  <2>1. i \in Fresh \/ i = L + 1
    BY <1>5 DEF Fresh
  <2>2. CASE i \in Fresh
    <3>1. draw_passes'[i] = draw_passes[i]
      BY <1>5, <1>7, <2>2
    <3>2. /\ draw_passes[i].slot \in Nat /\ draw_passes[i].material \in Materials
          /\ local_passes'[draw_passes[i].material].len \in Nat
      <4>1. draw_passes[i].slot \in Nat /\ draw_passes[i].material \in Materials
        BY <1>2, <1>5, <1>7, <2>2, Types, MaxGroupsAssumption
      <4>2. \A k \in Materials : local_passes[k].len \in Nat
        BY <1>2, Types, MaxGroupsAssumption
      <4> QED BY <1>2, <1>3, <1>4, <4>1, <4>2
    <3>3. /\ draw_passes[i].buffer = local_passes'[draw_passes[i].material].buffer
          /\ draw_passes[i].slot <= local_passes'[draw_passes[i].material].len
      BY <1>18, <2>2, <3>1
    <3> QED BY <3>1, <3>2, <3>3 DEF Dangles
  <2>3. CASE i = L + 1
    BY <1>3, <1>4, <1>5, <2>3 DEF Dangles
  <2> QED BY <2>1, <2>2, <2>3
<1>20. ASSUME NEW k \in Materials \ moved', k # m, Begun(k)
       PROVE  Listed(k)' /\ ListedOnce(k)'
  <2>1. Listed(k) /\ ListedOnce(k)
    BY <1>6, <1>20 DEF DrawIInv, BegunListed
  <2>2. local_passes'[k] = local_passes[k] /\ new.material # k
    BY <1>2, <1>20
  <2>3. Listed(k)'
    BY <1>5, <1>7, <2>1, <2>2 DEF Listed, Pointer
  <2>4. ListedOnce(k)'
    BY <1>5, <1>7, <2>1, <2>2 DEF ListedOnce
  <2> QED BY <2>3, <2>4
<1>21. ASSUME m \notin moved'
       PROVE  Listed(m)' /\ ListedOnce(m)'
  <2>1. Listed(m) /\ ListedOnce(m)
    BY <1>6, <1>14, <1>21 DEF DrawIInv, BegunListed
  <2>2. \A s \in 1 .. len : \E i \in Fresh : draw_passes'[i] = [material |-> m, buffer |-> b, slot |-> s]
    <3> TAKE s \in 1 .. len
    <3>1. PICK i \in Fresh : draw_passes[i] = Pointer(m, s)
      BY <2>1 DEF Listed
    <3>2. b = local_passes[m].buffer
      BY <1>17, <1>21, <3>1 DEF Pointer
    <3>3. draw_passes'[i] = draw_passes[i]
      BY <1>5, <1>7
    <3> QED BY <3>1, <3>2, <3>3 DEF Pointer
  <2>3. Listed(m)'
    <3> SUFFICES ASSUME NEW s \in 1 .. len + 1
                 PROVE  \E i \in Fresh' :
                          draw_passes'[i] = [material |-> m, buffer |-> b, slot |-> s]
      BY <1>3 DEF Listed, Pointer
    <3>1. CASE s = len + 1
      <4>1. L + 1 \in Fresh' /\ draw_passes'[L + 1] = [material |-> m, buffer |-> b, slot |-> s]
        BY <1>5, <1>7, <3>1
      <4> QED BY <4>1
    <3>2. CASE s # len + 1
      <4>1. s \in 1 .. len
        BY <1>4, <3>2
      <4> QED BY <1>7, <2>2, <4>1
    <3> QED BY <3>1, <3>2
  <2>4. \A i \in Fresh : draw_passes'[i] # new
    <3> SUFFICES ASSUME NEW i \in Fresh, draw_passes'[i] = new PROVE FALSE
      OBVIOUS
    <3>1. draw_passes[i] = new
      BY <1>5, <1>7
    <3>2. draw_passes[i].material = m /\ draw_passes[i].slot = len + 1
      BY <3>1
    <3>3. draw_passes[i].slot <= len
      BY <1>6, <1>16, <1>21, <3>2
    <3> QED BY <1>4, <3>2, <3>3
  <2>5. ListedOnce(m)'
    BY <1>5, <1>7, <2>1, <2>4 DEF ListedOnce
  <2> QED BY <2>3, <2>5
<1>22. BegunListed'
  <2> SUFFICES ASSUME NEW k \in Materials \ moved', Begun(k)'
               PROVE  Listed(k)' /\ ListedOnce(k)'
    BY DEF BegunListed
  <2> QED BY <1>13, <1>20, <1>21
<1>23. MovesBeyondFour'
  <2> SUFFICES ASSUME NEW k \in moved' PROVE local_passes'[k].capacity > 4
    BY DEF MovesBeyondFour
  <2>1. CASE k = m /\ m \notin moved
    BY <1>6, <2>1
  <2>2. CASE k \in moved
    <3>1. k \in Materials /\ local_passes[k].capacity \in Nat /\ local_passes[k].capacity > 4
      BY <1>2, <2>2, Types DEF DrawIInv, DrawTypeOK, MovesBeyondFour
    <3> QED BY <1>2, <1>3, <3>1
  <2> QED BY <1>6, <2>1, <2>2
<1> QED BY <1>10, <1>11, <1>12, <1>15, <1>19, <1>22, <1>23 DEF DrawIInv

-----------------------------------------------------------------------------
LEMMA NextDrawIInv ==
  ASSUME DrawIInv, [DrawNext]_draw_vars PROVE DrawIInv'
<1>1. CASE \E m \in Materials : Start(m)
  BY <1>1, StartIInv
<1>2. CASE AddPass \/ Finish
  BY <1>2, AddPassIInv, FinishIInv
<1>3. CASE RenderPasses \/ RenderFails
  BY <1>3, RenderPassesIInv, RenderFailsIInv
<1>4. CASE Leave
  BY <1>4, LeaveIInv DEF Leave, Rendering
<1>5. CASE UNCHANGED draw_vars
  <2>1. looping' \in BOOLEAN /\ UNCHANGED <<local_passes, draw_passes, running, done, pointers>>
    BY <1>5 DEF draw_vars, DrawIInv, DrawTypeOK
  <2> QED BY <2>1, LeaveIInv
<1> QED BY <1>1, <1>2, <1>3, <1>4, <1>5 DEF DrawNext

\* Where the pointers of a frame point, for any number of materials and groups.
THEOREM DrawInvariant == DrawSpec => []DrawIInv
BY InitDrawIInv, NextDrawIInv, PTL DEF DrawSpec

\* The vectors and the list of pointers keep their types.
THEOREM DrawTypeCorrect == DrawSpec => []DrawTypeOK
<1>1. DrawIInv => DrawTypeOK
  BY DEF DrawIInv
<1> QED BY <1>1, DrawInvariant, PTL

\* A pointer dangles only if its frame failed, or its vector was moved by a later push.
THEOREM OnlyTheseDangle == DrawSpec => []DanglingIsExplained
<1>1. DrawIInv => DanglingIsExplained
  BY DEF DrawIInv
<1> QED BY <1>1, DrawInvariant, PTL

\* Unless its vector moved, every pass of a material is drawn by one pointer of its frame.
THEOREM EveryPassDrawnOnce == DrawSpec => []DrawnOnce
<1>1. DrawIInv => DrawnOnce
  <2> SUFFICES ASSUME DrawIInv, Rendering, NEW m \in Materials \ moved
               PROVE  Listed(m) /\ ListedOnce(m)
    BY DEF DrawnOnce, Listed, ListedOnce
  <2> QED BY DEF Rendering, Begun, DrawIInv, BegunListed
<1> QED BY <1>1, DrawInvariant, PTL

\* Up to four passes of a material no pointer to them can dangle by a push.
THEOREM FourAreSafe == DrawSpec => []MovesBeyondFour
<1>1. DrawIInv => MovesBeyondFour
  BY DEF DrawIInv
<1> QED BY <1>1, DrawInvariant, PTL
=============================================================================
