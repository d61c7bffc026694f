----------------------------- MODULE FrameLoop ------------------------------
(***************************************************************************)
(* The loop of run() in lib.rs and the input it collects: what a frame     *)
(* forgets, in which order it drains its queues and takes the events of    *)
(* the operating system, what the systems of update() can ask KeyboardInput*)
(* and MouseInput, and how the loop ends.                                  *)
(*                                                                         *)
(* A key reaches the program twice: as a raw event of the keyboard, kept   *)
(* by KeyboardInput, and as an event of the window, which moves the camera *)
(* and which the system repeats while the key is down.                     *)
(***************************************************************************)
EXTENDS Naturals, Sequences

CONSTANTS
  Keys, Buttons,
  Modifiers,   \* the keys a user would call modifiers
  Unmapped,    \* keys and buttons the maps of new() have no entry for
  Sprint,      \* the key that toggles sprinting, ShiftLeft
  Forward,     \* the keys that share amount_forward, W and ArrowUp
  MaxPending,  \* bound: events the system holds for the program
  MaxRequests  \* bound: requests the asset threads send in all

ASSUME BoundsAssumption == MaxPending \in Nat /\ MaxRequests \in Nat

ASSUME KeysAssumption ==
  Forward \subseteq Keys /\ Modifiers \subseteq Keys /\ Unmapped \subseteq Keys \cup Buttons

\* A KeyCode is no MouseButton: the history variables hold both.
ASSUME DevicesAssumption == Keys \cap Buttons = {}

VARIABLES
  phase,              \* what the loop does next
  should_run,
  pending,            \* events in the queue of the operating system
  events,             \* Vec of events pumped and not handled yet
  down,               \* device -> the keys and buttons it holds down
  unsent,             \* requests the asset threads will still send
  main_exec,          \* requests in main_exec_rx
  loaded,             \* callbacks in loaded_callback_rx
  key_states, prev_key_states,       \* KeyboardInput: the keys that are Pressed
  button_states, prev_button_states, \* MouseInput: the buttons that are Pressed
  button_events,      \* MouseInput.button_events
  mouse_motion,       \* MouseInput.mouse_motion, in one dimension
  sprinting, forward, \* CameraController.sprinting, amount_forward
  size,               \* RenderManagerResource.size and what is made to fit it
  presses,            \* history: keys and buttons a press was registered of in this frame
  shown               \* history: keys and buttons held down at the last update

keyboard == <<key_states, prev_key_states>>
mouse == <<button_states, prev_button_states, button_events, mouse_motion>>
camera == <<sprinting, forward>>
system == <<pending, down, unsent>>
history == <<presses, shown>>
vars == <<phase, should_run, system, events, main_exec, loaded, keyboard, mouse,
          camera, size, history>>

Init ==
  /\ phase = "reset" /\ should_run = TRUE
  /\ pending = <<>> /\ events = <<>>
  /\ down = [d \in {"raw", "window", "button"} |-> {}]
  /\ unsent = MaxRequests /\ main_exec = 0 /\ loaded = 0
  /\ key_states = {} /\ prev_key_states = {}
  /\ button_states = {} /\ prev_button_states = {} /\ button_events = {}
  /\ mouse_motion = 0
  /\ sprinting = FALSE /\ forward = 0
  /\ size = 1
  /\ presses = {} /\ shown = {}

-----------------------------------------------------------------------------
(* What the systems ask. *)

KeyPressed(k) == k \in key_states /\ k \notin prev_key_states
KeyHeld(k) == k \in key_states

ButtonPressed(b) == <<b, "Pressed">> \in button_events /\ b \notin prev_button_states
ButtonReleased(b) == <<b, "Released">> \in button_events /\ b \in prev_button_states
ButtonHeld(b) == b \in button_states

-----------------------------------------------------------------------------
(* The operating system and the threads of the asset runtime. *)

Stopped == phase \in {"ended", "panicked"}

Queue(e) ==
  /\ ~Stopped
  /\ Len(pending) < MaxPending
  /\ pending' = Append(pending, e)

Rest == <<phase, should_run, events, keyboard, mouse, camera, size, history>>

\* Only the window repeats a key that is down.
Press(device, x) ==
  /\ device = "window" \/ x \notin down[device]
  /\ Queue([kind |-> device, of |-> x, state |-> "Pressed"])
  /\ down' = [down EXCEPT ![device] = @ \cup {x}]
  /\ UNCHANGED <<Rest, unsent, main_exec, loaded>>

Release(device, x) ==
  /\ x \in down[device]
  /\ Queue([kind |-> device, of |-> x, state |-> "Released"])
  /\ down' = [down EXCEPT ![device] = @ \ {x}]
  /\ UNCHANGED <<Rest, unsent, main_exec, loaded>>

Signal ==
  /\ \E e \in {[kind |-> "motion"], [kind |-> "close"]}
              \cup [kind : {"resized"}, to : 0 .. 1] : Queue(e)
  /\ UNCHANGED <<Rest, down, unsent, main_exec, loaded>>

SendRequest ==
  /\ ~Stopped /\ unsent > 0
  /\ unsent' = unsent - 1
  /\ \/ main_exec' = main_exec + 1 /\ UNCHANGED loaded
     \/ loaded' = loaded + 1 /\ UNCHANGED main_exec
  /\ UNCHANGED <<Rest, pending, down>>

-----------------------------------------------------------------------------
(* One frame. *)

Goto(p) == phase' = p

\* Mutant: only the mouse is reset.
ResetMouseOnly ==
  /\ phase = "reset" /\ Goto("requests")
  /\ prev_key_states' = prev_key_states
  /\ prev_button_states' = button_states
  /\ button_events' = {} /\ mouse_motion' = 0
  /\ presses' = {}
  /\ UNCHANGED <<should_run, system, events, main_exec, loaded, key_states, button_states,
                 camera, size, shown>>

\* reset_events of both.
Reset ==
  /\ phase = "reset" /\ Goto("requests")
  /\ prev_key_states' = key_states
  /\ prev_button_states' = button_states
  /\ button_events' = {} /\ mouse_motion' = 0
  /\ presses' = {}
  /\ UNCHANGED <<should_run, system, events, main_exec, loaded, key_states, button_states,
                 camera, size, shown>>

\* try_recv on main_exec_rx before the events and again after them.
RunRequest ==
  /\ phase \in {"requests", "requests_again"} /\ main_exec > 0
  /\ main_exec' = main_exec - 1
  /\ UNCHANGED <<phase, should_run, system, events, loaded, keyboard, mouse, camera, size, history>>

RequestsDone ==
  /\ phase \in {"requests", "requests_again"} /\ main_exec = 0
  /\ Goto(IF phase = "requests" THEN "callbacks" ELSE "update")
  /\ UNCHANGED <<should_run, system, events, main_exec, loaded, keyboard, mouse, camera, size, history>>

\* Mutant: one callback in a frame.
RunCallbackOnce ==
  /\ phase = "callbacks" /\ Goto("pump")
  /\ loaded' = IF loaded > 0 THEN loaded - 1 ELSE 0
  /\ UNCHANGED <<should_run, system, events, main_exec, keyboard, mouse, camera, size, history>>

\* try_recv on loaded_callback_rx.
RunCallback ==
  /\ phase = "callbacks"
  /\ IF loaded > 0 THEN loaded' = loaded - 1 /\ UNCHANGED phase
                   ELSE Goto("pump") /\ UNCHANGED loaded
  /\ UNCHANGED <<should_run, system, events, main_exec, keyboard, mouse, camera, size, history>>

\* pump_events(None, ..): without a timeout it returns only with an event.
Pump ==
  /\ phase = "pump" /\ pending # <<>>
  /\ events' = pending /\ pending' = <<>>
  /\ Goto("events")
  /\ UNCHANGED <<should_run, down, unsent, main_exec, loaded, keyboard, mouse, camera, size, history>>

Arrived(kind) == phase = "events" /\ events # <<>> /\ events[1].kind = kind
Handled == events' = Tail(events) /\ UNCHANGED <<phase, system, main_exec, loaded>>
Noted(e) == presses' = IF e.state = "Pressed" THEN presses \cup {e.of} ELSE presses

\* Holding s makes the set of pressed keys or buttons contain e.of, or not.
With(held, e) == IF e.state = "Pressed" THEN held \cup {e.of} ELSE held \ {e.of}

\* KeyboardInput::register_input
RawKey ==
  /\ Arrived("raw") /\ events[1].of \notin Unmapped /\ Handled
  /\ key_states' = With(key_states, events[1])
  /\ Noted(events[1])
  /\ UNCHANGED <<should_run, prev_key_states, mouse, camera, size, shown>>

\* MouseInput::register_input
MouseButton ==
  /\ Arrived("button") /\ events[1].of \notin Unmapped /\ Handled
  /\ button_events' = button_events \cup {<<events[1].of, events[1].state>>}
  /\ button_states' = With(button_states, events[1])
  /\ Noted(events[1])
  /\ UNCHANGED <<should_run, keyboard, prev_button_states, mouse_motion, camera, size, shown>>

\* Both unwrap the entry of their map, and a panic of the main thread ends the program.
RegisterPanics ==
  /\ Arrived("raw") \/ Arrived("button")
  /\ events[1].of \in Unmapped
  /\ Goto("panicked")
  /\ UNCHANGED <<should_run, system, events, main_exec, loaded, keyboard, mouse, camera, size, history>>

MouseMotion ==
  /\ Arrived("motion") /\ Handled
  /\ mouse_motion' = 1
  /\ UNCHANGED <<should_run, keyboard, button_states, prev_button_states, button_events,
                 camera, size, presses, shown>>

\* Mutant: a key that is released stops nothing.
ProcessPressOnly ==
  /\ Arrived("window") /\ Handled
  /\ LET e == events[1] IN
       /\ sprinting' = IF e.of = Sprint /\ e.state = "Pressed" THEN ~sprinting ELSE sprinting
       /\ forward' = IF e.of \in Forward /\ e.state = "Pressed" THEN 1 ELSE forward
  /\ UNCHANGED <<should_run, keyboard, mouse, size, history>>

\* CameraController::process_keyboard: a repeated press toggles sprinting again.
ProcessKeyboard ==
  /\ Arrived("window") /\ Handled
  /\ LET e == events[1] IN
       /\ sprinting' = IF e.of = Sprint /\ e.state = "Pressed" THEN ~sprinting ELSE sprinting
       /\ forward' = IF e.of \in Forward THEN IF e.state = "Pressed" THEN 1 ELSE 0 ELSE forward
  /\ UNCHANGED <<should_run, keyboard, mouse, size, history>>

CloseRequested ==
  /\ Arrived("close") /\ Handled
  /\ should_run' = FALSE
  /\ UNCHANGED <<keyboard, mouse, camera, size, history>>

\* EngineRuntime::resize, which leaves alone a window without area.
Resize ==
  /\ Arrived("resized") /\ Handled
  /\ size' = IF events[1].to > 0 THEN events[1].to ELSE size
  /\ UNCHANGED <<should_run, keyboard, mouse, camera, history>>

\* Mutant: the state to compare with is taken when the events have been handled.
EventsDoneRemembered ==
  /\ phase = "events" /\ events = <<>> /\ Goto("requests_again")
  /\ prev_key_states' = key_states
  /\ UNCHANGED <<should_run, system, events, main_exec, loaded, key_states, mouse, camera, size, history>>

EventsDone ==
  /\ phase = "events" /\ events = <<>> /\ Goto("requests_again")
  /\ UNCHANGED <<should_run, system, events, main_exec, loaded, keyboard, mouse, camera, size, history>>

\* The schedules run; the systems among them ask for the input.
Update ==
  /\ phase = "update" /\ Goto("render")
  /\ shown' = key_states \cup button_states
  /\ UNCHANGED <<should_run, system, events, main_exec, loaded, keyboard, mouse, camera, size,
                 presses>>

\* Mutant: the wish to end is forgotten with the frame.
RenderContinues ==
  /\ phase = "render"
  /\ \E result \in {"Ok", "Lost", "Outdated", "Other"} :
       Goto(IF result = "Outdated" THEN "ended" ELSE "reset")
  /\ should_run' = TRUE
  /\ UNCHANGED <<system, events, main_exec, loaded, keyboard, mouse, camera, size, history>>

\* render(), Lost: resize to the size it has; then the end of the loop, and of the process.
Render ==
  /\ phase = "render"
  /\ \E result \in {"Ok", "Lost", "Outdated", "Other"} :
       Goto(IF result = "Outdated" \/ ~should_run THEN "ended" ELSE "reset")
  /\ UNCHANGED <<should_run, system, events, main_exec, loaded, keyboard, mouse, camera, size, history>>

Loop ==
  \/ Reset \/ RunRequest \/ RequestsDone \/ RunCallback \/ Pump
  \/ RawKey \/ MouseButton \/ RegisterPanics \/ MouseMotion
  \/ ProcessKeyboard \/ CloseRequested \/ Resize
  \/ EventsDone \/ Update \/ Render

Environment ==
  \/ \E device \in {"raw", "window"}, k \in Keys : Press(device, k) \/ Release(device, k)
  \/ \E b \in Buttons : Press("button", b) \/ Release("button", b)
  \/ Signal
  \/ SendRequest

Next == Loop \/ Environment

Spec == Init /\ [][Next]_vars

\* The loop runs on the main thread, and nothing in it waits but pump_events.
FairSpec == Spec /\ WF_vars(Loop)

-----------------------------------------------------------------------------
AtUpdate == phase = "update"

\* A system that finds a key or button just pressed does so in the frame the press was
\* registered in, never again for the same press.
PressIsFresh ==
  AtUpdate => /\ \A k \in Keys : KeyPressed(k) => k \in presses
              /\ \A b \in Buttons : ButtonPressed(b) => b \in presses

WithModifier == Modifiers \cap key_states # {}

\* While no modifier is down, what is held differs from what the last update saw only if
\* this update sees the edge, for keys that go down and for buttons either way.  Under a
\* modifier nothing should match, say the comments of input.rs, but the code does not ask.
EdgesAreSeen ==
  AtUpdate /\ ~WithModifier =>
    /\ \A k \in Keys : KeyHeld(k) /\ k \notin shown => KeyPressed(k)
    /\ \A b \in Buttons : ButtonHeld(b) /\ b \notin shown => ButtonPressed(b)
    /\ \A b \in Buttons : ~ButtonHeld(b) /\ b \in shown => ButtonReleased(b)

\* The camera does not drift: once the releases of all its keys are handled it stops,
\* in whatever order its two keys went down and up and however often they repeated.
StopsWithoutKeys ==
  down["window"] \cap Forward = {}
    /\ (\A i \in 1 .. Len(pending) : pending[i].kind # "window")
    /\ (\A i \in 1 .. Len(events) : events[i].kind # "window")
  => forward = 0

\* The window's close button ends the program, after at most the frame that handles it; an
\* event of an unmapped key or button before it may end it sooner.
CloseEnds == (\E i \in 1 .. Len(pending) : pending[i].kind = "close") ~> Stopped

\* An event of the window also lets the asset threads through: a request for the main
\* thread and a callback of a loaded asset do not wait for more than one.
RequestsAreServed ==
  /\ (main_exec > 0 /\ pending # <<>>) ~> (main_exec = 0 \/ Stopped)
  /\ (loaded > 0 /\ pending # <<>>) ~> (loaded = 0 \/ Stopped)
=============================================================================
