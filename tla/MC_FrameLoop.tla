---------------------------- MODULE MC_FrameLoop ----------------------------
(***************************************************************************)
(* The frame loop, for what update() is told and where the camera goes     *)
(* (two keys that share a direction, a modifier and two mouse buttons, of  *)
(* which the maps know one), and for the liveness properties (the modifier *)
(* and the unknown button alone).                                          *)
(***************************************************************************)
EXTENDS FrameLoop

CONSTANTS KeyW, ArrowUp, ShiftLeft, Left, Fifth

MoveKeys == {KeyW, ArrowUp}
SprintKeys == {ShiftLeft}
AllKeys == {KeyW, ArrowUp, ShiftLeft}
BothButtons == {Left, Fifth}
FifthButton == {Fifth}
Nothing == {}

\* The keys and buttons that have a part in the state.
Named(s) == {s[i].of : i \in {j \in 1 .. Len(s) : s[j].kind \in {"raw", "window", "button"}}}
Involved ==
  down["raw"] \cup down["window"] \cup down["button"] \cup Named(pending) \cup Named(events)
    \cup key_states \cup prev_key_states \cup button_states \cup prev_button_states
    \cup presses \cup shown

\* The bound: the second key of the direction only where no modifier and no button is.
Apart == ArrowUp \in Involved => Involved \subseteq MoveKeys
=============================================================================
