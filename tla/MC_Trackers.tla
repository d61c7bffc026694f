---------------------------- MODULE MC_Trackers -----------------------------
(***************************************************************************)
(* One reader; ticks wrap around at 6.                                     *)
(***************************************************************************)
EXTENDS Trackers

CONSTANT reader

OneReader == {reader}
=============================================================================
