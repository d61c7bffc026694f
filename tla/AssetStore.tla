----------------------------- MODULE AssetStore -----------------------------
(***************************************************************************)
(* What the asset manager promises the code that holds AssetHandles: an    *)
(* asset that was asked for becomes ready, once and for good, and ready    *)
(* means that its handle's get() may be unwrapped and that its callbacks   *)
(* have run.  One file that is not in order and nothing more is promised   *)
(* but that what is ready stays ready.  It says nothing of threads, files  *)
(* or the engine's lock.                                                   *)
(***************************************************************************)
CONSTANT Assets

VARIABLES status,
          sound   \* every file is in order

stvars == <<status, sound>>

StInit ==
  /\ status = [a \in Assets |-> "absent"]
  /\ sound \in BOOLEAN

Request(a) ==
  /\ status[a] = "absent"
  /\ status' = [status EXCEPT ![a] = "loading"]
  /\ UNCHANGED sound

MakeReady(a) ==
  /\ status[a] = "loading"
  /\ status' = [status EXCEPT ![a] = "ready"]
  /\ UNCHANGED sound

Break(a) ==
  /\ ~sound /\ status[a] = "loading"
  /\ status' = [status EXCEPT ![a] = "broken"]
  /\ UNCHANGED sound

StNext == \E a \in Assets : Request(a) \/ MakeReady(a) \/ Break(a)

StSpec == StInit /\ [][StNext]_stvars

\* Whatever was asked for is loaded; nothing obliges anyone to ask.
StFairSpec == StSpec /\ \A a \in Assets : WF_stvars(sound /\ MakeReady(a))
=============================================================================
