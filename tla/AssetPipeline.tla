---------------------------- MODULE AssetPipeline ---------------------------
(***************************************************************************)
(* Loading assets: AssetManager::load_resource (asset.rs), the asset       *)
(* thread of run (lib.rs), the loaders it polls (file_resource_loader.rs,  *)
(* obj_loader.rs), the closures they have the main thread run, and the     *)
(* main loop that runs them and draws with what is loaded (render.rs,      *)
(* draw_pass.rs).                                                          *)
(*                                                                         *)
(* The loaders exclude each other with one RwLock around the engine, which *)
(* they only try_write, so a poll that finds it taken changes nothing.     *)
(* The guard of a shader or texture loader moves into its closure, that of *)
(* an OBJ loader is dropped when its poll ends.                            *)
(***************************************************************************)
EXTENDS Naturals, Sequences, FiniteSets

CONSTANTS Assets,
          Kind,     \* its loader: "shader", "texture", "obj" or "memory"
          Files,    \* what may be found at the assets' paths
          Passes,   \* the draw passes: the assets one needs, shader included
          NoAsset

ASSUME KindAssumption == Kind \in [Assets -> {"shader", "texture", "obj", "memory"}]
ASSUME FilesAssumption ==
  \A f \in Files :
    /\ f \in [Assets -> {"good", "missing", "bad", "no_model"}]
    /\ \A a \in Assets : /\ f[a] = "no_model" => Kind[a] = "obj"
                         /\ Kind[a] = "memory" => f[a] = "good"
ASSUME PassesAssumption == Passes \subseteq SUBSET Assets
ASSUME NoAssetAssumption == NoAsset \notin Assets

VARIABLES
  file,       \* what is at the path of each asset
  loading,    \* main_tx -> thread_rx: the entries and their loaders
  futures,    \* the asset thread's FuturesUnordered
  loader,     \* the state of each asset's loader
  thread,     \* the asset thread: what it does, and for which asset
  lock,       \* the asset whose closure holds the engine's write guard
  main_exec,  \* thread_main_exec_tx -> main_exec_rx: closures, by asset
  answered,   \* assets whose callback channel holds the closure's answer
  entries,    \* self.assets: the entries that exist
  loaded,     \* AssetEntrie::loaded
  value,      \* AssetEntrie::asset: "empty", "final" or of the "wrong" type
  called_back, \* assets whose callbacks have run (set_render_pipeline)
  main,       \* the main thread: "startup", "drain", "update", "render",
              \* "drawing" or "panicked"
  undrawn,    \* render: the draw passes it has still to visit
  drawing     \* the pass being drawn

entry == <<entries, loaded, value, called_back>>
asset_thread == <<futures, loader, thread>>
main_loop == <<main, undrawn, drawing>>
vars == <<file, loading, asset_thread, lock, main_exec, answered, entry, main_loop>>

Idle == [at |-> "select", asset |-> NoAsset]
Storing(step, a) == [at |-> step, asset |-> a]
Dead == [at |-> "dead", asset |-> NoAsset]

Init ==
  /\ file \in Files
  /\ loading = << >> /\ futures = {} /\ loader = [a \in Assets |-> "none"]
  /\ thread = Idle
  /\ lock = NoAsset /\ main_exec = << >> /\ answered = {}
  /\ entries = {} /\ loaded = [a \in Assets |-> FALSE]
  /\ value = [a \in Assets |-> "empty"] /\ called_back = {}
  /\ main = "startup" /\ undrawn = {} /\ drawing = {}

-----------------------------------------------------------------------------
(***************************************************************************)
(* The main thread.                                                        *)
(***************************************************************************)

\* load_resource: called by run and by startup before the loop, or by a system.
LoadResource(a) ==
  /\ main \in {"startup", "update"} /\ a \notin entries
  /\ entries' = entries \cup {a}
  /\ loading' = Append(loading, a)
  /\ UNCHANGED <<file, asset_thread, lock, main_exec, answered, loaded, value, called_back, main_loop>>

StartLoop ==
  /\ main = "startup" /\ main' = "drain"
  /\ UNCHANGED <<file, loading, asset_thread, lock, main_exec, answered, entry, undrawn, drawing>>

\* The closure unwraps its result (a shader's text is UTF-8, a texture's bytes
\* are an image) and the send of its answer, whose receiver went with the loader
\* if the asset thread died.
ClosurePanics(a) ==
  (Kind[a] \in {"shader", "texture"} /\ file[a] = "bad") \/ thread = Dead

\* Mutant: the guard outlives the closure.
RunClosureKeepsGuard ==
  /\ main = "drain" /\ main_exec # << >>
  /\ LET a == Head(main_exec) IN
       /\ ~ClosurePanics(a)
       /\ answered' = answered \cup {a}
  /\ main_exec' = Tail(main_exec)
  /\ UNCHANGED <<file, loading, asset_thread, lock, entry, main_loop>>

\* One turn of the `while let Ok(req) = main_exec_rx.try_recv()` loops.  The two
\* of a frame follow one another with nothing but events in between, and are one
\* state "drain" here.
RunClosure ==
  /\ main = "drain" /\ main_exec # << >>
  /\ LET a == Head(main_exec) IN
       /\ ~ClosurePanics(a)
       /\ answered' = answered \cup {a}
       /\ lock' = IF lock = a THEN NoAsset ELSE lock
  /\ main_exec' = Tail(main_exec)
  /\ UNCHANGED <<file, loading, asset_thread, entry, main_loop>>

RunClosurePanics ==
  /\ main = "drain" /\ main_exec # << >>
  /\ ClosurePanics(Head(main_exec))
  /\ main' = "panicked"
  /\ UNCHANGED <<file, loading, asset_thread, lock, main_exec, answered, entry, undrawn, drawing>>

DrainDone ==
  /\ main = "drain" /\ main_exec = << >>
  /\ main' = "update"
  /\ UNCHANGED <<file, loading, asset_thread, lock, main_exec, answered, entry, undrawn, drawing>>

\* The material systems have pushed the passes whose handles exist.
UpdateDone ==
  /\ main = "update"
  /\ main' = "render" /\ undrawn' = {p \in Passes : p \subseteq entries}
  /\ UNCHANGED <<file, loading, asset_thread, lock, main_exec, answered, entry, drawing>>

PassLoaded(p) == \A a \in p : loaded[a]

\* DrawPass::is_loaded, of the passes in any order.
SkipPass(p) ==
  /\ main = "render" /\ p \in undrawn /\ ~PassLoaded(p)
  /\ undrawn' = undrawn \ {p}
  /\ UNCHANGED <<file, loading, asset_thread, lock, main_exec, answered, entry, main, drawing>>

EnterPass(p) ==
  /\ main = "render" /\ p \in undrawn /\ PassLoaded(p)
  /\ main' = "drawing" /\ drawing' = p
  /\ UNCHANGED <<file, loading, asset_thread, lock, main_exec, answered, entry, undrawn>>

\* Every get() of the pass yields the asset, and its pipeline is set.
Drawable(p) ==
  \A a \in p : /\ loaded[a] /\ value[a] = "final"
               /\ Kind[a] = "shader" => a \in called_back

Draw ==
  /\ main = "drawing" /\ Drawable(drawing)
  /\ main' = "render" /\ undrawn' = undrawn \ {drawing} /\ drawing' = {}
  /\ UNCHANGED <<file, loading, asset_thread, lock, main_exec, answered, entry>>

\* An unwrap or expect in DrawPass::draw fails.
DrawPanics ==
  /\ main = "drawing" /\ ~Drawable(drawing)
  /\ main' = "panicked"
  /\ UNCHANGED <<file, loading, asset_thread, lock, main_exec, answered, entry, undrawn, drawing>>

FrameDone ==
  /\ main = "render" /\ undrawn = {}
  /\ main' = "drain"
  /\ UNCHANGED <<file, loading, asset_thread, lock, main_exec, answered, entry, undrawn, drawing>>

-----------------------------------------------------------------------------
(***************************************************************************)
(* The asset thread.  A panic in a poll unwinds it and drops every loader. *)
(***************************************************************************)
Alive == thread = Idle /\ main # "panicked"

\* Kept by every poll.
polled == <<file, loading, entry, main_loop>>

TakeLoader ==
  /\ Alive /\ loading # << >>
  /\ futures' = futures \cup {Head(loading)}
  /\ loader' = [loader EXCEPT ![Head(loading)] =
                  IF Kind[Head(loading)] = "memory" THEN "RunningProcessor" ELSE "LoadingFile"]
  /\ loading' = Tail(loading)
  /\ UNCHANGED <<file, thread, lock, main_exec, answered, entry, main_loop>>

\* The read of the file is over; set_bytes unwraps it.
FileRead(a) ==
  /\ Alive /\ a \in futures /\ loader[a] = "LoadingFile"
  /\ IF file[a] = "missing"
     THEN thread' = Dead /\ UNCHANGED loader
     ELSE loader' = [loader EXCEPT ![a] = "RunningProcessor"] /\ UNCHANGED thread
  /\ UNCHANGED <<futures, lock, main_exec, answered, polled>>

\* MemoryAsset is ready in its first poll.
PollMemory(a) ==
  /\ Alive /\ a \in futures /\ loader[a] = "RunningProcessor" /\ Kind[a] = "memory"
  /\ loader' = [loader EXCEPT ![a] = "done"]
  /\ thread' = Storing("unload", a)
  /\ UNCHANGED <<futures, lock, main_exec, answered, polled>>

\* Mutant: the loader stays in state Start.
PollStartAgain(a) ==
  /\ Alive /\ a \in futures /\ loader[a] = "RunningProcessor"
  /\ Kind[a] \in {"shader", "texture"}
  /\ lock = NoAsset
  /\ lock' = a
  /\ main_exec' = Append(main_exec, a)
  /\ UNCHANGED <<futures, loader, thread, answered, polled>>

\* ShaderLoader and TextureLoader in state Start.
PollStart(a) ==
  /\ Alive /\ a \in futures /\ loader[a] = "RunningProcessor"
  /\ Kind[a] \in {"shader", "texture"}
  /\ lock = NoAsset
  /\ lock' = a
  /\ main_exec' = Append(main_exec, a)
  /\ loader' = [loader EXCEPT ![a] = "WaitingForMain"]
  /\ UNCHANGED <<futures, thread, answered, polled>>

\* ObjAsset in state Parsing.  A file it cannot parse yields Ready(Box::new(0));
\* one without a model makes models[0] panic.
PollParse(a) ==
  /\ Alive /\ a \in futures /\ loader[a] = "RunningProcessor" /\ Kind[a] = "obj"
  /\ lock = NoAsset
  /\ \/ /\ file[a] = "good"
        /\ main_exec' = Append(main_exec, a)
        /\ loader' = [loader EXCEPT ![a] = "WaitingForMain"]
        /\ UNCHANGED thread
     \/ /\ file[a] = "bad"
        /\ loader' = [loader EXCEPT ![a] = "done"]
        /\ thread' = Storing("unload", a)
        /\ UNCHANGED main_exec
     \/ /\ file[a] = "no_model"
        /\ thread' = Dead
        /\ UNCHANGED <<loader, main_exec>>
  /\ UNCHANGED <<futures, lock, answered, polled>>

\* The answer is there, and the lock is free for the moment of the poll.
PollAnswered(a) ==
  /\ Alive /\ a \in futures /\ loader[a] = "WaitingForMain"
  /\ lock = NoAsset /\ a \in answered
  /\ answered' = answered \ {a}
  /\ loader' = [loader EXCEPT ![a] = "done"]
  /\ thread' = Storing("unload", a)
  /\ UNCHANGED <<futures, lock, main_exec, polled>>

\* The rest of the future, without a further await: loaded.store(false), the
\* write through get_mut, the callbacks, loaded.store(true).
At(step) == thread.at = step /\ main # "panicked"

stored == <<file, loading, loader, lock, main_exec, answered, entries, main_loop>>

Unload ==
  /\ At("unload")
  /\ loaded' = [loaded EXCEPT ![thread.asset] = FALSE]
  /\ thread' = [thread EXCEPT !.at = "write"]
  /\ UNCHANGED <<futures, value, called_back, stored>>

Write ==
  /\ At("write")
  /\ value' = [value EXCEPT ![thread.asset] =
                 IF Kind[thread.asset] = "obj" /\ file[thread.asset] = "bad"
                 THEN "wrong" ELSE "final"]
  /\ thread' = [thread EXCEPT !.at = "callback"]
  /\ UNCHANGED <<futures, loaded, called_back, stored>>

\* Mutant: the asset is marked as loaded before the callbacks run.
CallbackLate ==
  /\ At("callback")
  /\ loaded' = [loaded EXCEPT ![thread.asset] = TRUE]
  /\ thread' = [thread EXCEPT !.at = "publish"]
  /\ UNCHANGED <<futures, value, called_back, stored>>

Callback ==
  /\ At("callback")
  /\ called_back' = called_back \cup {thread.asset}
  /\ thread' = [thread EXCEPT !.at = "publish"]
  /\ UNCHANGED <<futures, loaded, value, stored>>

Publish ==
  /\ At("publish")
  /\ loaded' = [loaded EXCEPT ![thread.asset] = TRUE]
  /\ thread' = Idle
  /\ futures' = futures \ {thread.asset}
  /\ UNCHANGED <<value, called_back, stored>>

-----------------------------------------------------------------------------
MainStep ==
  \/ StartLoop \/ RunClosure \/ RunClosurePanics \/ DrainDone \/ UpdateDone
  \/ \E p \in Passes : SkipPass(p) \/ EnterPass(p)
  \/ Draw \/ DrawPanics \/ FrameDone

Poll(a) == FileRead(a) \/ PollMemory(a) \/ PollStart(a) \/ PollParse(a) \/ PollAnswered(a)

Store == Unload \/ Write \/ Callback \/ Publish

Next ==
  \/ \E a \in Assets : LoadResource(a) \/ Poll(a)
  \/ MainStep \/ TakeLoader \/ Store

Spec == Init /\ [][Next]_vars

\* Both threads run.  pump_events returns, every read of a file ends, and a
\* future that is not ready wakes itself, so each is polled again and again;
\* nobody has to call load_resource.
FairSpec ==
  /\ Spec
  /\ WF_vars(MainStep) /\ WF_vars(TakeLoader) /\ WF_vars(Store)
  /\ \A a \in Assets : WF_vars(Poll(a))

-----------------------------------------------------------------------------
(***************************************************************************)
(* What the pipeline guarantees.                                           *)
(***************************************************************************)

\* What is drawn is complete: the asset thread is not writing any asset of the
\* pass, and every good one has its final value and its callbacks behind it.
DrawnIsComplete ==
  main = "drawing" =>
    \A a \in drawing :
      /\ thread.asset # a
      /\ file[a] = "good" => value[a] = "final" /\ a \in called_back

\* Whoever holds the engine's lock is a closure the main loop is going to run:
\* the lock cannot outlive the next drain, so no loader is locked out for good.
LockInTransit ==
  lock # NoAsset => \E k \in DOMAIN main_exec : main_exec[k] = lock

\* Every closure's answer has a loader waiting for it, and a loader that waits
\* has its closure on the way: unless the asset thread died, none is forgotten.
AnswersAreAwaited ==
  thread # Dead =>
    \A a \in Assets :
      (loader[a] = "WaitingForMain") =
        (a \in answered \/ \E k \in DOMAIN main_exec : main_exec[k] = a)

\* The pipeline implements AssetStore, with every file in order its progress
\* included.
Status ==
  [a \in Assets |->
     IF a \notin entries THEN "absent"
     ELSE IF ~loaded[a] THEN "loading"
     ELSE IF value[a] = "final" /\ a \in called_back THEN "ready"
     ELSE "broken"]

AssetStoreOf ==
  INSTANCE AssetStore WITH status <- Status, sound <- \A a \in Assets : file[a] = "good"

ImplementsAssetStore == AssetStoreOf!StFairSpec
=============================================================================
