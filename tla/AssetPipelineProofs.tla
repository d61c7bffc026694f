------------------------ MODULE AssetPipelineProofs ------------------------
(***************************************************************************)
(* The asset pipeline, for every set of assets and passes.  What is drawn  *)
(* is complete because of a chain of facts, each of which needs the one    *)
(* before it: a loader is taken off its queue once, its closure is sent    *)
(* once and answered once, so a loader reaches the storing steps once; the *)
(* asset under those steps is not loaded yet, and what they have done so   *)
(* far is done; hence a loaded asset has its final value and its callback  *)
(* behind it, and no step takes anything of that back.                     *)
(***************************************************************************)
EXTENDS AssetPipeline, SequenceTheorems, TLAPS

(* The inductive invariant. *)

Stages == {"none", "LoadingFile", "RunningProcessor", "WaitingForMain", "done"}
Steps == {"unload", "write", "callback", "publish"}

TypeOK ==
  /\ file \in Files
  /\ loading \in Seq(Assets) /\ futures \subseteq Assets
  /\ loader \in [Assets -> Stages]
  /\ thread \in {Idle, Dead} \cup {Storing(step, a) : step \in Steps, a \in Assets}
  /\ lock \in Assets \cup {NoAsset}
  /\ main_exec \in Seq(Assets) /\ answered \subseteq Assets
  /\ entries \subseteq Assets /\ loaded \in [Assets -> BOOLEAN]
  /\ value \in [Assets -> {"empty", "final", "wrong"}] /\ called_back \subseteq Assets
  /\ main \in {"startup", "drain", "update", "render", "drawing", "panicked"}
  /\ undrawn \subseteq Passes

Sent(a) == \E k \in DOMAIN main_exec : main_exec[k] = a

Asked(a) == \E k \in DOMAIN loading : loading[k] = a

\* No two places of a queue hold the same asset.
Distinct(s) == \A i, j \in DOMAIN s : s[i] = s[j] => i = j

\* The asset thread has not met the loader yet.
NotTaken ==
  /\ Distinct(loading)
  /\ \A a \in Assets :
       /\ Asked(a) => a \in entries
       /\ Asked(a) \/ a \notin entries => loader[a] = "none"

\* A closure is sent once and answered once, and its loader waits meanwhile.
ClosuresAwaited ==
  /\ Distinct(main_exec)
  /\ \A a \in Assets : Sent(a) => a \notin answered
  /\ AnswersAreAwaited

\* The asset that is being stored, step by step.
StoredStepwise ==
  thread.at \in Steps =>
    LET a == thread.asset IN
      /\ loader[a] = "done" /\ ~loaded[a]
      /\ thread.at \in {"callback", "publish"} =>
           value[a] = IF Kind[a] = "obj" /\ file[a] = "bad" THEN "wrong" ELSE "final"
      /\ thread.at = "publish" => a \in called_back

\* A loaded asset is out of the asset thread's hands.
LoadedForGood ==
  \A a \in Assets : loaded[a] =>
    /\ loader[a] = "done"
    /\ value[a] = IF Kind[a] = "obj" /\ file[a] = "bad" THEN "wrong" ELSE "final"
    /\ a \in called_back

DrawnIsLoaded == main = "drawing" => drawing \in Passes /\ PassLoaded(drawing)

IInv ==
  /\ TypeOK /\ LockInTransit /\ NotTaken /\ ClosuresAwaited
  /\ StoredStepwise /\ LoadedForGood /\ DrawnIsLoaded

-----------------------------------------------------------------------------
(***************************************************************************)
(* Queues.                                                                 *)
(***************************************************************************)
LEMMA Appended ==
  ASSUME NEW s \in Seq(Assets), NEW a \in Assets
  PROVE  /\ Append(s, a) \in Seq(Assets)
         /\ \A b : (\E k \in DOMAIN Append(s, a) : Append(s, a)[k] = b)
                     <=> (b = a \/ \E k \in DOMAIN s : s[k] = b)
         /\ Distinct(s) /\ (~ \E k \in DOMAIN s : s[k] = a) => Distinct(Append(s, a))
<1>1. /\ Append(s, a) \in Seq(Assets) /\ Len(s) \in Nat
      /\ DOMAIN s = 1 .. Len(s) /\ DOMAIN Append(s, a) = 1 .. Len(s) + 1
      /\ \A k \in 1 .. Len(s) : Append(s, a)[k] = s[k]
      /\ Append(s, a)[Len(s) + 1] = a
  BY AppendProperties, LenProperties
<1>2. ASSUME NEW k \in 1 .. Len(s) + 1 PROVE k \in 1 .. Len(s) \/ k = Len(s) + 1
  BY <1>1
<1>3. ASSUME NEW b
      PROVE  (\E k \in DOMAIN Append(s, a) : Append(s, a)[k] = b)
               <=> (b = a \/ \E k \in DOMAIN s : s[k] = b)
  BY <1>1, <1>2
<1>4. ASSUME Distinct(s), ~ \E k \in DOMAIN s : s[k] = a
      PROVE  Distinct(Append(s, a))
  BY <1>1, <1>2, <1>4 DEF Distinct
<1> QED
  BY <1>1, <1>3, <1>4

LEMMA HeadTaken ==
  ASSUME NEW s \in Seq(Assets), s # << >>
  PROVE  /\ Head(s) \in Assets /\ Tail(s) \in Seq(Assets)
         /\ \E k \in DOMAIN s : s[k] = Head(s)
         /\ \A b : (\E k \in DOMAIN Tail(s) : Tail(s)[k] = b) => \E k \in DOMAIN s : s[k] = b
         /\ \A b : b # Head(s) /\ (\E k \in DOMAIN s : s[k] = b)
                     => \E k \in DOMAIN Tail(s) : Tail(s)[k] = b
         /\ Distinct(s) => /\ Distinct(Tail(s))
                           /\ ~ \E k \in DOMAIN Tail(s) : Tail(s)[k] = Head(s)
<1>1. /\ Head(s) \in Assets /\ Tail(s) \in Seq(Assets) /\ Len(s) \in Nat /\ Len(s) # 0
      /\ DOMAIN s = 1 .. Len(s) /\ DOMAIN Tail(s) = 1 .. Len(s) - 1
      /\ \A k \in 1 .. Len(s) - 1 : Tail(s)[k] = s[k + 1]
      /\ Head(s) = s[1]
  BY HeadTailProperties, LenProperties, EmptySeq
<1>2. \A k \in 1 .. Len(s) - 1 : k + 1 \in 1 .. Len(s) /\ k + 1 # 1
  BY <1>1
<1>3. \A k \in 1 .. Len(s) : k = 1 \/ (k - 1 \in 1 .. Len(s) - 1 /\ (k - 1) + 1 = k)
  BY <1>1
<1>4. \A k, l \in 1 .. Len(s) - 1 : k + 1 = l + 1 => k = l
  BY <1>1
<1>5. 1 \in DOMAIN s
  BY <1>1
<1>6. ASSUME NEW b, b # Head(s), \E k \in DOMAIN s : s[k] = b
      PROVE  \E k \in DOMAIN Tail(s) : Tail(s)[k] = b
  <2>1. PICK k \in 1 .. Len(s) : s[k] = b
    BY <1>1, <1>6
  <2>2. k - 1 \in 1 .. Len(s) - 1 /\ (k - 1) + 1 = k
    BY <1>1, <1>3, <1>6, <2>1
  <2>3. Tail(s)[k - 1] = b
    BY <1>1, <2>1, <2>2
  <2> QED
    BY <1>1, <2>2, <2>3
<1>7. ASSUME Distinct(s)
      PROVE  Distinct(Tail(s)) /\ ~ \E k \in DOMAIN Tail(s) : Tail(s)[k] = Head(s)
  BY <1>1, <1>2, <1>4, <1>5, <1>7 DEF Distinct
<1> QED
  BY <1>1, <1>2, <1>5, <1>6, <1>7

-----------------------------------------------------------------------------
(***************************************************************************)
(* The steps.                                                              *)
(***************************************************************************)
LEMMA InitIInv == Init => IInv
<1> SUFFICES ASSUME Init PROVE IInv
  OBVIOUS
<1> USE DEF Init
<1>1. loading \in Seq(Assets) /\ main_exec \in Seq(Assets)
      /\ DOMAIN loading = {} /\ DOMAIN main_exec = {}
  BY EmptySeq
<1>2. TypeOK
  BY <1>1 DEF TypeOK, Stages
<1>3. NotTaken
  BY <1>1 DEF NotTaken, Distinct, Asked
<1>4. ClosuresAwaited
  BY <1>1 DEF ClosuresAwaited, Distinct, Sent, AnswersAreAwaited
<1>5. LockInTransit /\ StoredStepwise /\ LoadedForGood /\ DrawnIsLoaded
  BY DEF LockInTransit, StoredStepwise, LoadedForGood, DrawnIsLoaded, Idle, Steps
<1> QED
  BY <1>2, <1>3, <1>4, <1>5 DEF IInv

\* What the asset thread is doing, and what it is not.
LEMMA ThreadStates ==
  ASSUME TypeOK
  PROVE  /\ thread = Idle => thread # Dead /\ thread.at \notin Steps
         /\ thread = Dead => thread.at \notin Steps
         /\ thread.at \in Steps => thread # Dead /\ thread.asset \in Assets
                                   /\ thread = Storing(thread.at, thread.asset)
         /\ thread.at \notin Steps => thread.asset = NoAsset
         /\ \A step \in Steps, a \in Assets :
              /\ Storing(step, a) # Dead /\ Storing(step, a).at = step
              /\ Storing(step, a).asset = a
         /\ Dead.at \notin Steps /\ Idle.at \notin Steps /\ Idle # Dead
BY DEF TypeOK, Idle, Dead, Storing, Steps

\* Steps of the main loop that only move the main thread.
LEMMA MainMoves ==
  ASSUME IInv, UNCHANGED <<file, loading, asset_thread, lock, main_exec, answered, entry>>,
         main' \in {"startup", "drain", "update", "render", "drawing", "panicked"},
         undrawn' \subseteq Passes, DrawnIsLoaded'
  PROVE  IInv'
<1> USE DEF asset_thread, entry
<1>1. TypeOK'
  BY DEF IInv, TypeOK
<1>2. LockInTransit' /\ NotTaken' /\ ClosuresAwaited'
  BY DEF IInv, LockInTransit, NotTaken, ClosuresAwaited, AnswersAreAwaited, Distinct,
         Sent, Asked
<1>3. StoredStepwise' /\ LoadedForGood'
  BY DEF IInv, StoredStepwise, LoadedForGood
<1> QED
  BY <1>1, <1>2, <1>3 DEF IInv

LEMMA MainStepIInv ==
  ASSUME IInv, MainStep, ~RunClosure
  PROVE  IInv'
<1> USE DEF DrawnIsLoaded
<1>1. CASE StartLoop
  BY <1>1, MainMoves DEF StartLoop, IInv, TypeOK
<1>2. CASE RunClosurePanics
  BY <1>2, MainMoves DEF RunClosurePanics, IInv, TypeOK
<1>3. CASE DrainDone
  BY <1>3, MainMoves DEF DrainDone, IInv, TypeOK
<1>4. CASE UpdateDone
  BY <1>4, MainMoves DEF UpdateDone, IInv, TypeOK
<1>5. ASSUME NEW p \in Passes, SkipPass(p) PROVE IInv'
  BY <1>5, MainMoves DEF SkipPass, IInv, TypeOK
<1>6. ASSUME NEW p \in Passes, EnterPass(p) PROVE IInv'
  <2>1. PassLoaded(drawing)'
    BY <1>6 DEF EnterPass, PassLoaded, entry
  <2> QED
    BY <1>6, <2>1, MainMoves DEF EnterPass, IInv, TypeOK
<1>7. CASE Draw
  BY <1>7, MainMoves DEF Draw, IInv, TypeOK
<1>8. CASE DrawPanics
  BY <1>8, MainMoves DEF DrawPanics, IInv, TypeOK
<1>9. CASE FrameDone
  BY <1>9, MainMoves DEF FrameDone, IInv, TypeOK
<1> QED
  BY <1>1, <1>2, <1>3, <1>4, <1>5, <1>6, <1>7, <1>8, <1>9 DEF MainStep

LEMMA RunClosureIInv ==
  ASSUME IInv, RunClosure
  PROVE  IInv'
<1> USE DEF entry, asset_thread, main_loop
<1>0. PICK a : a = Head(main_exec)
  OBVIOUS
<1>1. /\ main_exec # << >> /\ main_exec \in Seq(Assets) /\ Distinct(main_exec)
      /\ main_exec' = Tail(main_exec) /\ answered' = answered \cup {a}
      /\ lock' = IF lock = a THEN NoAsset ELSE lock
      /\ UNCHANGED <<file, loading, asset_thread, entry, main_loop>>
      /\ thread # Dead /\ LockInTransit
  BY <1>0 DEF RunClosure, ClosurePanics, IInv, TypeOK, ClosuresAwaited
<1>2. /\ a \in Assets /\ main_exec' \in Seq(Assets) /\ Distinct(main_exec')
      /\ ~Sent(a)' /\ Sent(a)
      /\ \A b : b # a => (Sent(b)' <=> Sent(b))
  BY <1>0, <1>1, HeadTaken DEF Sent
<1>3. TypeOK'
  BY <1>1, <1>2 DEF IInv, TypeOK
<1>4. LockInTransit'
  <2>1. ASSUME lock' # NoAsset PROVE Sent(lock)'
    BY <1>1, <1>2, <2>1 DEF LockInTransit, Sent
  <2> QED
    BY <2>1 DEF LockInTransit, Sent
<1>5. ClosuresAwaited'
  <2>1. \A b \in Assets : Sent(b)' => b \notin answered'
    BY <1>1, <1>2 DEF IInv, ClosuresAwaited
  <2>2. \A b \in Assets : (loader[b] = "WaitingForMain") = (b \in answered \/ Sent(b))
    BY <1>1 DEF IInv, ClosuresAwaited, AnswersAreAwaited, Sent
  <2>3. \A b \in Assets :
          (loader'[b] = "WaitingForMain") = (b \in answered' \/ Sent(b)')
    BY <1>1, <1>2, <2>2
  <2>4. AnswersAreAwaited'
    BY <2>3 DEF AnswersAreAwaited, Sent
  <2> QED
    BY <1>2, <2>1, <2>4 DEF ClosuresAwaited
<1>6. NotTaken' /\ StoredStepwise' /\ LoadedForGood' /\ DrawnIsLoaded'
  BY <1>1 DEF IInv, NotTaken, Asked, StoredStepwise, LoadedForGood, DrawnIsLoaded, PassLoaded,
              RunClosure
<1> QED
  BY <1>3, <1>4, <1>5, <1>6 DEF IInv

LEMMA LoadResourceIInv ==
  ASSUME IInv, NEW a \in Assets, LoadResource(a)
  PROVE  IInv'
<1> USE DEF asset_thread, main_loop
<1>1. /\ a \notin entries /\ entries' = entries \cup {a} /\ loading' = Append(loading, a)
      /\ UNCHANGED <<file, asset_thread, lock, main_exec, answered, loaded, value,
                     called_back, main_loop>>
      /\ loading \in Seq(Assets) /\ Distinct(loading) /\ ~Asked(a) /\ main # "drawing"
  BY DEF LoadResource, IInv, TypeOK, NotTaken
<1>2. /\ loading' \in Seq(Assets) /\ Distinct(loading')
      /\ \A b : Asked(b)' <=> (b = a \/ Asked(b))
  BY <1>1, Appended DEF Asked
<1>3. TypeOK'
  BY <1>1, <1>2 DEF IInv, TypeOK
<1>4. NotTaken'
  BY <1>1, <1>2 DEF IInv, NotTaken
<1>5. LockInTransit' /\ ClosuresAwaited'
  BY <1>1 DEF IInv, LockInTransit, ClosuresAwaited, AnswersAreAwaited, Sent
<1>6. StoredStepwise' /\ LoadedForGood' /\ DrawnIsLoaded'
  BY <1>1 DEF IInv, StoredStepwise, LoadedForGood, DrawnIsLoaded
<1> QED
  BY <1>3, <1>4, <1>5, <1>6 DEF IInv

LEMMA TakeLoaderIInv ==
  ASSUME IInv, TakeLoader
  PROVE  IInv'
<1> USE DEF entry, main_loop
<1>0. PICK a : a = Head(loading)
  OBVIOUS
<1>1. /\ loading # << >> /\ loading \in Seq(Assets) /\ Distinct(loading)
      /\ loading' = Tail(loading) /\ futures' = futures \cup {a}
      /\ loader' = [loader EXCEPT ![a] =
                      IF Kind[a] = "memory" THEN "RunningProcessor" ELSE "LoadingFile"]
      /\ UNCHANGED <<file, thread, lock, main_exec, answered, entry, main_loop>>
  BY <1>0 DEF TakeLoader, IInv, TypeOK, NotTaken
<1>2. /\ a \in Assets /\ loading' \in Seq(Assets) /\ Distinct(loading')
      /\ Asked(a) /\ ~Asked(a)' /\ \A b : Asked(b)' => Asked(b)
  BY <1>0, <1>1, HeadTaken DEF Asked
<1>3. /\ loader[a] = "none" /\ a \in entries /\ loader \in [Assets -> Stages]
      /\ loader'[a] \in {"RunningProcessor", "LoadingFile"}
      /\ \A b \in Assets : b # a => loader'[b] = loader[b]
      /\ loader' \in [Assets -> Stages]
  BY <1>1, <1>2 DEF IInv, TypeOK, NotTaken, Stages
<1>4. TypeOK'
  BY <1>1, <1>2, <1>3 DEF IInv, TypeOK
<1>5. NotTaken'
  BY <1>1, <1>2, <1>3 DEF IInv, NotTaken
<1>6. LockInTransit' /\ ClosuresAwaited'
  BY <1>1, <1>2, <1>3 DEF IInv, LockInTransit, ClosuresAwaited, AnswersAreAwaited, Sent
<1>7. StoredStepwise'
  <2>1. ASSUME thread.at \in Steps PROVE thread.asset # a
    BY <1>3, <2>1 DEF IInv, StoredStepwise
  <2>2. thread.at \in Steps => thread.asset \in Assets
    BY ThreadStates DEF IInv
  <2> QED
    BY <1>1, <1>3, <2>1, <2>2 DEF IInv, StoredStepwise
<1>8. LoadedForGood' /\ DrawnIsLoaded'
  BY <1>1, <1>3 DEF IInv, LoadedForGood, DrawnIsLoaded, PassLoaded
<1> QED
  BY <1>4, <1>5, <1>6, <1>7, <1>8 DEF IInv

\* What a poll of a loader that is neither finished nor asked for does: it goes on,
\* to be stored perhaps, or it kills the thread.
LEMMA PollGoesOn ==
  ASSUME IInv, NEW a \in Assets, UNCHANGED polled, thread = Idle, a \in futures,
         loader[a] \in {"LoadingFile", "RunningProcessor", "WaitingForMain"},
         NEW stage \in Stages \ {"none"}, loader' = [loader EXCEPT ![a] = stage],
         \/ thread' = Idle
         \/ thread' = Dead
         \/ thread' = Storing("unload", a) /\ stage = "done",
         futures' = futures, LockInTransit', ClosuresAwaited',
         lock' \in Assets \cup {NoAsset}, main_exec' \in Seq(Assets),
         answered' \subseteq Assets
  PROVE  IInv'
<1> USE DEF polled, entry, main_loop
<1>1. /\ ~loaded[a] /\ loader[a] \notin {"none", "done"} /\ thread.at \notin Steps
      /\ loader \in [Assets -> Stages]
  BY ThreadStates DEF IInv, TypeOK, LoadedForGood
<1>2. /\ loader'[a] = stage /\ \A b \in Assets : b # a => loader'[b] = loader[b]
      /\ loader' \in [Assets -> Stages]
  BY <1>1
<1>3. TypeOK'
  BY <1>2 DEF IInv, TypeOK, Steps
<1>4. NotTaken'
  BY <1>1, <1>2 DEF IInv, NotTaken, Asked
<1>5. StoredStepwise'
  <2>1. ASSUME thread' = Storing("unload", a), stage = "done" PROVE StoredStepwise'
    BY <1>1, <1>2, <2>1, ThreadStates DEF StoredStepwise, Storing
  <2>2. ASSUME thread' \in {Idle, Dead} PROVE StoredStepwise'
    BY <2>2 DEF StoredStepwise, Idle, Dead, Steps
  <2> QED
    BY <2>1, <2>2
<1>6. LoadedForGood' /\ DrawnIsLoaded'
  BY <1>1, <1>2 DEF IInv, LoadedForGood, DrawnIsLoaded, PassLoaded
<1> QED
  BY <1>3, <1>4, <1>5, <1>6 DEF IInv

\* A loader that waits for nothing before or after its poll.
LEMMA NoClosure ==
  ASSUME IInv, thread # Dead, NEW a \in Assets, loader[a] # "WaitingForMain",
         loader' = [loader EXCEPT ![a] = "RunningProcessor"]
           \/ loader' = [loader EXCEPT ![a] = "done"] \/ loader' = loader,
         main_exec' = main_exec, answered' = answered, lock' = lock
  PROVE  LockInTransit' /\ ClosuresAwaited'
<1>1. \A b \in Assets : (loader'[b] = "WaitingForMain") = (loader[b] = "WaitingForMain")
  BY DEF IInv, TypeOK
<1> QED
  BY <1>1 DEF IInv, LockInTransit, ClosuresAwaited, AnswersAreAwaited, Sent

\* A closure is sent for a loader that now waits for its answer.
LEMMA ClosureSent ==
  ASSUME IInv, thread # Dead, NEW a \in Assets, loader[a] = "RunningProcessor",
         loader' = [loader EXCEPT ![a] = "WaitingForMain"],
         main_exec' = Append(main_exec, a), answered' = answered,
         lock' \in {lock, a}
  PROVE  LockInTransit' /\ ClosuresAwaited' /\ main_exec' \in Seq(Assets)
<1>1. main_exec \in Seq(Assets) /\ Distinct(main_exec) /\ ~Sent(a) /\ a \notin answered
  BY DEF IInv, TypeOK, ClosuresAwaited, AnswersAreAwaited, Sent
<1>2. /\ main_exec' \in Seq(Assets) /\ Distinct(main_exec')
      /\ \A b : Sent(b)' <=> (b = a \/ Sent(b))
  BY <1>1, Appended DEF Sent
<1>3. LockInTransit'
  BY <1>2 DEF IInv, LockInTransit, Sent
<1>4. ASSUME NEW b \in Assets
      PROVE  (loader'[b] = "WaitingForMain") = (b \in answered' \/ Sent(b)')
  <2>1. (loader[b] = "WaitingForMain") = (b \in answered \/ Sent(b))
    BY DEF IInv, ClosuresAwaited, AnswersAreAwaited, Sent
  <2>2. loader'[b] = IF b = a THEN "WaitingForMain" ELSE loader[b]
    BY DEF IInv, TypeOK
  <2> QED
    BY <1>2, <2>1, <2>2
<1>5. ClosuresAwaited'
  <2>1. AnswersAreAwaited'
    BY <1>4 DEF AnswersAreAwaited, Sent
  <2> QED
    BY <1>1, <1>2, <2>1 DEF IInv, ClosuresAwaited
<1> QED
  BY <1>2, <1>3, <1>5

LEMMA PollIInv ==
  ASSUME IInv, NEW a \in Assets, Poll(a)
  PROVE  IInv'
<1> USE DEF Stages
<1>0. /\ thread = Idle /\ thread # Dead /\ a \in futures /\ loader \in [Assets -> Stages]
      /\ lock \in Assets \cup {NoAsset} /\ main_exec \in Seq(Assets) /\ answered \subseteq Assets
  BY ThreadStates DEF Poll, FileRead, PollMemory, PollStart, PollParse, PollAnswered, Alive,
                      IInv, TypeOK
<1>1. CASE FileRead(a)
  <2>1. /\ loader[a] = "LoadingFile" /\ futures' = futures /\ UNCHANGED polled
        /\ UNCHANGED <<lock, main_exec, answered>>
    BY <1>1 DEF FileRead
  <2>2. CASE file[a] = "missing"
    <3>1. thread' = Dead /\ loader' = loader /\ loader' = [loader EXCEPT ![a] = "LoadingFile"]
      BY <1>0, <1>1, <2>1, <2>2 DEF FileRead
    <3>2. LockInTransit' /\ ClosuresAwaited'
      BY <1>0, <2>1, <3>1 DEF IInv, LockInTransit, ClosuresAwaited, AnswersAreAwaited, Sent
    <3> QED
      BY <1>0, <2>1, <3>1, <3>2, PollGoesOn
  <2>3. CASE file[a] # "missing"
    <3>1. thread' = Idle /\ loader' = [loader EXCEPT ![a] = "RunningProcessor"]
      BY <1>0, <1>1, <2>3 DEF FileRead
    <3>2. LockInTransit' /\ ClosuresAwaited'
      BY <1>0, <2>1, <3>1, NoClosure
    <3> QED
      BY <1>0, <2>1, <3>1, <3>2, PollGoesOn
  <2> QED
    BY <2>2, <2>3
<1>2. CASE PollMemory(a)
  <2>1. /\ loader[a] = "RunningProcessor" /\ futures' = futures /\ UNCHANGED polled
        /\ UNCHANGED <<lock, main_exec, answered>> /\ thread' = Storing("unload", a)
        /\ loader' = [loader EXCEPT ![a] = "done"]
    BY <1>2 DEF PollMemory
  <2>2. LockInTransit' /\ ClosuresAwaited'
    BY <1>0, <2>1, NoClosure
  <2> QED
    BY <1>0, <2>1, <2>2, PollGoesOn
<1>3. CASE PollStart(a)
  <2>1. /\ loader[a] = "RunningProcessor" /\ futures' = futures /\ UNCHANGED polled
        /\ lock' = a /\ main_exec' = Append(main_exec, a) /\ UNCHANGED <<answered, thread>>
        /\ loader' = [loader EXCEPT ![a] = "WaitingForMain"]
    BY <1>3 DEF PollStart
  <2>2. LockInTransit' /\ ClosuresAwaited' /\ main_exec' \in Seq(Assets)
    BY <1>0, <2>1, ClosureSent
  <2> QED
    BY <1>0, <2>1, <2>2, PollGoesOn
<1>4. CASE PollParse(a)
  <2>1. /\ loader[a] = "RunningProcessor" /\ futures' = futures /\ UNCHANGED polled
        /\ UNCHANGED <<lock, answered>>
    BY <1>4 DEF PollParse
  <2>2. CASE file[a] = "good"
    <3>1. /\ main_exec' = Append(main_exec, a) /\ UNCHANGED thread
          /\ loader' = [loader EXCEPT ![a] = "WaitingForMain"]
      BY <1>4, <2>2 DEF PollParse
    <3>2. LockInTransit' /\ ClosuresAwaited' /\ main_exec' \in Seq(Assets)
      BY <1>0, <2>1, <3>1, ClosureSent
    <3> QED
      BY <1>0, <2>1, <3>1, <3>2, PollGoesOn
  <2>3. CASE file[a] = "bad"
    <3>1. /\ UNCHANGED main_exec /\ thread' = Storing("unload", a)
          /\ loader' = [loader EXCEPT ![a] = "done"]
      BY <1>4, <2>3 DEF PollParse
    <3>2. LockInTransit' /\ ClosuresAwaited'
      BY <1>0, <2>1, <3>1, NoClosure
    <3> QED
      BY <1>0, <2>1, <3>1, <3>2, PollGoesOn
  <2>4. CASE file[a] = "no_model"
    <3>1. /\ thread' = Dead /\ UNCHANGED <<loader, main_exec>>
          /\ loader' = [loader EXCEPT ![a] = "RunningProcessor"]
      BY <1>0, <1>4, <2>1, <2>4 DEF PollParse
    <3>2. LockInTransit' /\ ClosuresAwaited'
      BY <1>0, <2>1, <3>1 DEF IInv, LockInTransit, ClosuresAwaited, AnswersAreAwaited, Sent
    <3> QED
      BY <1>0, <2>1, <3>1, <3>2, PollGoesOn
  <2> QED
    BY <1>4, <2>2, <2>3, <2>4 DEF PollParse
<1>5. CASE PollAnswered(a)
  <2>1. /\ loader[a] = "WaitingForMain" /\ futures' = futures /\ UNCHANGED polled
        /\ UNCHANGED <<lock, main_exec>> /\ a \in answered /\ answered' = answered \ {a}
        /\ loader' = [loader EXCEPT ![a] = "done"] /\ thread' = Storing("unload", a)
    BY <1>5 DEF PollAnswered
  <2>2. ~Sent(a)
    BY <2>1 DEF IInv, ClosuresAwaited
  <2>3. ASSUME NEW b \in Assets
        PROVE  (loader'[b] = "WaitingForMain") = (b \in answered' \/ Sent(b)')
    <3>1. (loader[b] = "WaitingForMain") = (b \in answered \/ Sent(b))
      BY <1>0 DEF IInv, ClosuresAwaited, AnswersAreAwaited, Sent
    <3>2. loader'[b] = IF b = a THEN "done" ELSE loader[b]
      BY <1>0, <2>1
    <3>3. Sent(b)' <=> Sent(b)
      BY <2>1 DEF Sent
    <3> QED
      BY <2>1, <2>2, <3>1, <3>2, <3>3
  <2>4. ClosuresAwaited'
    <3>1. AnswersAreAwaited'
      BY <2>3 DEF AnswersAreAwaited, Sent
    <3> QED
      BY <2>1, <3>1 DEF IInv, ClosuresAwaited, Sent
  <2>5. LockInTransit'
    BY <2>1 DEF IInv, LockInTransit
  <2> QED
    BY <1>0, <2>1, <2>4, <2>5, PollGoesOn
<1> QED
  BY <1>1, <1>2, <1>3, <1>4, <1>5 DEF Poll

LEMMA StoreIInv ==
  ASSUME IInv, Store
  PROVE  IInv'
<1> USE DEF stored, main_loop
<1>0. PICK a : a = thread.asset
  OBVIOUS
<1>1. /\ UNCHANGED <<file, loading, loader, lock, main_exec, answered, entries, main_loop>>
      /\ thread.at \in Steps
  BY DEF Store, Unload, Write, Callback, Publish, At, Steps
<1>2. /\ a \in Assets /\ thread # Dead /\ thread = Storing(thread.at, a)
      /\ loader[a] = "done" /\ ~loaded[a]
      /\ loaded \in [Assets -> BOOLEAN] /\ value \in [Assets -> {"empty", "final", "wrong"}]
      /\ called_back \subseteq Assets /\ futures \subseteq Assets
  BY <1>0, <1>1, ThreadStates DEF IInv, TypeOK, StoredStepwise
<1>3. LockInTransit' /\ NotTaken'
  BY <1>1 DEF IInv, LockInTransit, NotTaken, Asked
<1>4. ClosuresAwaited'
  BY <1>1, <1>2 DEF IInv, ClosuresAwaited, AnswersAreAwaited, Sent
<1>5. CASE Unload
  <2>1. /\ loaded' = [loaded EXCEPT ![a] = FALSE] /\ thread' = Storing("write", a)
        /\ UNCHANGED <<futures, value, called_back>>
    BY <1>0, <1>2, <1>5 DEF Unload, Storing
  <2>2. loaded' = loaded
    BY <1>2, <2>1
  <2>3. TypeOK'
    BY <1>1, <1>2, <2>1, <2>2 DEF IInv, TypeOK, Steps
  <2>4. StoredStepwise'
    BY <1>1, <1>2, <2>1, <2>2 DEF StoredStepwise, Storing
  <2>5. LoadedForGood' /\ DrawnIsLoaded'
    BY <1>1, <2>1, <2>2 DEF IInv, LoadedForGood, DrawnIsLoaded, PassLoaded
  <2> QED
    BY <1>3, <1>4, <2>3, <2>4, <2>5 DEF IInv
<1>6. CASE Write
  <2>1. /\ value' = [value EXCEPT ![a] = IF Kind[a] = "obj" /\ file[a] = "bad"
                                         THEN "wrong" ELSE "final"]
        /\ thread' = Storing("callback", a)
        /\ UNCHANGED <<futures, loaded, called_back>>
    BY <1>0, <1>2, <1>6 DEF Write, Storing
  <2>3. TypeOK'
    BY <1>1, <1>2, <2>1 DEF IInv, TypeOK, Steps
  <2>4. StoredStepwise'
    BY <1>1, <1>2, <2>1 DEF StoredStepwise, Storing
  <2>5. LoadedForGood' /\ DrawnIsLoaded'
    BY <1>1, <1>2, <2>1 DEF IInv, LoadedForGood, DrawnIsLoaded, PassLoaded
  <2> QED
    BY <1>3, <1>4, <2>3, <2>4, <2>5 DEF IInv
<1>7. CASE Callback
  <2>1. /\ called_back' = called_back \cup {a} /\ thread' = Storing("publish", a)
        /\ UNCHANGED <<futures, loaded, value>> /\ thread.at = "callback"
    BY <1>0, <1>2, <1>7 DEF Callback, Storing, At
  <2>3. TypeOK'
    BY <1>1, <1>2, <2>1 DEF IInv, TypeOK, Steps
  <2>4. StoredStepwise'
    BY <1>0, <1>1, <1>2, <2>1 DEF IInv, StoredStepwise, Storing
  <2>5. LoadedForGood' /\ DrawnIsLoaded'
    BY <1>1, <1>2, <2>1 DEF IInv, LoadedForGood, DrawnIsLoaded, PassLoaded
  <2> QED
    BY <1>3, <1>4, <2>3, <2>4, <2>5 DEF IInv
<1>8. CASE Publish
  <2>1. /\ loaded' = [loaded EXCEPT ![a] = TRUE] /\ thread' = Idle
        /\ futures' = futures \ {a}
        /\ UNCHANGED <<called_back, value>> /\ thread.at = "publish"
    BY <1>0, <1>8 DEF Publish, At
  <2>3. TypeOK'
    BY <1>1, <1>2, <2>1 DEF IInv, TypeOK
  <2>4. StoredStepwise'
    BY <2>1 DEF StoredStepwise, Idle, Steps
  <2>5. /\ value[a] = IF Kind[a] = "obj" /\ file[a] = "bad" THEN "wrong" ELSE "final"
        /\ a \in called_back
    BY <1>0, <1>1, <2>1 DEF IInv, StoredStepwise
  <2>6. LoadedForGood'
    BY <1>1, <1>2, <2>1, <2>5 DEF IInv, LoadedForGood
  <2>7. DrawnIsLoaded'
    BY <1>1, <1>2, <2>1, PassesAssumption DEF IInv, DrawnIsLoaded, PassLoaded
  <2> QED
    BY <1>3, <1>4, <2>3, <2>4, <2>6, <2>7 DEF IInv
<1> QED
  BY <1>5, <1>6, <1>7, <1>8 DEF Store

LEMMA NextIInv == IInv /\ [Next]_vars => IInv'
<1> SUFFICES ASSUME IInv, [Next]_vars PROVE IInv'
  OBVIOUS
<1>1. ASSUME NEW a \in Assets, LoadResource(a) PROVE IInv'
  BY <1>1, LoadResourceIInv
<1>2. ASSUME NEW a \in Assets, Poll(a) PROVE IInv'
  BY <1>2, PollIInv
<1>3. CASE MainStep
  BY <1>3, MainStepIInv, RunClosureIInv
<1>4. CASE TakeLoader
  BY <1>4, TakeLoaderIInv
<1>5. CASE Store
  BY <1>5, StoreIInv
<1>6. CASE UNCHANGED vars
  BY <1>6, MainMoves DEF vars, main_loop, IInv, TypeOK, DrawnIsLoaded, PassLoaded, entry
<1> QED
  BY <1>1, <1>2, <1>3, <1>4, <1>5, <1>6 DEF Next

-----------------------------------------------------------------------------
(***************************************************************************)
(* The theorems.                                                           *)
(***************************************************************************)
\* The inductive invariant: where each asset, its loader and its closure are.
THEOREM PipelineInvariant == Spec => []IInv
BY InitIInv, NextIInv, PTL DEF Spec

\* The engine's lock is only ever held by a closure that the next drain runs.
THEOREM LockIsAlwaysInTransit == Spec => []LockInTransit
<1>1. IInv => LockInTransit
  BY DEF IInv
<1> QED
  BY <1>1, PipelineInvariant, PTL

\* No closure's answer is lost, and no loader waits for one that was not sent.
THEOREM AnswersAreAlwaysAwaited == Spec => []AnswersAreAwaited
<1>1. IInv => AnswersAreAwaited
  BY DEF IInv, ClosuresAwaited
<1> QED
  BY <1>1, PipelineInvariant, PTL

\* Nothing is drawn while it is written, and nothing good before it is complete.
THEOREM DrawnIsAlwaysComplete == Spec => []DrawnIsComplete
<1>1. ASSUME IInv PROVE DrawnIsComplete
  <2> SUFFICES ASSUME main = "drawing", NEW a \in drawing
               PROVE  /\ thread.asset # a
                      /\ file[a] = "good" => value[a] = "final" /\ a \in called_back
    BY DEF DrawnIsComplete
  <2>1. a \in Assets /\ loaded[a]
    BY <1>1, PassesAssumption DEF IInv, DrawnIsLoaded, PassLoaded
  <2>2. thread.asset # a
    BY <1>1, <2>1, ThreadStates, NoAssetAssumption DEF IInv, StoredStepwise
  <2> QED
    BY <1>1, <2>1, <2>2 DEF IInv, LoadedForGood
<1> QED
  BY <1>1, PipelineInvariant, PTL

(***************************************************************************)
(* The refinement.  An asset changes its status twice: when it is asked    *)
(* for, and when Publish stores that it is loaded.                         *)
(***************************************************************************)
Sound == \A a \in Assets : file[a] = "good"

StatusOf(a) ==
  IF a \notin entries THEN "absent"
  ELSE IF ~loaded[a] THEN "loading"
  ELSE IF value[a] = "final" /\ a \in called_back THEN "ready"
  ELSE "broken"

LEMMA StatusValue == Status = [a \in Assets |-> StatusOf(a)]
BY DEF Status, StatusOf

LEMMA OneStatusChanges ==
  ASSUME NEW a \in Assets, NEW s, StatusOf(a)' = s,
         \A b \in Assets : b # a => StatusOf(b)' = StatusOf(b)
  PROVE  Status' = [Status EXCEPT ![a] = s]
<1>1. Status' = [b \in Assets |-> StatusOf(b)'] /\ Status = [b \in Assets |-> StatusOf(b)]
  BY DEF Status, StatusOf
<1> HIDE DEF Status
<1> QED
  BY <1>1

LEMMA InitImplementsStore == Init => AssetStoreOf!StInit
<1> SUFFICES ASSUME Init PROVE AssetStoreOf!StInit
  OBVIOUS
<1>1. Status = [a \in Assets |-> "absent"]
  BY DEF Init, Status
<1> QED
  BY <1>1 DEF AssetStoreOf!StInit

LEMMA StatusStays ==
  ASSUME file' = file, \A a \in Assets : StatusOf(a)' = StatusOf(a)
  PROVE  UNCHANGED AssetStoreOf!stvars
<1>1. Status' = Status
  BY DEF Status, StatusOf
<1> QED
  BY <1>1 DEF AssetStoreOf!stvars

LEMMA NextImplementsStore ==
  IInv /\ [Next]_vars => [AssetStoreOf!StNext]_AssetStoreOf!stvars
<1> SUFFICES ASSUME IInv, [Next]_vars PROVE [AssetStoreOf!StNext]_AssetStoreOf!stvars
  OBVIOUS
<1>0. ASSUME file' = file, entry' = entry PROVE UNCHANGED AssetStoreOf!stvars
  BY <1>0, StatusStays DEF StatusOf, entry
<1>1. ASSUME NEW a \in Assets, LoadResource(a) PROVE AssetStoreOf!Request(a)
  <2>1. /\ a \notin entries /\ entries' = entries \cup {a} /\ file' = file
        /\ UNCHANGED <<loaded, value, called_back>> /\ ~loaded[a]
    BY <1>1 DEF LoadResource, IInv, LoadedForGood, NotTaken
  <2>2. StatusOf(a) = "absent" /\ StatusOf(a)' = "loading"
    BY <2>1 DEF StatusOf
  <2>3. \A b \in Assets : b # a => StatusOf(b)' = StatusOf(b)
    BY <2>1 DEF StatusOf
  <2> QED
    BY <2>1, <2>2, <2>3, OneStatusChanges, StatusValue DEF AssetStoreOf!Request
<1>2. ASSUME NEW a \in Assets, Poll(a) PROVE UNCHANGED AssetStoreOf!stvars
  BY <1>0, <1>2 DEF Poll, FileRead, PollMemory, PollStart, PollParse, PollAnswered, polled
<1>3. CASE MainStep
  BY <1>0, <1>3 DEF MainStep, StartLoop, RunClosure, RunClosurePanics, DrainDone, UpdateDone,
                    SkipPass, EnterPass, Draw, DrawPanics, FrameDone
<1>4. CASE TakeLoader
  BY <1>0, <1>4 DEF TakeLoader
<1>5. CASE Store
  <2>0. PICK a : a = thread.asset
    OBVIOUS
  <2>1. /\ file' = file /\ entries' = entries /\ thread.at \in Steps
    BY <1>5 DEF Store, Unload, Write, Callback, Publish, At, Steps, stored
  <2>2. /\ a \in Assets /\ a \in entries /\ ~loaded[a]
        /\ loaded \in [Assets -> BOOLEAN] /\ value \in [Assets -> {"empty", "final", "wrong"}]
    BY <2>0, <2>1, ThreadStates DEF IInv, TypeOK, StoredStepwise, NotTaken
  <2>3. CASE Unload \/ Write \/ Callback
    <3>0. loaded' = loaded
      <4>1. CASE Unload
        <5>1. loaded' = [loaded EXCEPT ![a] = FALSE]
          BY <2>0, <4>1 DEF Unload
        <5> QED
          BY <2>2, <5>1
      <4>2. CASE Write \/ Callback
        BY <4>2 DEF Write, Callback
      <4> QED
        BY <2>3, <4>1, <4>2
    <3>1. ASSUME NEW b \in Assets, b # a
          PROVE  value'[b] = value[b] /\ (b \in called_back' <=> b \in called_back)
      <4>1. CASE Unload
        BY <4>1 DEF Unload
      <4>2. CASE Write
        BY <2>0, <2>2, <3>1, <4>2 DEF Write
      <4>3. CASE Callback
        BY <2>0, <3>1, <4>3 DEF Callback
      <4> QED
        BY <2>3, <4>1, <4>2, <4>3
    <3>2. \A b \in Assets : StatusOf(b)' = StatusOf(b)
      BY <2>1, <2>2, <3>0, <3>1 DEF StatusOf
    <3> QED
      BY <2>1, <3>2, StatusStays
  <2>4. CASE Publish
    <3>1. /\ loaded' = [loaded EXCEPT ![a] = TRUE] /\ UNCHANGED <<value, called_back>>
          /\ value[a] = (IF Kind[a] = "obj" /\ file[a] = "bad" THEN "wrong" ELSE "final")
          /\ a \in called_back
      BY <2>0, <2>4 DEF Publish, At, IInv, StoredStepwise, Steps
    <3>2. \A b \in Assets : b # a => StatusOf(b)' = StatusOf(b)
      BY <2>1, <2>2, <3>1 DEF StatusOf
    <3>3. StatusOf(a) = "loading" /\ Status[a] = "loading" /\ Sound' = Sound
      BY <2>1, <2>2, StatusValue DEF StatusOf, Sound
    <3>4. CASE value[a] = "final"
      <4>1. StatusOf(a)' = "ready"
        BY <2>1, <2>2, <3>1, <3>4 DEF StatusOf
      <4>2. AssetStoreOf!MakeReady(a)
        BY <2>1, <2>2, <3>2, <3>3, <4>1, OneStatusChanges DEF AssetStoreOf!MakeReady
      <4> QED
        BY <2>2, <4>2 DEF AssetStoreOf!StNext
    <3>5. CASE value[a] # "final"
      <4>1. StatusOf(a)' = "broken" /\ ~Sound
        BY <2>1, <2>2, <3>1, <3>5 DEF StatusOf, Sound
      <4>2. AssetStoreOf!Break(a)
        BY <2>1, <2>2, <3>2, <3>3, <4>1, OneStatusChanges DEF AssetStoreOf!Break, Sound
      <4> QED
        BY <2>2, <4>2 DEF AssetStoreOf!StNext
    <3> QED
      BY <3>4, <3>5
  <2> QED
    BY <1>5, <2>3, <2>4 DEF Store
<1>6. CASE UNCHANGED vars
  BY <1>0, <1>6 DEF vars
<1> QED
  BY <1>1, <1>2, <1>3, <1>4, <1>5, <1>6 DEF Next, AssetStoreOf!StNext

\* Whatever the files and the order of the threads, handles see an AssetStore: what
\* is asked for becomes ready once and stays so, and only a fault breaks it.
THEOREM PipelineImplementsStore == Spec => AssetStoreOf!StSpec
BY PipelineInvariant, InitImplementsStore, NextImplementsStore, PTL
   DEF Spec, AssetStoreOf!StSpec
=============================================================================
