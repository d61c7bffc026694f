----------------------------- MODULE ScheduleRun ----------------------------
(***************************************************************************)
(* What one call of Schedule::execute promises: every system is completed, *)
(* none before the systems it depends on, and the call returns once all    *)
(* are.  It says nothing of threads, channels or how often a system runs.  *)
(***************************************************************************)
CONSTANT Systems

VARIABLES after,     \* the dependency graph: system -> systems it comes after
          completed, \* systems that have completed
          returned   \* execute has returned

svars == <<after, completed, returned>>

SInit ==
  /\ after \in [Systems -> SUBSET Systems]
  /\ completed = {}
  /\ returned = FALSE

Complete(s) ==
  /\ ~returned
  /\ s \notin completed
  /\ after[s] \subseteq completed
  /\ completed' = completed \cup {s}
  /\ UNCHANGED <<after, returned>>

Return ==
  /\ ~returned
  /\ completed = Systems
  /\ returned' = TRUE
  /\ UNCHANGED <<after, completed>>

SNext == Return \/ \E s \in Systems : Complete(s)

SSpec == SInit /\ [][SNext]_svars

SFairSpec == SSpec /\ WF_svars(SNext)
=============================================================================
