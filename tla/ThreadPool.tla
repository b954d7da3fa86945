----------------------------- MODULE ThreadPool -----------------------------
(***************************************************************************)
(* What gfc_mt promises its user, without locks, counters or condition     *)
(* variables: jobs that were accepted run once each, never more than Limit *)
(* of them at a time, and the pool is closed only while no job is running. *)
(* GfcMt implements this specification (GfcMt!Pool).                       *)
(***************************************************************************)
EXTENDS Naturals, FiniteSets

CONSTANTS Jobs,     \* the user functions handed to the pool
          Limit     \* how many of them may be running at a time

VARIABLES running,  \* jobs whose function has been started and not accounted for
          finished, \* jobs whose end has been accounted for
          open      \* the handle has not been freed

poolVars == <<running, finished, open>>

PoolInit ==
  /\ running = {}
  /\ finished = {}
  /\ open = TRUE

Start(j) ==
  /\ open
  /\ j \notin running \cup finished
  /\ Cardinality(running) < Limit
  /\ running' = running \cup {j}
  /\ UNCHANGED <<finished, open>>

Finish(j) ==
  /\ open
  /\ j \in running
  /\ running' = running \ {j}
  /\ finished' = finished \cup {j}
  /\ UNCHANGED open

Close ==
  /\ open
  /\ running = {}
  /\ open' = FALSE
  /\ UNCHANGED <<running, finished>>

PoolNext == Close \/ \E j \in Jobs : Start(j) \/ Finish(j)

PoolSafety == PoolInit /\ [][PoolNext]_poolVars

PoolSpec == PoolSafety /\ \A j \in Jobs : WF_poolVars(Finish(j))
=============================================================================
