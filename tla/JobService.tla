----------------------------- MODULE JobService -----------------------------
(***************************************************************************)
(* What a worker pool promises, without channel, mutex, wait group or      *)
(* goroutines: a job accepted before the service closed is started at most *)
(* once, at most Parallelism jobs are in progress, and a job that ended    *)
(* had been started.                                                       *)
(***************************************************************************)
EXTENDS Naturals, FiniteSets

CONSTANTS Jobs, Parallelism

VARIABLES closed, accepted, started, finished

vars == <<closed, accepted, started, finished>>

InProgress == started \ finished

Init ==
  /\ closed = FALSE
  /\ accepted = {}
  /\ started = {}
  /\ finished = {}

Accept(j) ==
  /\ ~closed
  /\ j \notin accepted
  /\ accepted' = accepted \cup {j}
  /\ UNCHANGED <<closed, started, finished>>

Start(j) ==
  /\ j \in accepted \ started
  /\ started' = started \cup {j}
  /\ UNCHANGED <<closed, accepted, finished>>
  /\ Cardinality(InProgress') <= Parallelism

Finish(j) ==
  /\ j \in InProgress
  /\ finished' = finished \cup {j}
  /\ UNCHANGED <<closed, accepted, started>>

Shut ==
  /\ ~closed
  /\ closed' = TRUE
  /\ UNCHANGED <<accepted, started, finished>>

Next ==
  \/ \E j \in Jobs : Accept(j) \/ Start(j) \/ Finish(j)
  \/ Shut

Spec == Init /\ [][Next]_vars

=============================================================================
