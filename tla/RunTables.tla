----------------------------- MODULE RunTables -----------------------------
(***************************************************************************)
(* The tables that the agent's processes share: runs, run_attempts,        *)
(* run_steps and the accepted run_events of nodeskclaw-agent, and the      *)
(* edge_jobs of nodeskclaw-backend.  One row of a table is one entry of a  *)
(* function; a column that no guard of the modelled code reads is left     *)
(* out.  The operators are the compare-and-set conditions that             *)
(* run_service.py puts into the WHERE clauses of its UPDATE statements.    *)
(***************************************************************************)
EXTENDS Naturals, FiniteSets

CONSTANTS
    Run,         \* identities of the runs
    HybridRun,   \* the runs whose placement is "hybrid"
    EdgeOnlyRun, \* the runs whose placement role is "edge"
    GatedRun,    \* the runs created with requires_approval
    EdgeStep     \* the edge steps in the plan of every hybrid run

ASSUME PlacementAssumption ==
    /\ HybridRun \subseteq Run
    /\ EdgeOnlyRun \subseteq Run \ HybridRun
    /\ GatedRun \subseteq Run

ASSUME EdgeStepAssumption ==
    /\ "central" \notin EdgeStep
    /\ HybridRun # {} => EdgeStep # {}

VARIABLES
    status,          \* runs.status
    attempt,         \* runs.attempt_id as its attempt_no; 0 is NULL
    generation,      \* runs.generation, the largest attempt_no of the run
    lease,           \* runs.lease_until: NULL, in the future or in the past
    tail,            \* what recovery reads of the last row of run_events
    liveAttempts,    \* the rows of run_attempts still PREPARING
    boundAttempts,   \* the rows of run_attempts with a runtime_run_id
    cancelledBy,     \* the attempts whose engine's run.cancelled is in run_events
    step,            \* run_steps.status, ABSENT before the plan is persisted
    jobAttempt,      \* edge_jobs.attempt_id of a step's job; 0: no such row
    cancelRequested, \* the steps whose job has cancel_requested_at
    reported         \* the edge events accepted, keyed by source_event_id

runRow   == <<status, attempt, generation, lease, tail>>
attempts == <<liveAttempts, boundAttempts, cancelledBy>>
jobs     == <<jobAttempt, cancelRequested>>
tables   == <<runRow, attempts, step, jobs, reported>>

NoAttempt == 0

Terminal   == {"COMPLETED", "FAILED", "CANCELLED", "TIMED_OUT"}
Cancelling == {"CANCELLING", "CANCELLED"}
RunStatus  == Terminal \cup
    {"QUEUED", "PREPARING", "RUNNING", "WAITING_APPROVAL", "WAITING_EDGE",
     "CANCELLING"}

Step         == {"central"} \cup EdgeStep
StepEnd      == {"SUCCEEDED", "FAILED", "CANCELLED"}
OpenStep     == {"PENDING", "DISPATCHED", "RUNNING"}
StepStatus   == {"ABSENT"} \cup OpenStep \cup StepEnd
Report       == StepEnd \cup {"RUNNING"}

(***************************************************************************)
(* build_hybrid_step_plan: the steps of a run's plan.  All are required    *)
(* and none has required_artifacts.                                        *)
(***************************************************************************)
Plan(r) == IF r \in HybridRun THEN Step ELSE {"central"}

(***************************************************************************)
(* create_run inserts the row; nothing has claimed it yet.                 *)
(***************************************************************************)
TablesInit ==
    /\ status = [r \in Run |->
                    IF r \in GatedRun THEN "WAITING_APPROVAL" ELSE "QUEUED"]
    /\ attempt = [r \in Run |-> NoAttempt]
    /\ generation = [r \in Run |-> 0]
    /\ lease = [r \in Run |-> "none"]
    /\ tail = [r \in Run |-> "plain"]
    /\ liveAttempts = [r \in Run |-> {}]
    /\ boundAttempts = [r \in Run |-> {}]
    /\ cancelledBy = [r \in Run |-> {}]
    /\ step = [r \in Run |-> [s \in Step |-> "ABSENT"]]
    /\ jobAttempt = [r \in Run |-> [s \in EdgeStep |-> NoAttempt]]
    /\ cancelRequested = [r \in Run |-> {}]
    /\ reported = [r \in Run |-> {}]

(***************************************************************************)
(* The WHERE clause a fenced writer of attempt a adds: attempt_id and      *)
(* generation still name its attempt (claim gives both the number a).      *)
(***************************************************************************)
Owns(r, a) == attempt[r] = a /\ generation[r] = a

\* Seeded fault: the attempt and the generation are not compared.
CanAppendUnfenced(r, a) == status[r] \notin Terminal

\* Seeded fault: a run being cancelled is taken for a terminal one.
CanAppendUncancelled(r, a) ==
    Owns(r, a) /\ status[r] \notin Terminal \cup Cancelling

(***************************************************************************)
(* append_event and a terminal set_status also refuse a terminal run.      *)
(***************************************************************************)
CanAppend(r, a) == Owns(r, a) /\ status[r] \notin Terminal

Planned(rows) == {s \in Step : rows[s] # "ABSENT"}

\* Seeded fault: one step decides for all.
OneIn(rows, S) == \E s \in Planned(rows) : rows[s] \in S

AllIn(rows, S) == \A s \in Planned(rows) : rows[s] \in S

(***************************************************************************)
(* aggregate_run_terminal of a run whose status is st and whose steps are  *)
(* rows: the status it leaves.                                             *)
(***************************************************************************)
AggregateRunTerminal(st, rows) ==
    IF st \in Terminal \/ Planned(rows) = {} THEN st
    ELSE IF st = "CANCELLING" THEN
        IF AllIn(rows, StepEnd) THEN "CANCELLED" ELSE st
    ELSE IF ~AllIn(rows, StepStatus \ {"FAILED"}) THEN "FAILED"
    ELSE IF AllIn(rows, {"SUCCEEDED"}) THEN "COMPLETED"
    ELSE st

(***************************************************************************)
(* UPDATE run_steps SET status = 'CANCELLED' on the rows that are open.    *)
(***************************************************************************)
CancelOpen(rows) ==
    [s \in Step |-> IF rows[s] \in OpenStep THEN "CANCELLED" ELSE rows[s]]

(***************************************************************************)
(* edge_jobs.status of a step's job is final once its success or failure   *)
(* is accepted.  A report of cancellation leaves the job as it is, and its *)
(* lease lets an edge node claim it again.                                 *)
(***************************************************************************)
JobEnded(r, s) == \E k \in {"SUCCEEDED", "FAILED"} : <<s, k>> \in reported[r]

TablesTypeOK ==
    /\ status \in [Run -> RunStatus]
    /\ attempt \in [Run -> Nat]
    /\ generation \in [Run -> Nat]
    /\ lease \in [Run -> {"none", "held", "expired"}]
    /\ tail \in [Run -> {"plain", "waiting", "interrupted"}]
    /\ liveAttempts \in [Run -> SUBSET Nat]
    /\ boundAttempts \in [Run -> SUBSET Nat]
    /\ cancelledBy \in [Run -> SUBSET Nat]
    /\ step \in [Run -> [Step -> StepStatus]]
    /\ jobAttempt \in [Run -> [EdgeStep -> Nat]]
    /\ cancelRequested \in [Run -> SUBSET EdgeStep]
    /\ reported \in [Run -> SUBSET (EdgeStep \X Report)]
=============================================================================
