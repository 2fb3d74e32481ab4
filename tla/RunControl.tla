----------------------------- MODULE RunControl -----------------------------
(***************************************************************************)
(* The API handlers that act on a run beside its worker: cancellation      *)
(* (run_service.cancel_run behind the backend's cancel endpoint), approval *)
(* (run_service.approve_run) and the reports of edge jobs                  *)
(* (ingest_internal_events).  cancel_run and approve_run decide on a row   *)
(* they have read without a lock and act in later statements, so the read  *)
(* and the writes are two actions.                                         *)
(***************************************************************************)
EXTENDS RunWorker

CONSTANTS
    MaxCancels,   \* how many cancel requests are made for a run
    MaxApprovals  \* how many approve requests of a run overlap

ASSUME RequestAssumption == MaxCancels \in Nat /\ MaxApprovals \in Nat

VARIABLES
    cancelPc,   \* where the cancel request of a run is
    cancelSeen, \* the status and attempt_id it has read
    cancels,    \* how many cancel requests the run has had
    approving   \* how many approve requests have read that the run waits
                \* for approval with no runtime behind it

cancelVars  == <<cancelPc, cancelSeen, cancels>>
requestVars == <<cancelVars, approving>>
controlVars == <<workerVars, requestVars>>

NothingSeen == [status |-> "none", attempt |-> NoAttempt]

ControlInit ==
    /\ cancelPc = [r \in Run |-> "idle"]
    /\ cancelSeen = [r \in Run |-> NothingSeen]
    /\ cancels = [r \in Run |-> 0]
    /\ approving = [r \in Run |-> 0]

(***************************************************************************)
(* Row locks.  A worker with held steps has locked their rows and will     *)
(* lock the run's row when it commits.  A handler that locks the run first *)
(* waits for a worker still posting, and forms a deadlock with one that is *)
(* about to commit: PostgreSQL aborts one of the two.  That the handler is *)
(* aborted is the behaviour in which its action is not taken.              *)
(***************************************************************************)
Holders(r, S) == {w \in Worker : wrun[w] = r /\ held[w] \cap S # {}}

AbortHolders(r, S) ==
    LET H == Holders(r, S)
    IN  /\ \A w \in H : pc[w] = "queued"
        /\ pc' = [w \in Worker |-> IF w \in H THEN "error" ELSE pc[w]]
        /\ held' = [w \in Worker |-> IF w \in H THEN {} ELSE held[w]]
        /\ UNCHANGED <<wrun, watt, stop, todo>>

-----------------------------------------------------------------------------
(***************************************************************************)
(* Cancellation.                                                           *)
(***************************************************************************)

\* get_run; a terminal run is returned as it is.
CancelRead(r) ==
    /\ cancelPc[r] = "idle"
    /\ cancels[r] < MaxCancels
    /\ cancels' = [cancels EXCEPT ![r] = @ + 1]
    /\ IF status[r] \in Terminal
       THEN /\ cancelPc' = [cancelPc EXCEPT ![r] = "mark"]
            /\ UNCHANGED cancelSeen
       ELSE /\ cancelPc' = [cancelPc EXCEPT ![r] = "apply"]
            /\ cancelSeen' = [cancelSeen EXCEPT ![r] =
                   [status |-> status[r], attempt |-> attempt[r]]]
    /\ UNCHANGED <<tables, workerVars, approving>>

Applied(r) ==
    /\ cancelPc' = [cancelPc EXCEPT ![r] = "mark"]
    /\ cancelSeen' = [cancelSeen EXCEPT ![r] = NothingSeen]
    /\ UNCHANGED <<cancels, approving>>

\* Seeded fault: the expected status is not compared.
ToCancellingAlways(r, from) == "CANCELLING"

\* set_status(CANCELLING, expected_status = from), run.cancelling if it did.
ToCancelling(r, from) ==
    IF status[r] \in from THEN "CANCELLING" ELSE status[r]

CancelWaitingEdge(r) ==
    LET st   == ToCancelling(r, {"WAITING_EDGE", "PREPARING", "RUNNING"})
        rows == CancelOpen(step[r])
    IN  /\ cancelPc[r] = "apply" /\ cancelSeen[r].status = "WAITING_EDGE"
        /\ AbortHolders(r, EdgeStep)
        /\ step' = [step EXCEPT ![r] = rows]
        /\ status' = [status EXCEPT ![r] = AggregateRunTerminal(st, rows)]
        /\ IF st # status[r] THEN AppendEvent(r, "plain") ELSE UNCHANGED tail
        /\ Applied(r)
        /\ UNCHANGED <<attempt, generation, lease, attempts, jobs, reported,
                       faults>>

CancelRunning(r) ==
    LET st == ToCancelling(r, ActiveRun)
    IN  /\ cancelPc[r] = "apply" /\ cancelSeen[r].status \in ActiveRun
        /\ status' = [status EXCEPT ![r] = st]
        /\ IF st # status[r] THEN AppendEvent(r, "plain") ELSE UNCHANGED tail
        /\ Applied(r)
        /\ UNCHANGED <<attempt, generation, lease, attempts, step, jobs,
                       reported, workerVars>>

HasRuntime(r) ==
    /\ cancelSeen[r].status = "WAITING_APPROVAL"
    /\ cancelSeen[r].attempt \in boundAttempts[r]

ApprovalStatus(r) ==
    IF HasRuntime(r)
    THEN ToCancelling(r, {"WAITING_APPROVAL", "PREPARING", "RUNNING"})
    ELSE status[r]

(***************************************************************************)
(* A run that waits in its runtime is CANCELLING while the runtime is      *)
(* stopped, and is left so when that does not settle it,                   *)
(***************************************************************************)
CancelApproval(r) ==
    /\ cancelPc[r] = "apply" /\ HasRuntime(r)
    /\ status' = [status EXCEPT ![r] = ApprovalStatus(r)]
    /\ IF ApprovalStatus(r) # status[r]
       THEN AppendEvent(r, "plain") ELSE UNCHANGED tail
    /\ Applied(r)
    /\ UNCHANGED <<attempt, generation, lease, attempts, step, jobs, reported,
                   workerVars>>

\* The run has moved on: no row is locked while the runtime is stopped.
CancelOvertaken(r) ==
    /\ cancelPc[r] = "apply" /\ HasRuntime(r)
    /\ ApprovalStatus(r) = status[r]
    /\ cancelPc' = [cancelPc EXCEPT ![r] = "settle"]
    /\ UNCHANGED <<tables, workerVars, cancelSeen, cancels, approving>>

CancelAtOnceFrom == {"QUEUED", "WAITING_APPROVAL", "CANCELLING"}

(***************************************************************************)
(* and is cancelled at once when it does, as is a run no worker executes.  *)
(* Unless the run has been made CANCELLING first, the steps are the first  *)
(* rows it locks, and it waits for held ones.                              *)
(***************************************************************************)
CancelImmediate(r) ==
    LET st == IF cancelPc[r] = "settle" THEN status[r] ELSE ApprovalStatus(r)
    IN  /\ cancelPc[r] \in {"apply", "settle"}
        /\ cancelSeen[r].status \in CancelAtOnceFrom
        /\ st = status[r] => Holders(r, EdgeStep) = {}
        /\ AbortHolders(r, EdgeStep)
        /\ liveAttempts' = [liveAttempts EXCEPT ![r] =
                               @ \ {cancelSeen[r].attempt}]
        /\ step' = [step EXCEPT ![r] = CancelOpen(@)]
        /\ status' = [status EXCEPT ![r] =
                         IF st \in CancelAtOnceFrom THEN "CANCELLED" ELSE st]
        /\ IF st # status[r] THEN AppendEvent(r, "plain") ELSE UNCHANGED tail
        /\ Applied(r)
        /\ UNCHANGED <<attempt, generation, lease, boundAttempts, cancelledBy,
                       jobs, reported, faults>>

\* The backend, after the agent has answered: the jobs that are not over.
CancelMarkJobs(r) ==
    /\ cancelPc[r] = "mark"
    /\ cancelRequested' = [cancelRequested EXCEPT ![r] = @ \cup
           {s \in EdgeStep : jobAttempt[r][s] # NoAttempt /\ ~JobEnded(r, s)}]
    /\ cancelPc' = [cancelPc EXCEPT ![r] = "idle"]
    /\ UNCHANGED <<runRow, attempts, step, jobAttempt, reported, workerVars,
                   cancelSeen, cancels, approving>>

CancelStep(r) ==
    \/ CancelWaitingEdge(r)
    \/ CancelRunning(r)
    \/ CancelApproval(r)
    \/ CancelOvertaken(r)
    \/ CancelImmediate(r)
    \/ CancelMarkJobs(r)

-----------------------------------------------------------------------------
(***************************************************************************)
(* approve_run reads the run and, if it has an attempt, the attempt's      *)
(* runtime.  Behind a bound attempt it only relays the choice, and a run   *)
(* that does not wait is returned as it is: neither changes a table.       *)
(***************************************************************************)
ApproveRead(r) ==
    /\ status[r] = "WAITING_APPROVAL"
    /\ attempt[r] \notin boundAttempts[r]
    /\ approving[r] < MaxApprovals
    /\ approving' = [approving EXCEPT ![r] = @ + 1]
    /\ UNCHANGED <<tables, workerVars, cancelVars>>

\* Seeded fault: the expected status is not compared.
ChosenStatusAlways(r, choice) == IF choice = "deny" THEN "FAILED" ELSE "QUEUED"

(***************************************************************************)
(* set_status compares the status once more, but neither the attempt nor   *)
(* its binding.                                                            *)
(***************************************************************************)
ChosenStatus(r, choice) ==
    IF status[r] # "WAITING_APPROVAL" THEN status[r]
    ELSE IF choice = "deny" THEN "FAILED"
    ELSE "QUEUED"

(***************************************************************************)
(* The events of the choice are appended whether or not the status has     *)
(* changed; append_event refuses those of a run that has ended.            *)
(***************************************************************************)
ApproveWrite(r, choice) ==
    LET st == ChosenStatus(r, choice)
    IN  /\ approving[r] > 0
        /\ approving' = [approving EXCEPT ![r] = @ - 1]
        /\ status' = [status EXCEPT ![r] = st]
        /\ IF st \in Terminal THEN UNCHANGED tail ELSE AppendEvent(r, "plain")
        /\ UNCHANGED <<attempt, generation, lease, attempts, step, jobs,
                       reported, workerVars, cancelVars>>

-----------------------------------------------------------------------------
(***************************************************************************)
(* ingest_internal_events: report k of the job of step s.  The edge node   *)
(* sends "CANCELLED" once it has seen cancel_requested_at or when it is    *)
(* itself shut down, and may send any report again: a replay is not        *)
(* appended, so no terminal test applies to it, but its effect on the step *)
(* is repeated.                                                            *)
(***************************************************************************)
Accepts(r, s, k) ==
    /\ attempt[r] \in {NoAttempt, jobAttempt[r][s]}
    /\ generation[r] = jobAttempt[r][s]
    /\ status[r] \notin Terminal \/ <<s, k>> \in reported[r]

\* The edge node gives the job up although nobody has cancelled it.
Unprompted(r, s, k) ==
    /\ k = "CANCELLED"
    /\ s \notin cancelRequested[r]
    /\ <<s, k>> \notin reported[r]

StepAfterReport(row, k) ==
    IF k = "RUNNING" /\ row \notin {"PENDING", "DISPATCHED"} THEN row ELSE k

IngestEdgeEvent(r, s, k) ==
    LET rows == [step[r] EXCEPT ![s] = StepAfterReport(@, k)]
    IN  /\ jobAttempt[r][s] # NoAttempt
        /\ Accepts(r, s, k)
        /\ IF Unprompted(r, s, k)
           THEN Fault("edge_shutdown") ELSE UNCHANGED faults
        /\ AbortHolders(r, {s})
        /\ reported' = [reported EXCEPT ![r] = @ \cup {<<s, k>>}]
        /\ step' = [step EXCEPT ![r] = rows]
        /\ status' = [status EXCEPT ![r] =
               IF k = "RUNNING" THEN @ ELSE AggregateRunTerminal(@, rows)]
        /\ IF <<s, k>> \in reported[r] THEN UNCHANGED tail
           ELSE AppendEvent(r, "plain")
        /\ UNCHANGED <<attempt, generation, lease, attempts, jobs, requestVars>>

ControlTypeOK ==
    /\ cancelPc \in [Run -> {"idle", "apply", "settle", "mark"}]
    /\ cancelSeen \in [Run -> [status : RunStatus \cup {"none"}, attempt : Nat]]
    /\ cancels \in [Run -> 0 .. MaxCancels]
    /\ approving \in [Run -> 0 .. MaxApprovals]
=============================================================================
