----------------------------- MODULE RunWorker -----------------------------
(***************************************************************************)
(* The central worker of nodeskclaw-agent (worker.py, class RunWorker).    *)
(* Every worker process polls the runs table, claims a run under a lease   *)
(* and executes it: central engine first, then the edge jobs of a hybrid   *)
(* run.  An action is one database transaction or one HTTP call, so two    *)
(* workers, the API handlers and a crash interleave exactly where          *)
(* _execute awaits between commits.                                        *)
(***************************************************************************)
EXTENDS RunTables

CONSTANTS
    Worker,    \* the worker processes
    NoRun,     \* what an idle worker executes
    Env,       \* the environment's faults and events that may happen
    MaxFaults  \* how many faults may happen in a behaviour

ASSUME WorkerAssumption ==
    /\ NoRun \notin Run
    /\ Env \subseteq {"crash", "shutdown", "stall", "deny", "network",
                      "ask", "interrupted", "cancelled", "edge_shutdown"}
    /\ MaxFaults \in Nat

VARIABLES
    pc,     \* where a worker is between two commits of start / _execute
    wrun,   \* claimed["id"]
    watt,   \* claimed["attempt_id"], which is also claimed["generation"]
    stop,   \* cancel_event.is_set()
    todo,   \* the edge steps the dispatch loop has still to post
    held,   \* the steps set to DISPATCHED in the worker's open transaction
    faults  \* how many faults have happened

locals     == <<wrun, watt, stop, todo, held>>
workerVars == <<pc, locals, faults>>

InExecute  == {"claimed", "started", "planned", "engine", "dispatch",
               "posting", "enqueued", "queued"}
Handlers   == {"error", "denied", "cancelled"}
Executing  == InExecute \cup Handlers

\* Seeded fault: a run that waits for its edge steps is taken for active.
ActiveOrWaiting == {"PREPARING", "RUNNING", "WAITING_EDGE"}

ActiveRun == {"PREPARING", "RUNNING"}

WorkerInit ==
    /\ pc = [w \in Worker |-> "idle"]
    /\ wrun = [w \in Worker |-> NoRun]
    /\ watt = [w \in Worker |-> NoAttempt]
    /\ stop = [w \in Worker |-> FALSE]
    /\ todo = [w \in Worker |-> {}]
    /\ held = [w \in Worker |-> {}]
    /\ faults = 0

Goto(w, place) == pc' = [pc EXCEPT ![w] = place]

(***************************************************************************)
(* _execute returns (or its process dies): its locals are gone.            *)
(***************************************************************************)
Return(w) ==
    /\ Goto(w, "idle")
    /\ wrun' = [wrun EXCEPT ![w] = NoRun]
    /\ watt' = [watt EXCEPT ![w] = NoAttempt]
    /\ stop' = [stop EXCEPT ![w] = FALSE]
    /\ todo' = [todo EXCEPT ![w] = {}]
    /\ held' = [held EXCEPT ![w] = {}]

Rollback(w) == held' = [held EXCEPT ![w] = {}]

Fault(kind) == kind \in Env /\ faults < MaxFaults /\ faults' = faults + 1

\* The worker passes the fence of the run it executes.
Fenced(w) == pc[w] \in Executing /\ Owns(wrun[w], watt[w])

AppendEvent(r, class) == tail' = [tail EXCEPT ![r] = class]

-----------------------------------------------------------------------------
(***************************************************************************)
(* start: recover, then claim, then execute, for ever.                     *)
(***************************************************************************)
\* Seeded fault: the recovered run is left RESUMING.
NextStatusResuming(class) ==
    CASE class = "interrupted" -> "FAILED"
      [] class = "waiting"     -> "WAITING_APPROVAL"
      [] OTHER                 -> "RESUMING"

\* Seeded fault: the recovered run goes on where it was.
NextStatusResumed(class) ==
    CASE class = "interrupted" -> "FAILED"
      [] class = "waiting"     -> "WAITING_APPROVAL"
      [] OTHER                 -> "PREPARING"

NextStatusAfterStaleLease(class) ==
    CASE class = "interrupted" -> "FAILED"
      [] class = "waiting"     -> "WAITING_APPROVAL"
      [] OTHER                 -> "QUEUED"

\* Seeded fault: a run whose worker died before it started is forgotten.
StaleRunningRun == {r \in Run : status[r] = "RUNNING" /\ lease[r] = "expired"}

StaleRun == {r \in Run : status[r] \in ActiveRun /\ lease[r] = "expired"}

\* Seeded fault: the attempt rows are left open.
TimeOutNothing(R) == liveAttempts

\* The attempt rows of the runs R become TIMED_OUT.
TimeOutAttempts(R) ==
    [r \in Run |-> IF r \in R THEN liveAttempts[r] \ {attempt[r]}
                  ELSE liveAttempts[r]]

(***************************************************************************)
(* _recover_stale_runs.  All stale runs and the aggregation of the waiting *)
(* ones share one transaction.  Its FAILED branch appends run.failed after *)
(* it has made the run terminal, which append_event refuses: the exception *)
(* rolls everything back and skips the claim, so a worker gets no further  *)
(* while such a run is stale.                                              *)
(***************************************************************************)
RecoverStaleRuns(w) ==
    LET next(r)  == NextStatusAfterStaleLease(tail[r])
        requeued == {r \in StaleRun : next(r) = "QUEUED"}
    IN  /\ pc[w] = "idle"
        /\ \A r \in StaleRun : next(r) # "FAILED"
        /\ Goto(w, "polled")
        /\ status' = [r \in Run |->
               IF r \in StaleRun THEN next(r)
               ELSE IF status[r] \in {"WAITING_EDGE", "CANCELLING"}
                    THEN AggregateRunTerminal(status[r], step[r])
                    ELSE status[r]]
        /\ attempt' = [r \in Run |->
               IF r \in requeued THEN NoAttempt ELSE attempt[r]]
        /\ lease' = [r \in Run |-> IF r \in StaleRun THEN "none" ELSE lease[r]]
        /\ tail' = [r \in Run |-> IF r \in StaleRun THEN "plain" ELSE tail[r]]
        /\ liveAttempts' = TimeOutAttempts(requeued)
        /\ UNCHANGED <<generation, boundAttempts, cancelledBy, step, jobs,
                       reported, locals, faults>>

\* The poll loop logs the refused append, sleeps and starts over.
RecoveryRefused(w) ==
    /\ pc[w] = "idle"
    /\ \E r \in StaleRun : NextStatusAfterStaleLease(tail[r]) = "FAILED"
    /\ UNCHANGED <<tables, workerVars>>

(***************************************************************************)
(* _claim_one.  A run whose placement role is "edge" is never selected.    *)
(***************************************************************************)
Claimable(r) ==
    /\ status[r] = "QUEUED"
    /\ lease[r] # "held"
    /\ r \notin EdgeOnlyRun

\* Seeded fault: only the open attempts are numbered.
AttemptAfterOpenOnes(r) == Cardinality(liveAttempts[r]) + 1

\* MAX(attempt_no) + 1: rows are never deleted.
NextAttempt(r) == generation[r] + 1

ClaimOne(w, r) ==
    LET a == NextAttempt(r)
    IN  /\ pc[w] = "polled"
        /\ Claimable(r)
        /\ liveAttempts' = [liveAttempts EXCEPT ![r] = @ \cup {a}]
        /\ status' = [status EXCEPT ![r] = "PREPARING"]
        /\ attempt' = [attempt EXCEPT ![r] = a]
        /\ generation' = [generation EXCEPT ![r] = a]
        /\ lease' = [lease EXCEPT ![r] = "held"]
        /\ Goto(w, "claimed")
        /\ wrun' = [wrun EXCEPT ![w] = r]
        /\ watt' = [watt EXCEPT ![w] = a]
        /\ todo' = [todo EXCEPT ![w] = Plan(r) \ {"central"}]
        /\ UNCHANGED <<tail, boundAttempts, cancelledBy, step, jobs, reported,
                       stop, held, faults>>

NothingToClaim(w) ==
    /\ pc[w] = "polled"
    /\ \A r \in Run : ~Claimable(r)
    /\ Goto(w, "idle")
    /\ UNCHANGED <<tables, locals, faults>>

-----------------------------------------------------------------------------
(***************************************************************************)
(* The background tasks of _execute.                                       *)
(***************************************************************************)
RenewLease(w) ==
    /\ pc[w] \in InExecute
    /\ Fenced(w) /\ status[wrun[w]] \in ActiveRun
    /\ lease[wrun[w]] = "expired"
    /\ lease' = [lease EXCEPT ![wrun[w]] = "held"]
    /\ UNCHANGED <<status, attempt, generation, tail, attempts, step, jobs,
                   reported, workerVars>>

\* The renewal matches no row: the loop takes that for a cancellation.
RenewFenced(w) ==
    /\ pc[w] \in InExecute /\ ~stop[w]
    /\ ~(Fenced(w) /\ status[wrun[w]] \in ActiveRun)
    /\ stop' = [stop EXCEPT ![w] = TRUE]
    /\ UNCHANGED <<tables, pc, wrun, watt, todo, held, faults>>

CancelCheck(w) ==
    /\ pc[w] \in InExecute /\ ~stop[w]
    /\ status[wrun[w]] \in Cancelling
    /\ stop' = [stop EXCEPT ![w] = TRUE]
    /\ UNCHANGED <<tables, pc, wrun, watt, todo, held, faults>>

-----------------------------------------------------------------------------
(***************************************************************************)
(* _execute up to the engine.                                              *)
(***************************************************************************)
\* Seeded fault: the start of a run ignores that it is being cancelled.
StartFromAnywhere == {"PREPARING", "QUEUED", "CANCELLING"}

StartFrom == {"PREPARING", "QUEUED"}

StartRun(w) ==
    LET r == wrun[w]
    IN  /\ pc[w] = "claimed"
        /\ Fenced(w) /\ status[r] \in StartFrom
        /\ status' = [status EXCEPT ![r] = "RUNNING"]
        /\ AppendEvent(r, "plain")
        /\ Goto(w, "started")
        /\ UNCHANGED <<attempt, generation, lease, attempts, step, jobs,
                       reported, locals, faults>>

(***************************************************************************)
(* revalidate_execution_context refuses: before the plan, and once more    *)
(* before the first edge job is posted.                                    *)
(***************************************************************************)
DenyContext(w) ==
    /\ pc[w] = "started" \/ (pc[w] = "dispatch" /\ todo[w] = EdgeStep)
    /\ Fault("deny")
    /\ Goto(w, "denied")
    /\ UNCHANGED <<tables, locals>>

\* persist_step_plan keeps the rows an earlier attempt has left.
PersistPlan(w) ==
    LET r == wrun[w]
    IN  /\ pc[w] = "started"
        /\ CanAppend(r, watt[w])
        /\ step' = IF step[r]["central"] # "ABSENT" THEN step
                   ELSE [step EXCEPT ![r] = [s \in Step |->
                            IF s \in Plan(r) THEN "PENDING" ELSE "ABSENT"]]
        /\ AppendEvent(r, "plain")
        /\ Goto(w, "planned")
        /\ UNCHANGED <<status, attempt, generation, lease, attempts, jobs,
                       reported, locals, faults>>

\* update_step_state checks neither the attempt nor the generation.
MarkCentralRunning(w) ==
    /\ pc[w] = "planned"
    /\ step' = [step EXCEPT ![wrun[w]]["central"] = "RUNNING"]
    /\ Goto(w, "engine")
    /\ UNCHANGED <<runRow, attempts, jobs, reported, locals, faults>>

-----------------------------------------------------------------------------
(***************************************************************************)
(* The events of the engine, each committed on its own.                    *)
(***************************************************************************)

\* A timeline event; a failed tool may carry the error code of the runtime.
Trace(w, class) ==
    /\ pc[w] = "engine"
    /\ class = "plain" \/ "interrupted" \in Env
    /\ CanAppend(wrun[w], watt[w])
    /\ AppendEvent(wrun[w], class)
    /\ UNCHANGED <<status, attempt, generation, lease, attempts, step, jobs,
                   reported, workerVars>>

\* Seeded fault: an approval request overrides a cancellation.
AskFromAnywhere == {"RUNNING", "PREPARING", "WAITING_APPROVAL", "CANCELLING"}

AskFrom == {"RUNNING", "PREPARING", "WAITING_APPROVAL"}

(***************************************************************************)
(* approval.requested, or a progress event in that phase.  The engine has  *)
(* bound the runtime run to the attempt before it streams any event, and   *)
(* nothing reads the binding of a run that never asks.                     *)
(***************************************************************************)
AskApproval(w) ==
    LET r == wrun[w]
    IN  /\ pc[w] = "engine"
        /\ "ask" \in Env
        /\ Fenced(w) /\ status[r] \in AskFrom
        /\ status' = [status EXCEPT ![r] = "WAITING_APPROVAL"]
        /\ boundAttempts' = [boundAttempts EXCEPT ![r] = @ \cup {watt[w]}]
        /\ AppendEvent(r, "waiting")
        /\ UNCHANGED <<attempt, generation, lease, liveAttempts, cancelledBy,
                       step, jobs, reported, workerVars>>

\* Where the engine's last event leaves the worker.
AfterEngine(w) ==
    IF wrun[w] \in HybridRun
    THEN Goto(w, "dispatch") /\ UNCHANGED locals
    ELSE Return(w)

\* The central step ends with outcome k and the run is aggregated.
CentralEnds(w, k) ==
    LET r    == wrun[w]
        rows == [step[r] EXCEPT !["central"] = k]
    IN  /\ CanAppend(r, watt[w])
        /\ step' = [step EXCEPT ![r] = rows]
        /\ status' = [status EXCEPT ![r] = AggregateRunTerminal(@, rows)]
        /\ AppendEvent(r, "plain")
        /\ AfterEngine(w)
        /\ UNCHANGED <<attempt, generation, lease, liveAttempts, boundAttempts,
                       jobs, reported>>

EngineCompletes(w) ==
    /\ pc[w] = "engine" /\ wrun[w] \notin HybridRun
    /\ CentralEnds(w, "SUCCEEDED")
    /\ UNCHANGED <<cancelledBy, faults>>

EngineFails(w) ==
    /\ pc[w] = "engine"
    /\ CentralEnds(w, "FAILED")
    /\ UNCHANGED <<cancelledBy, faults>>

\* The worker or cancel_run has told the runtime to stop.
StopAsked(w) == stop[w] \/ status[wrun[w]] \in Cancelling

(***************************************************************************)
(* The runtime reports that its run is cancelled, because it was told to   *)
(* or of its own accord.  The run itself stays in its status.              *)
(***************************************************************************)
EngineCancelled(w) ==
    /\ pc[w] = "engine"
    /\ CentralEnds(w, "CANCELLED")
    /\ cancelledBy' = [cancelledBy EXCEPT ![wrun[w]] = @ \cup {watt[w]}]
    /\ IF StopAsked(w) THEN UNCHANGED faults ELSE Fault("cancelled")

\* The central part of a hybrid run completes: the edge steps come next.
EngineCompletesHybrid(w) ==
    LET r == wrun[w]
    IN  /\ pc[w] = "engine" /\ r \in HybridRun
        /\ Fenced(w) /\ status[r] \in ActiveRun
        /\ step' = [step EXCEPT ![r]["central"] = "SUCCEEDED"]
        /\ status' = [status EXCEPT ![r] = "WAITING_EDGE"]
        /\ AppendEvent(r, "plain")
        /\ AfterEngine(w)
        /\ UNCHANGED <<attempt, generation, lease, attempts, jobs, reported,
                       faults>>

-----------------------------------------------------------------------------
(***************************************************************************)
(* The dispatch loop of a hybrid run.  It follows the engine whatever the  *)
(* engine's outcome was.                                                   *)
(***************************************************************************)
DispatchCheck(w) ==
    /\ pc[w] = "dispatch"
    /\ Goto(w, IF stop[w] \/ status[wrun[w]] \in Cancelling
               THEN "cancelled" ELSE "posting")
    /\ UNCHANGED <<tables, locals, faults>>

\* enqueue_edge_job returns the job the step already has, or adds one.
AddJob(w, s) ==
    jobAttempt' = [jobAttempt EXCEPT ![wrun[w]][s] =
                      IF @ = NoAttempt THEN watt[w] ELSE @]

PostJob(w, s) ==
    /\ pc[w] = "posting" /\ s \in todo[w]
    /\ AddJob(w, s)
    /\ todo' = [todo EXCEPT ![w] = @ \ {s}]
    /\ Goto(w, "enqueued")
    /\ UNCHANGED <<runRow, attempts, step, cancelRequested, reported, wrun,
                   watt, stop, held, faults>>

\* The request or its answer is lost.
PostFails(w, s) ==
    /\ pc[w] = "posting" /\ s \in todo[w]
    /\ Fault("network")
    /\ AddJob(w, s) \/ UNCHANGED jobAttempt
    /\ Goto(w, "error") /\ Rollback(w)
    /\ UNCHANGED <<runRow, attempts, step, cancelRequested, reported, wrun,
                   watt, stop, todo>>

\* Seeded fault: the job just posted is overlooked.
PostedBefore(w) == held[w]

\* The step whose job has been posted and that is not yet DISPATCHED.
Posted(w) == EdgeStep \ (todo[w] \cup held[w])

\* update_step_state(DISPATCHED), not committed before the loop ends.
MarkDispatched(w) ==
    /\ pc[w] = "enqueued"
    /\ status[wrun[w]] \notin Cancelling
    /\ held' = [held EXCEPT ![w] = @ \cup Posted(w)]
    /\ Goto(w, IF todo[w] = {} THEN "queued" ELSE "dispatch")
    /\ UNCHANGED <<tables, wrun, watt, stop, todo, faults>>

\* The run was cancelled meanwhile: cancel/agent flags the job just posted.
RetractJob(w) ==
    LET r == wrun[w]
    IN  /\ pc[w] = "enqueued"
        /\ status[r] \in Cancelling
        /\ cancelRequested' = [cancelRequested EXCEPT ![r] =
               @ \cup {s \in Posted(w) : ~JobEnded(r, s)}]
        /\ Goto(w, "cancelled") /\ Rollback(w)
        /\ UNCHANGED <<runRow, attempts, step, jobAttempt, reported, wrun,
                       watt, stop, todo, faults>>

RetractFails(w) ==
    /\ pc[w] = "enqueued"
    /\ status[wrun[w]] \in Cancelling
    /\ Fault("network")
    /\ Goto(w, "error") /\ Rollback(w)
    /\ UNCHANGED <<tables, wrun, watt, stop, todo>>

\* run.edge_steps_queued commits the DISPATCHED steps with it.
CommitDispatch(w) ==
    LET r == wrun[w]
    IN  /\ pc[w] = "queued"
        /\ CanAppend(r, watt[w])
        /\ step' = [step EXCEPT ![r] = [s \in Step |->
                       IF s \in held[w] THEN "DISPATCHED" ELSE @[s]]]
        /\ AppendEvent(r, "plain")
        /\ Return(w)
        /\ UNCHANGED <<status, attempt, generation, lease, attempts, jobs,
                       reported, faults>>

-----------------------------------------------------------------------------
(***************************************************************************)
(* A refused write raises RuntimeError; the transaction is rolled back.    *)
(***************************************************************************)
Refused(w) ==
    LET r == wrun[w]
    IN  \/ pc[w] = "claimed" /\ ~(Fenced(w) /\ status[r] \in StartFrom)
        \/ pc[w] \in {"started", "engine", "queued"} /\ ~CanAppend(r, watt[w])
        \/ pc[w] = "engine" /\ "ask" \in Env /\ status[r] \notin AskFrom
        \/ pc[w] = "engine" /\ r \in HybridRun /\ status[r] \notin ActiveRun

WriteRefused(w) ==
    /\ Refused(w)
    /\ Goto(w, "error") /\ Rollback(w)
    /\ UNCHANGED <<tables, wrun, watt, stop, todo, faults>>

(***************************************************************************)
(* except Exception: FAILED, unless the fence or the terminal test of      *)
(* set_status refuses.  The run.failed event after it never gets through.  *)
(***************************************************************************)
HandleError(w) ==
    LET r == wrun[w]
    IN  /\ pc[w] = "error"
        /\ status' = IF CanAppend(r, watt[w])
                     THEN [status EXCEPT ![r] = "FAILED"] ELSE status
        /\ Return(w)
        /\ UNCHANGED <<attempt, generation, lease, tail, attempts, step, jobs,
                       reported, faults>>

(***************************************************************************)
(* except ContextRevalidationError: run.failed is appended in the same     *)
(* transaction after FAILED, is refused, and takes FAILED back with it.    *)
(***************************************************************************)
HandleDenied(w) ==
    /\ pc[w] = "denied"
    /\ Return(w)
    /\ UNCHANGED <<tables, faults>>

\* except CancelledError: the central step becomes CANCELLED in any case.
HandleCancelled(w) ==
    LET r    == wrun[w]
        rows == [step[r] EXCEPT !["central"] = "CANCELLED"]
    IN  /\ pc[w] = "cancelled"
        /\ IF CanAppend(r, watt[w])
           THEN /\ step' = [step EXCEPT ![r] = rows]
                /\ status' = [status EXCEPT ![r] =
                                 AggregateRunTerminal(@, rows)]
                /\ AppendEvent(r, "plain")
           ELSE UNCHANGED <<step, status, tail>>
        /\ Return(w)
        /\ UNCHANGED <<attempt, generation, lease, attempts, jobs, reported,
                       faults>>

-----------------------------------------------------------------------------
(***************************************************************************)
(* Faults of the process.                                                  *)
(***************************************************************************)
Crash(w) ==
    /\ pc[w] # "idle"
    /\ Fault("crash")
    /\ Return(w)
    /\ UNCHANGED tables

(***************************************************************************)
(* The service stops in good order: main.py cancels the worker task.  Up   *)
(* to the plan the handler has no central_step_id yet and does nothing,    *)
(* which is a crash.                                                       *)
(***************************************************************************)
Shutdown(w) ==
    /\ pc[w] \in InExecute \ {"claimed", "started"}
    /\ Fault("shutdown")
    /\ Goto(w, "cancelled") /\ Rollback(w)
    /\ UNCHANGED <<tables, wrun, watt, stop, todo>>

(***************************************************************************)
(* A lease runs out when nobody renews it: the worker is gone, or the run  *)
(* is in a status in which the renewal matches no row,                     *)
(***************************************************************************)
LeaseExpires(r) ==
    /\ lease[r] = "held"
    /\ status[r] \in ActiveRun => \A w \in Worker : ~(Fenced(w) /\ wrun[w] = r)
    /\ lease' = [lease EXCEPT ![r] = "expired"]
    /\ UNCHANGED <<status, attempt, generation, tail, attempts, step, jobs,
                   reported, workerVars>>

\* or when the worker that should is stalled longer than the lease.
WorkerStalls(w) ==
    /\ pc[w] \in InExecute
    /\ Fenced(w) /\ lease[wrun[w]] = "held"
    /\ Fault("stall")
    /\ lease' = [lease EXCEPT ![wrun[w]] = "expired"]
    /\ UNCHANGED <<status, attempt, generation, tail, attempts, step, jobs,
                   reported, pc, locals>>

-----------------------------------------------------------------------------
WorkerStep(w) ==
    \/ RecoverStaleRuns(w)
    \/ RecoveryRefused(w)
    \/ \E r \in Run : ClaimOne(w, r)
    \/ NothingToClaim(w)
    \/ StartRun(w)
    \/ PersistPlan(w)
    \/ MarkCentralRunning(w)
    \/ EngineCompletes(w)
    \/ EngineCompletesHybrid(w)
    \/ EngineFails(w)
    \/ EngineCancelled(w)
    \/ DispatchCheck(w)
    \/ \E s \in EdgeStep : PostJob(w, s)
    \/ MarkDispatched(w)
    \/ RetractJob(w)
    \/ CommitDispatch(w)
    \/ WriteRefused(w)
    \/ HandleError(w)
    \/ HandleDenied(w)
    \/ HandleCancelled(w)

WorkerEvent(w) ==
    \/ RenewLease(w)
    \/ RenewFenced(w)
    \/ CancelCheck(w)
    \/ \E class \in {"plain", "interrupted"} : Trace(w, class)
    \/ AskApproval(w)
    \/ DenyContext(w)
    \/ \E s \in EdgeStep : PostFails(w, s)
    \/ RetractFails(w)
    \/ Crash(w)
    \/ Shutdown(w)
    \/ WorkerStalls(w)

WorkerTypeOK ==
    /\ pc \in [Worker -> {"idle", "polled"} \cup Executing]
    /\ wrun \in [Worker -> Run \cup {NoRun}]
    /\ \A w \in Worker : pc[w] \in Executing => wrun[w] \in Run
    /\ watt \in [Worker -> Nat]
    /\ stop \in [Worker -> BOOLEAN]
    /\ todo \in [Worker -> SUBSET EdgeStep]
    /\ held \in [Worker -> SUBSET EdgeStep]
    /\ faults \in 0 .. MaxFaults
=============================================================================
