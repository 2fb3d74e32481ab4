------------------------------ MODULE SkillRun ------------------------------
(***************************************************************************)
(* Skill runs of nodeskclaw: the agent's workers, the API handlers and the *)
(* edge reports together over the shared tables, and what must hold of     *)
(* every run whatever their interleaving.                                  *)
(***************************************************************************)
EXTENDS RunControl

vars == <<tables, controlVars>>

Init == TablesInit /\ WorkerInit /\ ControlInit

WorkerNext(w) == (WorkerStep(w) \/ WorkerEvent(w)) /\ UNCHANGED requestVars

ClockNext(r) == LeaseExpires(r) /\ UNCHANGED requestVars

ControlNext(r) ==
    \/ CancelRead(r)
    \/ CancelStep(r)
    \/ ApproveRead(r)
    \/ \E choice \in {"approve", "deny"} : ApproveWrite(r, choice)
    \/ \E s \in EdgeStep, k \in Report : IngestEdgeEvent(r, s, k)

Next ==
    \/ \E w \in Worker : WorkerNext(w)
    \/ \E r \in Run : ClockNext(r) \/ ControlNext(r)

Spec == Init /\ [][Next]_vars

TypeOK == TablesTypeOK /\ WorkerTypeOK /\ ControlTypeOK

-----------------------------------------------------------------------------
(***************************************************************************)
(* Fairness.  A worker's loop keeps running, and the engine of a run ends: *)
(* both are its WorkerStep.  PostgreSQL's clock passes lease_until.  The   *)
(* handlers of a request that has arrived are executed.  An edge node ends *)
(* a job it can claim and reports the end until it is accepted.  Nothing   *)
(* is assumed of faults, of the renewal and cancellation timers, of the    *)
(* runtime's approvals or of a user.                                       *)
(***************************************************************************)
JobEnds(r, s) ==
    /\ \A k \in StepEnd : <<s, k>> \notin reported[r]
    /\ \E k \in StepEnd : IngestEdgeEvent(r, s, k)

Fairness ==
    /\ \A w \in Worker : WF_vars(WorkerStep(w) /\ UNCHANGED requestVars)
    /\ \A r \in Run : WF_vars(ClockNext(r)) /\ WF_vars(CancelStep(r))
    /\ \A r \in Run, s \in EdgeStep : WF_vars(JobEnds(r, s))

FairSpec == Spec /\ Fairness

-----------------------------------------------------------------------------
(***************************************************************************)
(* Safety.                                                                 *)
(***************************************************************************)

(***************************************************************************)
(* Of the workers that execute a run at the same time, after a lease has   *)
(* run out, at most one passes the fence of append_event and set_status.   *)
(***************************************************************************)
SingleOwner ==
    \A v, w \in Worker : Fenced(v) /\ Fenced(w) /\ wrun[v] = wrun[w] => v = w

(***************************************************************************)
(* An attempt row stays open only while it is the attempt of its run:      *)
(* recovery and cancellation close the attempt they take away.  One thing  *)
(* else takes an attempt away, and leaves its row open for ever: the claim *)
(* of a gated run that a late approval has queued while it waited in its   *)
(* runtime.                                                                *)
(***************************************************************************)
LeftOpen(r) == IF r \in GatedRun THEN boundAttempts[r] ELSE {}

OneLiveAttempt ==
    \A r \in Run : liveAttempts[r] \ {attempt[r]} \subseteq LeftOpen(r)

(***************************************************************************)
(* No run falls between the two selections of the poll loop, whoever died  *)
(* or was slow: a queued run is rid of its last attempt and lease, so that *)
(* a claim selects it; a run in execution has an open attempt row and a    *)
(* lease, so that recovery does when the lease has run out.  A gated run   *)
(* that a late approval has queued keeps the attempt and the lease it had  *)
(* in its runtime, and is claimed when that lease has run out.             *)
(***************************************************************************)
Released(r) ==
    /\ attempt[r] = NoAttempt
    /\ lease[r] = "none"
    /\ \A w \in Worker : ~(Fenced(w) /\ wrun[w] = r)

QueuedLate(r) ==
    /\ r \in GatedRun
    /\ attempt[r] \in liveAttempts[r] \cap boundAttempts[r]
    /\ lease[r] # "none"

Taken(r) == attempt[r] \in liveAttempts[r] /\ lease[r] # "none"

NoRunIsLost ==
    \A r \in Run :
        /\ status[r] = "QUEUED" => Released(r) \/ QueuedLate(r)
        /\ status[r] \in ActiveRun => Taken(r)

(***************************************************************************)
(* A terminal status is final, whatever a late worker, a repeated cancel,  *)
(* an approval or a replayed edge report does afterwards.                  *)
(***************************************************************************)
TerminalIsFinal ==
    [][\A r \in Run : status[r] \in Terminal => status'[r] = status[r]]_vars

(***************************************************************************)
(* A run being cancelled is never executed or completed again: it remains  *)
(* CANCELLING until it is CANCELLED, or FAILED by its worker's handler.    *)
(***************************************************************************)
CancellingNeverResumes ==
    [][\A r \in Run : status[r] = "CANCELLING" =>
          status'[r] \in {"CANCELLING", "CANCELLED", "FAILED"}]_vars

(***************************************************************************)
(* No step of a worker that has lost its run changes the run's row: every  *)
(* write of _execute to runs and run_events is fenced by the attempt.      *)
(***************************************************************************)
StaleAttemptNeverMovesRun ==
    [][\A w \in Worker, r \in Run :
          WorkerNext(w) /\ pc[w] \in Executing /\ wrun[w] = r /\ ~Fenced(w) =>
              UNCHANGED <<status[r], attempt[r], lease[r], tail[r]>>]_vars

(***************************************************************************)
(* Once an edge job of a run exists, the run is past its central part for  *)
(* good: no recovery, approval or claim executes that part a second time.  *)
(* Excepted is the job of an attempt whose runtime has cancelled its run:  *)
(* that ends the central step and not the run.                             *)
(***************************************************************************)
Past == {"WAITING_EDGE", "CANCELLING"} \cup Terminal

JobsOnlyAfterCentral ==
    \A r \in Run, s \in EdgeStep :
        jobAttempt[r][s] # NoAttempt =>
            status[r] \in Past \/ jobAttempt[r][s] \in cancelledBy[r]

(***************************************************************************)
(* The attempt that posts the first job of a run remains the run's attempt *)
(* and its last one, also when the run is cancelled or its worker is gone: *)
(* the comparison of ingest_internal_events never refuses a job's report.  *)
(* Excepted is again the job of an attempt whose runtime has cancelled.    *)
(***************************************************************************)
JobsOfTheAttempt ==
    \A r \in Run, s \in EdgeStep :
        jobAttempt[r][s] # NoAttempt =>
            \/ attempt[r] = jobAttempt[r][s] /\ generation[r] = jobAttempt[r][s]
            \/ jobAttempt[r][s] \in cancelledBy[r]

(***************************************************************************)
(* A hybrid run is COMPLETED only after the job of every edge step has     *)
(* reported success for the attempt that posted it.                        *)
(***************************************************************************)
CompletedMeansReported ==
    \A r \in HybridRun, s \in EdgeStep :
        status[r] = "COMPLETED" => <<s, "SUCCEEDED">> \in reported[r]

(***************************************************************************)
(* When a cancellation has been carried out, every job of the run has been *)
(* told, although the worker may be posting jobs all the while: either the *)
(* cancel handler or the worker's second look at the run flags each job.   *)
(* Lost requests and dying processes can leave a job untold.               *)
(***************************************************************************)
Posting(r) == \E w \in Worker : wrun[w] = r /\ pc[w] \in {"posting", "enqueued"}

CancelReachesJobs ==
    \A r \in Run :
        /\ cancels[r] > 0 /\ cancelPc[r] = "idle"
        /\ status[r] \in Cancelling
        /\ ~Posting(r)
        /\ faults = 0
        => \A s \in EdgeStep : jobAttempt[r][s] # NoAttempt =>
              s \in cancelRequested[r] \/ JobEnded(r, s)

(***************************************************************************)
(* Workers, API handlers and edge reports together move every run along    *)
(* the life cycle, and only a claim advances its generation, by one.       *)
(***************************************************************************)
Lifecycle == INSTANCE RunLifecycle WITH phase <- status, epoch <- generation

ImplementsLifecycle == Lifecycle!Spec

-----------------------------------------------------------------------------
(***************************************************************************)
(* Liveness.                                                               *)
(***************************************************************************)

(***************************************************************************)
(* A queued run ends although workers crash and stall: its lease runs out, *)
(* it is recovered and claimed again.  (Unless a user cancels it.)         *)
(***************************************************************************)
QueuedRunEnds ==
    \A r \in Run :
        status[r] = "QUEUED" ~> status[r] \in Terminal \/ cancels[r] > 0

(***************************************************************************)
(* CANCELLING is not where a run remains: as long as no process dies, the  *)
(* run ends once its worker notices or its steps have ended.               *)
(***************************************************************************)
CancellingEnds ==
    \A r \in Run :
        status[r] = "CANCELLING" ~> status[r] \in Terminal \/ faults > 0

(***************************************************************************)
(* A hybrid run that waits for its edge jobs ends.                         *)
(***************************************************************************)
WaitingEdgeEnds ==
    \A r \in HybridRun :
        status[r] = "WAITING_EDGE" ~> status[r] \in Terminal

-----------------------------------------------------------------------------
(***************************************************************************)
(* Statements of the documentation that the code does not keep.            *)
(***************************************************************************)

(***************************************************************************)
(* A refused context revalidation of the worker that owns the run is       *)
(* persisted as FAILED even though its event cannot be written.            *)
(***************************************************************************)
DenialIsPersisted ==
    [][\A w \in Worker :
          pc[w] = "denied" /\ pc'[w] = "idle" /\ Fenced(w) =>
              status'[wrun[w]] \in Terminal]_vars
=============================================================================
