------------------------- MODULE SkillRunCompletion -------------------------
(***************************************************************************)
(* A hybrid run completes only on the reports of all its edge jobs, for    *)
(* every number of edge steps and workers.  The status alone does not tell *)
(* why: the invariant follows the rows of run_steps from the plan on.      *)
(***************************************************************************)
EXTENDS SkillRunSafety

\* persist_step_plan inserts all rows of a plan or none, and none is deleted.
WholePlan(r) ==
    r \in HybridRun /\ Planned(step[r]) # {} => Planned(step[r]) = Step

SucceededMeansReported(r) ==
    \A s \in EdgeStep :
        step[r][s] = "SUCCEEDED" => <<s, "SUCCEEDED">> \in reported[r]

CInv ==
    /\ IInv
    /\ \A r \in Run : WholePlan(r) /\ SucceededMeansReported(r)
    /\ CompletedMeansReported

-----------------------------------------------------------------------------
(***************************************************************************)
(* What a step does to the rows of run_steps of run r.                     *)
(***************************************************************************)
PlanStep(r) ==
    /\ r \in HybridRun =>
           \/ Planned(step'[r]) = Planned(step[r])
           \/ Planned(step'[r]) = Step
    /\ step[r]["central"] # "ABSENT" => step'[r]["central"] # "ABSENT"
    /\ \A s \in EdgeStep : step'[r][s] = "SUCCEEDED" =>
           step[r][s] = "SUCCEEDED" \/ <<s, "SUCCEEDED">> \in reported'[r]
    /\ reported[r] \subseteq reported'[r]

\* The run is completed only on its aggregated steps.
Aggregated(r) ==
    status'[r] = "COMPLETED" /\ status[r] # "COMPLETED" =>
        Planned(step'[r]) # {} /\ AllIn(step'[r], {"SUCCEEDED"})

\* aggregate_run_terminal completes a run only if all its steps succeeded.
LEMMA AggregateCompletes ==
    ASSUME NEW st, NEW rows, st # "COMPLETED",
           AggregateRunTerminal(st, rows) = "COMPLETED"
    PROVE  Planned(rows) # {} /\ AllIn(rows, {"SUCCEEDED"})
  BY DEF AggregateRunTerminal, Terminal

\* A step that leaves run_steps and the reports alone is a PlanStep.
LEMMA SameSteps ==
    ASSUME NEW r, UNCHANGED <<step[r], reported[r]>>
    PROVE  PlanStep(r)
  BY DEF PlanStep, Planned

\* An assignment to one row whose plan exists keeps the set of planned rows.
LEMMA OneRow ==
    ASSUME CInv, NEW r \in Run, NEW s \in Step, NEW x \in StepStatus \ {"ABSENT"},
           step[r]["central"] # "ABSENT",
           s \in EdgeStep /\ x = "SUCCEEDED" => <<s, x>> \in reported'[r],
           reported[r] \subseteq reported'[r],
           step'[r] = [step[r] EXCEPT ![s] = x]
    PROVE  PlanStep(r)
<1> USE DEF CInv, IInv, TypeOK, TablesTypeOK
<1>1. "central" \in Step /\ \A t \in Step : step'[r][t] = IF t = s THEN x ELSE step[r][t]
  BY DEF Step
<1>2. r \in HybridRun => Planned(step'[r]) = Step
  <2>1. r \in HybridRun => Planned(step[r]) = Step
    BY <1>1 DEF WholePlan, Planned
  <2> QED BY <1>1, <2>1 DEF Planned
<1>3. \A t \in EdgeStep : t \in Step
  BY DEF Step
<1> QED BY <1>1, <1>2, <1>3 DEF PlanStep

\* Cancelling the open rows of a plan is a PlanStep.
LEMMA CancelOpenPlan ==
    ASSUME CInv, NEW r \in Run, step'[r] = CancelOpen(step[r]),
           reported'[r] = reported[r]
    PROVE  PlanStep(r)
<1> USE DEF CInv, IInv, TypeOK, TablesTypeOK
<1>1. \A t \in Step : step'[r][t] =
          IF step[r][t] \in OpenStep THEN "CANCELLED" ELSE step[r][t]
  BY DEF CancelOpen
<1>2. Planned(step'[r]) = Planned(step[r])
  BY <1>1 DEF Planned, OpenStep
<1> QED BY <1>1, <1>2 DEF PlanStep, Step, OpenStep

\* What the worker does to the rows of a plan, and when it completes a run.
LEMMA WorkerPlanSteps ==
    ASSUME CInv, NEW w \in Worker, WorkerNext(w), NEW q \in Run
    PROVE  PlanStep(q) /\ Aggregated(q)
<1> USE DEF CInv, IInv, TypeOK, TablesTypeOK, WorkerTypeOK
<1> DEFINE r == wrun[w]
<1>r. pc[w] \in Executing => r \in Run
  OBVIOUS
<1>p. pc[w] \in HasPlan => r \in Run /\ step[r]["central"] # "ABSENT"
  BY DEF PlannedFirst, HasPlan, Executing, InExecute, Handlers
<1>b. CASE UNCHANGED <<step, reported, status>>
  BY <1>b, SameSteps DEF Aggregated
<1>1. CASE RecoverStaleRuns(w)
  <2>1. PlanStep(q)
    BY <1>1, SameSteps DEF RecoverStaleRuns
  <2>2. ASSUME status'[q] = "COMPLETED", status[q] # "COMPLETED"
        PROVE  Planned(step'[q]) # {} /\ AllIn(step'[q], {"SUCCEEDED"})
    <3>1. step' = step /\ status'[q] = AggregateRunTerminal(status[q], step[q])
      BY <1>1, <2>2
      DEF RecoverStaleRuns, NextStatusAfterStaleLease
    <3> QED BY <2>2, <3>1, AggregateCompletes
  <2> QED BY <2>1, <2>2 DEF Aggregated
<1>2. CASE PersistPlan(w)
  <2>1. r \in Run
    BY <1>2, <1>r DEF PersistPlan, Executing, InExecute
  <2>2. UNCHANGED <<status, reported>>
    BY <1>2 DEF PersistPlan
  <2>3. CASE q # r \/ step[r]["central"] # "ABSENT"
    <3>1. step'[q] = step[q]
      BY <1>2, <2>1, <2>3 DEF PersistPlan
    <3> QED BY <2>2, <3>1, SameSteps DEF Aggregated
  <2>4. CASE q = r /\ step[r]["central"] = "ABSENT"
    <3>1. step'[q] = [s \in Step |-> IF s \in Plan(q) THEN "PENDING" ELSE "ABSENT"]
      BY <1>2, <2>1, <2>4 DEF PersistPlan
    <3>2. q \in HybridRun => Planned(step'[q]) = Step
      BY <3>1 DEF Plan, Planned
    <3>3. \A s \in EdgeStep : step'[q][s] # "SUCCEEDED"
      BY <3>1 DEF Step
    <3> QED BY <2>2, <2>4, <3>2, <3>3 DEF PlanStep, Aggregated
  <2> QED BY <2>3, <2>4
<1>3. ASSUME NEW k \in StepEnd \cup {"RUNNING"}, pc[w] \in HasPlan, UNCHANGED reported,
             step' = [step EXCEPT ![r] = [step[r] EXCEPT !["central"] = k]]
      PROVE  PlanStep(q)
  <2>1. CASE q # r
    BY <1>3, <2>1, SameSteps
  <2>2. CASE q = r
    <3>1. "central" \in Step /\ "central" \notin EdgeStep
      BY EdgeStepAssumption DEF Step
    <3>2. k \in StepStatus \ {"ABSENT"}
      BY DEF StepStatus, StepEnd, OpenStep
    <3>3. step'[q] = [step[q] EXCEPT !["central"] = k]
      BY <1>3, <1>p, <2>2
    <3> QED BY <1>3, <1>p, <2>2, <3>1, <3>2, <3>3, OneRow
  <2> QED BY <2>1, <2>2
<1>4. CASE MarkCentralRunning(w)
  BY <1>4, <1>3 DEF MarkCentralRunning, HasPlan, runRow, Aggregated
<1>5. CASE EngineCompletesHybrid(w)
  BY <1>5, <1>3, <1>p
  DEF EngineCompletesHybrid, HasPlan, StepEnd, Aggregated
<1>6. ASSUME NEW k \in StepEnd, pc[w] = "engine", CentralEnds(w, k)
      PROVE  PlanStep(q) /\ Aggregated(q)
  <2> DEFINE rows == [step[r] EXCEPT !["central"] = k]
  <2>1. PlanStep(q)
    BY <1>6, <1>3 DEF CentralEnds, HasPlan
  <2>2. CASE q = r
    <3>1. step'[q] = rows /\ status'[q] = AggregateRunTerminal(status[q], rows)
      BY <1>6, <1>p, <2>2 DEF CentralEnds, HasPlan
    <3> QED BY <2>1, <3>1, AggregateCompletes DEF Aggregated
  <2>3. CASE q # r
    BY <1>6, <2>1, <2>3 DEF CentralEnds, Aggregated
  <2> QED BY <2>2, <2>3
<1>7. CASE CommitDispatch(w)
  <2>1. r \in Run /\ step[r]["central"] # "ABSENT" /\ held[w] \subseteq EdgeStep
    BY <1>7, <1>p DEF CommitDispatch, HasPlan
  <2>2. UNCHANGED <<status, reported>>
    BY <1>7 DEF CommitDispatch
  <2>3. CASE q # r
    BY <1>7, <2>2, <2>3, SameSteps DEF CommitDispatch, Aggregated
  <2>4. CASE q = r
    <3>1. \A s \in Step : step'[q][s] =
              IF s \in held[w] THEN "DISPATCHED" ELSE step[q][s]
      BY <1>7, <2>1, <2>4 DEF CommitDispatch
    <3>2. "central" \in Step /\ "central" \notin held[w]
      BY <2>1, EdgeStepAssumption DEF Step
    <3>3. q \in HybridRun => Planned(step'[q]) = Step
      <4>1. q \in HybridRun => Planned(step[q]) = Step
        BY <2>1, <2>4, <3>2 DEF WholePlan, Planned
      <4> QED BY <3>1, <4>1 DEF Planned
    <3> QED BY <2>2, <3>1, <3>2, <3>3 DEF PlanStep, Aggregated, Step
  <2> QED BY <2>3, <2>4
<1>8. CASE HandleCancelled(w)
  <2> DEFINE rows == [step[r] EXCEPT !["central"] = "CANCELLED"]
  <2>1. CASE CanAppend(r, watt[w])
    <3>1. PlanStep(q)
      BY <1>8, <2>1, <1>3 DEF HandleCancelled, HasPlan, StepEnd
    <3>2. CASE q = r
      <4>1. step'[q] = rows /\ status'[q] = AggregateRunTerminal(status[q], rows)
        BY <1>8, <2>1, <1>p, <3>2 DEF HandleCancelled, HasPlan
      <4> QED BY <3>1, <4>1, AggregateCompletes DEF Aggregated
    <3>3. CASE q # r
      BY <1>8, <2>1, <3>1, <3>3 DEF HandleCancelled, Aggregated
    <3> QED BY <3>2, <3>3
  <2>2. CASE ~CanAppend(r, watt[w])
    BY <1>8, <1>b, <2>2 DEF HandleCancelled
  <2> QED BY <2>1, <2>2
<1>9. ASSUME NEW i \in Run, ClaimOne(w, i) PROVE PlanStep(q) /\ Aggregated(q)
  BY <1>9, SameSteps DEF ClaimOne, Aggregated
<1>10. CASE StartRun(w) \/ AskApproval(w) \/ HandleError(w)
  BY <1>10, SameSteps DEF StartRun, AskApproval, HandleError, Aggregated
<1>11. \/ UNCHANGED <<step, reported, status>>
       \/ RecoverStaleRuns(w) \/ PersistPlan(w) \/ MarkCentralRunning(w)
       \/ EngineCompletesHybrid(w)
       \/ \E k \in StepEnd : pc[w] = "engine" /\ CentralEnds(w, k)
       \/ CommitDispatch(w) \/ HandleCancelled(w)
       \/ \E i \in Run : ClaimOne(w, i)
       \/ StartRun(w) \/ AskApproval(w) \/ HandleError(w)
  BY DEF WorkerNext, WorkerStep, WorkerEvent, RecoveryRefused, NothingToClaim,
         RenewLease, RenewFenced, CancelCheck, DenyContext, Trace,
         EngineCompletes, EngineFails, EngineCancelled, DispatchCheck, PostJob,
         PostFails, MarkDispatched, RetractJob, RetractFails, WriteRefused,
         HandleDenied, Crash, Shutdown, WorkerStalls, tables, runRow, StepEnd
<1> QED
  BY <1>b, <1>1, <1>2, <1>4, <1>5, <1>6, <1>7, <1>8, <1>9, <1>10, <1>11

\* What the API handlers do to the rows of a plan, and when they complete a run.
LEMMA ControlPlanSteps ==
    ASSUME CInv, NEW r \in Run, ClockNext(r) \/ ControlNext(r), NEW q \in Run
    PROVE  PlanStep(q) /\ Aggregated(q)
<1> USE DEF CInv, IInv, TypeOK, TablesTypeOK
<1>1. CASE UNCHANGED <<step, reported>> /\ status'[q] \in {status[q], "CANCELLING"}
  BY <1>1, SameSteps DEF Aggregated
<1>2. CASE CancelWaitingEdge(r)
  <2> DEFINE st == ToCancelling(r, {"WAITING_EDGE", "PREPARING", "RUNNING"})
             rows == CancelOpen(step[r])
  <2>1. CASE q = r
    <3>1. step'[q] = rows /\ reported'[q] = reported[q]
      BY <1>2, <2>1 DEF CancelWaitingEdge
    <3>2. status'[q] = AggregateRunTerminal(st, rows)
      BY <1>2, <2>1 DEF CancelWaitingEdge
    <3>3. st = "COMPLETED" => status[q] = "COMPLETED"
      BY <2>1 DEF ToCancelling
    <3> QED
      BY <2>1, <3>1, <3>2, <3>3, CancelOpenPlan, AggregateCompletes
      DEF Aggregated
  <2>2. CASE q # r
    BY <1>2, <2>2, SameSteps DEF CancelWaitingEdge, Aggregated
  <2> QED BY <2>1, <2>2
<1>3. CASE CancelImmediate(r)
  <2>1. CASE q = r
    <3>1. step'[q] = CancelOpen(step[q]) /\ reported'[q] = reported[q]
      BY <1>3, <2>1 DEF CancelImmediate
    <3>2. status'[q] = "COMPLETED" => status[q] = "COMPLETED"
      BY <1>3, <2>1 DEF CancelImmediate, ApprovalStatus, ToCancelling
    <3> QED BY <3>1, <3>2, CancelOpenPlan DEF Aggregated
  <2>2. CASE q # r
    BY <1>3, <2>2, SameSteps DEF CancelImmediate, Aggregated
  <2> QED BY <2>1, <2>2
<1>4. ASSUME NEW choice, ApproveWrite(r, choice)
      PROVE  PlanStep(q) /\ Aggregated(q)
  BY <1>4, SameSteps DEF ApproveWrite, ChosenStatus, Aggregated
<1>5. ASSUME NEW s \in EdgeStep, NEW k \in Report, IngestEdgeEvent(r, s, k)
      PROVE  PlanStep(q) /\ Aggregated(q)
  <2> DEFINE x    == StepAfterReport(step[r][s], k)
             rows == [step[r] EXCEPT ![s] = x]
  <2>1. CASE q = r
    <3>1. /\ step'[q] = rows
          /\ reported'[q] = reported[q] \cup {<<s, k>>}
          /\ status'[q] = IF k = "RUNNING" THEN status[q]
                          ELSE AggregateRunTerminal(status[q], rows)
      BY <1>5, <2>1 DEF IngestEdgeEvent
    <3>2. s \in Step /\ step[r]["central"] # "ABSENT"
      BY <1>5 DEF IngestEdgeEvent, PlanRows, JobHasPlan, Step
    <3>3. PlanStep(q)
      <4>1. CASE x \in StepStatus \ {"ABSENT"} /\ x # "SUCCEEDED"
        BY <2>1, <3>1, <3>2, <4>1, OneRow
      <4>2. CASE k = "SUCCEEDED"
        <5>1. x = "SUCCEEDED" /\ <<s, x>> \in reported'[q]
          BY <3>1, <4>2 DEF StepAfterReport
        <5> QED
          BY <2>1, <3>1, <3>2, <5>1, OneRow DEF StepStatus, StepEnd
      <4>3. CASE x = step[r][s]
        <5>1. step'[q] = step[q]
          BY <2>1, <3>1, <4>3
        <5> QED BY <2>1, <3>1, <5>1 DEF PlanStep, Planned
      <4>4. k \in {"SUCCEEDED"} \/ x = step[r][s]
            \/ (x \in StepStatus \ {"ABSENT"} /\ x # "SUCCEEDED")
        BY DEF StepAfterReport, Report, StepStatus, StepEnd, OpenStep
      <4> QED BY <4>1, <4>2, <4>3, <4>4
    <3>4. Aggregated(q)
      BY <3>1, AggregateCompletes DEF Aggregated
    <3> QED BY <3>3, <3>4
  <2>2. CASE q # r
    BY <1>5, <2>2, SameSteps DEF IngestEdgeEvent, Aggregated
  <2> QED BY <2>1, <2>2
<1>6. \/ UNCHANGED <<step, reported>> /\ status'[q] \in {status[q], "CANCELLING"}
      \/ CancelWaitingEdge(r) \/ CancelImmediate(r)
      \/ \E choice \in {"approve", "deny"} : ApproveWrite(r, choice)
      \/ \E s \in EdgeStep, k \in Report : IngestEdgeEvent(r, s, k)
  BY DEF ClockNext, LeaseExpires, ControlNext, CancelRead, CancelStep,
         CancelRunning, CancelApproval, ApprovalStatus, ToCancelling,
         CancelOvertaken, CancelMarkJobs, ApproveRead, tables, runRow
<1> QED BY <1>1, <1>2, <1>3, <1>4, <1>5, <1>6

\* Every step treats the plan and the completion of every run this way.
LEMMA PlanSteps == CInv /\ [Next]_vars => \A r \in Run : PlanStep(r) /\ Aggregated(r)
<1>1. CASE CInv /\ Next
  BY <1>1, WorkerPlanSteps, ControlPlanSteps DEF Next
<1>2. CASE CInv /\ UNCHANGED vars
  BY <1>2, SameSteps DEF vars, tables, runRow, Aggregated
<1> QED BY <1>1, <1>2

-----------------------------------------------------------------------------
(***************************************************************************)
(* CInv is an invariant: the rows persist_step_plan inserts are never      *)
(* deleted, a row says SUCCEEDED only after an accepted report, and a run  *)
(* is COMPLETED only on such rows.                                         *)
(***************************************************************************)
THEOREM CompletionInvariant == Spec => []CInv
<1>1. Init => CInv
  <2> SUFFICES ASSUME Init PROVE CInv
    OBVIOUS
  <2>1. \A r \in Run : /\ \A s \in Step : step[r][s] = "ABSENT"
                       /\ status[r] # "COMPLETED"
    BY DEF Init, TablesInit
  <2>2. \A r \in Run : WholePlan(r)
    BY <2>1 DEF WholePlan, Planned
  <2>3. \A r \in Run : SucceededMeansReported(r)
    BY <2>1 DEF SucceededMeansReported, Step
  <2>4. CompletedMeansReported
    BY <2>1, PlacementAssumption DEF CompletedMeansReported
  <2> QED BY <2>2, <2>3, <2>4, InitIInv DEF CInv
<1>2. CInv /\ [Next]_vars => CInv'
  <2> SUFFICES ASSUME CInv, [Next]_vars PROVE CInv'
    OBVIOUS
  <2>1. IInv'
    BY IInvKept DEF CInv
  <2>2. ASSUME NEW r \in Run
        PROVE  WholePlan(r)' /\ SucceededMeansReported(r)'
    <3>1. PlanStep(r)
      BY PlanSteps
    <3>2. WholePlan(r)'
      BY <3>1 DEF CInv, WholePlan, PlanStep
    <3>3. SucceededMeansReported(r)'
      BY <3>1 DEF CInv, SucceededMeansReported, PlanStep
    <3> QED BY <3>2, <3>3
  <2>3. ASSUME NEW r \in HybridRun, NEW s \in EdgeStep,
               status'[r] = "COMPLETED"
        PROVE  <<s, "SUCCEEDED">> \in reported'[r]
    <3>1. r \in Run /\ PlanStep(r) /\ Aggregated(r)
      BY PlacementAssumption, PlanSteps
    <3>2. CASE status[r] = "COMPLETED"
      BY <3>1, <3>2 DEF CInv, CompletedMeansReported, PlanStep
    <3>3. CASE status[r] # "COMPLETED"
      <4>1. step'[r][s] = "SUCCEEDED"
        BY <2>2, <2>3, <3>1, <3>3 DEF Aggregated, WholePlan, AllIn, Step
      <4> QED BY <2>2, <3>1, <4>1 DEF SucceededMeansReported
    <3> QED BY <3>2, <3>3
  <2> QED BY <2>1, <2>2, <2>3 DEF CInv, CompletedMeansReported
<1> QED BY <1>1, <1>2, PTL DEF Spec

(***************************************************************************)
(* aggregate_run_terminal completes a hybrid run only when the edge node   *)
(* has reported the success of every edge job, however many there are and  *)
(* whatever attempt, crash, cancellation or replay came in between.        *)
(***************************************************************************)
THEOREM CompletionIsReported == Spec => []CompletedMeansReported
<1>1. CInv => CompletedMeansReported
  BY DEF CInv
<1> QED BY <1>1, CompletionInvariant, PTL
=============================================================================
