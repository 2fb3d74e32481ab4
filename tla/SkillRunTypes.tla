--------------------------- MODULE SkillRunTypes ---------------------------
(***************************************************************************)
(* Type correctness of SkillRun, for every number of runs, workers and     *)
(* edge steps, every environment and every number of faults and requests.  *)
(***************************************************************************)
EXTENDS SkillRun, TLAPS

\* What aggregate_run_terminal can make of a status.
LEMMA AggregateStatus ==
    ASSUME NEW st \in RunStatus, NEW rows
    PROVE  /\ AggregateRunTerminal(st, rows) \in
                  {st, "CANCELLED", "FAILED", "COMPLETED"}
           /\ AggregateRunTerminal(st, rows) \in RunStatus
           /\ st \in Terminal => AggregateRunTerminal(st, rows) = st
           /\ st = "CANCELLING" =>
                  AggregateRunTerminal(st, rows) \in {"CANCELLING", "CANCELLED"}
           /\ st # "CANCELLING" /\ st # "CANCELLED" =>
                  AggregateRunTerminal(st, rows) # "CANCELLED"
  BY DEF AggregateRunTerminal, RunStatus, Terminal

\* Every transaction leaves the shared tables well typed.
LEMMA TablesType == TypeOK /\ Next => TablesTypeOK'
<1> SUFFICES ASSUME TypeOK, Next PROVE TablesTypeOK'
  OBVIOUS
<1> USE DEF TypeOK, TablesTypeOK
<1>w. ASSUME NEW w \in Worker, WorkerNext(w) PROVE TablesTypeOK'
  <2>1. CASE \/ RecoveryRefused(w) \/ NothingToClaim(w) \/ RenewFenced(w)
           \/ CancelCheck(w) \/ DispatchCheck(w) \/ MarkDispatched(w)
           \/ RetractFails(w) \/ WriteRefused(w) \/ HandleDenied(w)
           \/ DenyContext(w) \/ Crash(w) \/ Shutdown(w)
    BY <2>1
    DEF RecoveryRefused, NothingToClaim, RenewFenced, CancelCheck,
        DispatchCheck, MarkDispatched, RetractFails, WriteRefused,
        HandleDenied, DenyContext, Crash, Shutdown, tables, runRow,
        attempts, jobs
  <2>2. CASE RecoverStaleRuns(w)
    BY <2>2, AggregateStatus
    DEF RecoverStaleRuns, NextStatusAfterStaleLease, TimeOutAttempts,
        NoAttempt, attempts, jobs, RunStatus, Terminal
  <2>3. ASSUME NEW r \in Run, ClaimOne(w, r)
       PROVE  TablesTypeOK'
    BY <2>3 DEF ClaimOne, NextAttempt, jobs, RunStatus, Terminal
  <2>4. CASE StartRun(w)
    BY <2>4 DEF StartRun, AppendEvent, attempts, jobs, RunStatus, Terminal
  <2>5. CASE PersistPlan(w)
    BY <2>5
    DEF PersistPlan, AppendEvent, attempts, jobs, Step, StepStatus,
        StepEnd, OpenStep
  <2>6. CASE MarkCentralRunning(w)
    BY <2>6
    DEF MarkCentralRunning, runRow, attempts, jobs, Step, StepStatus,
        StepEnd, OpenStep
  <2>7. ASSUME NEW class \in {"plain", "interrupted"}, Trace(w, class)
       PROVE  TablesTypeOK'
    BY <2>7 DEF Trace, AppendEvent, attempts, jobs
  <2>8. CASE AskApproval(w)
    BY <2>8
    DEF WorkerTypeOK, Executing, InExecute, AskApproval, AppendEvent, jobs,
        RunStatus, Terminal
  <2>9. CASE EngineCompletesHybrid(w)
    BY <2>9
    DEF WorkerTypeOK, Executing, InExecute, EngineCompletesHybrid,
        AppendEvent, attempts, jobs, RunStatus, Step, StepStatus, StepEnd,
        OpenStep
  <2>10. ASSUME NEW k \in StepEnd, pc[w] = "engine", CentralEnds(w, k),
              cancelledBy' \in [Run -> SUBSET Nat]
       PROVE  TablesTypeOK'
    BY <2>10, AggregateStatus
    DEF WorkerTypeOK, Executing, InExecute, CentralEnds, AppendEvent,
        jobs, Step, StepStatus, StepEnd, OpenStep
  <2>e. CASE EngineCompletes(w) \/ EngineFails(w)
    BY <2>e, <2>10 DEF EngineCompletes, EngineFails, StepEnd
  <2>x. CASE EngineCancelled(w)
    <3>1. cancelledBy' \in [Run -> SUBSET Nat]
      BY <2>x DEF EngineCancelled, WorkerTypeOK, Executing, InExecute
    <3> QED BY <2>x, <2>10, <3>1 DEF EngineCancelled, StepEnd
  <2>11. ASSUME NEW s \in EdgeStep, PostJob(w, s) \/ PostFails(w, s)
       PROVE  TablesTypeOK'
    <3>1. wrun[w] \in Run /\ watt[w] \in Nat
      BY <2>11 DEF PostJob, PostFails, WorkerTypeOK, Executing, InExecute
    <3>2. CASE AddJob(w, s)
      <4> DEFINE row == [jobAttempt[wrun[w]] EXCEPT
                            ![s] = IF @ = NoAttempt THEN watt[w] ELSE @]
      <4>1. row \in [EdgeStep -> Nat]
        BY <3>1
      <4>2. jobAttempt' = [jobAttempt EXCEPT ![wrun[w]] = row]
        BY <3>2 DEF AddJob
      <4>3. jobAttempt' \in [Run -> [EdgeStep -> Nat]]
        BY <3>1, <4>1, <4>2
      <4> QED
        BY <2>11, <4>3 DEF PostJob, PostFails, runRow, attempts
    <3>3. CASE UNCHANGED jobAttempt
      BY <2>11, <3>3 DEF PostJob, PostFails, runRow, attempts
    <3> QED
      BY <2>11, <3>2, <3>3 DEF PostJob, PostFails
  <2>12. CASE RetractJob(w)
    BY <2>12 DEF RetractJob, Posted, runRow, attempts
  <2>13. CASE CommitDispatch(w)
    BY <2>13
    DEF WorkerTypeOK, Executing, InExecute, CommitDispatch, AppendEvent,
        attempts, jobs, Step, StepStatus, StepEnd, OpenStep
  <2>14. CASE HandleError(w)
    BY <2>14 DEF HandleError, attempts, jobs, RunStatus, Terminal
  <2>15. CASE HandleCancelled(w)
    <3> DEFINE rows == [step[wrun[w]] EXCEPT !["central"] = "CANCELLED"]
    <3>1. wrun[w] \in Run
      BY <2>15 DEF HandleCancelled, WorkerTypeOK, Executing, Handlers
    <3>2. rows \in [Step -> StepStatus]
      BY <3>1 DEF Step, StepStatus, StepEnd
    <3>3. AggregateRunTerminal(status[wrun[w]], rows) \in RunStatus
      BY <3>1, AggregateStatus
    <3>4. status' \in [Run -> RunStatus] /\ step' \in [Run -> [Step -> StepStatus]]
      <4>1. CASE CanAppend(wrun[w], watt[w])
        <5>1. status' = [status EXCEPT ![wrun[w]] =
                            AggregateRunTerminal(status[wrun[w]], rows)]
          BY <2>15, <4>1 DEF HandleCancelled
        <5>2. step' = [step EXCEPT ![wrun[w]] = rows]
          BY <2>15, <4>1 DEF HandleCancelled
        <5> QED BY <3>1, <3>2, <3>3, <5>1, <5>2
      <4>2. CASE ~CanAppend(wrun[w], watt[w])
        BY <2>15, <4>2 DEF HandleCancelled
      <4> QED BY <4>1, <4>2
    <3>5. tail' \in [Run -> {"plain", "waiting", "interrupted"}]
      BY <2>15, <3>1 DEF HandleCancelled, AppendEvent
    <3> QED
      BY <2>15, <3>4, <3>5 DEF HandleCancelled, attempts, jobs
  <2>16. CASE RenewLease(w) \/ WorkerStalls(w)
    BY <2>16 DEF RenewLease, WorkerStalls, attempts, jobs
  <2> QED
    BY <1>w, <2>1, <2>2, <2>3, <2>4, <2>5, <2>6, <2>7, <2>8, <2>9, <2>e,
       <2>x, <2>11, <2>12, <2>13, <2>14, <2>15, <2>16
    DEF WorkerNext, WorkerStep, WorkerEvent
<1>c. ASSUME NEW r \in Run, ClockNext(r) \/ ControlNext(r) PROVE TablesTypeOK'
  <2>1. CASE CancelRead(r) \/ CancelOvertaken(r) \/ ApproveRead(r)
    BY <2>1
    DEF CancelRead, CancelOvertaken, ApproveRead, tables, runRow, attempts, jobs
  <2>2. CASE LeaseExpires(r)
    BY <2>2 DEF LeaseExpires, attempts, jobs
  <2>3. CASE CancelWaitingEdge(r)
    <3>1. CancelOpen(step[r]) \in [Step -> StepStatus]
      BY DEF CancelOpen, StepStatus, StepEnd
    <3>2. ToCancelling(r, {"WAITING_EDGE", "PREPARING", "RUNNING"}) \in RunStatus
      BY DEF ToCancelling, RunStatus
    <3> QED
      BY <2>3, <3>1, <3>2, AggregateStatus
      DEF CancelWaitingEdge, AppendEvent, attempts, jobs
  <2>4. CASE CancelRunning(r)
    BY <2>4
    DEF CancelRunning, ToCancelling, AppendEvent, attempts, jobs, RunStatus
  <2>5. CASE CancelApproval(r)
    BY <2>5
    DEF CancelApproval, ApprovalStatus, ToCancelling, AppendEvent,
        attempts, jobs, RunStatus
  <2>6. CASE CancelImmediate(r)
    BY <2>6
    DEF CancelImmediate, ApprovalStatus, ToCancelling, AppendEvent,
        CancelOpen, jobs, RunStatus, Terminal, Step, StepStatus, StepEnd,
        OpenStep
  <2>7. CASE CancelMarkJobs(r)
    BY <2>7 DEF CancelMarkJobs, runRow, attempts
  <2>8. ASSUME NEW choice, ApproveWrite(r, choice)
       PROVE  TablesTypeOK'
    BY <2>8
    DEF ApproveWrite, ChosenStatus, AppendEvent, attempts, jobs, RunStatus,
        Terminal
  <2>9. ASSUME NEW s \in EdgeStep, NEW k \in Report, IngestEdgeEvent(r, s, k)
       PROVE  TablesTypeOK'
    <3> DEFINE rows == [step[r] EXCEPT ![s] = StepAfterReport(@, k)]
    <3>1. rows \in [Step -> StepStatus]
      BY DEF Step, StepAfterReport, Report, StepStatus, StepEnd, OpenStep
    <3>2. AggregateRunTerminal(status[r], rows) \in RunStatus
      BY AggregateStatus
    <3>3. reported' \in [Run -> SUBSET (EdgeStep \X Report)]
      BY <2>9 DEF IngestEdgeEvent
    <3> QED
      BY <2>9, <3>1, <3>2, <3>3
      DEF IngestEdgeEvent, AppendEvent, attempts, jobs
  <2> QED
    BY <1>c, <2>1, <2>2, <2>3, <2>4, <2>5, <2>6, <2>7, <2>8, <2>9
    DEF ClockNext, ControlNext, CancelStep
<1> QED BY <1>w, <1>c DEF Next

\* A worker that returns from _execute has well typed locals.
LEMMA ReturnType ==
    ASSUME WorkerTypeOK, NEW w \in Worker, Return(w), faults' \in 0 .. MaxFaults
    PROVE  WorkerTypeOK'
  BY DEF WorkerTypeOK, Return, Goto, Executing, InExecute, Handlers, NoAttempt

\* Every step leaves the workers' locals well typed.
LEMMA WorkerType == TypeOK /\ Next => WorkerTypeOK'
<1> SUFFICES ASSUME TypeOK, Next PROVE WorkerTypeOK'
  OBVIOUS
<1> USE DEF TypeOK, WorkerTypeOK, Executing, InExecute, Handlers, Goto, Return,
            Rollback, Fault, NoAttempt, locals, workerVars
<1>w. ASSUME NEW w \in Worker, WorkerNext(w) PROVE WorkerTypeOK'
  <2>1. CASE \/ RecoverStaleRuns(w) \/ RecoveryRefused(w) \/ NothingToClaim(w)
    BY <2>1 DEF RecoverStaleRuns, RecoveryRefused, NothingToClaim
  <2>2. ASSUME NEW r \in Run, ClaimOne(w, r)
       PROVE  WorkerTypeOK'
    BY <2>2 DEF ClaimOne, NextAttempt, Plan, Step, TablesTypeOK
  <2>3. CASE StartRun(w) \/ PersistPlan(w) \/ MarkCentralRunning(w)
    BY <2>3 DEF StartRun, PersistPlan, MarkCentralRunning
  <2>4. CASE \/ AskApproval(w)
           \/ \E class \in {"plain", "interrupted"} : Trace(w, class)
    BY <2>4 DEF AskApproval, Trace
  <2>5. CASE EngineCompletesHybrid(w)
    BY <2>5 DEF EngineCompletesHybrid, AfterEngine
  <2>6. ASSUME NEW k \in StepEnd, pc[w] = "engine", CentralEnds(w, k),
              faults' \in 0 .. MaxFaults
       PROVE  WorkerTypeOK'
    <3>1. CASE wrun[w] \in HybridRun
      BY <2>6, <3>1 DEF CentralEnds, AfterEngine
    <3>2. CASE wrun[w] \notin HybridRun
      <4>1. Return(w)
        BY <2>6, <3>2 DEF CentralEnds, AfterEngine
      <4> HIDE DEF WorkerTypeOK, Return
      <4>2. WorkerTypeOK
        BY DEF WorkerTypeOK
      <4> QED BY <2>6, <4>1, <4>2, ReturnType
    <3> QED BY <3>1, <3>2
  <2>e. CASE EngineCompletes(w) \/ EngineFails(w)
    BY <2>e, <2>6 DEF EngineCompletes, EngineFails, StepEnd
  <2>x. CASE EngineCancelled(w)
    <3>1. faults' \in 0 .. MaxFaults
      BY <2>x, WorkerAssumption DEF EngineCancelled
    <3> QED BY <2>x, <2>6, <3>1 DEF EngineCancelled, StepEnd
  <2>7. CASE DispatchCheck(w) \/ MarkDispatched(w)
    BY <2>7 DEF DispatchCheck, MarkDispatched, Posted
  <2>8. ASSUME NEW s \in EdgeStep, PostJob(w, s) \/ PostFails(w, s)
       PROVE  WorkerTypeOK'
    BY <2>8, WorkerAssumption DEF PostJob, PostFails
  <2>9. CASE RetractJob(w) \/ RetractFails(w) \/ WriteRefused(w)
    BY <2>9, WorkerAssumption
    DEF RetractJob, RetractFails, WriteRefused, Refused
  <2>10. CASE \/ CommitDispatch(w) \/ HandleError(w) \/ HandleDenied(w)
           \/ HandleCancelled(w)
    BY <2>10, ReturnType
    DEF CommitDispatch, HandleError, HandleDenied, HandleCancelled
  <2>11. CASE RenewLease(w) \/ RenewFenced(w) \/ CancelCheck(w)
    BY <2>11 DEF RenewLease, RenewFenced, CancelCheck
  <2>12. CASE DenyContext(w) \/ Crash(w)
    BY <2>12, WorkerAssumption, ReturnType DEF DenyContext, Crash
  <2>13. CASE Shutdown(w) \/ WorkerStalls(w)
    BY <2>13, WorkerAssumption DEF Shutdown, WorkerStalls
  <2> QED
    BY <1>w, <2>1, <2>2, <2>3, <2>4, <2>5, <2>e, <2>x, <2>7, <2>8, <2>9,
       <2>10, <2>11, <2>12, <2>13
    DEF WorkerNext, WorkerStep, WorkerEvent
<1>c. ASSUME NEW r \in Run, ClockNext(r) \/ ControlNext(r) PROVE WorkerTypeOK'
  <2>1. CASE \/ CancelRead(r) \/ LeaseExpires(r) \/ CancelRunning(r)
           \/ CancelApproval(r) \/ CancelOvertaken(r) \/ CancelMarkJobs(r)
           \/ ApproveRead(r)
    BY <2>1
    DEF CancelRead, LeaseExpires, CancelRunning, CancelApproval,
        CancelOvertaken, CancelMarkJobs, ApproveRead
  <2>2. ASSUME NEW choice, ApproveWrite(r, choice)
       PROVE  WorkerTypeOK'
    BY <2>2 DEF ApproveWrite
  <2>3. ASSUME NEW S \in SUBSET EdgeStep, AbortHolders(r, S),
              faults' \in 0 .. MaxFaults
       PROVE  WorkerTypeOK'
    BY <2>3 DEF AbortHolders, Holders
  <2>4. CASE CancelWaitingEdge(r) \/ CancelImmediate(r)
    BY <2>3, <2>4 DEF CancelWaitingEdge, CancelImmediate
  <2>5. ASSUME NEW s \in EdgeStep, NEW k \in Report, IngestEdgeEvent(r, s, k)
       PROVE  WorkerTypeOK'
    <3>1. faults' \in 0 .. MaxFaults
      BY <2>5, WorkerAssumption DEF IngestEdgeEvent, Fault
    <3>2. AbortHolders(r, {s})
      BY <2>5 DEF IngestEdgeEvent
    <3> QED BY <2>3, <3>1, <3>2
  <2> QED
    BY <1>c, <2>1, <2>2, <2>4, <2>5
    DEF ClockNext, ControlNext, CancelStep
<1> QED BY <1>w, <1>c DEF Next

\* Every step leaves the locals of the cancel and approve handlers well typed.
LEMMA ControlType == TypeOK /\ Next => ControlTypeOK'
<1> SUFFICES ASSUME TypeOK, Next PROVE ControlTypeOK'
  OBVIOUS
<1> USE DEF TypeOK, ControlTypeOK
<1>1. CASE UNCHANGED requestVars
  BY <1>1 DEF requestVars, cancelVars
<1>2. ASSUME NEW r \in Run, CancelRead(r) PROVE ControlTypeOK'
  <2>1. /\ cancelPc' \in [Run -> {"idle", "apply", "settle", "mark"}]
        /\ approving' = approving
    BY <1>2 DEF CancelRead
  <2>2. cancelSeen' \in [Run -> [status : RunStatus \cup {"none"}, attempt : Nat]]
    <3>1. [status |-> status[r], attempt |-> attempt[r]] \in
              [status : RunStatus \cup {"none"}, attempt : Nat]
      BY DEF TablesTypeOK
    <3> QED BY <1>2, <3>1 DEF CancelRead
  <2>3. cancels' \in [Run -> 0 .. MaxCancels]
    BY <1>2, RequestAssumption DEF CancelRead
  <2> QED BY <2>1, <2>2, <2>3
<1>3. ASSUME NEW r \in Run, Applied(r) \/ CancelMarkJobs(r) PROVE ControlTypeOK'
  <2>1. CASE Applied(r)
    BY <2>1 DEF Applied, NothingSeen, NoAttempt
  <2>2. CASE CancelMarkJobs(r)
    BY <2>2 DEF CancelMarkJobs
  <2> QED BY <1>3, <2>1, <2>2
<1>4. ASSUME NEW r \in Run, CancelStep(r) PROVE ControlTypeOK'
  <2>1. CASE CancelOvertaken(r)
    BY <2>1 DEF CancelOvertaken
  <2>2. CASE ~CancelOvertaken(r)
    <3>1. Applied(r) \/ CancelMarkJobs(r)
      BY <1>4, <2>2
      DEF CancelStep, CancelWaitingEdge, CancelRunning, CancelApproval,
          CancelImmediate
    <3> QED BY <3>1, <1>3
  <2> QED BY <2>1, <2>2
<1>5. ASSUME NEW r \in Run, NEW choice, ApproveRead(r) \/ ApproveWrite(r, choice)
      PROVE  ControlTypeOK'
  <2>1. approving' \in [Run -> 0 .. MaxApprovals]
    BY <1>5, RequestAssumption DEF ApproveRead, ApproveWrite
  <2> QED BY <1>5, <2>1 DEF ApproveRead, ApproveWrite, cancelVars
<1>6. ASSUME NEW r \in Run, NEW s, NEW k, IngestEdgeEvent(r, s, k)
      PROVE  UNCHANGED requestVars
  BY <1>6 DEF IngestEdgeEvent
<1>7. ASSUME NEW r \in Run, ControlNext(r) PROVE ControlTypeOK'
  BY <1>7, <1>1, <1>2, <1>4, <1>5, <1>6 DEF ControlNext
<1>8. ASSUME NEW r \in Run, ClockNext(r) PROVE UNCHANGED requestVars
  BY <1>8 DEF ClockNext
<1>9. ASSUME NEW w \in Worker, WorkerNext(w) PROVE UNCHANGED requestVars
  BY <1>9 DEF WorkerNext
<1> QED BY <1>1, <1>7, <1>8, <1>9 DEF Next

\* The rows create_run inserts and idle workers are well typed.
LEMMA InitTypeOK == Init => TypeOK
  BY WorkerAssumption, RequestAssumption
  DEF Init, TablesInit, WorkerInit, ControlInit, TypeOK, TablesTypeOK,
      WorkerTypeOK, ControlTypeOK, Executing, InExecute, Handlers, RunStatus,
      Terminal, StepStatus, OpenStep, StepEnd, NothingSeen, NoAttempt

\* No transaction, fault or stutter breaks the types.
LEMMA NextTypeOK == TypeOK /\ [Next]_vars => TypeOK'
<1>1. ASSUME TypeOK, Next PROVE TypeOK'
  BY <1>1, TablesType, WorkerType, ControlType DEF TypeOK
<1>2. ASSUME TypeOK, UNCHANGED vars PROVE TypeOK'
  BY <1>2
  DEF vars, tables, runRow, attempts, jobs, controlVars, workerVars,
      locals, requestVars, cancelVars, TypeOK, TablesTypeOK, WorkerTypeOK,
      ControlTypeOK
<1> QED BY <1>1, <1>2

(***************************************************************************)
(* Every column and every local of the code stays within its type; in      *)
(* particular no run gets a status that the code does not name, and every  *)
(* worker inside _execute has a run.                                       *)
(***************************************************************************)
THEOREM TypeCorrect == Spec => []TypeOK
<1> QED BY InitTypeOK, NextTypeOK, PTL DEF Spec
=============================================================================
