--------------------------- MODULE SkillRunCancel ---------------------------
(***************************************************************************)
(* A cancellation reaches every edge job of its run, for every number of   *)
(* workers and edge steps and however the worker's dispatch loop and the   *)
(* cancel request interleave.  What CancelReachesJobs says of a run at     *)
(* rest is not inductive; JobsTold also says who is going to tell a job    *)
(* that has not been told yet.                                             *)
(***************************************************************************)
EXTENDS SkillRunSafety

\* The steps set to DISPATCHED are no longer to be posted.
HeldApart ==
    \A w \in Worker :
        /\ held[w] \cap todo[w] = {}
        /\ pc[w] \in {"idle", "polled"} => held[w] = {}

\* The worker that has just posted the job looks at the run before it goes on.
AboutToLook(r, s) ==
    \E w \in Worker : wrun[w] = r /\ pc[w] = "enqueued" /\ s \in Posted(w)

JobTold(r, s) ==
    s \in cancelRequested[r] \/ JobEnded(r, s) \/ AboutToLook(r, s)

\* While the handler is at "mark", it is the one that tells the jobs.
JobsTold(r) ==
    status[r] \in Cancelling /\ cancelPc[r] # "mark" /\ faults = 0 =>
        \A s \in EdgeStep : jobAttempt[r][s] # NoAttempt => JobTold(r, s)

TInv == TypeOK /\ HeldApart /\ \A r \in Run : JobsTold(r)

-----------------------------------------------------------------------------
\* A worker's step leaves the dispatch loops of the others alone.
LEMMA OnlyItsLoop ==
    ASSUME TypeOK, NEW v \in Worker, NEW w \in Worker, v # w, WorkerNext(v)
    PROVE  UNCHANGED <<pc[w], wrun[w], todo[w], held[w]>>
<1>1. UNCHANGED <<pc[w], wrun[w]>>
  BY OnlyItsWorker
<1>2. UNCHANGED <<todo[w], held[w]>>
  BY DEF TypeOK, WorkerTypeOK, WorkerNext, WorkerStep, WorkerEvent,
      RecoverStaleRuns, RecoveryRefused, NothingToClaim, RenewLease,
      RenewFenced, CancelCheck, StartRun, DenyContext, PersistPlan,
      MarkCentralRunning, Trace, AskApproval, AfterEngine, CentralEnds,
      EngineCompletes, EngineFails, EngineCancelled, EngineCompletesHybrid,
      DispatchCheck, PostJob, PostFails, MarkDispatched, RetractJob,
      RetractFails, CommitDispatch, WriteRefused, HandleError, HandleDenied,
      HandleCancelled, Crash, Shutdown, WorkerStalls, workerVars, locals,
      Return, Rollback, ClaimOne
<1> QED BY <1>1, <1>2

\* What the handlers do to the workers: nothing, or an abort at "queued".
LEMMA HandlersAbort ==
    ASSUME NEW r \in Run, ClockNext(r) \/ ControlNext(r)
    PROVE  UNCHANGED workerVars \/ \E S : AbortHolders(r, S)
  BY DEF ClockNext, LeaseExpires, ControlNext, CancelRead, CancelStep,
      CancelWaitingEdge, CancelRunning, CancelApproval, CancelOvertaken,
      CancelImmediate, CancelMarkJobs, ApproveRead, ApproveWrite,
      IngestEdgeEvent, controlVars, workerVars

\* The dispatch loop keeps posted and unposted steps apart.
LEMMA HeldApartKept == TypeOK /\ HeldApart /\ [Next]_vars => HeldApart'
<1> SUFFICES ASSUME TypeOK, HeldApart, [Next]_vars, NEW w \in Worker
             PROVE  /\ held'[w] \cap todo'[w] = {}
                    /\ pc'[w] \in {"idle", "polled"} => held'[w] = {}
  BY DEF HeldApart
<1> USE DEF HeldApart, TypeOK, WorkerTypeOK
<1>1. CASE UNCHANGED <<pc[w], todo[w], held[w]>>
  BY <1>1
<1>2. ASSUME NEW v \in Worker, v # w, WorkerNext(v)
      PROVE  UNCHANGED <<pc[w], todo[w], held[w]>>
  BY <1>2, OnlyItsLoop
<1>3. CASE WorkerNext(w)
  <2>1. CASE held'[w] = {}
    BY <2>1
  <2>2. CASE /\ held'[w] = held[w] /\ todo'[w] \subseteq todo[w]
             /\ pc'[w] \in {"idle", "polled"} => pc[w] \in {"idle", "polled"}
    BY <2>2
  <2>3. ASSUME NEW r \in Run, ClaimOne(w, r) PROVE held'[w] = {}
    BY <2>3 DEF ClaimOne
  <2>4. CASE MarkDispatched(w)
    BY <2>4 DEF MarkDispatched, Posted, Goto
  <2> QED
    BY <1>3, <2>1, <2>2, <2>3, <2>4
    DEF WorkerNext, WorkerStep, WorkerEvent, RecoverStaleRuns, RecoveryRefused,
        NothingToClaim, RenewLease, RenewFenced, CancelCheck, StartRun,
        DenyContext, PersistPlan, MarkCentralRunning, Trace, AskApproval,
        AfterEngine, CentralEnds, EngineCompletes, EngineFails,
        EngineCancelled, EngineCompletesHybrid, DispatchCheck, PostJob,
        PostFails, RetractJob, RetractFails, CommitDispatch, WriteRefused,
        HandleError, HandleDenied, HandleCancelled, Crash, Shutdown,
        WorkerStalls, workerVars, locals, Goto, Return, Rollback
<1>4. ASSUME NEW r \in Run, ClockNext(r) \/ ControlNext(r)
      PROVE  \/ UNCHANGED <<pc[w], todo[w], held[w]>>
             \/ held'[w] = {}
  <2>1. CASE UNCHANGED workerVars
    BY <2>1 DEF workerVars, locals
  <2>2. ASSUME NEW S, AbortHolders(r, S)
        PROVE  \/ UNCHANGED <<pc[w], todo[w], held[w]>>
               \/ held'[w] = {}
    BY <2>2 DEF AbortHolders
  <2> QED BY <1>4, <2>1, <2>2, HandlersAbort
<1>5. CASE UNCHANGED vars
  BY <1>1, <1>5 DEF vars, controlVars, workerVars, locals
<1> QED BY <1>1, <1>2, <1>3, <1>4, <1>5 DEF Next

-----------------------------------------------------------------------------
\* No worker's step begins a cancellation or touches a cancel request.
LEMMA WorkersDoNotCancel ==
    ASSUME TypeOK, NEW w \in Worker, WorkerNext(w), NEW r \in Run,
           status'[r] \in Cancelling
    PROVE  status[r] \in Cancelling /\ UNCHANGED cancelPc
<1> USE DEF TypeOK, TablesTypeOK, WorkerTypeOK
<1>1. UNCHANGED cancelPc
  BY DEF WorkerNext, requestVars, cancelVars
<1>2. ASSUME NEW st, NEW rows, AggregateRunTerminal(st, rows) \in Cancelling
      PROVE  st \in Cancelling
  BY <1>2 DEF AggregateRunTerminal, Cancelling, Terminal
<1>3. CASE UNCHANGED status
  BY <1>1, <1>3
<1>4. CASE RecoverStaleRuns(w)
  BY <1>1, <1>2, <1>4
  DEF RecoverStaleRuns, NextStatusAfterStaleLease, Cancelling
<1>5. ASSUME NEW k, pc[w] = "engine", CentralEnds(w, k)
      PROVE  status[r] \in Cancelling
  BY <1>2, <1>5 DEF CentralEnds, Executing, InExecute
<1>6. CASE HandleCancelled(w)
  <2>1. CASE CanAppend(wrun[w], watt[w])
    <3> DEFINE q    == wrun[w]
               rows == [step[q] EXCEPT !["central"] = "CANCELLED"]
    <3>1. /\ q \in Run
          /\ status' = [status EXCEPT ![q] = AggregateRunTerminal(@, rows)]
      BY <1>6, <2>1 DEF HandleCancelled, Executing, Handlers
    <3>2. status'[r] \in {status[r], AggregateRunTerminal(status[r], rows)}
      BY <3>1
    <3> HIDE DEF rows
    <3> QED BY <1>1, <1>2, <3>2
  <2>2. CASE ~CanAppend(wrun[w], watt[w])
    BY <1>1, <1>6, <2>2 DEF HandleCancelled
  <2> QED BY <2>1, <2>2
<1>7. CASE \/ \E i \in Run : ClaimOne(w, i)
           \/ StartRun(w) \/ AskApproval(w) \/ EngineCompletesHybrid(w)
           \/ HandleError(w)
  <2>1. ASSUME NEW i, NEW st, st \notin Cancelling,
               status' = [status EXCEPT ![i] = st]
        PROVE  status[r] \in Cancelling
    BY <2>1
  <2>2. \A st \in {"PREPARING", "RUNNING", "WAITING_APPROVAL",
                   "WAITING_EDGE", "FAILED"} : st \notin Cancelling
    BY DEF Cancelling
  <2> QED
    BY <1>1, <1>3, <1>7, <2>1, <2>2
    DEF ClaimOne, StartRun, AskApproval, EngineCompletesHybrid, HandleError
<1> QED
  BY <1>1, <1>3, <1>4, <1>5, <1>6, <1>7
  DEF WorkerNext, WorkerStep, WorkerEvent, RecoveryRefused, NothingToClaim,
      RenewLease, RenewFenced, CancelCheck, DenyContext, PersistPlan,
      MarkCentralRunning, Trace, EngineCompletes, EngineFails,
      EngineCancelled, DispatchCheck, PostJob, PostFails, MarkDispatched,
      RetractJob, RetractFails, CommitDispatch, WriteRefused, HandleDenied,
      Crash, Shutdown, WorkerStalls, tables, runRow

\* A run comes to be cancelled only by a handler that tells its jobs next.
LEMMA OnlyHandlersCancel ==
    ASSUME TypeOK, [Next]_vars, NEW r \in Run,
           status'[r] \in Cancelling, cancelPc'[r] # "mark"
    PROVE  \/ CancelMarkJobs(r)
           \/ status[r] \in Cancelling /\ cancelPc[r] # "mark"
<1> USE DEF TypeOK, TablesTypeOK, ControlTypeOK
<1>1. CASE UNCHANGED vars
  BY <1>1 DEF vars, tables, runRow, controlVars, requestVars, cancelVars
<1>2. ASSUME NEW w \in Worker, WorkerNext(w)
      PROVE  status[r] \in Cancelling /\ cancelPc[r] # "mark"
  BY <1>2, WorkersDoNotCancel
<1>3. ASSUME NEW q \in Run, ClockNext(q) \/ ControlNext(q), ~CancelMarkJobs(r)
      PROVE  status[r] \in Cancelling /\ cancelPc[r] # "mark"
  <2>1. CASE CancelMarkJobs(q)
    BY <1>3, <2>1 DEF CancelMarkJobs, runRow
  <2>2. CASE \/ CancelWaitingEdge(q) \/ CancelRunning(q)
             \/ CancelApproval(q) \/ CancelImmediate(q)
    <3>1. q # r
      BY <2>2
      DEF CancelWaitingEdge, CancelRunning, CancelApproval, CancelImmediate,
          Applied
    <3> QED
      BY <2>2, <3>1
      DEF CancelWaitingEdge, CancelRunning, CancelApproval, CancelImmediate,
          Applied
  <2>3. CASE CancelRead(q) \/ CancelOvertaken(q) \/ ClockNext(q)
    BY <2>3
    DEF CancelRead, CancelOvertaken, ClockNext, LeaseExpires, tables, runRow,
        requestVars, cancelVars
  <2>4. ASSUME NEW choice, ApproveRead(q) \/ ApproveWrite(q, choice)
        PROVE  status[r] \in Cancelling /\ cancelPc[r] # "mark"
    BY <2>4
    DEF ApproveRead, ApproveWrite, ChosenStatus, tables, runRow, cancelVars,
        Cancelling
  <2>5. ASSUME NEW s \in EdgeStep, NEW k \in Report, IngestEdgeEvent(q, s, k)
        PROVE  status[r] \in Cancelling /\ cancelPc[r] # "mark"
    <3>1. ASSUME NEW st, NEW rows, AggregateRunTerminal(st, rows) \in Cancelling
          PROVE  st \in Cancelling
      BY <3>1 DEF AggregateRunTerminal, Cancelling, Terminal
    <3> QED BY <2>5, <3>1 DEF IngestEdgeEvent, requestVars, cancelVars
  <2> QED
    BY <1>3, <2>1, <2>2, <2>3, <2>4, <2>5 DEF ControlNext, CancelStep
<1> QED BY <1>1, <1>2, <1>3 DEF Next

\* What has been told, reported or gone wrong stays so.
LEMMA ToldStays ==
    ASSUME TypeOK, [Next]_vars, NEW r \in Run
    PROVE  /\ cancelRequested[r] \subseteq cancelRequested'[r]
           /\ reported[r] \subseteq reported'[r]
           /\ faults' = 0 => faults = 0
<1> USE DEF TypeOK, TablesTypeOK, WorkerTypeOK
<1>f. ASSUME NEW kind, Fault(kind) PROVE faults' # 0
  BY <1>f, WorkerAssumption DEF Fault
<1>1. CASE UNCHANGED vars
  BY <1>1 DEF vars, tables, jobs, controlVars, workerVars
<1>2. ASSUME NEW w \in Worker, WorkerNext(w)
      PROVE  /\ cancelRequested[r] \subseteq cancelRequested'[r]
             /\ reported[r] \subseteq reported'[r]
             /\ faults' = 0 => faults = 0
  <2>r. ASSUME RetractJob(w)
        PROVE  cancelRequested[r] \subseteq cancelRequested'[r]
    BY <2>r DEF RetractJob
  <2> USE DEF WorkerNext, WorkerStep, WorkerEvent, RecoverStaleRuns,
        RecoveryRefused, NothingToClaim, RenewLease, RenewFenced, CancelCheck,
        StartRun, DenyContext, PersistPlan, MarkCentralRunning, Trace,
        AskApproval, CentralEnds, EngineCompletes, EngineFails,
        EngineCancelled, EngineCompletesHybrid, DispatchCheck, PostJob,
        PostFails, MarkDispatched, CommitDispatch, WriteRefused, HandleError,
        HandleDenied, HandleCancelled, Crash, Shutdown, WorkerStalls, ClaimOne,
        RetractFails
  <2>1. reported' = reported
    BY <1>2 DEF RetractJob, tables
  <2>2. faults' = faults \/ \E kind : Fault(kind)
    BY <1>2 DEF RetractJob, workerVars
  <2>3. cancelRequested' = cancelRequested \/ RetractJob(w)
    BY <1>2 DEF tables, jobs
  <2> QED BY <1>f, <2>r, <2>1, <2>2, <2>3
<1>3. ASSUME NEW q \in Run, ClockNext(q) \/ ControlNext(q)
      PROVE  /\ cancelRequested[r] \subseteq cancelRequested'[r]
             /\ reported[r] \subseteq reported'[r]
             /\ faults' = 0 => faults = 0
  <2> USE DEF ClockNext, LeaseExpires, ControlNext, CancelRead, CancelStep,
        CancelWaitingEdge, CancelRunning, CancelApproval, CancelOvertaken,
        CancelImmediate, ApproveRead, ApproveWrite
  <2>1. faults' = faults \/ \E kind : Fault(kind)
    BY <1>3 DEF CancelMarkJobs, IngestEdgeEvent, controlVars, workerVars
  <2>2. CASE UNCHANGED <<cancelRequested, reported>>
    BY <1>f, <2>1, <2>2
  <2>3. CASE CancelMarkJobs(q)
    BY <1>f, <2>1, <2>3 DEF CancelMarkJobs
  <2>4. ASSUME NEW s \in EdgeStep, NEW k \in Report, IngestEdgeEvent(q, s, k)
        PROVE  UNCHANGED cancelRequested /\ reported[r] \subseteq reported'[r]
    BY <2>4 DEF IngestEdgeEvent, jobs
  <2> QED
    BY <1>3, <1>f, <2>1, <2>2, <2>3, <2>4 DEF tables, jobs
<1> QED BY <1>1, <1>2, <1>3 DEF Next

\* The worker that is about to look at a cancelled run tells the job.
LEMMA LookTells ==
    ASSUME TypeOK, [Next]_vars, NEW r \in Run, NEW s \in EdgeStep,
           AboutToLook(r, s), status[r] \in Cancelling, faults' = 0
    PROVE  JobTold(r, s)'
<1> USE DEF TypeOK, TablesTypeOK, WorkerTypeOK
<1>w. PICK w \in Worker : wrun[w] = r /\ pc[w] = "enqueued" /\ s \in Posted(w)
  BY DEF AboutToLook
<1>1. CASE UNCHANGED <<pc[w], wrun[w], todo[w], held[w]>>
  BY <1>1, <1>w DEF JobTold, AboutToLook, Posted
<1>2. ASSUME NEW v \in Worker, v # w, WorkerNext(v)
      PROVE  UNCHANGED <<pc[w], wrun[w], todo[w], held[w]>>
  BY <1>2, OnlyItsLoop
<1>3. CASE WorkerNext(w)
  <2>1. CASE RetractJob(w)
    <3>1. s \in cancelRequested'[r] \/ JobEnded(r, s)
      BY <2>1, <1>w DEF RetractJob
    <3>2. reported' = reported
      BY <2>1 DEF RetractJob
    <3> QED BY <3>1, <3>2 DEF JobTold, JobEnded
  <2>2. CASE RetractFails(w) \/ Crash(w) \/ Shutdown(w) \/ WorkerStalls(w)
    BY <2>2 DEF RetractFails, Crash, Shutdown, WorkerStalls, Fault
  <2>3. CASE MarkDispatched(w)
    BY <2>3, <1>w DEF MarkDispatched
  <2> QED
    BY <1>3, <1>1, <1>w, <2>1, <2>2, <2>3
    DEF WorkerNext, WorkerStep, WorkerEvent, RecoverStaleRuns, RecoveryRefused,
        NothingToClaim, RenewLease, RenewFenced, CancelCheck, StartRun,
        DenyContext, PersistPlan, MarkCentralRunning, Trace, AskApproval,
        EngineCompletes, EngineFails, EngineCancelled, EngineCompletesHybrid,
        DispatchCheck, PostJob, PostFails, CommitDispatch, WriteRefused,
        Refused, HandleError, HandleDenied, HandleCancelled, ClaimOne,
        workerVars, locals
<1>4. ASSUME NEW q \in Run, ClockNext(q) \/ ControlNext(q)
      PROVE  UNCHANGED <<pc[w], wrun[w], todo[w], held[w]>>
  <2>1. CASE UNCHANGED workerVars
    BY <2>1 DEF workerVars, locals
  <2>2. ASSUME NEW S, AbortHolders(q, S)
        PROVE  UNCHANGED <<pc[w], wrun[w], todo[w], held[w]>>
    BY <2>2, <1>w DEF AbortHolders
  <2> QED BY <1>4, <2>1, <2>2, HandlersAbort
<1>5. CASE UNCHANGED vars
  BY <1>1, <1>5 DEF vars, controlVars, workerVars, locals
<1> QED BY <1>1, <1>2, <1>3, <1>4, <1>5 DEF Next

-----------------------------------------------------------------------------
\* Every job of a cancelled run is told, or somebody is about to tell it.
LEMMA JobsToldKept ==
    ASSUME TInv, [Next]_vars, NEW r \in Run
    PROVE  JobsTold(r)'
<1> SUFFICES ASSUME status'[r] \in Cancelling, cancelPc'[r] # "mark",
                    faults' = 0, NEW s \in EdgeStep,
                    jobAttempt'[r][s] # NoAttempt
             PROVE  JobTold(r, s)'
  BY DEF JobsTold
<1> USE DEF TInv, TypeOK, TablesTypeOK, WorkerTypeOK
<1>1. CASE CancelMarkJobs(r)
  <2>1. s \in cancelRequested'[r] \/ JobEnded(r, s)
    BY <1>1 DEF CancelMarkJobs
  <2>2. reported' = reported
    BY <1>1 DEF CancelMarkJobs
  <2> QED BY <2>1, <2>2 DEF JobTold, JobEnded
<1>2. CASE status[r] \in Cancelling /\ cancelPc[r] # "mark"
  <2>1. CASE jobAttempt[r][s] # NoAttempt
    <3>1. JobTold(r, s)
      BY <1>2, <2>1, ToldStays DEF JobsTold
    <3>2. CASE s \in cancelRequested[r] \/ JobEnded(r, s)
      BY <3>2, ToldStays DEF JobTold, JobEnded
    <3> QED BY <1>2, <3>1, <3>2, LookTells DEF JobTold
  <2>2. CASE jobAttempt[r][s] = NoAttempt
    <3>1. PICK w \in Worker, t \in EdgeStep : PostJob(w, t) \/ PostFails(w, t)
      BY <2>2, JobsChange
    <3>2. PostJob(w, t)
      BY <3>1 DEF PostFails, Fault
    <3>3. wrun[w] = r /\ t = s
      BY <2>2, <3>2 DEF PostJob, AddJob, Executing, InExecute
    <3>4. s \in Posted(w)'
      BY <3>2, <3>3 DEF PostJob, Posted, HeldApart
    <3> QED BY <3>2, <3>3, <3>4 DEF PostJob, Goto, JobTold, AboutToLook
  <2> QED BY <2>1, <2>2
<1> QED BY <1>1, <1>2, OnlyHandlersCancel

(***************************************************************************)
(* TInv is an invariant: between the read of a run and the end of its      *)
(* cancellation every job is told by the cancel handler or by the worker   *)
(* that has posted it.                                                     *)
(***************************************************************************)
THEOREM TellingInvariant == Spec => []TInv
<1>1. Init => TInv
  <2> SUFFICES ASSUME Init PROVE TInv
    OBVIOUS
  <2>1. HeldApart
    BY DEF Init, WorkerInit, HeldApart
  <2>2. \A r \in Run : JobsTold(r)
    BY DEF Init, TablesInit, JobsTold
  <2> QED BY <2>1, <2>2, InitTypeOK DEF TInv
<1>2. TInv /\ [Next]_vars => TInv'
  BY NextTypeOK, HeldApartKept, JobsToldKept DEF TInv
<1> QED BY <1>1, <1>2, PTL DEF Spec

(***************************************************************************)
(* When a cancellation has been carried out and no worker is between a     *)
(* post and its second look at the run, every edge job that is not over    *)
(* has been told, unless a process died or a request was lost.             *)
(***************************************************************************)
THEOREM CancellationReaches == Spec => []CancelReachesJobs
<1>1. TInv => CancelReachesJobs
  BY DEF TInv, CancelReachesJobs, JobsTold, JobTold, AboutToLook, Posting
<1> QED BY <1>1, TellingInvariant, PTL
=============================================================================
