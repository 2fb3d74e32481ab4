--------------------------- MODULE SkillRunSafety ---------------------------
(***************************************************************************)
(* The safety properties of SkillRun, for every number of runs, workers    *)
(* and edge steps, every environment and every number of faults and        *)
(* requests.  One lemma (RowSteps) sums up what any action can do to the   *)
(* row of a run; the invariant is inductive because of it, and the action  *)
(* properties and the refinement of RunLifecycle are read off it.          *)
(***************************************************************************)
EXTENDS SkillRunTypes

(***************************************************************************)
(* The inductive invariant.  RunRows relates the columns of a run's row    *)
(* and its attempt rows: a gated run may be QUEUED and keep the attempt it *)
(* had in its runtime.  ApproversKnow is what an approve request has read. *)
(* Numbering relates the attempts the workers hold, ClaimedFresh says that *)
(* an attempt has no runtime before it starts, StartedFirst and            *)
(* PostsWhenPast relate the place of a worker and the status of its run,   *)
(* PlannedFirst and PlanRows the plan of a run, its jobs and its central   *)
(* step, and SeenStatus what a cancel request has read and what the run's  *)
(* status can be by now.                                                   *)
(***************************************************************************)
RunRowOK(r) ==
    /\ attempt[r] \in {NoAttempt, generation[r]}
    /\ NoAttempt \notin liveAttempts[r]
    /\ liveAttempts[r] \ {attempt[r]} \subseteq LeftOpen(r)
    /\ boundAttempts[r] \subseteq 1 .. generation[r]
    /\ status[r] # "TIMED_OUT"
    /\ status[r] = "QUEUED" =>
           /\ tail[r] # "waiting"
           /\ \/ attempt[r] = NoAttempt
              \/ r \in GatedRun /\ attempt[r] \in boundAttempts[r]
    /\ status[r] \in ActiveRun => attempt[r] # NoAttempt /\ tail[r] # "waiting"
    /\ status[r] = "WAITING_APPROVAL" =>
           \/ attempt[r] = NoAttempt /\ r \in GatedRun
           \/ attempt[r] \in boundAttempts[r]

RunRows == \A r \in Run : RunRowOK(r)

ApproversKnow == \A r \in Run : approving[r] > 0 => r \in GatedRun

Numbering ==
    /\ \A w \in Worker : pc[w] \in Executing =>
           watt[w] \in 1 .. generation[wrun[w]]
    /\ \A v, w \in Worker :
           pc[v] \in Executing /\ pc[w] \in Executing
           /\ wrun[v] = wrun[w] /\ watt[v] = watt[w] => v = w

ClaimedFresh ==
    \A w \in Worker : pc[w] = "claimed" =>
        watt[w] \notin boundAttempts[wrun[w]]

\* Only a worker that has just claimed a run finds it PREPARING.
StartedFirst ==
    \A w \in Worker : Fenced(w) /\ pc[w] # "claimed" =>
        status[wrun[w]] # "PREPARING"

\* A worker here posts edge jobs, or will without looking at the status.
GoesOnPosting(w) ==
    \/ pc[w] \in {"posting", "enqueued", "queued"}
    \/ pc[w] = "dispatch" /\ ~stop[w]

\* The runtime of the worker's attempt has cancelled its run.
RuntimeCancelled(w) == watt[w] \in cancelledBy[wrun[w]]

PostsWhenPast ==
    \A w \in Worker : GoesOnPosting(w) =>
        status[wrun[w]] \in Past \/ RuntimeCancelled(w)

\* Where a worker is only after its run has had a plan.
HasPlan == {"planned", "engine", "dispatch", "posting", "enqueued", "queued",
            "cancelled"}

PlannedFirst ==
    \A w \in Worker :
        /\ pc[w] \in HasPlan => step[wrun[w]]["central"] # "ABSENT"
        /\ pc[w] \in {"dispatch", "posting", "enqueued", "queued"} =>
               wrun[w] \in HybridRun

JobHasPlan(r) ==
    \A s \in EdgeStep : jobAttempt[r][s] # NoAttempt =>
        r \in HybridRun /\ step[r]["central"] # "ABSENT"

CentralOnce(r) ==
    r \in HybridRun /\ step[r]["central"] = "SUCCEEDED" => status[r] \in Past

PlanRows == \A r \in Run : JobHasPlan(r) /\ CentralOnce(r)

\* A status in which a run is not executed, though it may have a runtime.
Paused == {"QUEUED", "WAITING_APPROVAL"}

SeenOK(r) ==
    /\ cancelSeen[r].status \in {"WAITING_EDGE", "CANCELLING"} =>
           status[r] \in Past
    /\ cancelSeen[r].status \in Paused /\ cancelSeen[r].attempt # NoAttempt =>
           \/ status[r] \in Past
           \/ status[r] \in Paused /\ attempt[r] = cancelSeen[r].attempt
           \/ r \in GatedRun /\ generation[r] > cancelSeen[r].attempt

SeenStatus == \A r \in Run : SeenOK(r)

IInv ==
    /\ TypeOK
    /\ RunRows
    /\ ApproversKnow
    /\ Numbering
    /\ ClaimedFresh
    /\ StartedFirst
    /\ PostsWhenPast
    /\ PlannedFirst
    /\ PlanRows
    /\ JobsOnlyAfterCentral
    /\ SeenStatus

-----------------------------------------------------------------------------
(***************************************************************************)
(* What a step can do to the row of run r.                                 *)
(***************************************************************************)
Columns(r) ==
    /\ attempt'[r] = attempt[r]
    /\ generation'[r] = generation[r]
    /\ liveAttempts'[r] \subseteq liveAttempts[r]
    /\ tail'[r] = tail[r] \/ tail'[r] # "waiting"
    /\ boundAttempts'[r] = boundAttempts[r]

Moved(r, from, to) ==
    Columns(r) /\ status[r] \in from /\ status'[r] \in to

Kept(r) == Columns(r) /\ status'[r] = status[r]

Claimed(r) ==
    /\ status[r] = "QUEUED" /\ status'[r] = "PREPARING"
    /\ generation'[r] = generation[r] + 1
    /\ attempt'[r] = generation[r] + 1
    /\ liveAttempts'[r] = liveAttempts[r] \cup {generation[r] + 1}
    /\ tail'[r] = tail[r]
    /\ boundAttempts'[r] = boundAttempts[r]

Requeued(r) ==
    /\ status[r] \in ActiveRun /\ status'[r] = "QUEUED"
    /\ generation'[r] = generation[r]
    /\ attempt'[r] = NoAttempt
    /\ liveAttempts'[r] = liveAttempts[r] \ {attempt[r]}
    /\ tail'[r] = "plain"
    /\ boundAttempts'[r] = boundAttempts[r]

Asked(r) ==
    /\ status[r] \in AskFrom /\ status'[r] = "WAITING_APPROVAL"
    /\ attempt[r] # NoAttempt /\ attempt'[r] = attempt[r]
    /\ generation'[r] = generation[r]
    /\ liveAttempts'[r] = liveAttempts[r]
    /\ boundAttempts'[r] = boundAttempts[r] \cup {attempt[r]}

Approved(r) ==
    /\ Moved(r, {"WAITING_APPROVAL"}, {"QUEUED"})
    /\ r \in GatedRun
    /\ tail'[r] # "waiting"

Waits == {"WAITING_APPROVAL", "WAITING_EDGE"}

\* The run is queued once more, and an earlier execution of it may end it.
EndedAgain(r) ==
    /\ status[r] = "QUEUED" /\ Columns(r)
    /\ generation[r] > 0
    /\ \/ r \in GatedRun /\ status'[r] \in {"COMPLETED", "FAILED"}
       \/ r \in HybridRun /\ status'[r] = "FAILED"

Ended(r) ==
    \/ Moved(r, {"RUNNING"} \cup Waits, {"COMPLETED"})
    \/ Moved(r, ActiveRun \cup Waits \cup {"CANCELLING"}, {"FAILED"})
    \/ Moved(r, Waits \cup {"QUEUED", "CANCELLING"}, {"CANCELLED"})
    \/ r \in GatedRun /\ Moved(r, ActiveRun, {"CANCELLED"})
    \/ EndedAgain(r)

RowStep(r) ==
    \/ Kept(r)
    \/ Claimed(r)
    \/ Requeued(r)
    \/ Asked(r)
    \/ Approved(r)
    \/ Moved(r, {"PREPARING"}, {"RUNNING"})
    \/ Moved(r, {"RUNNING"}, {"WAITING_EDGE"})
    \/ Moved(r, ActiveRun \cup Waits, {"CANCELLING"})
    \/ Ended(r)

\* The rows that no statement of a step addresses.
LEMMA Unaddressed ==
    ASSUME TypeOK, NEW q \in Run,
           UNCHANGED <<status[q], attempt[q], generation[q], tail[q],
                       liveAttempts[q], boundAttempts[q]>>
    PROVE  RowStep(q)
  BY DEF RowStep, Kept, Columns

\* aggregate_run_terminal ends a run it can end, or keeps it.
LEMMA AggregateRow ==
    ASSUME TypeOK, NEW r \in Run, NEW rows, Columns(r),
           status[r] \notin {"PREPARING", "TIMED_OUT"},
           status[r] = "QUEUED" => r \in GatedRun /\ generation[r] > 0,
           status'[r] = AggregateRunTerminal(status[r], rows)
    PROVE  RowStep(r)
<1> DEFINE st == status[r]
<1>1. st \in RunStatus
  BY DEF TypeOK, TablesTypeOK
<1>2. /\ status'[r] \in {st, "CANCELLED", "FAILED", "COMPLETED"}
      /\ st \in Terminal => status'[r] = st
      /\ st = "CANCELLING" => status'[r] \in {"CANCELLING", "CANCELLED"}
      /\ st # "CANCELLING" /\ st # "CANCELLED" => status'[r] # "CANCELLED"
  BY <1>1, AggregateStatus
<1>3. st \in Terminal \cup Waits \cup {"RUNNING", "CANCELLING", "QUEUED"}
  BY <1>1 DEF RunStatus, Waits
<1>4. CASE st = "QUEUED"
  BY <1>2, <1>4 DEF RowStep, Kept, Ended, EndedAgain
<1>5. CASE st # "QUEUED"
  BY <1>2, <1>3, <1>5
  DEF RowStep, Kept, Moved, Ended, ActiveRun, Waits, Terminal
<1> QED BY <1>4, <1>5

\* A worker that passes the fence executes a run that has an attempt.
LEMMA FencedRow ==
    ASSUME IInv, NEW w \in Worker, Fenced(w)
    PROVE  /\ wrun[w] \in Run
           /\ attempt[wrun[w]] = watt[w]
           /\ watt[w] # NoAttempt /\ generation[wrun[w]] > 0
           /\ status[wrun[w]] = "QUEUED" =>
                  wrun[w] \in GatedRun /\ pc[w] # "claimed"
           /\ status[wrun[w]] # "TIMED_OUT"
           /\ pc[w] # "claimed" => status[wrun[w]] # "PREPARING"
<1>1. wrun[w] \in Run /\ pc[w] \in Executing
  BY DEF IInv, TypeOK, WorkerTypeOK, Fenced
<1>2. RunRowOK(wrun[w])
  BY <1>1 DEF IInv, RunRows
<1>3. watt[w] \in 1 .. generation[wrun[w]] /\ generation[wrun[w]] \in Nat
  BY <1>1 DEF IInv, Numbering, TypeOK, TablesTypeOK
<1> QED
  BY <1>1, <1>2, <1>3
  DEF IInv, RunRowOK, Fenced, Owns, StartedFirst, ClaimedFresh, NoAttempt

(***************************************************************************)
(* Every step of a worker, of the clock and of a handler is a RowStep of   *)
(* every run.                                                              *)
(***************************************************************************)
LEMMA WorkerRowSteps ==
    ASSUME IInv, NEW w \in Worker, WorkerNext(w), NEW q \in Run
    PROVE  RowStep(q)
<1> USE DEF IInv, TypeOK, TablesTypeOK
<1>a. CASE UNCHANGED <<status, attempt, generation, tail, liveAttempts,
                       boundAttempts>>
  BY <1>a, Unaddressed
<1>r. RunRowOK(q)
  BY DEF RunRows
<1>0. CASE RecoverStaleRuns(w)
  <2>1. CASE q \in StaleRun
    <3>1. status[q] \in ActiveRun /\ tail[q] # "waiting"
      BY <2>1, <1>r DEF StaleRun, RunRowOK
    <3>2. NextStatusAfterStaleLease(tail[q]) = "QUEUED"
      BY <1>0, <2>1, <3>1 DEF RecoverStaleRuns, NextStatusAfterStaleLease
    <3>3. Requeued(q)
      BY <1>0, <2>1, <3>1, <3>2
      DEF RecoverStaleRuns, Requeued, TimeOutAttempts, attempts
    <3> QED BY <3>3 DEF RowStep
  <2>2. CASE q \notin StaleRun
    <3>1. Columns(q)
      BY <1>0, <2>2 DEF RecoverStaleRuns, Columns, TimeOutAttempts
    <3>2. CASE status[q] \in {"WAITING_EDGE", "CANCELLING"}
      BY <1>0, <2>2, <3>1, <3>2, AggregateRow DEF RecoverStaleRuns
    <3>3. CASE status[q] \notin {"WAITING_EDGE", "CANCELLING"}
      BY <1>0, <2>2, <3>1, <3>3 DEF RecoverStaleRuns, RowStep, Kept
    <3> QED BY <3>2, <3>3
  <2> QED BY <2>1, <2>2
<1>1. ASSUME NEW r \in Run, ClaimOne(w, r) PROVE RowStep(q)
  <2>1. CASE q = r
    BY <1>1, <2>1 DEF ClaimOne, Claimable, NextAttempt, RowStep, Claimed
  <2>2. CASE q # r
    BY <1>1, <2>2, Unaddressed DEF ClaimOne
  <2> QED BY <2>1, <2>2
<1> DEFINE r == wrun[w]
<1>f. ASSUME Fenced(w)
      PROVE  /\ r \in Run /\ attempt[r] = watt[w] /\ watt[w] # NoAttempt
             /\ generation[r] > 0
             /\ status[r] = "QUEUED" => r \in GatedRun /\ pc[w] # "claimed"
             /\ status[r] # "TIMED_OUT"
             /\ pc[w] # "claimed" => status[r] # "PREPARING"
  BY <1>f, FencedRow
<1>g. pc[w] \in Executing => r \in Run /\ (CanAppend(r, watt[w]) => Fenced(w))
  BY DEF CanAppend, Fenced, WorkerTypeOK
<1>2. CASE StartRun(w)
  BY <1>2, <1>f, <1>r
  DEF StartRun, StartFrom, AppendEvent, attempts, RowStep, Kept, Moved, Columns
<1>3. CASE PersistPlan(w) \/ \E class \in {"plain", "interrupted"} : Trace(w, class)
  BY <1>3 DEF PersistPlan, Trace, AppendEvent, attempts, RowStep, Kept, Columns
<1>4. CASE AskApproval(w)
  BY <1>4, <1>f
  DEF AskApproval, AppendEvent, RowStep, Kept, Columns, Asked
<1>5. CASE EngineCompletesHybrid(w)
  BY <1>5, <1>f
  DEF EngineCompletesHybrid, AppendEvent, attempts, ActiveRun, RowStep, Kept,
      Moved, Columns
<1>6. ASSUME NEW k \in StepEnd, pc[w] = "engine", CentralEnds(w, k)
      PROVE  RowStep(q)
  <2> DEFINE rows == [step[r] EXCEPT !["central"] = k]
  <2>1. r \in Run /\ Fenced(w) /\ Columns(q)
    BY <1>6, <1>g
    DEF CentralEnds, Executing, InExecute, AppendEvent, attempts, Columns
  <2>2. CASE q = r
    <3>1. status'[q] = AggregateRunTerminal(status[q], rows)
      BY <1>6, <2>1, <2>2 DEF CentralEnds
    <3>2. /\ status[q] \notin {"PREPARING", "TIMED_OUT"}
          /\ status[q] = "QUEUED" => q \in GatedRun /\ generation[q] > 0
      BY <1>6, <1>f, <2>1, <2>2
    <3> QED BY <2>1, <3>1, <3>2, AggregateRow
  <2>3. CASE q # r
    BY <1>6, <2>1, <2>3 DEF CentralEnds, RowStep, Kept
  <2> QED BY <2>2, <2>3
<1>7. CASE CommitDispatch(w)
  BY <1>7 DEF CommitDispatch, AppendEvent, attempts, RowStep, Kept, Columns
<1>8. CASE HandleError(w)
  <2>1. Columns(q) /\ pc[w] \in Executing
    BY <1>8 DEF HandleError, Executing, Handlers, attempts, Columns
  <2>2. CASE CanAppend(r, watt[w]) /\ q = r
    <3>1. \/ Moved(q, ActiveRun \cup Waits \cup {"CANCELLING"}, {"FAILED"})
          \/ EndedAgain(q)
      BY <1>8, <2>1, <2>2, <1>f, <1>g
      DEF HandleError, CanAppend, Moved, EndedAgain, ActiveRun, Waits,
          RunStatus, Terminal
    <3> QED BY <3>1 DEF RowStep, Ended
  <2>3. CASE ~(CanAppend(r, watt[w]) /\ q = r)
    BY <1>8, <2>1, <2>3 DEF HandleError, RowStep, Kept
  <2> QED BY <2>2, <2>3
<1>9. CASE HandleCancelled(w)
  <2> DEFINE rows == [step[r] EXCEPT !["central"] = "CANCELLED"]
  <2>1. pc[w] \in Executing /\ pc[w] # "claimed"
    BY <1>9 DEF HandleCancelled, Executing, Handlers
  <2>2. Columns(q)
    BY <1>9 DEF HandleCancelled, AppendEvent, attempts, Columns
  <2>3. CASE CanAppend(r, watt[w]) /\ q = r
    <3>1. status'[q] = AggregateRunTerminal(status[q], rows)
      BY <1>9, <2>3, <2>1, <1>g DEF HandleCancelled
    <3>2. /\ status[q] \notin {"PREPARING", "TIMED_OUT"}
          /\ status[q] = "QUEUED" => q \in GatedRun /\ generation[q] > 0
      BY <2>1, <2>3, <1>f, <1>g
    <3> QED BY <2>2, <3>1, <3>2, AggregateRow
  <2>4. CASE ~(CanAppend(r, watt[w]) /\ q = r)
    BY <1>9, <2>2, <2>4 DEF HandleCancelled, RowStep, Kept
  <2> QED BY <2>3, <2>4
<1>10. \/ UNCHANGED <<status, attempt, generation, tail, liveAttempts, boundAttempts>>
       \/ RecoverStaleRuns(w)
       \/ \E i \in Run : ClaimOne(w, i)
       \/ StartRun(w) \/ PersistPlan(w)
       \/ \E class \in {"plain", "interrupted"} : Trace(w, class)
       \/ AskApproval(w) \/ EngineCompletesHybrid(w)
       \/ \E k \in StepEnd : pc[w] = "engine" /\ CentralEnds(w, k)
       \/ CommitDispatch(w) \/ HandleError(w) \/ HandleCancelled(w)
  BY DEF WorkerNext, WorkerStep, WorkerEvent, RecoveryRefused, NothingToClaim,
         RenewLease, RenewFenced, CancelCheck, DenyContext, MarkCentralRunning,
         EngineCompletes, EngineFails, EngineCancelled, DispatchCheck, PostJob,
         PostFails, MarkDispatched, RetractJob, RetractFails, WriteRefused,
         HandleDenied, Crash, Shutdown, WorkerStalls, tables, runRow, attempts,
         StepEnd
<1> QED
  BY <1>a, <1>0, <1>1, <1>2, <1>3, <1>4, <1>5, <1>6, <1>7, <1>8, <1>9, <1>10

\* What the lease clock and the API handlers do to the row of a run.
LEMMA ControlRowSteps ==
    ASSUME IInv, NEW r \in Run, ClockNext(r) \/ ControlNext(r), NEW q \in Run
    PROVE  RowStep(q)
<1> USE DEF IInv, TypeOK, TablesTypeOK
<1>a. CASE UNCHANGED <<status, attempt, generation, tail, liveAttempts,
                       boundAttempts>>
  BY <1>a, Unaddressed
<1>r. RunRowOK(r) /\ SeenOK(r) /\ status[r] \in RunStatus
  BY DEF RunRows, SeenStatus
<1>n. ASSUME UNCHANGED <<attempt, generation, boundAttempts>>,
             \A i \in Run : liveAttempts'[i] \subseteq liveAttempts[i],
             AppendEvent(r, "plain") \/ UNCHANGED tail
      PROVE  Columns(q)
  BY <1>n DEF Columns, AppendEvent
<1>1. CASE CancelWaitingEdge(r)
  <2> DEFINE from == {"WAITING_EDGE", "PREPARING", "RUNNING"}
             st   == ToCancelling(r, from)
             rows == CancelOpen(step[r])
  <2>1. Columns(q)
    BY <1>1, <1>n DEF CancelWaitingEdge, attempts
  <2>2. CASE q = r
    <3>1. status'[r] = AggregateRunTerminal(st, rows)
      BY <1>1 DEF CancelWaitingEdge
    <3>2. status[r] \in Past
      BY <1>1, <1>r DEF CancelWaitingEdge, SeenOK
    <3>3. CASE status[r] = "WAITING_EDGE"
      <4>1. st = "CANCELLING"
        BY <3>3 DEF ToCancelling
      <4>2. status'[r] \in {"CANCELLING", "CANCELLED"}
        BY <3>1, <4>1, AggregateStatus DEF RunStatus
      <4> QED
        BY <2>1, <2>2, <3>3, <4>2 DEF RowStep, Ended, Moved, Waits
    <3>4. CASE status[r] # "WAITING_EDGE"
      <4>1. status[r] \notin ActiveRun \cup Waits \cup {"QUEUED", "TIMED_OUT"}
        BY <3>2, <3>4, <1>r DEF Past, ActiveRun, Waits, Terminal, RunRowOK
      <4>2. st = status[r]
        BY <4>1 DEF ToCancelling, ActiveRun, Waits
      <4>3. status[r] \notin {"QUEUED", "PREPARING", "TIMED_OUT"}
        BY <4>1 DEF ActiveRun
      <4> QED BY <2>1, <2>2, <3>1, <4>2, <4>3, AggregateRow
    <3> QED BY <3>3, <3>4
  <2>3. CASE q # r
    BY <1>1, <2>1, <2>3 DEF CancelWaitingEdge, RowStep, Kept
  <2> QED BY <2>2, <2>3
<1>2. CASE CancelRunning(r)
  <2>1. Columns(q)
    BY <1>2, <1>n DEF CancelRunning, attempts
  <2> QED
    BY <1>2, <2>1 DEF CancelRunning, ToCancelling, RowStep, Kept, Moved
<1>3. CASE CancelApproval(r)
  <2>1. Columns(q)
    BY <1>3, <1>n DEF CancelApproval, attempts
  <2> QED
    BY <1>3, <2>1
    DEF CancelApproval, ApprovalStatus, ToCancelling, ActiveRun, Waits,
        RowStep, Kept, Moved
<1>4. CASE CancelImmediate(r)
  <2>1. Columns(q)
    BY <1>4, <1>n DEF CancelImmediate
  <2>2. CASE q = r
    <3> DEFINE st == IF cancelPc[r] = "settle" THEN status[r]
                     ELSE ApprovalStatus(r)
    <3>1. status'[r] = IF st \in CancelAtOnceFrom THEN "CANCELLED" ELSE st
      BY <1>4 DEF CancelImmediate
    <3>2. CASE HasRuntime(r) /\ cancelPc[r] # "settle"
      <4>1. cancelSeen[r].attempt \in boundAttempts[r]
        BY <3>2 DEF HasRuntime
      <4>2. cancelSeen[r].attempt # NoAttempt
        BY <4>1, <1>r DEF RunRowOK, NoAttempt
      <4>3. status[r] \in Past \cup Paused \/ r \in GatedRun
        BY <3>2, <4>2, <1>r DEF HasRuntime, SeenOK, Paused
      <4>4. CASE status[r] \in {"WAITING_APPROVAL", "CANCELLING"}
        <5>1. st = "CANCELLING"
          BY <3>2, <4>4 DEF ApprovalStatus, ToCancelling
        <5> QED
          BY <2>1, <2>2, <3>1, <4>4, <5>1
          DEF CancelAtOnceFrom, RowStep, Ended, Moved, Waits
      <4>5. CASE status[r] \in {"WAITING_EDGE"} \cup Terminal
        <5>1. st = status[r] /\ st \notin CancelAtOnceFrom
          BY <3>2, <4>5
          DEF ApprovalStatus, ToCancelling, CancelAtOnceFrom, Terminal
        <5> QED BY <2>1, <2>2, <3>1, <5>1 DEF RowStep, Kept
      <4>6. CASE status[r] = "QUEUED"
        <5>1. st = "QUEUED"
          BY <3>2, <4>6 DEF ApprovalStatus, ToCancelling
        <5> QED
          BY <2>1, <2>2, <3>1, <4>6, <5>1
          DEF CancelAtOnceFrom, RowStep, Ended, Moved
      <4>7. CASE status[r] \in ActiveRun
        <5>1. st = "CANCELLING"
          BY <3>2, <4>7 DEF ApprovalStatus, ToCancelling, ActiveRun
        <5>2. r \in GatedRun
          BY <4>3, <4>7 DEF ActiveRun, Past, Terminal, Paused
        <5> QED
          BY <2>1, <2>2, <3>1, <4>7, <5>1, <5>2
          DEF CancelAtOnceFrom, RowStep, Ended, Moved
      <4> QED
        BY <1>r, <4>4, <4>5, <4>6, <4>7 DEF RunStatus, ActiveRun
    <3>3. CASE st = status[r]
      BY <2>1, <2>2, <3>1, <3>3
      DEF CancelAtOnceFrom, RowStep, Kept, Ended, Moved, Waits
    <3>4. ApprovalStatus(r) = status[r] \/ HasRuntime(r)
      BY DEF ApprovalStatus
    <3> QED BY <3>2, <3>3, <3>4
  <2>3. CASE q # r
    BY <1>4, <2>1, <2>3 DEF CancelImmediate, RowStep, Kept
  <2> QED BY <2>2, <2>3
<1>5. ASSUME NEW choice, ApproveWrite(r, choice) PROVE RowStep(q)
  <2>1. Columns(q)
    BY <1>5, <1>n DEF ApproveWrite, attempts
  <2>2. r \in GatedRun
    BY <1>5 DEF ApproveWrite, ApproversKnow
  <2>3. CASE q # r \/ status[r] # "WAITING_APPROVAL"
    BY <1>5, <2>1, <2>3 DEF ApproveWrite, ChosenStatus, RowStep, Kept
  <2>4. CASE q = r /\ status[r] = "WAITING_APPROVAL" /\ choice = "deny"
    BY <1>5, <2>1, <2>4
    DEF ApproveWrite, ChosenStatus, RowStep, Ended, Moved, Waits
  <2>5. CASE q = r /\ status[r] = "WAITING_APPROVAL" /\ choice # "deny"
    <3>1. status'[r] = "QUEUED" /\ tail'[r] = "plain"
      BY <1>5, <2>5 DEF ApproveWrite, ChosenStatus, AppendEvent, Terminal
    <3> QED
      BY <2>1, <2>2, <2>5, <3>1 DEF RowStep, Approved, Moved
  <2> QED BY <2>3, <2>4, <2>5
<1>6. ASSUME NEW s \in EdgeStep, NEW k \in Report, IngestEdgeEvent(r, s, k)
      PROVE  RowStep(q)
  <2> DEFINE rows == [step[r] EXCEPT ![s] = StepAfterReport(@, k)]
  <2>1. Columns(q)
    BY <1>6, <1>n DEF IngestEdgeEvent, attempts
  <2>2. CASE q = r /\ k # "RUNNING"
    <3>1. status'[r] = AggregateRunTerminal(status[r], rows)
      BY <1>6, <2>2 DEF IngestEdgeEvent
    <3>2. CASE status[r] \in Past
      <4>1. status[r] \notin {"QUEUED", "PREPARING", "TIMED_OUT"}
        BY <1>r, <3>2 DEF Past, Terminal, RunRowOK
      <4> QED BY <2>1, <2>2, <3>1, <4>1, AggregateRow
    <3>3. CASE status[r] \notin Past
      <4>1. /\ r \in HybridRun /\ step[r]["central"] \notin {"ABSENT", "SUCCEEDED"}
            /\ generation[r] > 0
        BY <1>6, <3>3
        DEF IngestEdgeEvent, Accepts, PlanRows, JobHasPlan, CentralOnce, NoAttempt
      <4>2. "central" \in Step /\ rows["central"] = step[r]["central"]
        BY EdgeStepAssumption DEF Step
      <4>3. status'[r] \in {status[r], "FAILED"}
        BY <3>1, <3>3, <4>1, <4>2
        DEF AggregateRunTerminal, AllIn, Planned, Past
      <4>4. status[r] \in ActiveRun \cup Paused
        BY <1>r, <3>3 DEF RunStatus, ActiveRun, Paused, Past
      <4>5. CASE status'[r] = status[r]
        BY <2>1, <2>2, <4>5 DEF RowStep, Kept
      <4>6. CASE status'[r] = "FAILED"
        BY <2>1, <2>2, <4>1, <4>4, <4>6
        DEF RowStep, Ended, EndedAgain, Moved, ActiveRun, Paused, Waits
      <4> QED BY <4>3, <4>5, <4>6
    <3> QED BY <3>2, <3>3
  <2>3. CASE q # r \/ k = "RUNNING"
    BY <1>6, <2>1, <2>3 DEF IngestEdgeEvent, RowStep, Kept
  <2> QED BY <2>2, <2>3
<1>7. \/ UNCHANGED <<status, attempt, generation, tail, liveAttempts,
                     boundAttempts>>
      \/ CancelWaitingEdge(r) \/ CancelRunning(r) \/ CancelApproval(r)
      \/ CancelImmediate(r)
      \/ \E choice \in {"approve", "deny"} : ApproveWrite(r, choice)
      \/ \E s \in EdgeStep, k \in Report : IngestEdgeEvent(r, s, k)
  BY DEF ClockNext, LeaseExpires, ControlNext, CancelRead, CancelStep,
         CancelOvertaken, CancelMarkJobs, ApproveRead, tables, runRow, attempts
<1> QED BY <1>a, <1>1, <1>2, <1>3, <1>4, <1>5, <1>6, <1>7

\* Every step moves the row of every run in one of the ways RowStep lists.
LEMMA RowSteps == IInv /\ [Next]_vars => \A r \in Run : RowStep(r)
<1>1. CASE IInv /\ Next
  BY <1>1, WorkerRowSteps, ControlRowSteps DEF Next
<1>2. CASE IInv /\ UNCHANGED vars
  BY <1>2, Unaddressed DEF IInv, vars, tables, runRow, attempts
<1> QED BY <1>1, <1>2

-----------------------------------------------------------------------------
(***************************************************************************)
(* The invariant is inductive.                                             *)
(***************************************************************************)
LEMMA RunRowsKept == IInv /\ [Next]_vars => RunRows'
<1> SUFFICES ASSUME IInv, [Next]_vars, NEW r \in Run PROVE RunRowOK(r)'
  BY DEF RunRows
<1>1. RowStep(r) /\ RunRowOK(r)
  BY RowSteps DEF IInv, RunRows
<1>2. /\ status[r] \in RunStatus /\ generation[r] \in Nat
      /\ attempt[r] \in Nat
  BY DEF IInv, TypeOK, TablesTypeOK
<1> USE DEF RunRowOK, LeftOpen, NoAttempt
<1>3. CASE Columns(r) /\ status'[r] \in {"COMPLETED", "FAILED", "CANCELLED"}
  BY <1>1, <1>3 DEF Columns, ActiveRun
<1>4. Ended(r) => Columns(r) /\ status'[r] \in {"COMPLETED", "FAILED", "CANCELLED"}
  BY DEF Ended, EndedAgain, Moved
<1>5. CASE Claimed(r)
  BY <1>1, <1>2, <1>5 DEF Claimed, ActiveRun
<1>6. CASE Requeued(r)
  BY <1>1, <1>2, <1>6 DEF Requeued, ActiveRun
<1>7. CASE Asked(r)
  <2>1. attempt[r] \in 1 .. generation[r]
    BY <1>1, <1>2, <1>7 DEF Asked
  <2> QED BY <1>1, <1>7, <2>1 DEF Asked, ActiveRun
<1>8. CASE Approved(r)
  BY <1>1, <1>8 DEF Approved, Moved, Columns, ActiveRun
<1>9. CASE Kept(r)
  BY <1>1, <1>9 DEF Kept, Columns, ActiveRun
<1>10. CASE \/ Moved(r, {"PREPARING"}, {"RUNNING"})
            \/ Moved(r, {"RUNNING"}, {"WAITING_EDGE"})
            \/ Moved(r, ActiveRun \cup Waits, {"CANCELLING"})
  BY <1>1, <1>10 DEF Moved, Columns, ActiveRun
<1> QED
  BY <1>1, <1>3, <1>4, <1>5, <1>6, <1>7, <1>8, <1>9, <1>10 DEF RowStep

KeepsRun(w) ==
    pc'[w] \in Executing =>
        /\ pc[w] \in Executing
        /\ wrun'[w] = wrun[w] /\ watt'[w] = watt[w]
        /\ pc'[w] = "claimed" => pc[w] = "claimed"

\* Only ClaimOne gives a worker a run and an attempt.
LEMMA WorkersKeep ==
    ASSUME IInv, [Next]_vars
    PROVE  \/ \A w \in Worker : KeepsRun(w)
           \/ \E w \in Worker, r \in Run : ClaimOne(w, r)
<1> USE DEF IInv, TypeOK, WorkerTypeOK, KeepsRun
<1>1. CASE UNCHANGED vars
  BY <1>1 DEF vars, controlVars, workerVars, locals
<1>2. ASSUME NEW w \in Worker, WorkerNext(w),
             ~ \E r \in Run : ClaimOne(w, r)
      PROVE  \A v \in Worker : KeepsRun(v)
  <2> USE DEF Goto, Executing, InExecute, Handlers
  <2>1. CASE Return(w)
    BY <2>1 DEF Return
  <2>2. CASE UNCHANGED <<wrun, watt, pc>>
    BY <2>2
  <2>3. CASE /\ UNCHANGED <<wrun, watt>>
             /\ \/ \E p \in {"idle", "polled"} : Goto(w, p)
                \/ /\ pc[w] \in Executing
                   /\ \E p \in Executing \ {"claimed"} : Goto(w, p)
    BY <2>3
  <2> QED
    BY <1>2, <2>1, <2>2, <2>3
    DEF WorkerNext, WorkerStep, WorkerEvent, RecoverStaleRuns, RecoveryRefused,
        NothingToClaim, RenewLease, RenewFenced, CancelCheck, StartRun,
        DenyContext, PersistPlan, MarkCentralRunning, Trace, AskApproval,
        AfterEngine, CentralEnds, EngineCompletes, EngineFails,
        EngineCancelled, EngineCompletesHybrid, DispatchCheck, PostJob,
        PostFails, MarkDispatched, RetractJob, RetractFails, CommitDispatch,
        Refused, WriteRefused, HandleError, HandleDenied, HandleCancelled,
        Crash, Shutdown, WorkerStalls, workerVars, locals
<1>3. ASSUME NEW r \in Run, ClockNext(r) \/ ControlNext(r)
      PROVE  \A v \in Worker : KeepsRun(v)
  <2>1. CASE UNCHANGED workerVars
    BY <2>1 DEF workerVars, locals
  <2>2. ASSUME NEW S, AbortHolders(r, S)
        PROVE  \A v \in Worker : KeepsRun(v)
    BY <2>2 DEF AbortHolders, Executing, InExecute, Handlers
  <2> QED
    BY <1>3, <2>1, <2>2
    DEF ClockNext, LeaseExpires, ControlNext, CancelRead, CancelStep,
        CancelWaitingEdge, CancelRunning, CancelApproval, CancelOvertaken,
        CancelImmediate, CancelMarkJobs, ApproveRead, ApproveWrite,
        IngestEdgeEvent, controlVars
<1> QED BY <1>1, <1>2, <1>3 DEF Next

\* No two executing workers come to hold one attempt of a run.
LEMMA NumberingKept == IInv /\ [Next]_vars => Numbering'
<1> SUFFICES ASSUME IInv, [Next]_vars PROVE Numbering'
  OBVIOUS
<1> USE DEF IInv, TypeOK, TablesTypeOK, WorkerTypeOK
<1>1. \A r \in Run : generation'[r] \in {generation[r], generation[r] + 1}
  BY RowSteps
  DEF RowStep, Kept, Claimed, Requeued, Asked, Approved, Ended, EndedAgain,
      Moved, Columns
<1>2. CASE \A w \in Worker : KeepsRun(w)
  <2>1. ASSUME NEW w \in Worker, pc'[w] \in Executing
        PROVE  watt'[w] \in 1 .. generation'[wrun'[w]]
    <3>1. /\ pc[w] \in Executing /\ wrun[w] \in Run
          /\ wrun'[w] = wrun[w] /\ watt'[w] = watt[w]
      BY <1>2, <2>1 DEF KeepsRun
    <3>2. watt[w] \in 1 .. generation[wrun[w]]
      BY <3>1 DEF Numbering
    <3>3. /\ generation[wrun[w]] \in Nat
          /\ generation'[wrun[w]] \in
                 {generation[wrun[w]], generation[wrun[w]] + 1}
      BY <1>1, <3>1
    <3> QED BY <3>1, <3>2, <3>3
  <2>2. ASSUME NEW v \in Worker, NEW w \in Worker,
               pc'[v] \in Executing, pc'[w] \in Executing,
               wrun'[v] = wrun'[w], watt'[v] = watt'[w]
        PROVE  v = w
    BY <1>2, <2>2 DEF KeepsRun, Numbering
  <2> QED BY <2>1, <2>2 DEF Numbering
<1>3. ASSUME NEW u \in Worker, NEW r \in Run, ClaimOne(u, r)
      PROVE  Numbering'
  <2>1. /\ wrun'[u] = r /\ watt'[u] = generation[r] + 1
        /\ \A w \in Worker \ {u} : /\ pc'[w] = pc[w]
                                    /\ wrun'[w] = wrun[w] /\ watt'[w] = watt[w]
        /\ generation'[r] = generation[r] + 1
        /\ \A q \in Run \ {r} : generation'[q] = generation[q]
        /\ generation[r] \in Nat
    BY <1>3 DEF ClaimOne, NextAttempt, Goto
  <2>2. \A w \in Worker \ {u} : pc[w] \in Executing =>
            /\ wrun[w] \in Run /\ generation[wrun[w]] \in Nat
            /\ watt[w] \in 1 .. generation[wrun[w]]
    BY DEF Numbering
  <2>3. ASSUME NEW w \in Worker, pc'[w] \in Executing
        PROVE  watt'[w] \in 1 .. generation'[wrun'[w]]
    <3>1. CASE w = u
      BY <2>1, <3>1
    <3>2. CASE w # u
      <4>1. /\ wrun[w] \in Run /\ generation[wrun[w]] \in Nat
            /\ watt[w] \in 1 .. generation[wrun[w]]
            /\ wrun'[w] = wrun[w] /\ watt'[w] = watt[w]
        BY <2>1, <2>2, <2>3, <3>2
      <4>2. generation'[wrun[w]] \in
                {generation[wrun[w]], generation[wrun[w]] + 1}
        BY <1>1, <4>1
      <4> QED BY <4>1, <4>2
    <3> QED BY <3>1, <3>2
  <2>4. \A w \in Worker \ {u} : pc'[w] \in Executing /\ wrun'[w] = r =>
            watt'[w] # watt'[u]
    BY <2>1, <2>2
  <2>5. \A v, w \in Worker \ {u} :
            pc'[v] \in Executing /\ pc'[w] \in Executing
            /\ wrun'[v] = wrun'[w] /\ watt'[v] = watt'[w] => v = w
    BY <2>1 DEF Numbering
  <2>6. ASSUME NEW v \in Worker, NEW w \in Worker,
               pc'[v] \in Executing, pc'[w] \in Executing,
               wrun'[v] = wrun'[w], watt'[v] = watt'[w]
        PROVE  v = w
    <3>1. CASE v = u
      BY <3>1, <2>1, <2>4, <2>6
    <3>2. CASE w = u
      BY <3>2, <2>1, <2>4, <2>6
    <3>3. CASE v # u /\ w # u
      BY <3>3, <2>5, <2>6
    <3> QED BY <3>1, <3>2, <3>3
  <2> QED BY ONLY <2>3, <2>6 DEF Numbering
<1> QED BY <1>2, <1>3, WorkersKeep

\* The locals of a worker are its own.
LEMMA OnlyItsWorker ==
    ASSUME TypeOK, NEW v \in Worker, NEW w \in Worker, v # w, WorkerNext(v)
    PROVE  UNCHANGED <<pc[w], wrun[w], watt[w], stop[w]>>
  BY DEF TypeOK, WorkerTypeOK, WorkerNext, WorkerStep, WorkerEvent,
      RecoverStaleRuns, RecoveryRefused,
      NothingToClaim, RenewLease, RenewFenced, CancelCheck, StartRun,
      DenyContext, PersistPlan, MarkCentralRunning, Trace, AskApproval,
      AfterEngine, CentralEnds, EngineCompletes, EngineFails,
      EngineCancelled, EngineCompletesHybrid, DispatchCheck, PostJob,
      PostFails, MarkDispatched, RetractJob, RetractFails, CommitDispatch,
      WriteRefused, HandleError, HandleDenied, HandleCancelled,
      Crash, Shutdown, WorkerStalls, workerVars, locals, Goto, Return, ClaimOne

\* A runtime is bound to the attempt of a worker whose engine asks.
LEMMA BoundWriter ==
    ASSUME [Next]_vars
    PROVE  \/ UNCHANGED boundAttempts
           \/ \E w \in Worker : AskApproval(w)
<1>1. ASSUME NEW w \in Worker, WorkerNext(w), ~AskApproval(w)
      PROVE  UNCHANGED boundAttempts
  BY <1>1
  DEF WorkerNext, WorkerStep, WorkerEvent, RecoverStaleRuns, RecoveryRefused,
      NothingToClaim, RenewLease, RenewFenced, CancelCheck, StartRun,
      DenyContext, PersistPlan, MarkCentralRunning, Trace, CentralEnds,
      EngineCompletes, EngineFails, EngineCancelled, EngineCompletesHybrid,
      DispatchCheck, PostJob, PostFails, MarkDispatched, RetractJob,
      RetractFails, CommitDispatch, WriteRefused, HandleError, HandleDenied,
      HandleCancelled, Crash, Shutdown, WorkerStalls, ClaimOne, tables, attempts
<1>2. ASSUME NEW q \in Run, ClockNext(q) \/ ControlNext(q)
      PROVE  UNCHANGED boundAttempts
  BY <1>2
  DEF ClockNext, LeaseExpires, ControlNext, CancelRead, CancelStep,
      CancelWaitingEdge, CancelRunning, CancelApproval, CancelOvertaken,
      CancelImmediate, CancelMarkJobs, ApproveRead, ApproveWrite,
      IngestEdgeEvent, tables, attempts
<1>3. CASE UNCHANGED vars
  BY <1>3 DEF vars, tables, attempts
<1> QED BY <1>1, <1>2, <1>3 DEF Next

\* An attempt gets a runtime only after its worker has started the run.
LEMMA ClaimedFreshKept == IInv /\ [Next]_vars => ClaimedFresh'
<1> SUFFICES ASSUME IInv, [Next]_vars, NEW w \in Worker, pc'[w] = "claimed"
             PROVE  watt'[w] \notin boundAttempts'[wrun'[w]]
  BY DEF ClaimedFresh
<1> USE DEF IInv, TypeOK, TablesTypeOK, WorkerTypeOK
<1>1. CASE \A v \in Worker : KeepsRun(v)
  <2>1. /\ pc[w] = "claimed" /\ wrun'[w] = wrun[w] /\ watt'[w] = watt[w]
        /\ wrun[w] \in Run
    BY <1>1 DEF KeepsRun, Executing, InExecute
  <2>2. watt[w] \notin boundAttempts[wrun[w]]
    BY <2>1 DEF ClaimedFresh
  <2>3. CASE UNCHANGED boundAttempts
    BY <2>1, <2>2, <2>3
  <2>4. ASSUME NEW v \in Worker, AskApproval(v)
        PROVE  watt'[w] \notin boundAttempts'[wrun'[w]]
    <3>1. /\ v # w /\ pc[v] = "engine" /\ wrun[v] \in Run
          /\ boundAttempts' = [boundAttempts EXCEPT ![wrun[v]] = @ \cup {watt[v]}]
      BY <2>1, <2>4 DEF AskApproval, Executing, InExecute
    <3>2. wrun[v] = wrun[w] => watt[v] # watt[w]
      BY <2>1, <3>1 DEF Numbering, Executing, InExecute
    <3> QED BY <2>1, <2>2, <3>1, <3>2
  <2> QED BY <2>3, <2>4, BoundWriter
<1>2. ASSUME NEW u \in Worker, NEW r \in Run, ClaimOne(u, r)
      PROVE  watt'[w] \notin boundAttempts'[wrun'[w]]
  <2>1. boundAttempts' = boundAttempts
    BY <1>2 DEF ClaimOne
  <2>2. CASE w = u
    <3>1. wrun'[w] = r /\ watt'[w] = generation[r] + 1
      BY <1>2, <2>2 DEF ClaimOne, NextAttempt
    <3>2. boundAttempts[r] \subseteq 1 .. generation[r] /\ generation[r] \in Nat
      BY DEF RunRows, RunRowOK
    <3>3. generation[r] + 1 \notin 1 .. generation[r]
      BY <3>2
    <3> QED BY <2>1, <3>1, <3>2, <3>3
  <2>3. CASE w # u
    <3>1. pc[w] = "claimed" /\ wrun'[w] = wrun[w] /\ watt'[w] = watt[w]
      BY <1>2, <2>3 DEF ClaimOne, Goto
    <3> QED BY <2>1, <3>1 DEF ClaimedFresh
  <2> QED BY <2>2, <2>3
<1> QED BY <1>1, <1>2, WorkersKeep

\* Only a gated run waits for approval with no runtime behind it.
LEMMA ApproversKnowKept == IInv /\ [Next]_vars => ApproversKnow'
<1> SUFFICES ASSUME IInv, [Next]_vars, NEW r \in Run, approving'[r] > 0
             PROVE  r \in GatedRun
  BY DEF ApproversKnow
<1> USE DEF IInv, TypeOK, TablesTypeOK, ControlTypeOK, RequestAssumption
<1>1. CASE UNCHANGED approving
  BY <1>1 DEF ApproversKnow
<1>2. ASSUME NEW q \in Run, ApproveRead(q) PROVE r \in GatedRun
  <2>1. CASE r = q
    BY <1>2, <2>1 DEF ApproveRead, RunRows, RunRowOK
  <2>2. CASE r # q
    BY <1>2, <2>2 DEF ApproveRead, ApproversKnow
  <2> QED BY <2>1, <2>2
<1>3. ASSUME NEW q \in Run, NEW choice, ApproveWrite(q, choice)
      PROVE  r \in GatedRun
  <2>1. approving'[r] = approving[r] \/ (r = q /\ approving[q] > 0)
    BY <1>3 DEF ApproveWrite
  <2> QED BY <2>1 DEF ApproversKnow
<1>4. ASSUME NEW q \in Run, CancelStep(q) PROVE UNCHANGED approving
  BY <1>4 DEF CancelStep, CancelWaitingEdge, CancelRunning, CancelApproval,
              CancelOvertaken, CancelImmediate, CancelMarkJobs, Applied
<1>5. ASSUME NEW q \in Run, ClockNext(q) \/ ControlNext(q)
      PROVE  r \in GatedRun
  BY <1>1, <1>2, <1>3, <1>4, <1>5
  DEF ClockNext, ControlNext, CancelRead, IngestEdgeEvent, requestVars
<1>6. ASSUME NEW w \in Worker, WorkerNext(w) PROVE UNCHANGED approving
  BY <1>6 DEF WorkerNext, requestVars
<1>7. CASE UNCHANGED vars
  BY <1>1, <1>7 DEF vars, controlVars, requestVars
<1> QED BY <1>1, <1>5, <1>6, <1>7 DEF Next

\* A worker that owns its run leaves "claimed" by starting the run.
LEMMA LeavesClaimed ==
    ASSUME IInv, [Next]_vars, NEW w \in Worker, Fenced(w), pc[w] = "claimed",
           pc'[w] \in Executing \ {"claimed"}, status[wrun[w]] = "PREPARING"
    PROVE  status'[wrun[w]] = "RUNNING"
<1> USE DEF IInv, TypeOK, TablesTypeOK, WorkerTypeOK
<1>r. wrun[w] \in Run
  BY DEF Fenced
<1>1. CASE UNCHANGED vars
  BY <1>1 DEF vars, controlVars, workerVars
<1>2. ASSUME NEW v \in Worker, v # w, WorkerNext(v) PROVE pc'[w] = pc[w]
  BY <1>2, OnlyItsWorker
<1>3. CASE WorkerNext(w)
  <2>1. CASE StartRun(w)
    BY <2>1, <1>r DEF StartRun
  <2>2. CASE WriteRefused(w)
    BY <2>2 DEF WriteRefused, Refused, StartFrom
  <2> QED
    BY <1>3, <2>1, <2>2
    DEF WorkerNext, WorkerStep, WorkerEvent, RecoverStaleRuns, RecoveryRefused,
        NothingToClaim, RenewLease, RenewFenced, CancelCheck,
        DenyContext, PersistPlan, MarkCentralRunning, Trace, AskApproval,
        EngineCompletes, EngineFails,
        EngineCancelled, EngineCompletesHybrid, DispatchCheck, PostJob,
        PostFails, MarkDispatched, RetractJob, RetractFails, CommitDispatch,
        HandleError, HandleDenied, HandleCancelled,
        Crash, Shutdown, WorkerStalls, workerVars, Goto, Return, ClaimOne,
        Executing, InExecute, Handlers
<1>4. ASSUME NEW r \in Run, ClockNext(r) \/ ControlNext(r)
      PROVE  pc'[w] = pc[w]
  <2>1. ASSUME NEW S, AbortHolders(r, S) PROVE pc'[w] = pc[w]
    BY <2>1 DEF AbortHolders
  <2> QED
    BY <1>4, <2>1
    DEF ClockNext, LeaseExpires, ControlNext, CancelRead, CancelStep,
        CancelWaitingEdge, CancelRunning, CancelApproval, CancelOvertaken,
        CancelImmediate, CancelMarkJobs, ApproveRead, ApproveWrite,
        IngestEdgeEvent, controlVars, workerVars
<1> QED BY <1>1, <1>2, <1>3, <1>4 DEF Next

\* A worker past start_run never finds its run PREPARING again.
LEMMA StartedFirstKept == IInv /\ [Next]_vars => StartedFirst'
<1> SUFFICES ASSUME IInv, [Next]_vars,
                    NEW w \in Worker, Fenced(w)', pc'[w] # "claimed",
                    status'[wrun'[w]] = "PREPARING"
             PROVE  FALSE
  BY DEF StartedFirst
<1> USE DEF IInv, TypeOK, TablesTypeOK, WorkerTypeOK
<1>1. pc'[w] \in Executing /\ attempt'[wrun'[w]] = watt'[w]
  BY DEF Fenced, Owns
<1>2. pc[w] \in Executing /\ wrun'[w] = wrun[w] /\ watt'[w] = watt[w]
  <2>1. ASSUME NEW u \in Worker, NEW r \in Run, ClaimOne(u, r)
        PROVE  w # u /\ pc'[w] = pc[w] /\ wrun'[w] = wrun[w]
               /\ watt'[w] = watt[w]
    BY <2>1 DEF ClaimOne, Goto
  <2> QED BY <1>1, <2>1, WorkersKeep DEF KeepsRun
<1> DEFINE r == wrun[w]
<1>3. r \in Run /\ RowStep(r) /\ watt[w] \in 1 .. generation[r]
      /\ generation[r] \in Nat
  BY <1>2, RowSteps DEF Numbering
<1>4. ~ Claimed(r)
  BY <1>1, <1>2, <1>3 DEF Claimed
<1>5. Kept(r) /\ status[r] = "PREPARING"
  BY <1>2, <1>3, <1>4
  DEF RowStep, Kept, Requeued, Asked, Approved, Ended, EndedAgain, Moved
<1>6. Fenced(w)
  BY <1>1, <1>2, <1>5 DEF Fenced, Owns, Kept, Columns
<1>7. pc[w] = "claimed"
  BY <1>5, <1>6 DEF StartedFirst
<1> QED BY <1>1, <1>2, <1>5, <1>6, <1>7, LeavesClaimed DEF Kept

\* No RowStep leads back to the central part of a run.
LEMMA PastIsAbsorbing ==
    ASSUME IInv, [Next]_vars, NEW r \in Run, status[r] \in Past
    PROVE  status'[r] \in Past
<1>1. RowStep(r) /\ status[r] # "TIMED_OUT"
  BY RowSteps DEF IInv, RunRows, RunRowOK
<1> QED
  BY <1>1
  DEF RowStep, Kept, Claimed, Requeued, Asked, Approved, Ended, EndedAgain,
      Moved, Past, Terminal, ActiveRun, AskFrom, Waits

\* run_events is only appended to.
LEMMA CancelledByGrows ==
    ASSUME TypeOK, [Next]_vars, NEW r \in Run
    PROVE  cancelledBy[r] \subseteq cancelledBy'[r]
<1> USE DEF TypeOK, TablesTypeOK
<1>1. CASE UNCHANGED cancelledBy
  BY <1>1
<1>2. ASSUME NEW w \in Worker, EngineCancelled(w)
      PROVE  cancelledBy[r] \subseteq cancelledBy'[r]
  BY <1>2 DEF EngineCancelled
<1>3. ASSUME NEW w \in Worker, WorkerNext(w), ~EngineCancelled(w)
      PROVE  UNCHANGED cancelledBy
  BY <1>3
  DEF WorkerNext, WorkerStep, WorkerEvent, RecoverStaleRuns, RecoveryRefused,
      NothingToClaim, RenewLease, RenewFenced, CancelCheck, StartRun,
      DenyContext, PersistPlan, MarkCentralRunning, Trace, AskApproval,
      EngineCompletes, EngineFails, EngineCompletesHybrid, DispatchCheck,
      PostJob, PostFails, MarkDispatched, RetractJob, RetractFails,
      CommitDispatch, WriteRefused, HandleError, HandleDenied,
      HandleCancelled, Crash, Shutdown, WorkerStalls, ClaimOne, tables, attempts
<1>4. ASSUME NEW q \in Run, ClockNext(q) \/ ControlNext(q)
      PROVE  UNCHANGED cancelledBy
  BY <1>4
  DEF ClockNext, LeaseExpires, ControlNext, CancelRead, CancelStep,
      CancelWaitingEdge, CancelRunning, CancelApproval, CancelOvertaken,
      CancelImmediate, CancelMarkJobs, ApproveRead, ApproveWrite,
      IngestEdgeEvent, tables, attempts
<1>5. CASE UNCHANGED vars
  BY <1>5 DEF vars, tables, attempts
<1> QED BY <1>1, <1>2, <1>3, <1>4, <1>5 DEF Next

\* A worker starts to post past the central part, or on a cancelled engine.
LEMMA PostsWhenPastKept == IInv /\ [Next]_vars => PostsWhenPast'
<1> DEFINE OK(w) == status'[wrun'[w]] \in Past \/ RuntimeCancelled(w)'
<1> SUFFICES ASSUME IInv, [Next]_vars, NEW w \in Worker, GoesOnPosting(w)'
             PROVE  OK(w)
  BY DEF PostsWhenPast
<1> USE DEF IInv, TypeOK, TablesTypeOK, WorkerTypeOK
<1> DEFINE r == wrun[w]
<1>1. ASSUME GoesOnPosting(w), wrun'[w] = r, watt'[w] = watt[w] PROVE OK(w)
  <2>1. r \in Run /\ (status[r] \in Past \/ RuntimeCancelled(w))
    BY <1>1 DEF GoesOnPosting, PostsWhenPast, Executing, InExecute
  <2> QED
    BY <1>1, <2>1, PastIsAbsorbing, CancelledByGrows DEF RuntimeCancelled
<1>2. CASE UNCHANGED <<pc[w], wrun[w], watt[w], stop[w]>>
  BY <1>1, <1>2 DEF GoesOnPosting
<1>3. CASE UNCHANGED vars
  BY <1>2, <1>3 DEF vars, controlVars, workerVars, locals
<1>4. ASSUME NEW v \in Worker, v # w, WorkerNext(v)
      PROVE  UNCHANGED <<pc[w], wrun[w], watt[w], stop[w]>>
  BY <1>4, OnlyItsWorker
<1>5. CASE WorkerNext(w)
  <2> USE DEF Goto, GoesOnPosting
  <2>1. CASE EngineCompletesHybrid(w)
    BY <2>1
    DEF EngineCompletesHybrid, AfterEngine, locals, Past, Executing, InExecute
  <2>2. ASSUME pc[w] = "engine", CentralEnds(w, "FAILED"),
               pc'[w] # "idle"
        PROVE  status'[wrun'[w]] \in Past
    <3> DEFINE rows == [step[r] EXCEPT !["central"] = "FAILED"]
    <3>1. r \in Run /\ wrun'[w] = r
      BY <2>2 DEF CentralEnds, AfterEngine, Return, locals, Executing, InExecute
    <3>2. rows["central"] = "FAILED" /\ "central" \in Step
      BY <3>1 DEF Step
    <3>3. AggregateRunTerminal(status[r], rows) \in Past
      BY <3>2
      DEF AggregateRunTerminal, AllIn, Planned, Past, Terminal, StepStatus
    <3> QED BY <2>2, <3>1, <3>3 DEF CentralEnds
  <2>3. ASSUME EngineCancelled(w), pc'[w] # "idle"
        PROVE  OK(w)
    <3>1. r \in Run /\ wrun'[w] = r /\ watt'[w] = watt[w]
      BY <2>3
      DEF EngineCancelled, CentralEnds, AfterEngine, Return, locals,
          Executing, InExecute
    <3> QED BY <2>3, <3>1 DEF EngineCancelled, RuntimeCancelled
  <2>4. CASE DispatchCheck(w)
    BY <2>4, <1>1 DEF DispatchCheck, locals
  <2>5. ASSUME NEW q \in Run, ClaimOne(w, q) PROVE FALSE
    BY <2>5 DEF ClaimOne
  <2>6. CASE EngineCompletes(w)
    BY <2>6
    DEF EngineCompletes, CentralEnds, AfterEngine, Return
  <2> QED
    BY <1>5, <1>1, <1>2, <2>1, <2>2, <2>3, <2>4, <2>5, <2>6
    DEF WorkerNext, WorkerStep, WorkerEvent, RecoverStaleRuns, RecoveryRefused,
        NothingToClaim, RenewLease, RenewFenced, CancelCheck, StartRun,
        DenyContext, PersistPlan, MarkCentralRunning, Trace, AskApproval,
        EngineFails, PostJob,
        PostFails, MarkDispatched, RetractJob, RetractFails, CommitDispatch,
        WriteRefused, HandleError, HandleDenied, HandleCancelled,
        Crash, Shutdown, WorkerStalls, workerVars, locals, Return
<1>6. ASSUME NEW q \in Run, ClockNext(q) \/ ControlNext(q)
      PROVE  OK(w)
  <2>1. CASE UNCHANGED workerVars
    BY <2>1, <1>2 DEF workerVars, locals
  <2>2. ASSUME NEW S, AbortHolders(q, S)
        PROVE  OK(w)
    BY <2>2, <1>1 DEF AbortHolders, GoesOnPosting
  <2> QED
    BY <1>6, <2>1, <2>2
    DEF ClockNext, LeaseExpires, ControlNext, CancelRead, CancelStep,
        CancelWaitingEdge, CancelRunning, CancelApproval, CancelOvertaken,
        CancelImmediate, CancelMarkJobs, ApproveRead, ApproveWrite,
        IngestEdgeEvent, controlVars
<1> QED BY <1>2, <1>3, <1>4, <1>5, <1>6 DEF Next

\* Only a post adds an edge job.
LEMMA JobsChange ==
    ASSUME [Next]_vars
    PROVE  \/ UNCHANGED jobAttempt
           \/ \E w \in Worker, s \in EdgeStep : PostJob(w, s) \/ PostFails(w, s)
<1>1. ASSUME NEW w \in Worker, WorkerNext(w),
             ~ \E s \in EdgeStep : PostJob(w, s) \/ PostFails(w, s)
      PROVE  UNCHANGED jobAttempt
  BY <1>1
  DEF WorkerNext, WorkerStep, WorkerEvent, RecoverStaleRuns, RecoveryRefused,
      NothingToClaim, RenewLease, RenewFenced, CancelCheck, StartRun,
      DenyContext, PersistPlan, MarkCentralRunning, Trace, AskApproval,
      CentralEnds, EngineCompletes, EngineFails, EngineCancelled,
      EngineCompletesHybrid, DispatchCheck, MarkDispatched, RetractJob,
      RetractFails, CommitDispatch, WriteRefused, HandleError, HandleDenied,
      HandleCancelled, Crash, Shutdown, WorkerStalls, ClaimOne, tables, jobs
<1>2. ASSUME NEW q \in Run, ClockNext(q) \/ ControlNext(q)
      PROVE  UNCHANGED jobAttempt
  BY <1>2
  DEF ClockNext, LeaseExpires, ControlNext, CancelRead, CancelStep,
      CancelWaitingEdge, CancelRunning, CancelApproval, CancelOvertaken,
      CancelImmediate, CancelMarkJobs, ApproveRead, ApproveWrite,
      IngestEdgeEvent, tables, jobs
<1>3. CASE UNCHANGED vars
  BY <1>3 DEF vars, tables, jobs
<1> QED BY <1>1, <1>2, <1>3 DEF Next

\* A job that a post adds carries the attempt of the worker.
LEMMA PostedAttempt ==
    ASSUME TypeOK, NEW w \in Worker, NEW t \in EdgeStep,
           PostJob(w, t) \/ PostFails(w, t),
           NEW r \in Run, NEW s \in EdgeStep,
           jobAttempt'[r][s] # jobAttempt[r][s]
    PROVE  wrun[w] = r /\ jobAttempt'[r][s] = watt[w]
<1> USE DEF TypeOK, TablesTypeOK, WorkerTypeOK
<1> DEFINE row == [jobAttempt[wrun[w]] EXCEPT
                      ![t] = IF @ = NoAttempt THEN watt[w] ELSE @]
<1>1. jobAttempt' = [jobAttempt EXCEPT ![wrun[w]] = row]
  BY DEF PostJob, PostFails, AddJob
<1>2. wrun[w] = r /\ jobAttempt'[r] = row
  BY <1>1
<1> QED BY <1>2

\* No step posts a job early or takes a run with jobs back.
LEMMA JobsKept == IInv /\ [Next]_vars => JobsOnlyAfterCentral'
<1> DEFINE OK(r, s) == status'[r] \in Past \/ jobAttempt'[r][s] \in cancelledBy'[r]
<1> SUFFICES ASSUME IInv, [Next]_vars, NEW r \in Run, NEW s \in EdgeStep,
                    jobAttempt'[r][s] # NoAttempt
             PROVE  OK(r, s)
  BY DEF JobsOnlyAfterCentral
<1> USE DEF IInv, TypeOK, TablesTypeOK, WorkerTypeOK
<1>1. CASE status[r] \in Past
  BY <1>1, PastIsAbsorbing
<1>2. CASE jobAttempt'[r][s] = jobAttempt[r][s]
  BY <1>1, <1>2, CancelledByGrows DEF JobsOnlyAfterCentral
<1>3. ASSUME NEW w \in Worker, NEW t \in EdgeStep,
             PostJob(w, t) \/ PostFails(w, t),
             jobAttempt'[r][s] # jobAttempt[r][s]
      PROVE  OK(r, s)
  <2>1. r = wrun[w] /\ jobAttempt'[r][s] = watt[w]
    BY <1>3, PostedAttempt
  <2>2. status[r] \in Past \/ watt[w] \in cancelledBy[r]
    BY <1>3, <2>1
    DEF PostJob, PostFails, PostsWhenPast, GoesOnPosting, RuntimeCancelled
  <2> QED BY <1>1, <2>1, <2>2, CancelledByGrows
<1> QED BY <1>2, <1>3, JobsChange

(***************************************************************************)
(* The row of the central step: once planned it stays, and the central     *)
(* part of a hybrid run succeeds only when the run goes past it.           *)
(***************************************************************************)
CentralStep(r) ==
    /\ step[r]["central"] # "ABSENT" => step'[r]["central"] # "ABSENT"
    /\ r \in HybridRun /\ step'[r]["central"] = "SUCCEEDED" =>
           step[r]["central"] = "SUCCEEDED" \/ status'[r] \in Past

LEMMA CentralSteps ==
    ASSUME IInv, [Next]_vars, NEW r \in Run
    PROVE  CentralStep(r)
<1> USE DEF IInv, TypeOK, TablesTypeOK, WorkerTypeOK, CentralStep
<1>0. "central" \in Step /\ "central" \notin EdgeStep
  BY EdgeStepAssumption DEF Step
<1>1. CASE step'[r]["central"] = step[r]["central"]
  BY <1>1
<1>2. ASSUME NEW w \in Worker, PersistPlan(w) PROVE CentralStep(r)
  <2>1. wrun[w] \in Run
    BY <1>2 DEF PersistPlan, Executing, InExecute
  <2>2. CASE wrun[w] = r /\ step[r]["central"] = "ABSENT"
    BY <1>2, <1>0, <2>1, <2>2 DEF PersistPlan
  <2>3. CASE wrun[w] # r \/ step[r]["central"] # "ABSENT"
    BY <1>2, <2>1, <2>3 DEF PersistPlan
  <2> QED BY <2>2, <2>3
<1>3. ASSUME NEW w \in Worker, MarkCentralRunning(w) PROVE CentralStep(r)
  BY <1>3, <1>0 DEF MarkCentralRunning, Executing, InExecute
<1>4. ASSUME NEW w \in Worker, NEW k \in StepEnd, pc[w] = "engine",
             CentralEnds(w, k), k = "SUCCEEDED" => wrun[w] \notin HybridRun
      PROVE  CentralStep(r)
  BY <1>4, <1>0 DEF CentralEnds, Executing, InExecute, StepEnd
<1>5. ASSUME NEW w \in Worker, EngineCompletesHybrid(w) PROVE CentralStep(r)
  BY <1>5, <1>0 DEF EngineCompletesHybrid, Executing, InExecute, Past
<1>6. ASSUME NEW w \in Worker, CommitDispatch(w) PROVE CentralStep(r)
  BY <1>6, <1>0, <1>1 DEF CommitDispatch, Executing, InExecute
<1>7. ASSUME NEW w \in Worker, HandleCancelled(w) PROVE CentralStep(r)
  <2> DEFINE rows == [step[wrun[w]] EXCEPT !["central"] = "CANCELLED"]
  <2>1. wrun[w] \in Run
    BY <1>7 DEF HandleCancelled, Executing, Handlers
  <2>2. CASE wrun[w] = r /\ CanAppend(r, watt[w])
    <3>1. step' = [step EXCEPT ![r] = rows]
      BY <1>7, <2>2 DEF HandleCancelled
    <3>2. step'[r]["central"] = "CANCELLED"
      BY <1>0, <2>2, <3>1
    <3> QED BY <3>2
  <2>3. CASE ~(wrun[w] = r /\ CanAppend(r, watt[w]))
    <3>1. step'[r] = step[r]
      BY <1>7, <2>1, <2>3 DEF HandleCancelled
    <3> QED BY <1>1, <3>1
  <2> QED BY <2>2, <2>3
<1>8. ASSUME NEW w \in Worker, WorkerNext(w) PROVE CentralStep(r)
  BY <1>1, <1>2, <1>3, <1>4, <1>5, <1>6, <1>7, <1>8
  DEF WorkerNext, WorkerStep, WorkerEvent, RecoverStaleRuns, RecoveryRefused,
      NothingToClaim, RenewLease, RenewFenced, CancelCheck, StartRun,
      DenyContext, Trace, AskApproval, EngineCompletes, EngineFails,
      EngineCancelled, DispatchCheck, PostJob, PostFails, MarkDispatched,
      RetractJob, RetractFails, WriteRefused, HandleError, HandleDenied,
      Crash, Shutdown, WorkerStalls, ClaimOne, tables, StepEnd
<1>9. ASSUME NEW q \in Run, CancelWaitingEdge(q) \/ CancelImmediate(q)
      PROVE  CentralStep(r)
  <2>1. step' = [step EXCEPT ![q] = CancelOpen(step[q])]
    BY <1>9 DEF CancelWaitingEdge, CancelImmediate
  <2>2. CancelOpen(step[q])["central"] \in {step[q]["central"], "CANCELLED"}
        /\ (step[q]["central"] = "ABSENT" =>
              CancelOpen(step[q])["central"] = "ABSENT")
    BY <1>0 DEF CancelOpen, OpenStep
  <2> QED BY <2>1, <2>2
<1>10. ASSUME NEW q \in Run, NEW s \in EdgeStep, NEW k, IngestEdgeEvent(q, s, k)
       PROVE  CentralStep(r)
  BY <1>0, <1>1, <1>10 DEF IngestEdgeEvent
<1>11. ASSUME NEW q \in Run, ClockNext(q) \/ ControlNext(q)
       PROVE  CentralStep(r)
  BY <1>1, <1>9, <1>10, <1>11
  DEF ClockNext, LeaseExpires, ControlNext, CancelRead, CancelStep,
      CancelRunning, CancelApproval, CancelOvertaken, CancelMarkJobs,
      ApproveRead, ApproveWrite, tables
<1>12. CASE UNCHANGED vars
  BY <1>1, <1>12 DEF vars, tables
<1> QED BY <1>8, <1>11, <1>12 DEF Next

\* A worker past persist_step_plan keeps finding the plan of its run.
LEMMA PlannedFirstKept == IInv /\ [Next]_vars => PlannedFirst'
<1> DEFINE Placed == {"dispatch", "posting", "enqueued", "queued"}
           OK(w) == /\ pc'[w] \in HasPlan => step'[wrun'[w]]["central"] # "ABSENT"
                    /\ pc'[w] \in Placed => wrun'[w] \in HybridRun
<1> SUFFICES ASSUME IInv, [Next]_vars, NEW w \in Worker PROVE OK(w)
  BY DEF PlannedFirst
<1> USE DEF IInv, TypeOK, TablesTypeOK, WorkerTypeOK
<1> DEFINE r == wrun[w]
<1>1. ASSUME wrun'[w] = r, pc'[w] \in HasPlan => pc[w] \in HasPlan,
             pc'[w] \in Placed => pc[w] \in Placed \/ r \in HybridRun
      PROVE  OK(w)
  <2>1. pc[w] \in HasPlan => r \in Run /\ step[r]["central"] # "ABSENT"
    BY DEF PlannedFirst, HasPlan, Executing, InExecute, Handlers
  <2> QED BY <1>1, <2>1, CentralSteps DEF CentralStep, PlannedFirst
<1>2. CASE UNCHANGED <<pc[w], wrun[w]>>
  BY <1>1, <1>2
<1>3. CASE UNCHANGED vars
  BY <1>2, <1>3 DEF vars, controlVars, workerVars, locals
<1>4. ASSUME NEW v \in Worker, v # w, WorkerNext(v)
      PROVE  UNCHANGED <<pc[w], wrun[w]>>
  BY <1>4, OnlyItsWorker
<1>5. CASE WorkerNext(w)
  <2> USE DEF Goto, HasPlan
  <2>1. CASE PersistPlan(w)
    <3>1. r \in Run /\ wrun'[w] = r /\ pc'[w] = "planned"
      BY <2>1 DEF PersistPlan, locals, Executing, InExecute
    <3>2. step'[r]["central"] # "ABSENT"
      BY <2>1, <3>1 DEF PersistPlan, Plan, Step
    <3> QED BY <3>1, <3>2
  <2>2. CASE pc'[w] \in {"idle", "polled", "claimed", "started", "error", "denied"}
    BY <2>2
  <2>3. ASSUME NEW k \in StepEnd, pc[w] = "engine", CentralEnds(w, k)
        PROVE  OK(w)
    <3>1. CASE r \in HybridRun
      BY <1>1, <2>3, <3>1 DEF CentralEnds, AfterEngine, locals
    <3>2. CASE r \notin HybridRun
      BY <2>2, <2>3, <3>2 DEF CentralEnds, AfterEngine, Return
    <3> QED BY <3>1, <3>2
  <2>4. CASE EngineCompletesHybrid(w)
    BY <1>1, <2>4 DEF EngineCompletesHybrid, AfterEngine, locals
  <2>5. CASE \/ DispatchCheck(w) \/ MarkDispatched(w) \/ RetractJob(w)
             \/ MarkCentralRunning(w) \/ Shutdown(w)
             \/ \E s \in EdgeStep : PostJob(w, s)
    <3>1. wrun'[w] = r
      BY <2>5
      DEF DispatchCheck, MarkDispatched, RetractJob, MarkCentralRunning,
          Shutdown, PostJob, locals
    <3>2. pc[w] \in HasPlan
      BY <2>5
      DEF DispatchCheck, MarkDispatched, RetractJob, MarkCentralRunning,
          Shutdown, PostJob, InExecute
    <3>3. pc'[w] \in Placed => pc[w] \in Placed
      BY <2>5
      DEF DispatchCheck, MarkDispatched, RetractJob, MarkCentralRunning,
          Shutdown, PostJob
    <3> QED BY <1>1, <3>1, <3>2, <3>3
  <2> QED
    BY <1>5, <1>2, <2>1, <2>2, <2>3, <2>4, <2>5
    DEF WorkerNext, WorkerStep, WorkerEvent, RecoverStaleRuns, RecoveryRefused,
        NothingToClaim, RenewLease, RenewFenced, CancelCheck, StartRun,
        DenyContext, Trace, AskApproval, EngineCompletes, EngineFails,
        EngineCancelled, StepEnd, PostFails, RetractFails, CommitDispatch,
        WriteRefused, HandleError, HandleDenied, HandleCancelled, Crash,
        WorkerStalls, ClaimOne, workerVars, locals, Return
<1>6. ASSUME NEW q \in Run, ClockNext(q) \/ ControlNext(q)
      PROVE  OK(w)
  <2>1. CASE UNCHANGED workerVars
    BY <2>1, <1>2 DEF workerVars, locals
  <2>2. ASSUME NEW S, AbortHolders(q, S)
        PROVE  OK(w)
    BY <2>2, <1>1 DEF AbortHolders, HasPlan
  <2> QED
    BY <1>6, <2>1, <2>2
    DEF ClockNext, LeaseExpires, ControlNext, CancelRead, CancelStep,
        CancelWaitingEdge, CancelRunning, CancelApproval, CancelOvertaken,
        CancelImmediate, CancelMarkJobs, ApproveRead, ApproveWrite,
        IngestEdgeEvent, controlVars
<1> QED BY <1>2, <1>3, <1>4, <1>5, <1>6 DEF Next

\* Jobs are posted only for runs that have a plan.
LEMMA PlanRowsKept == IInv /\ [Next]_vars => PlanRows'
<1> SUFFICES ASSUME IInv, [Next]_vars, NEW r \in Run
             PROVE  JobHasPlan(r)' /\ CentralOnce(r)'
  BY DEF PlanRows
<1> USE DEF IInv, TypeOK, TablesTypeOK, WorkerTypeOK
<1>1. CentralStep(r)
  BY CentralSteps
<1>2. CentralOnce(r)'
  BY <1>1, PastIsAbsorbing DEF CentralStep, CentralOnce, PlanRows
<1>3. ASSUME NEW s \in EdgeStep, jobAttempt'[r][s] # NoAttempt
      PROVE  r \in HybridRun /\ step'[r]["central"] # "ABSENT"
  <2>1. CASE jobAttempt'[r][s] = jobAttempt[r][s]
    BY <1>1, <1>3, <2>1 DEF CentralStep, JobHasPlan, PlanRows
  <2>2. ASSUME NEW w \in Worker, NEW t \in EdgeStep,
               PostJob(w, t) \/ PostFails(w, t),
               jobAttempt'[r][s] # jobAttempt[r][s]
        PROVE  r \in HybridRun /\ step'[r]["central"] # "ABSENT"
    <3>1. r = wrun[w]
      BY <2>2, PostedAttempt
    <3> QED
      BY <1>1, <2>2, <3>1
      DEF PostJob, PostFails, PlannedFirst, HasPlan, CentralStep
  <2> QED BY <2>1, <2>2, JobsChange
<1> QED BY <1>2, <1>3 DEF JobHasPlan

\* A cancel request reads the row of its run, or drops what it has read.
SeenStep(r) ==
    \/ cancelSeen'[r] \in {cancelSeen[r], NothingSeen}
    \/ /\ cancelSeen'[r] = [status |-> status[r], attempt |-> attempt[r]]
       /\ UNCHANGED <<status[r], attempt[r]>>

LEMMA SeenSteps ==
    ASSUME TypeOK, [Next]_vars, NEW r \in Run
    PROVE  SeenStep(r)
<1> USE DEF TypeOK, ControlTypeOK, SeenStep
<1>1. CASE UNCHANGED cancelSeen
  BY <1>1
<1>2. ASSUME NEW q \in Run, CancelRead(q) PROVE SeenStep(r)
  BY <1>2 DEF CancelRead, tables, runRow
<1>3. ASSUME NEW q \in Run, CancelStep(q) PROVE SeenStep(r)
  <2>1. Applied(q) \/ UNCHANGED cancelSeen
    BY <1>3
    DEF CancelStep, CancelWaitingEdge, CancelRunning, CancelApproval,
        CancelOvertaken, CancelImmediate, CancelMarkJobs
  <2> QED BY <2>1 DEF Applied
<1>4. ASSUME NEW q \in Run, NEW choice, ApproveRead(q) \/ ApproveWrite(q, choice)
      PROVE  UNCHANGED cancelSeen
  BY <1>4 DEF ApproveRead, ApproveWrite, cancelVars
<1>5. ASSUME NEW q \in Run, NEW s, NEW k, IngestEdgeEvent(q, s, k)
      PROVE  UNCHANGED cancelSeen
  BY <1>5 DEF IngestEdgeEvent, requestVars, cancelVars
<1>6. ASSUME NEW q \in Run, ControlNext(q) PROVE SeenStep(r)
  BY <1>6, <1>1, <1>2, <1>3, <1>4, <1>5 DEF ControlNext
<1>7. ASSUME NEW q \in Run, ClockNext(q) PROVE UNCHANGED cancelSeen
  BY <1>7 DEF ClockNext, requestVars, cancelVars
<1>8. ASSUME NEW w \in Worker, WorkerNext(w) PROVE UNCHANGED cancelSeen
  BY <1>8 DEF WorkerNext, requestVars, cancelVars
<1>9. CASE UNCHANGED vars
  BY <1>1, <1>9 DEF vars, controlVars, requestVars, cancelVars
<1> QED BY <1>1, <1>6, <1>7, <1>8, <1>9 DEF Next

\* What a cancel request has read stays true as far as it is relied upon.
LEMMA SeenStatusKept == IInv /\ [Next]_vars => SeenStatus'
<1> SUFFICES ASSUME IInv, [Next]_vars, NEW r \in Run PROVE SeenOK(r)'
  BY DEF SeenStatus
<1>1. /\ RowStep(r) /\ SeenOK(r) /\ RunRowOK(r) /\ SeenStep(r)
      /\ generation[r] \in Nat /\ cancelSeen[r].attempt \in Nat
  BY RowSteps, SeenSteps
  DEF IInv, SeenStatus, RunRows, TypeOK, TablesTypeOK, ControlTypeOK
<1>2. ASSUME status[r] \in Paused, attempt[r] # NoAttempt
      PROVE  \/ status'[r] \in Past
             \/ status'[r] \in Paused /\ attempt'[r] = attempt[r]
             \/ r \in GatedRun /\ generation'[r] > attempt[r]
  BY <1>1, <1>2
  DEF RunRowOK, RowStep, Kept, Claimed, Requeued, Asked, Approved, Ended,
      EndedAgain, Moved, Columns, Paused, Past, Terminal, ActiveRun, Waits
<1>g. generation'[r] \in {generation[r], generation[r] + 1}
  BY <1>1
  DEF RowStep, Kept, Claimed, Requeued, Asked, Approved, Ended, EndedAgain,
      Moved, Columns
<1>3. CASE cancelSeen'[r] = cancelSeen[r]
  <2>1. cancelSeen[r].status \in {"WAITING_EDGE", "CANCELLING"} =>
            status'[r] \in Past
    BY <1>1, PastIsAbsorbing DEF SeenOK
  <2>2. ASSUME cancelSeen[r].status \in Paused,
               cancelSeen[r].attempt # NoAttempt
        PROVE  \/ status'[r] \in Past
               \/ status'[r] \in Paused /\ attempt'[r] = cancelSeen[r].attempt
               \/ r \in GatedRun /\ generation'[r] > cancelSeen[r].attempt
    <3>1. CASE status[r] \in Past
      BY <3>1, PastIsAbsorbing
    <3>2. CASE status[r] \in Paused /\ attempt[r] = cancelSeen[r].attempt
      BY <1>2, <2>2, <3>2
    <3>3. CASE r \in GatedRun /\ generation[r] > cancelSeen[r].attempt
      BY <1>1, <1>g, <3>3
    <3> QED BY <1>1, <2>2, <3>1, <3>2, <3>3 DEF SeenOK
  <2> QED BY <1>3, <2>1, <2>2 DEF SeenOK
<1>4. CASE cancelSeen'[r] = NothingSeen
  BY <1>4 DEF SeenOK, NothingSeen, Paused
<1>5. CASE /\ cancelSeen'[r] = [status |-> status[r], attempt |-> attempt[r]]
           /\ UNCHANGED <<status[r], attempt[r]>>
  BY <1>5 DEF SeenOK, Past
<1> QED BY <1>1, <1>3, <1>4, <1>5 DEF SeenStep

\* The invariant holds when the runs have been created.
LEMMA InitIInv == Init => IInv
<1> SUFFICES ASSUME Init PROVE IInv
  OBVIOUS
<1>1. TypeOK
  BY InitTypeOK
<1>2. RunRows /\ JobsOnlyAfterCentral
  BY DEF Init, TablesInit, RunRows, RunRowOK, JobsOnlyAfterCentral, ActiveRun
<1>3. PlanRows
  BY DEF Init, TablesInit, PlanRows, JobHasPlan, CentralOnce, Step
<1>4. \A w \in Worker : pc[w] = "idle"
  BY DEF Init, WorkerInit
<1>5. /\ Numbering /\ ClaimedFresh /\ StartedFirst /\ PostsWhenPast
      /\ PlannedFirst
  BY <1>4
  DEF Numbering, ClaimedFresh, StartedFirst, PostsWhenPast, PlannedFirst,
      Fenced, GoesOnPosting, HasPlan, Executing, InExecute, Handlers
<1>6. SeenStatus /\ ApproversKnow
  BY DEF Init, ControlInit, SeenStatus, SeenOK, NothingSeen, Paused,
         ApproversKnow
<1> QED BY <1>1, <1>2, <1>3, <1>5, <1>6 DEF IInv

\* The invariant is inductive.
LEMMA IInvKept == IInv /\ [Next]_vars => IInv'
  BY NextTypeOK, RunRowsKept, ApproversKnowKept, NumberingKept,
     ClaimedFreshKept, StartedFirstKept, PostsWhenPastKept, PlannedFirstKept,
     PlanRowsKept, JobsKept, SeenStatusKept DEF IInv

(***************************************************************************)
(* IInv is an invariant of SkillRun.                                       *)
(***************************************************************************)
THEOREM Invariance == Spec => []IInv
<1> QED BY InitIInv, IInvKept, PTL DEF Spec

(***************************************************************************)
(* At most one worker passes the fence of a run, for any number of workers *)
(* and whatever leases run out: two attempts never get the same number.    *)
(***************************************************************************)
THEOREM OwnerIsUnique == Spec => []SingleOwner
<1>1. IInv => SingleOwner
  BY DEF IInv, Numbering, SingleOwner, Fenced, Owns
<1> QED BY <1>1, Invariance, PTL

(***************************************************************************)
(* No attempt row is left open behind a run that has moved on: recovery    *)
(* and cancellation close the attempt they take away from a worker.  The   *)
(* one row that can be left open is of a gated run's attempt in a runtime. *)
(***************************************************************************)
THEOREM AttemptsAreClosed == Spec => []OneLiveAttempt
<1>1. IInv => OneLiveAttempt
  BY DEF IInv, RunRows, RunRowOK, OneLiveAttempt
<1> QED BY <1>1, Invariance, PTL

(***************************************************************************)
(* Edge jobs exist only for runs whose central part is over for good: no   *)
(* recovery, claim or approval executes it again beside the edge jobs,     *)
(* unless the attempt that posted them was cancelled by its runtime.       *)
(***************************************************************************)
THEOREM CentralIsNotRepeated == Spec => []JobsOnlyAfterCentral
<1>1. IInv => JobsOnlyAfterCentral
  BY DEF IInv
<1> QED BY <1>1, Invariance, PTL

-----------------------------------------------------------------------------
(***************************************************************************)
(* A terminal status never changes: the fence and the terminal test of     *)
(* set_status, the conditions of cancel_run and approve_run and the        *)
(* aggregation together leave no statement that could change it.           *)
(***************************************************************************)
THEOREM TerminalStays == Spec => TerminalIsFinal
<1>1. IInv /\ [Next]_vars =>
          [\A r \in Run : status[r] \in Terminal => status'[r] = status[r]]_vars
  <2> SUFFICES ASSUME IInv, [Next]_vars, NEW r \in Run, status[r] \in Terminal
               PROVE  status'[r] = status[r]
    OBVIOUS
  <2>1. RowStep(r) /\ status[r] # "TIMED_OUT"
    BY RowSteps DEF IInv, RunRows, RunRowOK
  <2> QED
    BY <2>1
    DEF RowStep, Kept, Claimed, Requeued, Asked, Approved, Ended, EndedAgain,
        Moved, Terminal, ActiveRun, AskFrom, Waits
<1> QED BY <1>1, Invariance, PTL DEF Spec, TerminalIsFinal

(***************************************************************************)
(* A run that is CANCELLING ends CANCELLED or FAILED, if it ends: neither  *)
(* its worker nor an edge report nor recovery takes the request back.      *)
(***************************************************************************)
THEOREM CancellingStays == Spec => CancellingNeverResumes
<1>1. IInv /\ [Next]_vars =>
          [\A r \in Run : status[r] = "CANCELLING" =>
              status'[r] \in {"CANCELLING", "CANCELLED", "FAILED"}]_vars
  <2> SUFFICES ASSUME IInv, [Next]_vars,
                      NEW r \in Run, status[r] = "CANCELLING"
               PROVE  status'[r] \in {"CANCELLING", "CANCELLED", "FAILED"}
    OBVIOUS
  <2>1. RowStep(r)
    BY RowSteps
  <2> QED
    BY <2>1
    DEF RowStep, Kept, Claimed, Requeued, Asked, Approved, Ended, EndedAgain,
        Moved, ActiveRun, AskFrom, Waits
<1> QED BY <1>1, Invariance, PTL DEF Spec, CancellingNeverResumes

(***************************************************************************)
(* A worker whose attempt has been taken over can finish its _execute in   *)
(* any way it likes: no transaction of it changes the row of the run.      *)
(***************************************************************************)
THEOREM StaleAttemptIsHarmless == Spec => StaleAttemptNeverMovesRun
<1> DEFINE Harmless ==
        \A w \in Worker, r \in Run :
            WorkerNext(w) /\ pc[w] \in Executing /\ wrun[w] = r /\ ~Fenced(w) =>
                UNCHANGED <<status[r], attempt[r], lease[r], tail[r]>>
<1>1. IInv /\ [Next]_vars => [Harmless]_vars
  <2> SUFFICES ASSUME IInv, NEW w \in Worker, WorkerNext(w),
                      pc[w] \in Executing, ~Fenced(w)
               PROVE  UNCHANGED <<status, attempt, lease, tail>>
    OBVIOUS
  <2>1. ~CanAppend(wrun[w], watt[w])
    BY DEF Fenced, CanAppend
  <2>2. pc[w] \notin {"idle", "polled"}
    BY DEF Executing, InExecute, Handlers
  <2> QED
    BY <2>1, <2>2
    DEF WorkerNext, WorkerStep, WorkerEvent, RecoverStaleRuns, RecoveryRefused,
        NothingToClaim, ClaimOne, RenewLease, RenewFenced, CancelCheck,
        StartRun, DenyContext, PersistPlan, MarkCentralRunning, Trace,
        AskApproval, CentralEnds, EngineCompletes, EngineFails,
        EngineCancelled, EngineCompletesHybrid, DispatchCheck, PostJob,
        PostFails, MarkDispatched, RetractJob, RetractFails, CommitDispatch,
        WriteRefused, HandleError, HandleDenied, HandleCancelled, Crash,
        Shutdown, WorkerStalls, tables, runRow
<1> QED BY <1>1, Invariance, PTL DEF Spec, StaleAttemptNeverMovesRun

-----------------------------------------------------------------------------
(***************************************************************************)
(* No run is lost.  The two selections of the poll loop read the lease,    *)
(* which goes with the attempt of the run, and the attempt row, which      *)
(* stays open as long as the run is in execution.                          *)
(***************************************************************************)
Held == ActiveRun \cup Paused

LeaseOK(r) ==
    /\ attempt[r] = NoAttempt <=> lease[r] = "none"
    /\ status[r] \in Held /\ attempt[r] # NoAttempt =>
           attempt[r] \in liveAttempts[r]

LeasedRows == \A r \in Run : LeaseOK(r)

\* The steps that write an attempt, a lease or an attempt row.
LEMMA LeaseWriters ==
    ASSUME [Next]_vars
    PROVE  \/ UNCHANGED <<attempt, lease, liveAttempts>>
           \/ \E w \in Worker : \/ RecoverStaleRuns(w)
                                \/ RenewLease(w) \/ WorkerStalls(w)
                                \/ \E r \in Run : ClaimOne(w, r)
           \/ \E r \in Run : LeaseExpires(r) \/ CancelImmediate(r)
<1>1. ASSUME NEW w \in Worker, WorkerNext(w)
      PROVE  \/ UNCHANGED <<attempt, lease, liveAttempts>>
             \/ RecoverStaleRuns(w) \/ RenewLease(w) \/ WorkerStalls(w)
             \/ \E r \in Run : ClaimOne(w, r)
  BY <1>1
  DEF WorkerNext, WorkerStep, WorkerEvent, RecoveryRefused, NothingToClaim,
      RenewFenced, CancelCheck, StartRun, DenyContext, PersistPlan,
      MarkCentralRunning, Trace, AskApproval, CentralEnds, EngineCompletes,
      EngineFails, EngineCancelled, EngineCompletesHybrid, DispatchCheck,
      PostJob, PostFails, MarkDispatched, RetractJob, RetractFails,
      CommitDispatch, WriteRefused, HandleError, HandleDenied,
      HandleCancelled, Crash, Shutdown, tables, runRow, attempts
<1>2. ASSUME NEW r \in Run, ClockNext(r) \/ ControlNext(r)
      PROVE  \/ UNCHANGED <<attempt, lease, liveAttempts>>
             \/ LeaseExpires(r) \/ CancelImmediate(r)
  BY <1>2
  DEF ClockNext, ControlNext, CancelRead, CancelStep, CancelWaitingEdge,
      CancelRunning, CancelApproval, CancelOvertaken, CancelMarkJobs,
      ApproveRead, ApproveWrite, IngestEdgeEvent, tables, runRow, attempts
<1>3. CASE UNCHANGED vars
  BY <1>3 DEF vars, tables, runRow, attempts
<1> QED BY <1>1, <1>2, <1>3 DEF Next

\* A run gets an attempt by a claim, and stays in its hands with it.
LEMMA HeldStays ==
    ASSUME IInv, [Next]_vars, NEW r \in Run, status'[r] \in Held,
           attempt'[r] # NoAttempt
    PROVE  \/ Claimed(r)
           \/ status[r] \in Held /\ attempt'[r] = attempt[r]
  BY RowSteps
  DEF RowStep, Kept, Requeued, Asked, AskFrom, Approved, Ended, EndedAgain,
      Moved, Columns, Held, Paused, ActiveRun, Waits

\* The lease is written with the attempt, the attempt row with the status.
LEMMA LeasedRowsKept == IInv /\ LeasedRows /\ [Next]_vars => LeasedRows'
<1> SUFFICES ASSUME IInv, LeasedRows, [Next]_vars, NEW r \in Run
             PROVE  LeaseOK(r)'
  BY DEF LeasedRows
<1> USE DEF IInv, TypeOK, TablesTypeOK, WorkerTypeOK
<1>1. LeaseOK(r) /\ RunRowOK(r) /\ SeenOK(r)
      /\ attempt[r] \in Nat /\ generation[r] \in Nat
  BY DEF LeasedRows, RunRows, SeenStatus
<1>2. \/ Claimed(r)
      \/ status'[r] \in Held /\ attempt'[r] # NoAttempt =>
             /\ attempt'[r] = attempt[r] /\ attempt[r] \in liveAttempts[r]
  BY <1>1, HeldStays DEF LeaseOK
<1>3. Claimed(r) => attempt'[r] # NoAttempt /\ attempt'[r] \in liveAttempts'[r]
  BY <1>1 DEF Claimed, NoAttempt
<1>4. CASE UNCHANGED <<attempt[r], lease[r], liveAttempts[r]>>
  BY <1>1, <1>2, <1>3, <1>4 DEF LeaseOK
<1>5. ASSUME NEW w \in Worker, RecoverStaleRuns(w) PROVE LeaseOK(r)'
  <2>1. CASE r \in StaleRun
    <3>1. status[r] \in ActiveRun /\ tail[r] # "waiting"
      BY <2>1, <1>1 DEF StaleRun, RunRowOK
    <3>2. NextStatusAfterStaleLease(tail[r]) = "QUEUED"
      BY <1>5, <2>1, <3>1 DEF RecoverStaleRuns, NextStatusAfterStaleLease
    <3> QED
      BY <1>5, <2>1, <3>2
      DEF RecoverStaleRuns, TimeOutAttempts, LeaseOK
  <2>2. CASE r \notin StaleRun
    <3>1. UNCHANGED <<attempt[r], lease[r], liveAttempts[r]>>
      BY <1>5, <2>2 DEF RecoverStaleRuns, TimeOutAttempts
    <3> QED BY <3>1, <1>4
  <2> QED BY <2>1, <2>2
<1>6. ASSUME NEW w \in Worker, NEW q \in Run, ClaimOne(w, q)
      PROVE  LeaseOK(r)'
  <2>1. CASE q = r
    BY <1>1, <1>6, <2>1 DEF ClaimOne, NextAttempt, LeaseOK, NoAttempt
  <2>2. CASE q # r
    BY <1>4, <1>6, <2>2 DEF ClaimOne
  <2> QED BY <2>1, <2>2
<1>7. ASSUME NEW q \in Run, lease[q] # "none", UNCHANGED <<attempt, attempts>>,
             \E l \in {"held", "expired"} : lease' = [lease EXCEPT ![q] = l]
      PROVE  LeaseOK(r)'
  BY <1>1, <1>2, <1>3, <1>7 DEF LeaseOK, attempts
<1>8. ASSUME NEW w \in Worker, RenewLease(w) \/ WorkerStalls(w)
      PROVE  LeaseOK(r)'
  BY <1>7, <1>8
  DEF RenewLease, WorkerStalls, Fenced
<1>9. ASSUME NEW q \in Run, LeaseExpires(q) PROVE LeaseOK(r)'
  BY <1>7, <1>9 DEF LeaseExpires
<1>10. ASSUME NEW q \in Run, CancelImmediate(q) PROVE LeaseOK(r)'
  <2>1. CASE q # r
    BY <1>4, <1>10, <2>1 DEF CancelImmediate
  <2>2. CASE q = r /\ status'[r] \in Held /\ attempt'[r] # NoAttempt
    <3>1. /\ status[r] \in Held /\ attempt'[r] = attempt[r]
          /\ attempt[r] \in liveAttempts[r] /\ lease'[r] = lease[r]
      BY <1>1, <1>10, <2>2, HeldStays
      DEF CancelImmediate, Claimed, LeaseOK, CancelAtOnceFrom
    <3>2. status[r] \in ActiveRun
      BY <1>10, <2>2, <3>1
      DEF CancelImmediate, ApprovalStatus, ToCancelling, CancelAtOnceFrom,
          Held, Paused, ActiveRun
    <3>3. status[r] \notin Past \cup Paused
      BY <3>2 DEF ActiveRun, Past, Terminal, Paused
    <3>4. attempt[r] = generation[r]
      BY <1>1, <2>2, <3>1 DEF RunRowOK
    <3>5. cancelSeen[r].attempt # attempt[r]
      BY <1>1, <1>10, <2>2, <3>1, <3>3, <3>4
      DEF SeenOK, CancelImmediate, CancelAtOnceFrom, Paused
    <3> QED
      BY <1>1, <1>10, <2>2, <3>1, <3>5 DEF LeaseOK, CancelImmediate
  <2>3. CASE q = r /\ ~(status'[r] \in Held /\ attempt'[r] # NoAttempt)
    BY <1>1, <1>10, <2>3 DEF LeaseOK, CancelImmediate
  <2> QED BY <2>1, <2>2, <2>3
<1> QED BY <1>4, <1>5, <1>6, <1>8, <1>9, <1>10, LeaseWriters

(***************************************************************************)
(* At every moment each run that is queued or in execution is one that a   *)
(* poll loop will select: by a claim, as it holds nothing of an earlier    *)
(* attempt or, if a late approval has queued it, once its lease has run    *)
(* out; or by recovery once its lease has run out.                         *)
(***************************************************************************)
THEOREM RunsAreFound == Spec => []NoRunIsLost
<1>1. Init => LeasedRows
  BY DEF Init, TablesInit, LeasedRows, LeaseOK
<1>2. IInv /\ LeasedRows => NoRunIsLost
  <2> SUFFICES ASSUME IInv, LeasedRows, NEW r \in Run
               PROVE  /\ status[r] = "QUEUED" => Released(r) \/ QueuedLate(r)
                      /\ status[r] \in ActiveRun => Taken(r)
    BY DEF NoRunIsLost
  <2>1. RunRowOK(r) /\ LeaseOK(r)
    BY DEF IInv, RunRows, LeasedRows
  <2>2. attempt[r] = NoAttempt =>
            \A w \in Worker : ~(Fenced(w) /\ wrun[w] = r)
    BY FencedRow
  <2> QED
    BY <2>1, <2>2
    DEF RunRowOK, LeaseOK, Held, Paused, ActiveRun, Released, QueuedLate, Taken
<1> QED BY <1>1, <1>2, LeasedRowsKept, Invariance, PTL DEF Spec

-----------------------------------------------------------------------------
(***************************************************************************)
(* The jobs of a run are its last attempt's.  A worker starts to post with *)
(* the fence passed, and a run past its central part keeps its attempt.    *)
(***************************************************************************)
PostersOwn ==
    \A w \in Worker : GoesOnPosting(w) =>
        Owns(wrun[w], watt[w]) \/ RuntimeCancelled(w)

\* No step numbers or releases an attempt of a run past its central part.
LEMMA PastKeepsAttempt ==
    ASSUME IInv, [Next]_vars, NEW r \in Run, status[r] \in Past
    PROVE  attempt'[r] = attempt[r] /\ generation'[r] = generation[r]
  BY RowSteps
  DEF RowStep, Kept, Claimed, Requeued, Asked, Approved, Ended, EndedAgain,
      Moved, Columns, Past, Terminal, ActiveRun, AskFrom, Waits

\* A worker goes on posting, or begins to after a write that was fenced.
LEMMA BeginsToPost ==
    ASSUME IInv, [Next]_vars, NEW w \in Worker, GoesOnPosting(w)'
    PROVE  /\ wrun'[w] = wrun[w] /\ watt'[w] = watt[w]
           /\ \/ GoesOnPosting(w)
              \/ /\ pc[w] = "engine" /\ Owns(wrun[w], watt[w])
                 /\ UNCHANGED <<attempt, generation>>
<1> USE DEF IInv, TypeOK, TablesTypeOK, WorkerTypeOK
<1>1. CASE UNCHANGED <<pc[w], wrun[w], watt[w], stop[w]>>
  BY <1>1 DEF GoesOnPosting
<1>2. CASE UNCHANGED vars
  BY <1>1, <1>2 DEF vars, controlVars, workerVars, locals
<1>3. ASSUME NEW v \in Worker, v # w, WorkerNext(v)
      PROVE  UNCHANGED <<pc[w], wrun[w], watt[w], stop[w]>>
  BY <1>3, OnlyItsWorker
<1>4. CASE WorkerNext(w)
  <2> USE DEF Goto, GoesOnPosting
  <2>1. CASE EngineCompletesHybrid(w)
    BY <2>1 DEF EngineCompletesHybrid, AfterEngine, locals, Fenced
  <2>2. ASSUME NEW k \in StepEnd, pc[w] = "engine", CentralEnds(w, k)
        PROVE  /\ wrun'[w] = wrun[w] /\ watt'[w] = watt[w]
               /\ Owns(wrun[w], watt[w]) /\ UNCHANGED <<attempt, generation>>
    BY <2>2 DEF CentralEnds, AfterEngine, Return, locals, CanAppend
  <2>3. CASE DispatchCheck(w)
    BY <2>3 DEF DispatchCheck, locals
  <2>4. ASSUME NEW q \in Run, ClaimOne(w, q) PROVE FALSE
    BY <2>4 DEF ClaimOne
  <2> QED
    BY <1>4, <1>1, <2>1, <2>2, <2>3, <2>4
    DEF WorkerNext, WorkerStep, WorkerEvent, RecoverStaleRuns, RecoveryRefused,
        NothingToClaim, RenewLease, RenewFenced, CancelCheck, StartRun,
        DenyContext, PersistPlan, MarkCentralRunning, Trace, AskApproval,
        EngineCompletes, EngineFails, EngineCancelled, StepEnd, PostJob,
        PostFails, MarkDispatched, RetractJob, RetractFails, CommitDispatch,
        WriteRefused, HandleError, HandleDenied, HandleCancelled,
        Crash, Shutdown, WorkerStalls, workerVars, locals, Return
<1>5. ASSUME NEW q \in Run, ClockNext(q) \/ ControlNext(q)
      PROVE  /\ wrun'[w] = wrun[w] /\ watt'[w] = watt[w]
             /\ GoesOnPosting(w)
  <2>1. CASE UNCHANGED workerVars
    BY <2>1 DEF workerVars, locals, GoesOnPosting
  <2>2. ASSUME NEW S, AbortHolders(q, S)
        PROVE  /\ wrun'[w] = wrun[w] /\ watt'[w] = watt[w]
               /\ GoesOnPosting(w)
    BY <2>2 DEF AbortHolders, GoesOnPosting
  <2> QED
    BY <1>5, <2>1, <2>2
    DEF ClockNext, LeaseExpires, ControlNext, CancelRead, CancelStep,
        CancelWaitingEdge, CancelRunning, CancelApproval, CancelOvertaken,
        CancelImmediate, CancelMarkJobs, ApproveRead, ApproveWrite,
        IngestEdgeEvent, controlVars
<1> QED BY <1>1, <1>2, <1>3, <1>4, <1>5 DEF Next

\* A worker that posts holds the attempt of its run until it has posted.
LEMMA PostersOwnKept == IInv /\ PostersOwn /\ [Next]_vars => PostersOwn'
<1> SUFFICES ASSUME IInv, PostersOwn, [Next]_vars,
                    NEW w \in Worker, GoesOnPosting(w)'
             PROVE  Owns(wrun[w], watt[w])' \/ RuntimeCancelled(w)'
  BY DEF PostersOwn
<1>1. wrun'[w] = wrun[w] /\ watt'[w] = watt[w]
  BY BeginsToPost
<1>2. CASE GoesOnPosting(w)
  <2>1. wrun[w] \in Run /\ TypeOK
    BY <1>2 DEF IInv, TypeOK, WorkerTypeOK, GoesOnPosting, Executing, InExecute
  <2>2. CASE RuntimeCancelled(w)
    BY <1>1, <2>1, <2>2, CancelledByGrows DEF RuntimeCancelled
  <2>3. CASE ~RuntimeCancelled(w)
    <3>1. status[wrun[w]] \in Past /\ Owns(wrun[w], watt[w])
      BY <1>2, <2>3 DEF IInv, PostsWhenPast, PostersOwn
    <3> QED BY <1>1, <2>1, <3>1, PastKeepsAttempt DEF Owns
  <2> QED BY <2>2, <2>3
<1>3. CASE Owns(wrun[w], watt[w]) /\ UNCHANGED <<attempt, generation>>
  BY <1>1, <1>3 DEF Owns
<1> QED BY <1>2, <1>3, BeginsToPost

\* A job is added with the attempt of the run, and neither changes again.
LEMMA JobsOfTheAttemptKept ==
    IInv /\ PostersOwn /\ JobsOfTheAttempt /\ [Next]_vars => JobsOfTheAttempt'
<1> DEFINE Agrees(r, s) ==
        \/ attempt[r] = jobAttempt[r][s] /\ generation[r] = jobAttempt[r][s]
        \/ jobAttempt[r][s] \in cancelledBy[r]
<1> SUFFICES ASSUME IInv, PostersOwn, JobsOfTheAttempt, [Next]_vars,
                    NEW r \in Run, NEW s \in EdgeStep,
                    jobAttempt'[r][s] # NoAttempt
             PROVE  Agrees(r, s)'
  BY DEF JobsOfTheAttempt
<1>1. CASE jobAttempt'[r][s] = jobAttempt[r][s]
  <2>1. status[r] \in Past \/ jobAttempt[r][s] \in cancelledBy[r]
    BY <1>1 DEF IInv, JobsOnlyAfterCentral
  <2>2. TypeOK /\ Agrees(r, s)
    BY <1>1 DEF IInv, JobsOfTheAttempt
  <2> QED BY <1>1, <2>1, <2>2, PastKeepsAttempt, CancelledByGrows
<1>2. ASSUME NEW w \in Worker, NEW t \in EdgeStep,
             PostJob(w, t) \/ PostFails(w, t),
             jobAttempt'[r][s] # jobAttempt[r][s]
      PROVE  Agrees(r, s)'
  <2>1. TypeOK /\ wrun[w] = r /\ jobAttempt'[r][s] = watt[w]
    BY <1>2, PostedAttempt DEF IInv
  <2>2. Owns(r, watt[w]) \/ watt[w] \in cancelledBy[r]
    BY <1>2, <2>1
    DEF PostersOwn, RuntimeCancelled, GoesOnPosting, PostJob, PostFails
  <2>3. UNCHANGED <<attempt, generation>>
    BY <1>2 DEF PostJob, PostFails, runRow
  <2> QED BY <2>1, <2>2, <2>3, CancelledByGrows DEF Owns
<1> QED BY <1>1, <1>2, JobsChange

(***************************************************************************)
(* The attempt that posts the jobs of a run is the run's last attempt and  *)
(* is never taken from it, whatever becomes of the worker or of the run:   *)
(* what ingest_internal_events compares always agrees with a job's report. *)
(* Excepted are the jobs of an attempt whose runtime has cancelled.        *)
(***************************************************************************)
THEOREM JobsKeepTheirAttempt == Spec => []JobsOfTheAttempt
<1>1. Init => PostersOwn /\ JobsOfTheAttempt
  BY DEF Init, TablesInit, WorkerInit, PostersOwn, GoesOnPosting,
         JobsOfTheAttempt
<1> QED
  BY <1>1, PostersOwnKept, JobsOfTheAttemptKept, Invariance, PTL DEF Spec

-----------------------------------------------------------------------------
(***************************************************************************)
(* SkillRun implements RunLifecycle: the workers, the handlers and the     *)
(* edge reports, whatever their interleaving, move a run only along its    *)
(* life cycle, and each execution of it has a number of its own.           *)
(***************************************************************************)
LEMMA RowAdvances ==
    ASSUME IInv, NEW r \in Run, RowStep(r)
    PROVE  Lifecycle!Advance(r) \/ Lifecycle!Stay(r)
<1>1. CASE Claimed(r)
  BY <1>1 DEF Claimed, Lifecycle!Advance, Lifecycle!Claim
<1>2. CASE Kept(r)
  BY <1>2 DEF Kept, Columns, Lifecycle!Stay
<1>3. CASE Asked(r)
  BY <1>3
  DEF Asked, AskFrom, Lifecycle!Advance, Lifecycle!Stay, Lifecycle!AskApproval,
      Lifecycle!Move, Lifecycle!Executed
<1>4. CASE Requeued(r) \/ Approved(r)
  BY <1>4
  DEF Requeued, Approved, Moved, Columns, ActiveRun, Lifecycle!Advance,
      Lifecycle!Requeue, Lifecycle!Approve, Lifecycle!Move, Lifecycle!Executed
<1>5. CASE \/ Moved(r, {"PREPARING"}, {"RUNNING"})
           \/ Moved(r, {"RUNNING"}, {"WAITING_EDGE"})
           \/ Moved(r, ActiveRun \cup Waits, {"CANCELLING"})
  BY <1>5
  DEF Moved, Columns, ActiveRun, Waits, Lifecycle!Advance, Lifecycle!Start,
      Lifecycle!WaitForEdge, Lifecycle!RequestCancel, Lifecycle!Move,
      Lifecycle!Executed
<1>6. CASE Ended(r)
  BY <1>6
  DEF Ended, EndedAgain, Moved, Columns, ActiveRun, Waits, Lifecycle!Advance,
      Lifecycle!Complete, Lifecycle!Fail, Lifecycle!Cancel, Lifecycle!Move,
      Lifecycle!QueuedAgain, Lifecycle!Executed, Lifecycle!Phase,
      Lifecycle!Ended
<1> QED BY <1>1, <1>2, <1>3, <1>4, <1>5, <1>6 DEF RowStep

(***************************************************************************)
(* Workers, leases, steps, edge jobs, cancellation and approval together   *)
(* implement the life cycle of RunLifecycle: every transaction of the code *)
(* is, for every run, a step of that life cycle or a stutter.              *)
(***************************************************************************)
THEOREM Refinement == Spec => ImplementsLifecycle
<1>1. Init => Lifecycle!Init
  BY DEF Init, TablesInit, Lifecycle!Init
<1>2. IInv /\ IInv' /\ [Next]_vars => [Lifecycle!Next]_(Lifecycle!vars)
  <2> SUFFICES ASSUME IInv, IInv', [Next]_vars PROVE Lifecycle!Next
    OBVIOUS
  <2>1. status' \in [Run -> Lifecycle!Phase] /\ generation' \in [Run -> Nat]
    BY DEF IInv, TypeOK, TablesTypeOK, RunRows, RunRowOK, RunStatus, Terminal,
           Lifecycle!Phase, Lifecycle!Ended
  <2>2. \A r \in Run : Lifecycle!Advance(r) \/ Lifecycle!Stay(r)
    BY RowSteps, RowAdvances
  <2> QED BY <2>1, <2>2 DEF Lifecycle!Next
<1> QED
  BY <1>1, <1>2, Invariance, PTL DEF Spec, ImplementsLifecycle, Lifecycle!Spec
=============================================================================
