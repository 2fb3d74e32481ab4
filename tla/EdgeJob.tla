------------------------------ MODULE EdgeJob ------------------------------
(***************************************************************************)
(* How an edge job is executed.  The EdgeWorker of a node claims a job     *)
(* from the backend under a lease and a delivery generation, executes it,  *)
(* and reports its end; the backend relays the report to the agent before  *)
(* it commits the job's status.  A report that is not acknowledged is kept *)
(* in a spool directory and posted again.  The process may die, be shut    *)
(* down, lose a connection or the answer to its claim, or fail to renew    *)
(* its lease; the agent may be out of reach, or its answer be lost.        *)
(*                                                                         *)
(* post_edge_job_events reads the job, waits for the agent, and then       *)
(* writes what it has decided: three actions, with no lock held between.   *)
(* Reports of progress are left out: they write no column of the job, for  *)
(* no engine of an edge node yields the run.started that would.            *)
(***************************************************************************)
EXTENDS Naturals

CONSTANTS
    Job,           \* the jobs of one edge node, each of a run of its own
    Handler,       \* the executions of post_edge_job_events that may overlap
    NoJob,
    MaxDeliveries, \* how often a job is claimed
    MaxFaults      \* how many crashes, lost messages and stalls happen

ASSUME EdgeJobAssumption ==
    /\ NoJob \notin Job
    /\ MaxDeliveries \in Nat \ {0}
    /\ MaxFaults \in Nat

VARIABLES
    job,      \* edge_jobs: status, delivery_generation, cancel_requested_at
    lease,    \* its lease_until against the clock
    node,     \* the EdgeWorker: where it is, and what it works on
    spool,    \* the files in its spool directory
    posted,   \* the reports the backend is working on
    recorded, \* the reports among the agent's run_events
    step,     \* the agent's run_steps: the report that set the status
    open,     \* the jobs whose run is not terminal
    faults

jobVars   == <<job, lease>>
nodeVars  == <<node, spool>>
agentVars == <<recorded, step, open>>
vars      == <<jobVars, nodeVars, posted, agentVars, faults>>

Kind       == {"completed", "failed", "cancelled"}
Generation == 1 .. MaxDeliveries
Report     == [job : Job, generation : Generation, kind : Kind]
NoReport   == [job |-> NoJob, generation |-> 0, kind |-> "none"]

JobStatus == {"QUEUED", "CLAIMED", "COMPLETED", "FAILED"}
Ended     == {"COMPLETED", "FAILED"}

\* Seeded fault: a cancellation is written as a status of its own.
StatusAfterAny(report, status) ==
    IF report.kind = "completed" THEN "COMPLETED"
    ELSE IF report.kind = "failed" THEN "FAILED" ELSE "CANCELLED"

\* The status a report leaves its job with: a cancellation changes nothing.
StatusAfter(report, status) ==
    CASE report.kind = "completed" -> "COMPLETED"
      [] report.kind = "failed"    -> "FAILED"
      [] OTHER                     -> status

\* The loop starts over: the spool is listed again.
Polling(files) == [at |-> "spool", job |-> NoJob, generation |-> 0,
                   report |-> NoReport, files |-> files]

Free == [phase |-> "free", report |-> NoReport, client |-> "gone"]

Init ==
    /\ job = [j \in Job |->
                 [status |-> "QUEUED", generation |-> 0, cancel |-> "none"]]
    /\ lease = [j \in Job |-> "none"]
    /\ node = Polling({})
    /\ spool = {}
    /\ posted = [h \in Handler |-> Free]
    /\ recorded = {}
    /\ step = [j \in Job |-> NoReport]
    /\ open = Job
    /\ faults = 0

Fault == faults < MaxFaults /\ faults' = faults + 1

Executes(j) == node.at \in {"engine", "report"} /\ node.job = j

-----------------------------------------------------------------------------
(***************************************************************************)
(* The requests of the node.                                               *)
(***************************************************************************)
Post(h, report) ==
    /\ posted[h] = Free
    /\ posted' = [posted EXCEPT ![h] =
           [phase |-> "received", report |-> report, client |-> "waiting"]]

\* Seeded fault: only an acknowledged report leaves the spool.
SpoolAfterSuccess(answer) ==
    IF node.at = "report"
    THEN IF answer = "ok" THEN spool ELSE spool \cup {node.report}
    ELSE IF answer = "ok" THEN spool \ {node.report} ELSE spool

(***************************************************************************)
(* What the node does with the answer to the report it has posted.  A      *)
(* report of the running job that is not acknowledged goes to the spool.   *)
(* A spooled one is deleted when it is acknowledged and also when it is    *)
(* answered with 403, which _flush_spool takes for a preemption.           *)
(***************************************************************************)
SpoolAfter(answer) ==
    IF node.at = "report"
    THEN IF answer = "ok" THEN spool ELSE spool \cup {node.report}
    ELSE IF answer = "broken" THEN spool ELSE spool \ {node.report}

TakeAnswer(answer) ==
    /\ spool' = SpoolAfter(answer)
    /\ node' = Polling(IF node.at = "report" THEN SpoolAfter(answer)
                       ELSE node.files)

Answer(h, answer) ==
    /\ posted' = [posted EXCEPT ![h] = Free]
    /\ IF posted[h].client = "waiting"
       THEN TakeAnswer(answer) ELSE UNCHANGED nodeVars

-----------------------------------------------------------------------------
(***************************************************************************)
(* The loop of the node: start, _flush_spool, _claim_job, _execute_job.    *)
(***************************************************************************)
ReplayFile(h, report) ==
    /\ node.at = "spool" /\ report \in node.files
    /\ Post(h, report)
    /\ node' = [node EXCEPT !.at = "replay", !.report = report,
                            !.files = @ \ {report}]
    /\ UNCHANGED <<jobVars, spool, agentVars, faults>>

FlushDone ==
    /\ node.at = "spool" /\ node.files = {}
    /\ node' = [node EXCEPT !.at = "claim"]
    /\ UNCHANGED <<jobVars, spool, posted, agentVars, faults>>

\* Seeded fault: the lease alone decides, whatever the status.
ClaimableByLease(j) ==
    /\ job[j].status = "QUEUED" \/ lease[j] = "over"
    /\ job[j].generation < MaxDeliveries

\* Seeded fault: a job whose delivery was lost is not claimed again.
ClaimableOnce(j) ==
    /\ job[j].status = "QUEUED"
    /\ job[j].generation < MaxDeliveries

(***************************************************************************)
(* claim_edge_job.  A job whose cancellation was requested is claimed like *)
(* any other.  Which one of several is first (created_at) is left open.    *)
(***************************************************************************)
Claimable(j) ==
    /\ \/ job[j].status = "QUEUED"
       \/ job[j].status = "CLAIMED" /\ lease[j] = "over"
    /\ job[j].generation < MaxDeliveries

Deliver(j) ==
    /\ node.at = "claim" /\ Claimable(j)
    /\ job' = [job EXCEPT ![j].status = "CLAIMED", ![j].generation = @ + 1]
    /\ lease' = [lease EXCEPT ![j] = "live"]
    /\ UNCHANGED <<spool, posted, agentVars>>

Claim(j) ==
    /\ Deliver(j)
    /\ node' = [node EXCEPT !.at = "engine", !.job = j,
                            !.generation = job[j].generation + 1]
    /\ UNCHANGED faults

\* The answer is lost, or the node refuses the envelope of the command.
ClaimWithoutJob(j) ==
    /\ Deliver(j)
    /\ Fault
    /\ node' = Polling(spool)

NothingToClaim ==
    /\ node.at = "claim" /\ \A j \in Job : ~Claimable(j)
    /\ node' = Polling(spool)
    /\ UNCHANGED <<jobVars, spool, posted, agentVars, faults>>

\* _execute_job sends its last report, on behalf of the delivery it got.
Finish(h, kind) ==
    LET report == [job |-> node.job, generation |-> node.generation,
                   kind |-> kind]
    IN  /\ Post(h, report)
        /\ node' = [node EXCEPT !.at = "report", !.report = report]
        /\ UNCHANGED <<jobVars, spool, agentVars, faults>>

\* Seeded fault: an engine that ran into a timeout is reported as cancelled.
EndsOrTimesOut(h) ==
    /\ node.at = "engine"
    /\ \E kind \in Kind : Finish(h, kind)

EngineEnds(h) ==
    /\ node.at = "engine"
    /\ \E kind \in {"completed", "failed"} : Finish(h, kind)

\* The cancellation poll answers yes; the renewal would, after a preemption.
MustStop(j) ==
    \/ job[j].cancel = "requested"
    \/ job[j].status = "FAILED"
    \/ job[j].generation # node.generation

EngineCancelled(h) ==
    /\ node.at = "engine" /\ MustStop(node.job)
    /\ Finish(h, "cancelled")

NodeNext ==
    \/ \E h \in Handler, report \in Report : ReplayFile(h, report)
    \/ FlushDone
    \/ \E j \in Job : Claim(j)
    \/ NothingToClaim
    \/ \E h \in Handler : EngineCancelled(h)

-----------------------------------------------------------------------------
(***************************************************************************)
(* post_edge_job_events: the job is read, and the report of another        *)
(* delivery refused.                                                       *)
(***************************************************************************)
CheckReport(h) ==
    LET report == posted[h].report
    IN  /\ posted[h].phase = "received"
        /\ IF job[report.job].generation = report.generation
           THEN /\ posted' = [posted EXCEPT ![h].phase = "checked"]
                /\ UNCHANGED nodeVars
           ELSE Answer(h, "refused")
        /\ UNCHANGED <<jobVars, agentVars, faults>>

(***************************************************************************)
(* ingest_internal_events at the agent.  The delivery generation is not    *)
(* looked at there.  A new report of a terminal run is not recorded, and   *)
(* neither is a repeated one, whose effect on the step is repeated; all of *)
(* them are answered with success.  Whether the run ends with this step    *)
(* depends on its other steps.                                             *)
(***************************************************************************)
Ingest(report) ==
    IF report.job \in open \/ report \in recorded
    THEN /\ recorded' = recorded \cup {report}
         /\ step' = [step EXCEPT ![report.job] = report]
         /\ open' \in {open, open \ {report.job}}
    ELSE UNCHANGED agentVars

Relay(h) ==
    /\ posted[h].phase = "checked"
    /\ Ingest(posted[h].report)
    /\ posted' = [posted EXCEPT ![h].phase = "relayed"]
    /\ UNCHANGED <<jobVars, nodeVars, faults>>

\* Seeded fault: the status is committed although the relay has failed.
RelayFailsOpen(h) ==
    /\ posted[h].phase = "checked"
    /\ Fault
    /\ posted' = [posted EXCEPT ![h].phase = "relayed"]
    /\ UNCHANGED <<jobVars, nodeVars, agentVars>>

\* The agent is out of reach, or its answer is: rolled back, and 403.
RelayFails(h) ==
    /\ posted[h].phase = "checked"
    /\ Fault
    /\ Ingest(posted[h].report) \/ UNCHANGED agentVars
    /\ Answer(h, "refused")
    /\ UNCHANGED jobVars

\* The update is by primary key, whatever the row has become meanwhile.
CommitReport(h) ==
    LET report == posted[h].report
    IN  /\ posted[h].phase = "relayed"
        /\ job' = [job EXCEPT ![report.job].status = StatusAfter(report, @)]
        /\ Answer(h, "ok")
        /\ UNCHANGED <<lease, agentVars, faults>>

HandlerNext(h) ==
    \/ CheckReport(h)
    \/ Relay(h)
    \/ CommitReport(h)

-----------------------------------------------------------------------------
(***************************************************************************)
(* The clock, and the other actors.                                        *)
(***************************************************************************)
\* renew_edge_job_lease keeps the lease of a job that is being executed
LeaseLapses(j) ==
    /\ lease[j] = "live" /\ ~Executes(j)
    /\ lease' = [lease EXCEPT ![j] = "over"]
    /\ UNCHANGED <<job, nodeVars, posted, agentVars, faults>>

\* unless its requests fail for a minute.
RenewalsFail(j) ==
    /\ lease[j] = "live" /\ Executes(j)
    /\ Fault
    /\ lease' = [lease EXCEPT ![j] = "over"]
    /\ UNCHANGED <<job, nodeVars, posted, agentVars>>

Renew(j) ==
    /\ lease[j] = "over" /\ Executes(j)
    /\ job[j].generation = node.generation
    /\ lease' = [lease EXCEPT ![j] = "live"]
    /\ UNCHANGED <<job, nodeVars, posted, agentVars, faults>>

\* request_agent_edge_job_cancel, and the update in the cancel endpoint.
RequestCancel(j) ==
    /\ job[j].status \notin Ended /\ job[j].cancel = "none"
    /\ job' = [job EXCEPT ![j].cancel = "requested"]
    /\ UNCHANGED <<lease, nodeVars, posted, agentVars, faults>>

\* The run ends for another reason: its other steps, or a cancellation.
RunEnds(j) ==
    /\ j \in open
    /\ open' = open \ {j}
    /\ UNCHANGED <<jobVars, nodeVars, posted, recorded, step, faults>>

\* The node loses a connection, and the backend may have the request or not.
ConnectionBreaks(h) ==
    /\ posted[h].client = "waiting"
    /\ Fault
    /\ TakeAnswer("broken")
    /\ \/ posted' = [posted EXCEPT ![h].client = "gone"]
       \/ posted[h].phase = "received" /\ posted' = [posted EXCEPT ![h] = Free]
    /\ UNCHANGED <<jobVars, agentVars>>

Abandoned ==
    [h \in Handler |-> [posted[h] EXCEPT !.client = "gone"]]

\* The process dies and is started again.  The spool is all it has kept.
Crash ==
    /\ node.at # "spool"
    /\ Fault
    /\ node' = Polling(spool)
    /\ posted' = Abandoned
    /\ UNCHANGED <<jobVars, spool, agentVars>>

\* worker_task.cancel() of the shutdown is taken for a cancelled job.
ShutDown(h) ==
    LET report == [job |-> node.job, generation |-> node.generation,
                   kind |-> "cancelled"]
    IN  /\ \/ node.at = "engine"
           \/ node.at = "report" /\ node.report.kind # "cancelled"
        /\ Fault
        /\ posted[h] = Free
        /\ posted' = [Abandoned EXCEPT ![h] =
               [phase |-> "received", report |-> report, client |-> "waiting"]]
        /\ node' = [node EXCEPT !.at = "report", !.report = report]
        /\ UNCHANGED <<jobVars, spool, agentVars>>

Environment ==
    \/ \E j \in Job :
          \/ ClaimWithoutJob(j)
          \/ RenewalsFail(j)
          \/ Renew(j)
          \/ RequestCancel(j)
          \/ RunEnds(j)
    \/ \E h \in Handler :
          \/ RelayFails(h)
          \/ ConnectionBreaks(h)
          \/ ShutDown(h)
    \/ Crash

EngineNext == \E h \in Handler : EngineEnds(h)

Next ==
    \/ NodeNext
    \/ EngineNext
    \/ \E h \in Handler : HandlerNext(h)
    \/ \E j \in Job : LeaseLapses(j)
    \/ Environment

Spec == Init /\ [][Next]_vars

(***************************************************************************)
(* The poll loop goes on, the backend and the agent work on what they      *)
(* have received, and time passes.  The engine returns, because every      *)
(* connector call has a timeout.                                           *)
(***************************************************************************)
FairSpec ==
    /\ Spec
    /\ WF_vars(NodeNext)
    /\ WF_vars(EngineNext)
    /\ \A h \in Handler : WF_vars(HandlerNext(h))
    /\ \A j \in Job : WF_vars(LeaseLapses(j))

-----------------------------------------------------------------------------
Row == [status : JobStatus, generation : 0 .. MaxDeliveries,
        cancel : {"none", "requested"}]

Node == [at : {"spool", "replay", "claim", "engine", "report"},
         job : Job \cup {NoJob}, generation : 0 .. MaxDeliveries,
         report : Report \cup {NoReport}, files : SUBSET Report]

\* It executes a delivery of some job, and waits for a report to be answered.
NodeWorks ==
    /\ node.at \in {"engine", "report"} =>
           node.job \in Job /\ node.generation \in Generation
    /\ node.at \in {"replay", "report"} => node.report \in Report

Posted ==
    [phase : {"received", "checked", "relayed"}, report : Report,
     client : {"waiting", "gone"}] \cup {Free}

\* Every variable has its type.
TypeOK ==
    /\ job \in [Job -> Row]
    /\ lease \in [Job -> {"none", "live", "over"}]
    /\ node \in Node /\ NodeWorks
    /\ spool \subseteq Report
    /\ posted \in [Handler -> Posted]
    /\ recorded \subseteq Report
    /\ step \in [Job -> Report \cup {NoReport}]
    /\ open \subseteq Job
    /\ faults \in 0 .. MaxFaults

\* The outcomes of its job a run has been told.
Told(j) == {outcome \in Ended :
               \E report \in recorded :
                   report.job = j /\ StatusAfter(report, "none") = outcome}

(***************************************************************************)
(* A job the backend holds to be over was reported to the agent first:     *)
(* with that outcome, unless its run had ended before.  The relay of       *)
(* post_edge_job_events is meant to be fail-closed.                        *)
(***************************************************************************)
EndedMeansReported ==
    \A j \in open : job[j].status \in Ended => job[j].status \in Told(j)

(***************************************************************************)
(* A run is not told that its job was cancelled when nobody asked for it:  *)
(* as long as nothing goes wrong, a lease does not lapse under an engine,  *)
(* and no delivery takes over from another that could be stopped for it.   *)
(* It takes a fault, as the shutdown of the process, whose cancellation of *)
(* the task _execute_job takes for a cancelled job.                        *)
(***************************************************************************)
CancelledMeansAsked ==
    \A report \in recorded :
        report.kind = "cancelled" =>
            job[report.job].cancel = "requested" \/ faults > 0

(***************************************************************************)
(* The transport as JobDelivery describes it.                              *)
(***************************************************************************)
State(j) == CASE job[j].status = "QUEUED"  -> "waiting"
              [] job[j].status = "CLAIMED" -> "delivered"
              [] OTHER                     -> job[j].status

Delivery == INSTANCE JobDelivery WITH
    state  <- [j \in Job |-> State(j)],
    number <- [j \in Job |-> job[j].generation],
    told   <- [j \in Job |-> Told(j)],
    ended  <- Job \ open

ImplementsDelivery == Delivery!Spec

(***************************************************************************)
(* Whatever is lost, a job that is queued ends at last, unless somebody    *)
(* cancels it: a delivery whose report is lost is followed by another one. *)
(***************************************************************************)
JobEnds ==
    \A j \in Job :
        job[j].status = "QUEUED" ~>
            job[j].status \in Ended \/ job[j].cancel = "requested"

(***************************************************************************)
(* The spool does not fill up: it is empty again at some time.             *)
(***************************************************************************)
SpoolDrains == spool # {} ~> spool = {}
=============================================================================
