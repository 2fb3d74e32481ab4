---------------------------- MODULE RunDispatch ----------------------------
(***************************************************************************)
(* How a run gets from the backend to the agent, and back.  The backend    *)
(* commits a task together with a row of run_dispatch_outbox; a dispatcher *)
(* in every backend process claims rows under a lease and posts them to    *)
(* the agent, whose create_run answers a repeated request with the run it  *)
(* already has; a projector in every process copies the agent's status     *)
(* into the task.  The endpoints that cancel or resume an undelivered run  *)
(* write the same row and the same task.                                   *)
(*                                                                         *)
(* The ORM reads a row, and later updates by primary key the columns it    *)
(* has changed: whoever reads and writes across a request to the agent, or *)
(* a wait for the row, is two actions here.                                *)
(***************************************************************************)
EXTENDS Naturals

CONSTANTS
    Run,         \* the runs: a task each, with one row of the outbox
    Dispatcher,  \* the RunDispatchWorkers
    Projector,   \* the RunProjectionWorkers
    Request,     \* the executions of endpoints that may overlap
    NoRun,
    MaxRetries,  \* max_retries of a row
    MaxFaults,   \* how many timeouts, stalls and crashes may happen
    MaxRequests, \* how many endpoint calls are made
    Kinds        \* the endpoints that are called

ASSUME DispatchAssumption ==
    /\ NoRun \notin Run
    /\ MaxRetries \in Nat \ {0}
    /\ MaxFaults \in Nat /\ MaxRequests \in Nat
    /\ Kinds \subseteq {"cancel", "resume"}

VARIABLES
    outbox,   \* run_dispatch_outbox
    task,     \* hermes_tasks.status; "missing" is agent_run_not_found
    agentRun, \* runs.status at the agent
    late,     \* the runs with a request the agent may still serve
    claimed,  \* the lease_generation of the rows of a dispatcher's batch
    sending,  \* the row a dispatcher has read and posted
    answer,   \* the answer to its request
    looked,   \* the task a projector has read, and the agent's answer
    request,  \* the status of the row and the task an endpoint has read
    faults,
    requests

rows           == <<outbox, task>>
agent          == <<agentRun, late>>
dispatcherVars == <<claimed, sending, answer>>
requestVars    == <<request, requests>>
vars == <<rows, agent, dispatcherVars, looked, requestVars, faults>>

RunDispatchStatus ==
    {"PENDING", "DELIVERING", "DELIVERED", "DEAD_LETTER", "CANCELLED"}

Row == [status : RunDispatchStatus,
        generation : Nat,
        dispatcher : Dispatcher \cup {"none"},
        lease : {"none", "held", "expired"},
        retries : Nat,
        tool : {"remote_agent", "skill"}]

NewRow(tool) == [status |-> "PENDING", generation |-> 0,
                 dispatcher |-> "none", lease |-> "none", retries |-> 0,
                 tool |-> tool]

TaskStatus  == {"queued", "running", "completed", "failed", "cancelled",
                "missing"}
AgentStatus == {"none", "RUNNING", "COMPLETED", "CANCELLED"}

NotSending == [run |-> NoRun, row |-> NewRow("skill")]
NotLooking == [run |-> NoRun, task |-> "queued", agent |-> "none"]
NoRequest  == [kind |-> "none", run |-> NoRun, status |-> "PENDING",
               task |-> "queued"]

Init ==
    /\ outbox \in [Run -> {NewRow("remote_agent"), NewRow("skill")}]
    /\ task = [r \in Run |-> "queued"]
    /\ agentRun = [r \in Run |-> "none"]
    /\ late = {}
    /\ claimed = [d \in Dispatcher |-> [r \in Run |-> 0]]
    /\ sending = [d \in Dispatcher |-> NotSending]
    /\ answer = [d \in Dispatcher |-> "none"]
    /\ looked = [p \in Projector |-> NotLooking]
    /\ request = [q \in Request |-> NoRequest]
    /\ faults = 0
    /\ requests = 0

\* An update writes a column only if its value is not the one that was read.
Column(stored, read, new) == IF read = new THEN stored ELSE new

Fault == faults < MaxFaults /\ faults' = faults + 1

Batch(d) == {r \in Run : claimed[d][r] # 0}

-----------------------------------------------------------------------------
(***************************************************************************)
(* The dispatcher (class RunDispatchWorker).                               *)
(***************************************************************************)
\* Seeded fault: a row whose dispatcher is gone is not claimed again.
ClaimablePending(r) == outbox[r].status = "PENDING"

Claimable(r) ==
    \/ outbox[r].status = "PENDING"
    \/ outbox[r].status = "DELIVERING" /\ outbox[r].lease = "expired"

(***************************************************************************)
(* claim_pending.  Any set of claimable rows: next_retry_at, the batch     *)
(* size and SKIP LOCKED leave out the others.                              *)
(***************************************************************************)
ClaimPending(d) ==
    /\ Batch(d) = {}
    /\ \E S \in SUBSET {r \in Run : Claimable(r)} :
        /\ S # {}
        /\ outbox' = [r \in Run |->
               IF r \notin S THEN outbox[r]
               ELSE [outbox[r] EXCEPT !.status = "DELIVERING",
                                      !.dispatcher = d, !.lease = "held",
                                      !.generation = @ + 1]]
        /\ claimed' = [claimed EXCEPT ![d] = [r \in Run |->
               IF r \in S THEN outbox[r].generation + 1 ELSE 0]]
    /\ UNCHANGED <<task, agent, sending, answer, looked, requestVars, faults>>

\* The row still is what the dispatcher has claimed.
Confirmed(d, r) ==
    /\ outbox[r].status = "DELIVERING"
    /\ outbox[r].dispatcher = d
    /\ outbox[r].generation = claimed[d][r]

\* _poll_once reads the row again before it posts it.
Post(d, r) ==
    /\ sending[d] = NotSending /\ r \in Batch(d)
    /\ Confirmed(d, r)
    /\ sending' = [sending EXCEPT ![d] = [run |-> r, row |-> outbox[r]]]
    /\ answer' = [answer EXCEPT ![d] = "awaited"]
    /\ UNCHANGED <<rows, agent, claimed, looked, requestVars, faults>>

Skip(d, r) ==
    /\ sending[d] = NotSending /\ r \in Batch(d)
    /\ ~Confirmed(d, r)
    /\ claimed' = [claimed EXCEPT ![d][r] = 0]
    /\ UNCHANGED <<rows, agent, sending, answer, looked, requestVars, faults>>

Done(d) ==
    /\ claimed' = [claimed EXCEPT ![d][sending[d].run] = 0]
    /\ sending' = [sending EXCEPT ![d] = NotSending]
    /\ answer' = [answer EXCEPT ![d] = "none"]

(***************************************************************************)
(* deliver_entry looks at the lease and the generation of the row as it    *)
(* has read it, and at the time before the request.                        *)
(***************************************************************************)
Expired(d) == sending[d].row.lease = "expired"

\* Seeded fault: any answer of the agent counts as a delivery.
AnsweredAtAll == {"created", "refused"}

Success == {"created"}

Delivered(d) ==
    LET r == sending[d].run
    IN  /\ answer[d] \in Success
        /\ outbox' = IF Expired(d) THEN outbox
                     ELSE [outbox EXCEPT ![r].status = "DELIVERED",
                                         ![r].lease = "none"]
        /\ Done(d)
        /\ UNCHANGED <<task, agent, looked, requestVars, faults>>

Exhausted(n) == n >= MaxRetries

\* Seeded fault: a dead letter leaves the task open.
FailNoTask(row, r) == task

\* _fail_remote_agent_task_on_dead_letter
FailTask(row, r) ==
    IF row.tool = "remote_agent" /\ task[r] \in {"queued", "running"}
    THEN [task EXCEPT ![r] = "failed"] ELSE task

\* _record_failure: the retry count is that of the row as it was read.
RecordFailure(d, permanent) ==
    LET r == sending[d].run
        n == sending[d].row.retries + 1
        dead == permanent \/ Exhausted(n)
    IN  IF Expired(d) THEN UNCHANGED rows
        ELSE /\ outbox' = [outbox EXCEPT
                    ![r].status = IF dead THEN "DEAD_LETTER" ELSE "PENDING",
                    ![r].lease = "none", ![r].retries = n]
             /\ task' = IF dead THEN FailTask(sending[d].row, r) ELSE task

Refused(d) ==
    /\ answer[d] \in {"created", "refused"} \ Success
    /\ RecordFailure(d, TRUE)
    /\ Done(d)
    /\ UNCHANGED <<agent, looked, requestVars, faults>>

\* A request that has not been served may still be, when nobody waits for it.
Abandon(d) ==
    LET r == sending[d].run
    IN  late' = IF answer[d] = "awaited" /\ agentRun[r] = "none"
                THEN late \cup {r} ELSE late

\* No answer, or a 5xx: the agent may have served the request, or still may.
TimesOut(d) ==
    /\ answer[d] # "none"
    /\ Fault
    /\ RecordFailure(d, FALSE)
    /\ Abandon(d)
    /\ Done(d)
    /\ UNCHANGED <<agentRun, looked, requestVars>>

\* The process dies, or is shut down: a cancelled request writes nothing.
Crash(d) ==
    /\ Batch(d) # {}
    /\ Fault
    /\ Abandon(d)
    /\ claimed' = [claimed EXCEPT ![d] = [r \in Run |-> 0]]
    /\ sending' = [sending EXCEPT ![d] = NotSending]
    /\ answer' = [answer EXCEPT ![d] = "none"]
    /\ UNCHANGED <<rows, agentRun, looked, requestVars>>

\* A lease runs out when nobody works on the row,
LeaseExpires(r) ==
    /\ outbox[r].lease = "held"
    /\ \A d \in Dispatcher : ~(r \in Batch(d) /\ Confirmed(d, r))
    /\ outbox' = [outbox EXCEPT ![r].lease = "expired"]
    /\ UNCHANGED <<task, agent, dispatcherVars, looked, requestVars, faults>>

\* or when the batch takes longer than the lease.
Stall(r) ==
    /\ outbox[r].lease = "held"
    /\ Fault
    /\ outbox' = [outbox EXCEPT ![r].lease = "expired"]
    /\ UNCHANGED <<task, agent, dispatcherVars, looked, requestVars>>

-----------------------------------------------------------------------------
(***************************************************************************)
(* The agent.  create_run returns a run that exists as it is; it may also  *)
(* refuse a request (a schema or identity error, a 4xx).                   *)
(***************************************************************************)
\* Seeded fault: the idempotency key of the request is not looked up.
CreateAgain(r) == agentRun' = [agentRun EXCEPT ![r] = "RUNNING"]

Create(r) ==
    agentRun' = [agentRun EXCEPT ![r] = IF @ = "none" THEN "RUNNING" ELSE @]

AgentServes(d) ==
    /\ answer[d] = "awaited"
    /\ Create(sending[d].run)
    /\ answer' = [answer EXCEPT ![d] = "created"]
    /\ UNCHANGED <<rows, late, claimed, sending, looked, requestVars, faults>>

AgentRefuses(d) ==
    /\ answer[d] = "awaited"
    /\ answer' = [answer EXCEPT ![d] = "refused"]
    /\ UNCHANGED <<rows, agent, claimed, sending, looked, requestVars, faults>>

AgentServesLate(r) ==
    /\ r \in late
    /\ Create(r)
    /\ late' = late \ {r}
    /\ UNCHANGED <<rows, dispatcherVars, looked, requestVars, faults>>

\* The run ends, whatever its end is.
AgentEnds(r) ==
    /\ agentRun[r] = "RUNNING"
    /\ agentRun' = [agentRun EXCEPT ![r] = "COMPLETED"]
    /\ UNCHANGED <<rows, late, dispatcherVars, looked, requestVars, faults>>

-----------------------------------------------------------------------------
(***************************************************************************)
(* The projector (class RunProjectionWorker): sync_task_projection reads a *)
(* task that is not over and asks the agent for its run,                   *)
(***************************************************************************)
Active == {"queued", "running"}

Look(p, r) ==
    /\ looked[p] = NotLooking
    /\ task[r] \in Active
    /\ looked' = [looked EXCEPT ![p] =
                     [run |-> r, task |-> task[r], agent |-> agentRun[r]]]
    /\ UNCHANGED <<rows, agent, dispatcherVars, requestVars, faults>>

\* Seeded fault: the agent's status is stored as it is.
ProjectedAsIs(status) == status

\* status_map
Projected(status) ==
    CASE status = "RUNNING"   -> "running"
      [] status = "COMPLETED" -> "completed"
      [] status = "CANCELLED" -> "cancelled"

\* Seeded fault: a dead letter counts as a dispatch that goes on.
OpenOrDead == {"PENDING", "DELIVERING", "DEAD_LETTER"}

\* _dispatch_still_open
StillOpen == {"PENDING", "DELIVERING"}

(***************************************************************************)
(* and then writes what it has been told; a run that the agent does not    *)
(* know is given up (_stop_missing_agent_run) unless its row, which is     *)
(* read only now, is still to be delivered.                                *)
(***************************************************************************)
Project(p) ==
    LET r    == looked[p].run
        read == looked[p].task
        told == looked[p].agent
    IN  /\ looked[p] # NotLooking
        /\ \/ /\ told # "none"
              /\ task' = [task EXCEPT ![r] = Column(@, read, Projected(told))]
           \/ /\ told = "none" /\ outbox[r].status \notin StillOpen
              /\ task' = [task EXCEPT ![r] = "missing"]
           \/ /\ told = "none" /\ outbox[r].status \in StillOpen
              /\ UNCHANGED task
        /\ looked' = [looked EXCEPT ![p] = NotLooking]
        /\ UNCHANGED <<outbox, agent, dispatcherVars, requestVars, faults>>

-----------------------------------------------------------------------------
(***************************************************************************)
(* The endpoints.  Each reads the task and the row first.                  *)
(***************************************************************************)
Undelivered == {"PENDING", "DEAD_LETTER", "CANCELLED"}

\* resume_run knows no remote-agent task, and replays dead letters only.
Proceeds(kind, r) ==
    \/ kind = "cancel"
    \/ /\ kind = "resume"
       /\ outbox[r].tool = "skill" /\ outbox[r].status = "DEAD_LETTER"

Read(q, kind, r) ==
    /\ request[q] = NoRequest
    /\ requests < MaxRequests /\ requests' = requests + 1
    /\ Proceeds(kind, r)
    /\ request' = [request EXCEPT ![q] = [kind |-> kind, run |-> r,
                          status |-> outbox[r].status, task |-> task[r]]]
    /\ UNCHANGED <<rows, agent, dispatcherVars, looked, faults>>

Answered(q) ==
    /\ request' = [request EXCEPT ![q] = NoRequest]
    /\ UNCHANGED <<requests, dispatcherVars, looked, faults>>

CancelTask(q) ==
    task' = [task EXCEPT ![request[q].run] =
                 Column(@, request[q].task, "cancelled")]

\* An undelivered run is cancelled in the backend only.
CancelLocally(q) ==
    LET was == request[q].status
    IN  /\ request[q].kind = "cancel" /\ was \in Undelivered
        /\ outbox' = [outbox EXCEPT ![request[q].run].status =
                          Column(@, was, "CANCELLED")]
        /\ CancelTask(q)
        /\ Answered(q) /\ UNCHANGED agent

(***************************************************************************)
(* Otherwise the agent is asked, which leaves a run alone that is over and *)
(* answers 404 if it has none.  cancel_remote_agent_run then ends the task *)
(* itself; after cancel_run the projector does.                            *)
(***************************************************************************)
CancelAtAgent(q) ==
    LET r == request[q].run
    IN  /\ request[q].kind = "cancel"
        /\ request[q].status \notin Undelivered
        /\ agentRun' = [agentRun EXCEPT ![r] =
                            IF @ = "RUNNING" THEN "CANCELLED" ELSE @]
        /\ IF outbox[r].tool = "remote_agent" /\ agentRun[r] # "none"
           THEN CancelTask(q) ELSE UNCHANGED task
        /\ Answered(q) /\ UNCHANGED <<outbox, late>>

\* resume_run of a dead letter: the row is queued again, the task is left.
Resume(q) ==
    /\ request[q].kind = "resume"
    /\ outbox' = [outbox EXCEPT ![request[q].run].status = "PENDING",
                                ![request[q].run].retries = 0]
    /\ Answered(q) /\ UNCHANGED <<task, agent>>

-----------------------------------------------------------------------------
DispatcherStep(d) ==
    \/ ClaimPending(d)
    \/ \E r \in Run : Post(d, r) \/ Skip(d, r)
    \/ Delivered(d)
    \/ Refused(d)

RequestStep(q) ==
    CancelLocally(q) \/ CancelAtAgent(q) \/ Resume(q)

AgentAnswers(d) == AgentServes(d) \/ AgentRefuses(d)

Next ==
    \/ \E d \in Dispatcher :
           DispatcherStep(d) \/ AgentAnswers(d) \/ TimesOut(d) \/ Crash(d)
    \/ \E r \in Run :
           LeaseExpires(r) \/ Stall(r) \/ AgentServesLate(r) \/ AgentEnds(r)
    \/ \E p \in Projector : Project(p) \/ \E r \in Run : Look(p, r)
    \/ \E q \in Request :
           RequestStep(q) \/ \E kind \in Kinds, r \in Run : Read(q, kind, r)

Spec == Init /\ [][Next]_vars

(***************************************************************************)
(* The dispatchers keep polling, the agent answers requests and its runs   *)
(* end, the clock passes lease_until, a projector goes through all tasks   *)
(* that are not over, and an endpoint that has read goes on.               *)
(***************************************************************************)
Fairness ==
    /\ \A d \in Dispatcher :
           WF_vars(DispatcherStep(d)) /\ WF_vars(AgentAnswers(d))
    /\ \A r \in Run : WF_vars(LeaseExpires(r)) /\ WF_vars(AgentEnds(r))
    /\ \A p \in Projector :
           WF_vars(Project(p)) /\ \A r \in Run : SF_vars(Look(p, r))
    /\ \A q \in Request : WF_vars(RequestStep(q))

FairSpec == Spec /\ Fairness

-----------------------------------------------------------------------------
TypeOK ==
    /\ outbox \in [Run -> Row]
    /\ task \in [Run -> TaskStatus]
    /\ agentRun \in [Run -> AgentStatus]
    /\ late \subseteq Run
    /\ claimed \in [Dispatcher -> [Run -> Nat]]
    /\ sending \in [Dispatcher -> [run : Run \cup {NoRun}, row : Row]]
    /\ answer \in [Dispatcher -> {"none", "awaited", "created", "refused"}]
    /\ \A d \in Dispatcher : answer[d] # "none" => sending[d].run \in Run
    /\ looked \in [Projector -> [run : Run \cup {NoRun}, task : TaskStatus,
                                 agent : AgentStatus]]
    /\ \A p \in Projector : looked[p] # NotLooking => looked[p].run \in Run
    /\ request \in [Request -> [kind : Kinds \cup {"none"},
                                run : Run \cup {NoRun},
                                status : RunDispatchStatus,
                                task : TaskStatus]]
    /\ \A q \in Request : request[q].kind # "none" => request[q].run \in Run
    /\ faults \in 0 .. MaxFaults
    /\ requests \in 0 .. MaxRequests

(***************************************************************************)
(* A row is DELIVERED only when the agent has the run, whoever wrote the   *)
(* row last: a dispatcher whose lease has run out included.                *)
(***************************************************************************)
DeliveredMeansCreated ==
    \A r \in Run : outbox[r].status = "DELIVERED" => agentRun[r] # "none"

(***************************************************************************)
(* The task of a remote-agent run whose dispatch has been given up is not  *)
(* left open, unless the agent has the run after all: whatever a projector *)
(* or an endpoint writes that has read the task before.                    *)
(***************************************************************************)
DeadLetterEndsTask ==
    \A r \in Run :
        outbox[r].tool = "remote_agent" /\ outbox[r].status = "DEAD_LETTER"
            => task[r] \notin Active \/ agentRun[r] # "none"

(***************************************************************************)
(* Dispatchers, projectors and endpoints together, with all they have read *)
(* before they write, hand every run over as RunHandover says: one run for *)
(* a claimed row, and a task that is completed only when its run is.       *)
(***************************************************************************)
Handover == INSTANCE RunHandover
    WITH entry  <- [r \in Run |-> outbox[r].status],
         epoch  <- [r \in Run |-> outbox[r].generation],
         run    <- agentRun,
         report <- task

ImplementsHandover == Handover!Spec

(***************************************************************************)
(* A row comes to an end although dispatchers die with it and answers get  *)
(* lost.                                                                   *)
(***************************************************************************)
EntrySettles ==
    \A r \in Run : outbox[r].status \in {"PENDING", "DELIVERING"} ~>
                   outbox[r].status \notin {"PENDING", "DELIVERING"}

(***************************************************************************)
(* No task stays open: its run is delivered, ends and is projected, or is  *)
(* given up, although the projector may undo an end that it has not seen.  *)
(***************************************************************************)
TaskEnds ==
    \A r \in Run : task[r] \in {"queued", "running"} ~>
                   task[r] \notin {"queued", "running"}

(***************************************************************************)
(* What the holder of a newer generation has delivered stays delivered     *)
(* when a dispatcher whose claim has been taken over comes to its end.     *)
(***************************************************************************)
OldHolderNeverOverwrites ==
    [][\A d \in Dispatcher, r \in Run :
          /\ sending[d].run = r /\ sending'[d] = NotSending
          /\ sending[d].row.generation < outbox[r].generation
          /\ outbox[r].status = "DELIVERED"
          => outbox'[r] = outbox[r]]_vars
=============================================================================
