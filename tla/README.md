# A TLA+ development of nodeskclaw

nodeskclaw runs *skills* (agent tasks) for organisations.  A user asks the
backend for a run; the agent service stores it, one of its worker processes
claims it under a lease and executes it with an engine; a *hybrid* run also has
steps that an edge node inside the customer's network executes.  What is hard
is that many actors move the same run at once: several workers, the recovery of
runs whose worker died, cancel requests, approvals, and reports of edge nodes
that come late, repeated or out of order.  The development models that protocol
first, and then the protocols beside it: the delivery of runs to the agent, the
edge node's job queue, the external tool calls of a run, and the ingestion of
documents into the knowledge service.

The documents of record in the repository are `lat.md/architecture/` and
the PRDs in `docs_agent/` and `docs_knowledge/`; all definitions come from the code, and where the
code keeps less than a document says, a run shows it (*Findings*).

## 1. Inventory

| part | state | operations | what is hard | what makes it correct |
|---|---|---|---|---|
| agent run store `nodeskclaw-agent/app/services/run_service.py` | `runs`, `run_attempts`, `run_steps`, `run_events`, artifacts, sessions | `create_run`, `set_status`, `append_event`, `update_step_state`, `aggregate_run_terminal`, `cancel_run`, `approve_run` | compare-and-set writes from several processes; decisions on unlocked reads | final statuses stay; the life cycle; `COMPLETED` only when every step succeeded |
| agent worker `…/services/worker.py` | the claimed run, its attempt and generation, `cancel_event`, an open transaction | poll: recover, claim; execute: start, plan, engine events, dispatch; three handlers; renewal and cancellation timers | crash, stall and shutdown at every await; leases; fencing | one owner; a stale worker is harmless; every run ends |
| agent internal API `…/api/internal_runs.py`, `…/main.py` | – | edge report ingestion, cancel, approve; lifespan shutdown | replays, reports after the end, row-lock order | reports act only on their attempt; replays do nothing new |
| backend runs API `nodeskclaw-backend/app/api/runs.py` | `edge_jobs.cancel_requested_at` | cancel: the agent first, then the run's edge jobs | the run dispatches meanwhile | every job is told |
| backend run dispatch `…/hermes_skill/run_dispatch_outbox_service.py`, projection `…/run_projection_updater_service.py` | `run_dispatch_outbox`: status, lease, generation, retries; `hermes_tasks.status` | claim, deliver, retry, dead-letter; project; cancel or resume what is undelivered | dispatchers that die, stall or lose an answer; rows and tasks read long before they are written | a delivered row has its run; every row and task comes to an end; an old claim changes nothing |
| backend edge jobs `…/api/internal_edge.py`, `…/connector/edge_node_service.py` | `edge_jobs`: status, lease, delivery generation; installations; node identity | enqueue, claim, report, retract | re-delivery; lost answers; two generations at once | one outcome per job; a stale delivery changes nothing |
| edge worker `nodeskclaw-agent/app/services/edge_worker.py` | spool of unsent events, current job, installations, identity | poll, execute, report, flush spool, install, rotate identity | offline, restart, rejected events | every end is reported; the reported installation is the real one |
| MCP tool calls: agent `…/api/agent_tools_mcp.py`, `…/services/agent_tool_gateway.py`; backend `…/api/internal_skill_agent.py`, `…/external_action/execution_ledger.py` | approval and result events of the run; `external_action_executions` | call, ask for approval, decide, reserve, execute, finish | retries after lost answers, two calls or two decisions at once, a crash around the provider's action | an action at most once per call; only what was allowed; no success that did not happen |
| knowledge ingestion `nodeskclaw-knowledge/app/services/ingestion_service.py`, `ingestion_facade.py`, `source_file_service.py`, `workers/` | source files, versions, ingestion jobs with leases; RAGFlow's documents | upload, reparse, cancel, activate, delete; claim, poll, finalize; sweep | slow requests with rows read long ago, leases outlived, a second system without transactions | the active version was parsed; only the lease's owner publishes; a superseded version cannot be found |
| engines `hermes_engine.py` … | a remote runtime run | start, stream, approve, stop | the runtime outlives the worker | events are translated faithfully |
| runtime messaging `nodeskclaw-backend/app/services/runtime/messaging/` | queue rows with leases, retries, dead letters; circuit breakers | enqueue, claim, ack, retry, recover | consumers that die, retries | no message is lost or handled by two at once |
| task orchestrator, task service, index builds | tasks and workflows around runs; dispatch records; build jobs | dispatch, poll, reconcile, retry | a run ends while its task is changed | a task follows its run; one build at a time |
| tunnel, channels, ACP adapter, LLM proxy, bridge, portal | connections and requests in flight | connect, reconnect, forward | reconnects | requests are answered or failed once |

Components interact so:

```
 portal / tasks ─► backend runs API ──HTTP──► agent internal API ──► run store ◄── workers ──► engine
                        │                          ▲                                  │
                        └──► edge_jobs ◄── claim / report ── edge worker              │
                               ▲        (reports forwarded to the agent)              │
                               └──────────────── enqueue, retract ◄───────────────────┘

 runtime ──MCP──► agent tool endpoint ──► approval ──► backend ledger ──► tool provider
 members ──► knowledge service ◄── ingestion workers, sweep ──► RAGFlow
```

The run store is the only memory the agent's processes share; the workers and
the API handlers communicate through its rows alone.  `PROJECT.json` lists every
component with its status, and under `hazards` the places in the code where
order, failure or staleness can hurt, each with the properties that cover it or
the reason why none does yet.

## 2. Modules

| module | models | extends |
|---|---|---|
| `RunTables` | the rows of `runs`, `run_attempts`, `run_steps`, `edge_jobs` and the accepted edge events; the WHERE clauses (`Owns`, `CanAppend`); `aggregate_run_terminal` as an operator | – |
| `RunWorker` | class `RunWorker` of `worker.py`: one action per transaction or HTTP call, the environment's faults | `RunTables` |
| `RunControl` | `cancel_run` and the backend's cancel endpoint, `approve_run`, `ingest_internal_events` | `RunWorker` |
| `SkillRun` | the composition, its fairness and its properties | `RunControl` |
| `RunLifecycle` | the abstract specification: the life cycle of `runs.status` and the execution number | – |
| `MCSkillRun` | symmetry for TLC | `SkillRun` |
| `SkillRunTypes`, `SkillRunSafety`, `SkillRunCompletion`, `SkillRunCancel` | theorems and proofs | `SkillRun`, `TLAPS` |
| `RunDispatch` | the way of a run from the backend to the agent and back: outbox, dispatchers, projector, cancel and resume of undelivered runs | – |
| `RunHandover` | abstract: what the hand-over of a run promises | – |
| `RunDispatchProofs` | theorems and proofs | `RunDispatch`, `TLAPS` |
| `EdgeJob` | the edge node's process with its spool, and the backend's job queue and report endpoint | – |
| `JobDelivery` | abstract: what the edge transport promises of a job | – |
| `EdgeJobProofs` | theorems and proofs | `EdgeJob`, `TLAPS` |
| `ToolCall` | the external tool calls of a run: MCP endpoint, approval, backend, ledger, provider | – |
| `ActionLedger` | abstract: what the ledger promises of one call | – |
| `MCToolCall`, `ToolCallProofs` | the calls of TLC's instance; theorems and proofs | `ToolCall` |
| `Ingestion` | the versions of a source file: member requests, workers, RAGFlow's documents, the sweep | – |
| `VersionPublishing` | abstract: who may publish which version | – |
| `IngestionProofs` | theorems and proofs | `Ingestion`, `TLAPS` |

`RunDispatch` stands beside `SkillRun`, not above it: of the agent's run it needs
only that it exists, is cancelled or has ended, and `SkillRun` starts with runs
that have been delivered.  `RunHandover` is what it promises to those on both sides, the
user who looks at the task and the agent that holds the run.  `EdgeJob` details what `SkillRun` leaves to the
environment, an edge node whose reports come in any order, any number of times:
there the reports have a node, a spool and a delivery generation behind them,
and the run is only what they are relayed to.  `SkillRun` lets an edge node report a
cancellation nobody has asked for only as a fault; that the code behind it does so
is `CancelledMeansAsked` of `EdgeJob`.  `ToolCall` stands beside the run model in
the same way: of the run it has the status and the generation.  `Ingestion`
shares nothing with the others.

### State

`status`, `attempt`, `generation` and `lease` are the columns of `runs`
(`attempt` is `attempt_id`, written as the number of the attempt, 0 for NULL).
`tail` is what recovery reads of the last event of the run: `waiting` when it
asks for an approval, `interrupted` when it carries the runtime's error code,
`plain` otherwise.  `liveAttempts` are the open `run_attempts` rows,
`boundAttempts` those bound to a runtime run; `cancelledBy` are the attempts whose runtime has
reported, in an accepted event, that it cancelled.  `step` holds `run_steps.status`;
`jobAttempt` and `cancelRequested` hold `edge_jobs`; `reported` is the set of
accepted edge events, keyed by `source_event_id`.  A worker's `pc` says between which
two commits of `start`/`_execute` it is; `wrun`, `watt`, `stop`, `todo`, `held`
are its locals (`claimed`, `cancel_event`, the dispatch loop's remaining
steps, and the steps of its open transaction).  `cancelPc` and `cancelSeen` hold a
cancel request between its unlocked read and its writes; `approving` counts the approve requests
that have found the run waiting with no runtime behind it and have not written yet.

### Actions and code

| action | code |
|---|---|
| `RecoverStaleRuns`, `RecoveryRefused` | `_recover_stale_runs`: one transaction over all stale runs, then aggregation of `WAITING_EDGE` and `CANCELLING` runs |
| `ClaimOne`, `NothingToClaim` | `_claim_one` |
| `RenewLease`, `RenewFenced`, `CancelCheck` | the renewal and cancellation timers of `_execute` |
| `StartRun`, `PersistPlan`, `MarkCentralRunning` | `_execute` up to the engine |
| `Trace`, `AskApproval`, `EngineCompletes(Hybrid)`, `EngineFails`, `EngineCancelled` | the engine's events, each its own commit |
| `DispatchCheck`, `PostJob`, `PostFails`, `MarkDispatched`, `RetractJob`, `RetractFails`, `CommitDispatch` | the dispatch loop of a hybrid run |
| `WriteRefused`, `HandleError`, `HandleDenied`, `HandleCancelled` | a `RuntimeError` from the run store and the three `except` branches |
| `Crash`, `Shutdown`, `LeaseExpires`, `WorkerStalls`, `DenyContext` | the environment |
| `CancelRead`, `CancelWaitingEdge`, `CancelRunning`, `CancelApproval`, `CancelOvertaken`, `CancelImmediate`, `CancelMarkJobs` | `cancel_run`: the read, one action per branch (`CancelOvertaken` is the request to the runtime when the run has moved on and no row is locked), and the backend's update of the jobs |
| `ApproveRead`, `ApproveWrite` | `approve_run` of a run no runtime holds: the read of the run and of its binding, then the write |
| `IngestEdgeEvent` | `ingest_internal_events` |

In `RunDispatch`:

| action | code |
|---|---|
| `ClaimPending` | `claim_pending` and its commit |
| `Post`, `Skip` | `_poll_once`: the second read of a claimed row, then the request |
| `Delivered`, `Refused`, `TimesOut` | `deliver_entry` with the answer (2xx, permanent 4xx, anything else), `_record_failure`, `_fail_remote_agent_task_on_dead_letter`, commit |
| `Crash`, `Stall`, `LeaseExpires` | the environment |
| `AgentServes`, `AgentRefuses`, `AgentServesLate`, `AgentEnds` | the agent's `create_run`, and the end of its run |
| `Look`, `Project` | `sync_task_projection`: the task and the agent's answer, then the outbox and the write |
| `Read`, then `CancelLocally`, `CancelAtAgent` or `Resume` | `cancel_run`, `cancel_remote_agent_run`, `resume_run` |

`outbox` is the row (`generation` is `lease_generation`; `lease` is `lease_until`
in the future, in the past or NULL), `task` the task's status (`missing` is FAILED
with the code `agent_run_not_found`), `claimed`, `sending` and `answer` what a dispatcher
holds, `looked` what a projector holds, `request` what an endpoint has read.

In `EdgeJob` (the node is one sequential process):

| action | code |
|---|---|
| `ReplayFile`, `FlushDone` | `_flush_spool` at the head of the loop of `EdgeWorker.start` |
| `Claim`, `ClaimWithoutJob`, `NothingToClaim` | `_claim_job` and the backend's claim; the answer may be lost |
| `EngineEnds`, `EngineCancelled` | the end of `_execute_job`, by itself or after the cancellation or renewal loop (`MustStop`) |
| `Answer` | `_send_or_spool_event`, `_flush_spool`: what the node does with an answer |
| `CheckReport`, `Relay`, `RelayFails`, `CommitReport` | `post_edge_job_events`: reads, request to the agent, write |
| `Renew`, `LeaseLapses`, `RenewalsFail` | lease renewal, the clock |
| `RequestCancel`, `RunEnds`, `ConnectionBreaks`, `Crash`, `ShutDown` | the environment |

`job` and `lease` are the row of `edge_jobs`; `node` where the process is;
`spool` its directory; `posted` the report requests the backend is working on;
`recorded`, `step`, `open` what the agent has of them.

In `ToolCall`:

| action | code |
|---|---|
| `CallRead`, `CallAsks`, `CallFails` | `_call_tool`: what it reads, then the approval it asks for |
| `Deny`, `DenyWrite`, `Allow`, `AllowWrite` | `complete_connector_approval` before and after the backend's answer |
| `BackendRefuses`, `Find`, `Insert`, `MarkUnknown` | the endpoint's checks and `ExecutionLedger.reserve` with its insert race |
| `Execute`, `FinishReads`, `FinishWrites` | the provider, and `ExecutionLedger.finish` |
| `AgentGivesUp`, `BackendCrashes`, `NextAttempt`, `RunMoves`, `Withdraw` | timeouts, crashes, and the run beside it |

`asked` and `results` are the run's connector events, `caller` and `decider`
what a request has read, `ledger` the rows, `performed` (a ghost) what the
provider did, `allowed` (a ghost) what the user said.

In `Ingestion`:

| action | code |
|---|---|
| `Claim`, `Look`, `Poll`, `DisableReplaced`, `Finalize` | `claim_job` and its commit; the rows `process_one_job` reads; RAGFlow's answer and the decision; disabling the replaced document; `finalize_leased_job` |
| `BeginUpload` … `BeginDelete`, then `Ask…` and `Upload`, `Reparse`, `Retry`, `Cancel`, `Activate`, `Delete` | the member's requests: the read, the request to RAGFlow, the commit; `Abandon` when RAGFlow refuses |
| `SweepStarts`, `SweepDisables`, `SweepMisses`, `SweepDeletes`, `SweepCommits` | the reconciliation pass over superseded documents and pending deletes |
| `DocStarts`, `DocEnds` | RAGFlow |
| `LeaseEnds`, `LeaseOutlived`, `Crash`, `SweepCrashes` | the clock, a request longer than the lease, the end of a process |

`file`, `parse`, `job` are the rows, `live` the jobs whose lease has not lapsed,
`doc` RAGFlow's documents, `parsed` (a ghost) those that once had chunks; `work`,
`request`, `sweep` what a session has read and is going to write.

`map` in `PROJECT.json` gives the lines of every definition.

### Abstractions, and why they are sound

- *Transactions.*  An action is a commit or an HTTP call.  Where the code reads without a
  lock and writes later (`cancel_run`, `approve_run`), the read is an action of its own; where
  the write repeats the condition (claim) or is fenced and
  terminal-tested afterwards (`MarkDispatched`), both are one action.  The write of `approve_run`
  repeats the status it has read but not that no runtime is bound.  A replayed
  edge report aggregates without a lock; the expected status of the final write
  makes that equivalent to one step.
- *Row locks.*  A worker in the dispatch loop holds row locks on the steps it has set to
  `DISPATCHED`.  A handler that needs such a row waits, or forms a deadlock with
  a worker that is about to commit and PostgreSQL aborts one of them: `AbortHolders`.
- *SKIP LOCKED.*  Recovery handles all stale runs in one step; a run that another
  transaction has locked would be handled by the next poll.
- *The clock.*  `lease_until` is in the future, in the past or NULL.  It passes
  when no live owner is left, when the run is in a status in which `_renew_lease` matches no
  row, or, as a fault, while the owner is stalled.
- *Claim order* (`created_at`) is nondeterministic.
- *Approvals.*  For a bound attempt `approve_run` only relays the choice to the
  runtime, which changes no row.  Two approvals of a run with the same `approval_id` meet at the unique
  index of `run_approvals`, but only after both have read the run, and every request
  may name an id of its own: they overlap freely in the model.  `RESUMING` lives only inside a transaction;
  `PAUSED`, `SUSPENDED` and `TIMED_OUT` are never written to `runs.status`, so
  `resume_run` does nothing.  Approvals of remote-agent connectors are not modelled.
- *Cancel requests* of one run follow each other in the model and do not overlap; each overlaps with
  everything else.
- *Recovery's* branch for a run whose last event asks for approval is translated but not reachable: such
  an event and the status `WAITING_APPROVAL` are one commit, and recovery selects `PREPARING` and `RUNNING`.
- *The runtime* may report that it has cancelled its run because the worker or `cancel_run` told it to, or of its
  own accord; the second is a fault (`"cancelled"`), so there are at most `MaxFaults` of them.
- *Plan.*  All steps are required and none names `required_artifacts`, so the
  artifact gate of the aggregation never applies.
- *Reports.*  An edge node may send the reports of a job in any order and any
  number of times.  The edge node's clock makes a redelivered report a new event;
  it differs from a replay only in `tail`.  A report that the agent refuses rolls
  the backend's job back too (`internal_edge.py:579-583`).
- *Shutdown* ends in the cancellation handler, which swallows the
  `CancelledError`; the process then restarts.
- *The ORM* (`RunDispatch`).  A session writes by primary key the columns whose
  value differs from the one it has read (`Column`), whatever the row holds by
  then.  A read and a write with only a commit between them are one action, and
  so are the agent's cancel and the task update that follows it.
- *Outbox.*  `next_retry_at`, the batch size and the order of a batch are nondeterministic.
  Every run has one row and an idempotency key of its own; approvals count as `queued`.
- *Edge-only runs* (`EdgeOnlyRun`) are never selected by `_claim_one`; the
  instances have none.
- *Edge jobs.*  Reports of progress and artifact uploads write no column of the
  job: no engine of an edge node yields `run.started`.  Every job has a run of
  its own; the order of claims is nondeterministic; a report to a terminal run
  is recorded as a rejection and answered with success.  The agent does not look at the
  delivery generation.  A crash while the spool is listed equals listing it again.
  Deployments that relay no reports (`SKILL_AGENT_ENABLED` off) are left out.
- *Tool calls.*  The agent's handlers are one transaction per request.  A call
  that is answered without a write has no action.  An approval's id is its position
  in `asked`.  A call carries its id, the tool and the digest of its arguments; as in the code, only
  the first and the last of the three are compared.  The provider may act and answer with an error.
- *Ingestion.*  One file.  The ORM's sessions write the columns they have changed, on
  whatever the rows have become; row locks between a flush and its commit delay a write
  and are not modelled; `validating` is never committed.  A second upload waits for
  the unique index of version numbers.  Metadata that does not match is one of the
  poll's verdicts.  Workers are alike, so the first free one claims.  A lease is outlived only during
  a request to RAGFlow (timeouts of 60 s, three tries, a lease of 30 s without heartbeat).

## 3. Properties and runs

| run | instance | shows |
|---|---|---|
| `central` | 2 workers, 1 run created with `requires_approval`, 1 fault, 2 cancel requests, 2 overlapping approvals; about 404,000 states | `TypeOK`, `SingleOwner`, `OneLiveAttempt`, `NoRunIsLost`, `TerminalIsFinal`, `CancellingNeverResumes`, `StaleAttemptNeverMovesRun`, `ImplementsLifecycle` |
| `hybrid` | 2 workers, 1 hybrid run with 2 edge steps, 1 fault, 1 cancel request; about 1,020,000 states | `JobsOnlyAfterCentral`, `JobsOfTheAttempt`, `CompletedMeansReported`, `CancelReachesJobs`, `ImplementsLifecycle` |
| `liveness` | 2 workers, 1 central run, 2 faults, 1 cancel request; about 58,500 states, no symmetry | `QueuedRunEnds`, `CancellingEnds` |
| `dispatch` | 2 dispatchers, 1 projector, 1 run with either tool, 2 faults, 1 cancel or resume; about 305,000 states | `TypeOK`, `DeliveredMeansCreated`, `DeadLetterEndsTask`, `ImplementsHandover`, `EntrySettles`, `TaskEnds` |
| `edge_job` | 1 job claimed up to 3 times, 2 handlers, 2 faults; about 220,000 states | `TypeOK`, `EndedMeansReported`, `CancelledMeansAsked`, `ImplementsDelivery`, `JobEnds`, `SpoolDrains` |
| `tool_call` | 2 calls under one id, 2 tools, 2 digests, 2 deciders, 2 generations, 2 approvals, 1 upset; about 797,000 states | `TypeOK`, `OkMeansPerformed`, `PerformedMeansAllowed`, `WaitingMeansOpen`, `ImplementsLedger`, `ApprovalsAreDecided` |
| `ingestion` | 2 workers, 1 member request, 2 versions, 3 jobs, 2 attempts, 1 slip; about 1,038,000 states | `TypeOK`, `ActiveWasParsed`, `ActiveHasVersion`, `ImplementsPublishing` |
| `ingestion_ends` | the same with 2 jobs, 1 attempt and parses that succeed; about 72,000 states | `JobEnds`, `SupersededGoesDark` |
| `denial`, `waiting_edge`, `cancelling` | 1 worker, 1 run | a violation each: *Findings* |
| `stale_dispatcher` | 2 dispatchers, 1 projector, 1 run, no requests | a violation: *Findings* |

`SingleOwner` says that of all workers executing a run at most one passes the
fence; `StaleAttemptNeverMovesRun` that the others do not move it.
`OneLiveAttempt` says that taking a run away also closes its attempt row; excepted is the
one way on which the code leaves the row open, a late approval (finding *late approval* below).
`NoRunIsLost` relates four columns that different transactions write: a queued run is one that
`_claim_one` selects, at once or, after a late approval, when its lease has run out, a run in execution one that
recovery selects when its lease has run
out; between the two a run would be executed by nobody and found by nobody.
`JobsOnlyAfterCentral` says that no recovery, claim or approval repeats the
central part of a run that has edge jobs, and `JobsOfTheAttempt` that the run stays with the attempt
its jobs name, on which the acceptance of every edge report depends; both except the jobs of an attempt
that the runtime has reported as cancelled, which ends the central step and not the run.  `CompletedMeansReported` relates
`COMPLETED` to the reports the agent has accepted, `CancelReachesJobs` a carried-out
cancellation to every job posted before or meanwhile.  `ImplementsLifecycle` is
the refinement of `RunLifecycle`: it fixes which status may follow which and
that only a claim advances the execution number.  Its two exceptions carry names of their own there: a
run that is queued *again* may still be ended by its earlier execution (`QueuedAgain`), and a gated run may be
cancelled by a request that found it waiting.

In `RunDispatch`, `DeliveredMeansCreated` holds although dispatchers with lost
claims may still write, because what they write is true of the agent;
`DeadLetterEndsTask` relates the row, the task and the agent's run across late
projections and requests; `ImplementsHandover` is the refinement of `RunHandover`: a
run is created once and never without a claim, an entry is delivered only when its run exists and given up
only after a claim, and a task is told what its run was, late perhaps, but not more; `EntrySettles` and `TaskEnds` say that nothing is left open
by a dispatcher that died or by a projection that undid an end.

In `EdgeJob`, `EndedMeansReported` says that the backend never holds a job to be over
before the agent was told so, with the relay failing or the run ending at any
point; `CancelledMeansAsked` that a run is not told of a cancellation nobody has asked
for, unless something has gone wrong; `ImplementsDelivery` that a job is handed out under growing numbers until
it is settled and never again; `JobEnds` and `SpoolDrains` that lost reports and
crashes delay both and stop neither.

In `ToolCall`, `OkMeansPerformed` relates the result the run is told to what the
provider did under this call id with the very arguments, and that to an approval the user has allowed; it is
the very tool only while the runtime does not use one id and equal arguments for two tools, which the
code does not compare.  `PerformedMeansAllowed` relates what the provider did, tool and arguments, to
what the user allowed, `WaitingMeansOpen` says that a run is never left waiting with no approval to decide,
`ImplementsLedger` makes it at most once for a call of a
generation, and `ApprovalsAreDecided` says that a lost answer does not leave an
approval open.

In `Ingestion`, `ActiveWasParsed` and `ImplementsPublishing` hold although sessions
write what they have decided on rows read long before: a worker's commit is
tied to its lease, and every other commit decides by what was parsed.  `ActiveHasVersion` ties
the two columns of the file that are written apart: members never see an active file without
a version.  `JobEnds` and
`SupersededGoesDark` say that neither a job nor a replaced document is forgotten.

**Bounds.**  Two workers are enough for an owner and a stale one, and one fault
for an attempt to be lost and repeated beside a worker that does not know it; a late approval takes an
attempt away without a fault, so that `central` has three attempts of one run.  `liveness` has two faults.  One run is enough because no guard of
a run reads another run's row (only recovery's transaction spans runs).  A gated
run adds the approval to the same life cycle.  Two edge steps are the least
with "one posted, one not yet".  Two cancel requests are the least with a second one
after the first, two approvals the least in which one is overtaken by the other.  `MaxFaults`,
`MaxCancels` and `MaxApprovals` bound the environment only, never the code: no counter of the program is cut.  The theorems of section
4 do not depend on the bounds.  Symmetry is used in the safety runs only.

**Fairness** (`Fairness` in `SkillRun`).  A worker's poll loop runs for ever and
its engine ends; PostgreSQL's clock passes a lease that nobody renews; the
handler of a request that has arrived is executed to its end; an edge node ends
a job it can claim and reports the end until it is accepted (job leases make the
job claimable again when a report is lost).  Nothing is assumed of faults,
timers, approvals or users.  `QueuedRunEnds` therefore also allows for a run the
user cancels and `CancellingEnds` for a behaviour with a fault: recovery does
not select `CANCELLING` runs, so a run whose worker died while it was being
cancelled may remain so.  The run `liveness` leaves out the runtime's approvals
(nobody has to answer them) and recovery's poison event (below).  A runtime that answers every attempt with
"cancelled" would have the run executed for ever (finding *unprompted cancellation*): as
a bounded fault it does not, and `QueuedRunEnds` says nothing of such a runtime.

In `RunDispatch` the dispatchers and the projector poll for ever, a projector goes
through all open tasks in each round, the agent answers requests and its runs end
(for a central run this is `QueuedRunEnds`; the hybrid runs of findings 2 and 3 are
exceptions that keep their tasks open too), and an endpoint that has read goes on.

**Bounds of `dispatch`.**  `MaxRetries` is 2 instead of 5: one retry and one dead letter
by exhaustion.  Two faults are needed for both, and for a claim to be taken over and
an answer lost.  One run is enough, since no guard of a row reads another row.

**Fairness and bounds of `edge_job`.**  The loop of the node goes round, its engine
ends (connector calls have timeouts of 60 s), the backend's handlers end, and a lease nobody renews
lapses; nothing is assumed of faults, cancellation or the end of the run.  Three
deliveries are two stale ones; two handlers let a spooled report overlap the next delivery's;
two faults lose a report and then its retry.  `MaxDeliveries` cuts a counter of
the code: every further delivery costs a fault, so three are all that two faults can need.

**Fairness and bounds of `tool_call`.**  Every request a decision waits for has a timeout
(60 s from backend to agent, 30 s from agent to backend and from backend to provider),
and the user decides an open approval, again when the decision failed.  Two calls under one id, the second with
another tool or with other arguments, two approvals and two decisions are the least for
each race; an upset is a lost answer, a crash, a withdrawn account, a new attempt or
the end of the run.  For more of each, the safety properties and `ImplementsLedger` are proved.

**Fairness and bounds of the ingestion runs.**  RAGFlow ends every parse, workers and the
sweep are processes that are restarted, a lease lapses, and claims are strongly fair
for each job because the queue is ordered by `next_run_at`; that a sweep's
disabling requests do not fail for ever is strong fairness of `SweepDisables`.  Two versions
are the replaced and the replacing one, three jobs leave room for a reparse, one slip is a
crash or an outlived lease.  Checked once: safety with three versions
(1.87 million states), liveness with one worker and two attempts.

**Deadlock** is checked in the runs of `SkillRun` (a worker can always poll) and in
`edge_job` (the node can).  In the others it is not: when every row or approval is
settled and the bounds are used up, there is nothing left to do.

**Mutants.**  Every property of a passing run has a mutant: an operator marked
"Seeded fault" beside the definition it replaces (a dropped terminal test, an
unfenced write, a missing attempt close, a too wide expected status …), which TLC
must find to violate the property.

## 4. Proofs

TLAPS checks the following for all sets of runs, workers and edge steps, and
all values of `MaxFaults`, `MaxCancels`, `MaxApprovals` and `Env`, from the assumptions
`PlacementAssumption`, `EdgeStepAssumption`, `WorkerAssumption` and
`RequestAssumption` only.

- `SkillRunTypes!TypeCorrect`: `TypeOK`.
- `SkillRunSafety!Invariance`: the inductive invariant `IInv`.  `SingleOwner`
  and the others are not inductive: that a worker is the only owner needs
  `generation` to be at least every attempt number a worker or an attempt row
  holds, and numbers of executing workers of a run to differ; that a run with a job is
  past its central part needs that the worker that posts is past it too, and
  that a run past its central part never becomes claimable.  `IInv` states these
  (`RunRows`, `Numbering`, `ClaimedFresh`, `StartedFirst`, `PostsWhenPast`, `PlannedFirst`, `PlanRows`), and what the
  requests between their read and their write can rely on: `ApproversKnow` (only a gated run has approvers that
  may still queue it) and `SeenStatus` (what became of the run a cancel request has read);
  each action preserves each conjunct, one proof step per action.
- From it `OwnerIsUnique`, `AttemptsAreClosed`, `CentralIsNotRepeated`, and the
  action properties `TerminalStays`, `CancellingStays`, `StaleAttemptIsHarmless`.
- `SkillRunSafety!RunsAreFound`: `NoRunIsLost`, from `IInv` and `LeasedRows`: a run has an attempt
  exactly when it has a lease, and an open row of that attempt while it is executed or may be again.
  `LeaseWriters` lists the steps that write any of the three.
- `SkillRunSafety!JobsKeepTheirAttempt`: `JobsOfTheAttempt`, from `IInv` and `PostersOwn`: a worker that is
  about to post, however slow, holds the attempt its run still has, because a run past its central part
  is never claimed again.
- `SkillRunSafety!Refinement`: `Spec => Lifecycle!Spec`; `Init` maps to the
  abstract `Init` and each action to an abstract step or a stutter.
- `SkillRunCompletion!CompletionIsReported`: `CompletedMeansReported`, from an
  invariant that relates a `SUCCEEDED` edge step to an accepted report and
  forbids `COMPLETED` while one is missing.
- `SkillRunCancel!CancellationReaches`: `CancelReachesJobs`.  A run at rest does not
  tell why its jobs were told, so the invariant names who is going to tell each of
  them: the handler at `mark`, or the worker that has posted it and looks at the run
  before it goes on.  Nothing but a handler makes a run `CANCELLING`, and the steps a
  worker has marked are no longer to be posted.

For `RunDispatch`, from `DispatchAssumption` only, for all sets of runs,
dispatchers, projectors and requests:

- `RunDispatchProofs!TypeCorrect`: `TypeOK`.
- `DeliveredCorrect`, `DeadLetterCorrect`: `DeliveredMeansCreated` and
  `DeadLetterEndsTask`.  Both need `Held`: a dispatcher that holds an answer
  "created", and a projector that was told of a run, are still right when they
  write, because the agent never forgets a run (`AgentRemembers`), and the row a
  dispatcher holds has the tool of the stored one (`ToolKept`).
- `HandoverImplemented`: `ImplementsHandover`; each step maps to an abstract step or a stutter for every
  run at once, since a claim takes a batch.  It needs `Worked` (a row that anybody
  sends, gives up or resumes has been claimed) and
  `ToldEnds` (what a projector was told a run has ended with is what it ended with).

For `EdgeJob`, from `EdgeJobAssumption`, for all sets of jobs and handlers:

- `EdgeJobProofs!TypeCorrect`, `Reported` (`EndedMeansReported`) and `Implements`
  (`ImplementsDelivery`).  The invariant adds to the types what a backend request holds between
  its check and its write: a request that has been relayed has its outcome among what the
  run was told, or the run has ended, and a delivery number it names was handed out.

- `CancelledWasAsked`: `CancelledMeansAsked`, from `Calm`, which holds until the first fault: nothing is in
  the spool, one report at most is on its way, it is the one the node waits for and comes
  from the delivery the job is under, and that delivery's lease has not lapsed.

For `ToolCall`, from `ToolCallAssumption`, for all sets of callers and deciders:

- `ToolCallProofs!Invariance` with `TypeOK`, `WorkOK` (what a decision in
  progress knows of its approval), `OneBroker` (of the requests that work on one ledger key at
  most one is at the provider), `RowOK` (a row says what was done: `Did`, one action with these arguments), `ResultOK`, and
  `PerformedMeansAllowed`.  From it `TypeCorrect`, `OkCorrect`, `PerformedCorrect` and
  `Implements` (`ImplementsLedger`).
- `WaitingCorrect`: `WaitingMeansOpen`, which is inductive with the types: the run is put to
  waiting with a new approval, and whoever decides one makes it `RUNNING`.

For `Ingestion`, from `IngestionAssumption`, for all sets of workers and members:

- `IngestionProofs!Invariance` with `TypeOK`, `RowsOK` (what the rows publish or supersede was
  parsed; a job without a version is an absent one), `WorkerOK` and `MemberOK` (whatever a worker or
  a request has read, or is going to write, names only parsed versions).
  The last two are what makes stale reads harmless: parsed documents
  stay parsed, so a decision that was right when it was made is right when it is
  committed.  From it `TypeCorrect`, `PublishedCorrect` (`ActiveWasParsed`) and
  `Implements` (`ImplementsPublishing`).
- `StatusCorrect`: `ActiveHasVersion`.  It is not inductive: a session writes only the columns
  that differ from the row it has read, so it may write the status `active` alone on a row that
  is no longer the one it has read.  `StatusBacked` adds that a kept change to `active` names a
  version too, or the file has one by now, that a row in a worker's hands had a version only if
  the file still has one, and that an upload begun on a published file is on one still.
  It holds because `active_version_id`, once written, is only ever replaced (`StaysPublished`).

Every invariant, action property and refinement that the passing runs check is proved.  Only
model-checked: the liveness properties (fairness and `ENABLED` are out of this prover's
reach) and the violations.

## 5. Findings

1. `denial`: the handler of a refused context writes `FAILED` and then an event
   that a terminal run does not accept; the rollback takes `FAILED` back.
   `lat.md/architecture/skill-agent.md:53` and `:89` promise the opposite.
2. `waiting_edge`: a lease renewal in `WAITING_EDGE` is refused and taken for
   a cancellation, so the jobs are never posted and the run never ends;
   `docs_agent/prd-v1.5.1-nodeskclaw-agent-acceptance-closure.md:178` says it
   converges.
3. `cancelling`: a hybrid run cancelled during its central part stays
   `CANCELLING`, since nothing closes its edge steps; AC-05 (`:283` of the same
   document) says it becomes `CANCELLED`.
4. `stale_dispatcher`: a dispatcher compares the generation with the row as it had
   read it before its request, so one that was slow makes a row `PENDING` that
   the next holder has `DELIVERED`;
   `docs_agent/prd-skill-run-conformance-and-operational-closure-v1.2.md:474`
   excludes this.

Seen while modelling, without a run of their own:

- *Late approval.*  `approve_run` looks for a runtime only behind the attempt of the row it has read without a lock
  (`run_service.py:1146`, `:1184-1187`), and its write repeats only `WAITING_APPROVAL` (`:1228`).  Of two approvals of a gated
  run the slower one may find the run claimed, bound and waiting in its runtime: it makes it `QUEUED` with
  attempt, lease and open attempt row.  The worker, still fenced, may end it from `QUEUED`; or the lease lapses, the
  run is claimed again and the old `run_attempts` row stays open for ever.  The exceptions of `OneLiveAttempt`
  (`LeftOpen`), `NoRunIsLost` (`QueuedLate`) and `RunLifecycle` (`QueuedAgain`, `Cancel`) are
  this, and `central` reaches them.
- *Unprompted cancellation.*  A `run.cancelled` of the runtime itself (`hermes_engine.py:879-880`, `worker.py:780-806`) makes the
  central step `CANCELLED` and leaves the run as it is.  A central run then stays `RUNNING` until its lease lapses and is executed
  again; of a hybrid run the edge jobs are posted while it is `RUNNING`, recovery requeues it, its central
  part is repeated, and the enqueue returns the jobs of the first attempt (`edge_node_service.py:85-97`), whose reports
  the agent refuses: the run may stay `WAITING_EDGE`.  The exception `cancelledBy` of `JobsOnlyAfterCentral` and
  `JobsOfTheAttempt` is this, and `hybrid` reaches it.
- *Runs.*  The dispatch loop follows the engine's event loop unconditionally, so edge jobs are
  posted although the central step has failed; `worker.py:95` records a dependency that
  nothing reads.  AC-05 of `docs_agent/prd-v1.6.4-connector-runtime-execution-closure.md` (`:107`) wants edge
  steps dispatched only after the central step they depend on is completed.
  The module docstring `worker.py:3-6` calls edge
  dispatch a no-op.  A crashed worker's `CANCELLING` run is not recovered.
  `update_step_state` is not fenced, so a stale attempt writes its step rows: it may set the
  central step of a run that is `WAITING_EDGE` or `COMPLETED` back to `RUNNING`, and the first of
  the two then never completes.  The write of `DISPATCHED` (`worker.py:925`) has no expected status either: a report
  accepted between the answer to the enqueue and that write is overwritten, the
  step is open again, and a run with a further edge step to dispatch never completes, against
  `prd-v1.5.1-nodeskclaw-agent-acceptance-closure.md:236`.
  A shutdown in the dispatch window makes a succeeded central step `CANCELLED`
  (`worker.py:950`).  A second decision of an approval still adds `run.failed` to a requeued run
  (`run_service.py:1217`).  Recovery's `FAILED` branch appends to a terminal run, is refused
  and starts over (`RecoveryRefused`), if the runtime ever ends with that event.
- *Dispatch.*  The projector asks the agent first and the outbox later; a delivery in between
  ends the task as `agent_run_not_found` while its run executes, and `resume_run` of a dead letter
  comes to the same state.  `POST /dispatch/outbox/dead-letters/{id}/replay` flushes
  and reports success but is never committed (`dispatch_router.py:66-85`).  A run whose row is
  `PENDING` after a lost answer is cancelled in the backend only
  (`runs.py:736`).  The projector selects its batch without an order.
- *Edge jobs.*  The backend checks the delivery generation and relays afterwards, so the
  report of an old delivery may still set the agent's step after a new claim
  (`internal_edge.py:533`).  A report of cancellation leaves the job claimable, so a
  cancelled step is executed again (`internal_edge.py:548`).  A failed relay is
  answered with 403, for which the node deletes the spooled report
  (`internal_edge.py:581`): only the lapse of the lease ends such a job.
- *Tool calls.*  A call that was read while the run was being cancelled writes
  `WAITING_APPROVAL` over `CANCELLING` (`agent_tools_mcp.py:128-146`): the properties
  of `SkillRun` hold for runs without MCP tool calls.  Two calls at once open two approvals.  Neither the
  event log nor the ledger compares the tool of two calls under one id with equal arguments
  (`agent_tools_mcp.py:105-112`, `execution_ledger.py:41-48`): the second may be answered with the result
  of the first, "ok" for a tool that never ran.  When
  the account or the tool has been withdrawn and the run waits, `FAILED` is rolled back with the refused
  event and the run stays `WAITING_APPROVAL` (`agent_tools_mcp.py:201-210`); otherwise the stale result is recorded.
  An approval that is allowed after the run has ended, or in a new generation, is
  still executed; an allowed and a denied decision may cross.
- *Ingestion.*  Cancel writes only what differs from the row it has read, so a worker
  that claimed meanwhile keeps its lease and activates the version of a cancelled job.  The replaced
  document is disabled before the commit that replaces it; if that commit is
  refused, the active version cannot be found, against `docs_knowledge/v1.3.md` (section 42).
  An older version or a reparse that ends late takes the newer one's place.  A reparse may empty the version
  that is published: `ActiveWasParsed` says "once", not "still".  A delete whose request
  failed is forgotten when a parse overwrites `deleting`.  An upload that RAGFlow
  refuses shows the file as `error` when it had no version at the start, though one may be active
  by then (`ingestion_facade.py:422`): `ActiveHasVersion` has no converse.  A job that has used up its attempts leaves
  the file `updating`.

## 6. Plan

1. *(done)* `RunTables`, `RunWorker`, `RunControl`, `SkillRun`, `RunLifecycle`;
   `RunDispatch` with `RunHandover`; `EdgeJob` with `JobDelivery`; `ToolCall` with `ActionLedger`;
   `Ingestion` with `VersionPublishing`; their runs and proofs.
2. Models for a later version, in this order: `TaskDispatch` (task service and
   orchestrator around runs), `Installation` (edge skills), `RunCreation`
   (idempotency keys, `context_version`), `Artifact`, the tunnel.

## 7. Not modelled, and why

Engines, event translation, the control channel's signatures, the gateways, the
proxies and the portal convert or forward requests and keep little state of
their own; catalogue services write rows in single transactions; the DeerFlow
backend is vendored.  Most of the repository's lines are of these kinds, so that the part
that is modelled is small in lines: it is the part where several actors share state.

*Runtime messaging.*  The retry half of the queue is never called (`promote_retries` has no caller), an
exception while a message is replayed leaves it `delivering`
(`tunnel/adapter.py:1038-1040`), and the adapter's `publish` uses a session it never
commits (`:852`).  A model of this code would show a queue that delivers at most
once; `nodeskclaw-backend/README.md:384` speaks of three retries with backoff.

*Index builds* are behind `KNOWLEDGE_V2_BUILD_ENABLED`, off by default; `/builds` and
`/builds/{id}/retry` flush without a commit; the claim selects `queued` only, so a worker that dies
leaves a job `running` that blocks its index; the token check of their end does not keep
earlier flushes from being committed (`job_leasing.py:103-124`).

*Installations of edge skills.*  A lost answer to `ready` turns into a report of an error for
the same generation that nothing clears (`edge_worker.py:319`); two syncs at once
may use one generation for two contents.

Within the modelled components: metrics, tracing, event
payloads and timeline projections, credentials and organisation checks, the
connector and knowledge actions without a ledger, the crash of the backend between the agent's
cancel and the marking of the jobs, runs with edge bindings whose placement
is not hybrid, `create_run`, artifacts, provider sessions, archive and metadata updates of source files,
and documents of uploads that were never committed.

## 8. Running the checks

In this directory: `tlc -workers 2 -config central.cfg MCSkillRun` (and likewise
`hybrid`, `liveness`, `denial`, `waiting_edge`, `cancelling`); `dispatch` and
`stale_dispatcher` belong to `RunDispatch`, `edge_job` to `EdgeJob`, `tool_call` to
`MCToolCall`, `ingestion` and `ingestion_ends` to `Ingestion`.  `tlapm SkillRunSafety.tla` checks
proofs (likewise `SkillRunTypes`, `SkillRunCompletion`, `SkillRunCancel`, `RunDispatchProofs`, `EdgeJobProofs`,
`ToolCallProofs`, `IngestionProofs`).
