----------------------------- MODULE Ingestion -----------------------------
(***************************************************************************)
(* The versions of one source file of the knowledge service: members       *)
(* upload, reparse, retry, cancel, activate and delete; RAGFlow parses     *)
(* the documents; workers claim the jobs under a lease, poll the document  *)
(* and publish the version; the reconciler disables the documents of       *)
(* superseded versions and ends deletions.                                 *)
(*                                                                         *)
(* Every handler reads its rows, talks to RAGFlow and commits: what it     *)
(* has read decides what it will write, and a commit writes the columns    *)
(* whose new value differs from the value that was read, on whatever the   *)
(* row has become.  Row locks between a flush and its commit are not       *)
(* modelled: a write they delay equals one that comes after the commit.    *)
(***************************************************************************)
EXTENDS Integers

CONSTANTS
    Worker,      \* ingestion workers; each is at one job at a time
    Member,      \* member requests that may be in progress at once
    Nobody,      \* NULL in lease_owner and lease_token
    ParseEnds,   \* how RAGFlow's parses end
    MaxVersions, \* bound on the versions that are uploaded
    MaxJobs,     \* bound on the jobs that are created
    MaxRequests, \* bound on the member requests
    MaxAttempts, \* max_attempts of a job
    MaxSlips     \* bound on crashes and on leases that a poll outlives

ASSUME IngestionAssumption ==
    /\ Nobody \notin Worker
    /\ ParseEnds \subseteq {"DONE", "EMPTY", "FAIL"}
    /\ MaxVersions \in Nat \ {0}
    /\ MaxJobs \in Nat /\ MaxJobs >= MaxVersions
    /\ MaxRequests \in Nat /\ MaxAttempts \in Nat \ {0} /\ MaxSlips \in Nat

Version == 1 .. MaxVersions
Job     == 1 .. MaxJobs

\* NULL in active_version_id, and the target of a request without one.
None == 0

VARIABLES
    file,     \* source_files: status and active_version_id
    deleted,  \* source_files.deleted_at is set
    parse,    \* source_file_versions.parse_status
    job,      \* knowledge_ingestion_jobs
    live,     \* the jobs whose lease_until is in the future
    doc,      \* RAGFlow's documents: how far parsed, and enabled
    parsed,   \* the versions whose document was once parsed into chunks
    work,     \* where a worker is, and what it has read
    request,  \* where a member request is, and what it has read
    sweep,    \* where the reconciler is
    requests, \* how many member requests there were
    slips     \* how many slips there were

rowVars == <<file, deleted, parse, job, live>>
docVars == <<doc, parsed>>
vars == <<rowVars, docVars, work, request, sweep, requests, slips>>

FileStatus  == {"pending", "updating", "active", "error", "deleting"}
ParseStatus == {"absent", "parsing", "active", "failed", "superseded"}
Pending     == {"parse_dispatched", "parsing"}
Over        == {"active", "failed", "cancelled"}
Runs        == {"none", "UNSTART", "RUNNING", "DONE", "EMPTY", "FAIL", "CANCEL"}

FileRow == [status : FileStatus, active : Version \cup {None}]
JobRow  == [version  : Version \cup {None},
            status   : Pending \cup Over \cup {"absent"},
            attempts : Nat, holder : Worker \cup {Nobody}]

NewJob(v, s) == [version |-> v, status |-> s, attempts |-> 0, holder |-> Nobody]

NoRow  == NewJob(None, "absent")
NoDoc  == [run |-> "none", enabled |-> FALSE]
NewDoc == [run |-> "UNSTART", enabled |-> TRUE]

AtRest  == [stage |-> "idle"]
NoSweep == [stage |-> "idle", todo |-> {}, removes |-> FALSE]

\* Version v is uploaded, and the one before it is published.
Uploaded(v) ==
    /\ file = [status |-> IF v = 1 THEN "pending" ELSE "updating",
               active |-> v - 1]
    /\ parse = [u \in Version |-> CASE u > v     -> "absent"
                                   [] u = v     -> "parsing"
                                   [] u = v - 1 -> "active"
                                   [] OTHER     -> "superseded"]
    /\ job = [j \in Job |-> CASE j > v -> NoRow
                             [] j = v -> NewJob(v, "parse_dispatched")
                             [] OTHER -> NewJob(j, "active")]
    /\ doc = [u \in Version |->
                 CASE u > v -> NoDoc
                   [] u = v -> NewDoc
                   [] OTHER -> [run |-> "DONE", enabled |-> u = v - 1]]
    /\ parsed = 1 .. v - 1

Init ==
    /\ \E v \in Version : Uploaded(v)
    /\ deleted = FALSE /\ live = {}
    /\ work = [w \in Worker |-> AtRest]
    /\ request = [m \in Member |-> AtRest]
    /\ sweep = NoSweep /\ requests = 0 /\ slips = 0

-----------------------------------------------------------------------------
(***************************************************************************)
(* Rows.  A session writes the cells it has changed.                       *)
(***************************************************************************)
Changed(was, new) == [c \in {d \in DOMAIN was : was[d] # new[d]} |-> new[c]]

Write(row, changes) ==
    [c \in DOMAIN row |-> IF c \in DOMAIN changes THEN changes[c] ELSE row[c]]

NoChange == [c \in {} |-> None]

\* parse_status of v, which was read as was, becomes new.
Status(v, was, new) == Changed([u \in {v} |-> was], [u \in {v} |-> new])

Both(f, g) ==
    [x \in DOMAIN f \cup DOMAIN g |-> IF x \in DOMAIN f THEN f[x] ELSE g[x]]

\* The version that v takes the place of.
Replaced(f, v) == IF f.active = v THEN None ELSE f.active

\* The replaced version is read when v is activated.
Superseding(old) ==
    IF old = None THEN NoChange ELSE Status(old, parse[old], "superseded")

\* activate_version on the file.
Activated(v) == [status |-> "active", active |-> v]

\* Seeded fault: the failure is written into the file, published or not.
FileWithoutRaw(f, v) == [f EXCEPT !.status = "failed"]

\* The file after version v has failed: the active one stays.
FileWithout(f, v) ==
    IF f.active = v THEN f
    ELSE [f EXCEPT !.status = IF f.active = None THEN "error" ELSE "active"]

Enable(v, on) == doc' = [doc EXCEPT ![v].enabled = on]

-----------------------------------------------------------------------------
(***************************************************************************)
(* RAGFlow, which parses a document into chunks, into none, or fails.      *)
(***************************************************************************)
DocStarts(v) ==
    /\ doc[v].run = "UNSTART"
    /\ doc' = [doc EXCEPT ![v].run = "RUNNING"]
    /\ UNCHANGED <<rowVars, parsed, work, request, sweep, requests, slips>>

DocEnds(v) ==
    /\ doc[v].run = "RUNNING"
    /\ \E run \in ParseEnds :
          /\ doc' = [doc EXCEPT ![v].run = run]
          /\ parsed' = IF run = "DONE" THEN parsed \cup {v} ELSE parsed
    /\ UNCHANGED <<rowVars, work, request, sweep, requests, slips>>

-----------------------------------------------------------------------------
(***************************************************************************)
(* Workers.  A lease token is new with every claim, and a worker has one   *)
(* claim at a time, so the holder stands for the token.                    *)
(***************************************************************************)
At(w, stage) == work[w].stage = stage

\* Seeded fault: a job that has been claimed is never claimed again.
ClaimableOnce(j) == job[j].status \in Pending /\ job[j].holder = Nobody

\* claim_next, and the second commit of claim_next_job.
Claimable(j) == job[j].status \in Pending /\ j \notin live

\* The workers are alike: the first one that is free claims.
Free(w) == work[w] = AtRest /\ w = CHOOSE x \in Worker : work[x] = AtRest

Claim(w, j) ==
    /\ Free(w) /\ Claimable(j)
    /\ job' = [job EXCEPT ![j].holder = w]
    /\ live' = live \cup {j}
    /\ work' = [work EXCEPT ![w] = [stage |-> "claimed", job |-> j]]
    /\ UNCHANGED <<file, deleted, parse, docVars, request, sweep, requests,
                   slips>>

\* Seeded fault: the lease must be held, by whomever.
OwnsAny(w) == job[work[w].job].holder # Nobody

Owns(w) == job[work[w].job].holder = w

\* ownership_matches, and the rows; the job's status is not looked at.
Look(w) ==
    LET row == job[work[w].job]
    IN  /\ At(w, "claimed")
        /\ work' = [work EXCEPT ![w] =
               IF ~Owns(w) THEN AtRest
               ELSE [stage |-> "looked", job |-> work[w].job, row |-> row,
                     file |-> file, parse |-> parse[row.version]]]
        /\ UNCHANGED <<rowVars, docVars, request, sweep, requests, slips>>

\* Seeded fault: the chunks are not counted.
VerdictsUncounted(run) ==
    CASE run = "none"    -> {"error"}
      [] run = "UNSTART" -> {"error", "parse_dispatched"}
      [] run = "RUNNING" -> {"error", "parsing"}
      [] run = "CANCEL"  -> {"error", "cancelled"}
      [] run = "FAIL"    -> {"error", "failed"}
      [] OTHER           -> {"error", "failed", "active"}

\* What the poll makes of the document.  An "error" is a request that has
\* failed or a document RAGFlow does not know; a parsed document also fails
\* when its metadata is not the file's.
Verdicts(run) ==
    CASE run = "none"    -> {"error"}
      [] run = "UNSTART" -> {"error", "parse_dispatched"}
      [] run = "RUNNING" -> {"error", "parsing"}
      [] run = "CANCEL"  -> {"error", "cancelled"}
      [] run = "DONE"    -> {"error", "failed", "active"}
      [] OTHER           -> {"error", "failed"}

JobAfter(row, verdict) ==
    LET failing == row.attempts + 1 >= MaxAttempts
        next    == IF verdict = "error"
                   THEN [row EXCEPT !.attempts = @ + 1,
                                    !.status = IF failing THEN "failed" ELSE @]
                   ELSE [row EXCEPT !.status = verdict]
    IN  IF next.status \in Over THEN [next EXCEPT !.holder = Nobody] ELSE next

ParseAfter(was, verdict) ==
    CASE verdict = "error"               -> was
      [] verdict \in Pending             -> "parsing"
      [] verdict \in {"cancelled", "failed"} -> "failed"
      [] verdict = "active"              -> "active"

FileAfter(f, v, verdict) ==
    CASE verdict \in {"error"} \cup Pending  -> f
      [] verdict \in {"cancelled", "failed"} -> FileWithout(f, v)
      [] verdict = "active"                  -> Activated(v)

\* What process_leased_job is going to write.
Draft(it, verdict) ==
    LET v   == it.row.version
        old == IF verdict = "active" THEN Replaced(it.file, v) ELSE None
    IN  [stage |-> IF old = None THEN "polled" ELSE "publishing",
         job   |-> it.job, old |-> old,
         row   |-> Changed(it.row, JobAfter(it.row, verdict)),
         file  |-> Changed(it.file, FileAfter(it.file, v, verdict)),
         parse |-> Both(Status(v, it.parse, ParseAfter(it.parse, verdict)),
                        Superseding(old))]

Poll(w) ==
    /\ At(w, "looked")
    /\ \E verdict \in Verdicts(doc[work[w].row.version].run) :
          work' = [work EXCEPT ![w] = Draft(work[w], verdict)]
    /\ UNCHANGED <<rowVars, docVars, request, sweep, requests, slips>>

\* Best effort, and before the commit.
DisableReplaced(w) ==
    /\ At(w, "publishing")
    /\ Enable(work[w].old, FALSE) \/ UNCHANGED doc
    /\ work' = [work EXCEPT ![w].stage = "polled"]
    /\ UNCHANGED <<rowVars, parsed, request, sweep, requests, slips>>

\* A job's changes, with the lease.
WriteJob(j, changes) ==
    /\ job' = [job EXCEPT ![j] = Write(@, changes)]
    /\ live' = IF "holder" \in DOMAIN changes THEN live \ {j} ELSE live

\* finalize_leased_job.
Finalize(w) ==
    LET it == work[w]
    IN  /\ At(w, "polled")
        /\ IF Owns(w)
           THEN /\ WriteJob(it.job, it.row)
                /\ parse' = Write(parse, it.parse)
                /\ file' = Write(file, it.file)
           ELSE UNCHANGED <<job, live, parse, file>>
        /\ work' = [work EXCEPT ![w] = AtRest]
        /\ UNCHANGED <<deleted, docVars, request, sweep, requests, slips>>

WorkerStep(w) == Look(w) \/ Poll(w) \/ DisableReplaced(w) \/ Finalize(w)

Working(j) ==
    \E w \in Worker : work[w] # AtRest /\ work[w].job = j /\ job[j].holder = w

\* Nothing renews a lease: that of an unfinished document ends by itself.
LeaseEnds(j) ==
    /\ j \in live /\ ~Working(j)
    /\ live' = live \ {j}
    /\ UNCHANGED <<file, deleted, parse, job, docVars, work, request, sweep,
                   requests, slips>>

Slip == slips < MaxSlips /\ slips' = slips + 1

\* A request to RAGFlow takes longer than the 30 s of the lease.
LeaseOutlived(w) ==
    /\ work[w].stage \in {"looked", "publishing"} /\ Owns(w)
    /\ Slip
    /\ work[w].job \in live /\ live' = live \ {work[w].job}
    /\ UNCHANGED <<file, deleted, parse, job, docVars, work, request, sweep,
                   requests>>

Crash(w) ==
    /\ work[w] # AtRest
    /\ Slip
    /\ work' = [work EXCEPT ![w] = AtRest]
    /\ UNCHANGED <<rowVars, docVars, request, sweep, requests>>

-----------------------------------------------------------------------------
(***************************************************************************)
(* Member requests: what each reads, what it asks of RAGFlow, and what its *)
(* commit writes.  One that fails in between rolls back (Abandon).         *)
(***************************************************************************)
It(m, op, stage) ==
    request[m] # AtRest /\ request[m].op = op /\ request[m].stage = stage

\* A request about version v and job j that will write these changes.
Begin(m, op, v, j, f, p, row, old) ==
    /\ request[m] = AtRest /\ requests < MaxRequests
    /\ request' = [request EXCEPT ![m] =
           [op |-> op, stage |-> "read", version |-> v, job |-> j,
            file |-> f, parse |-> p, row |-> row, old |-> old]]
    /\ requests' = requests + 1
    /\ UNCHANGED <<rowVars, docVars, work, sweep, slips>>

FileStatusTo(s) == Changed(file, [file EXCEPT !.status = s])

\* Seeded fault: a failed upload leaves the file as if it were published.
WithoutAny(v) == "active"

Without(v) == IF v = None THEN "error" ELSE "active"

\* A second upload waits for the first one's version number, and fails.
BeginUpload(m) ==
    /\ ~deleted
    /\ \A n \in Member : ~It(n, "upload", "read")
    /\ Begin(m, "upload", file.active, None, FileStatusTo("updating"), NoChange,
             NoChange, None)

BeginReparse(m) ==
    LET v == file.active
    IN  /\ ~deleted /\ v # None
        /\ Begin(m, "reparse", v, None, NoChange,
                 Status(v, parse[v], "parsing"), NoChange, None)

BeginRetry(m, j) ==
    LET v == job[j].version
    IN  /\ job[j].status \in {"failed", "cancelled"}
        /\ Begin(m, "retry", v, j, NoChange,
                 Status(v, parse[v], "parsing"),
                 Changed(job[j], NewJob(v, "parse_dispatched")), None)

BeginCancel(m, j) ==
    LET v == job[j].version
    IN  /\ job[j].status \in Pending
        /\ Begin(m, "cancel", v, j, Changed(file, FileWithout(file, v)),
                 Status(v, parse[v], "failed"),
                 Changed(job[j], [job[j] EXCEPT !.status = "cancelled",
                                               !.holder = Nobody]), None)

BeginActivate(m, v) ==
    /\ ~deleted /\ parse[v] \in {"active", "superseded"}
    /\ Begin(m, "activate", v, None, Changed(file, Activated(v)),
             Status(v, parse[v], "active"), NoChange,
             Replaced(file, v))

BeginDelete(m) ==
    /\ ~deleted
    /\ Begin(m, "delete", None, None, FileStatusTo("deleting"), NoChange,
             NoChange, None)

Asked(m) == request' = [request EXCEPT ![m].stage = "asked"]
Answered(m) == request' = [request EXCEPT ![m] = AtRest]

Abandon(m) ==
    /\ request[m] # AtRest /\ Answered(m)
    /\ UNCHANGED <<rowVars, docVars, work, sweep, requests, slips>>

\* The first version and the first job that do not exist yet.
NextVersion(v) ==
    parse[v] = "absent" /\ \A u \in 1 .. v - 1 : parse[u] # "absent"
NextJob(j) ==
    job[j].status = "absent" /\ \A k \in 1 .. j - 1 : job[k].status # "absent"

\* ingest_core with a source file.  RAGFlow may have no document when the
\* upload has failed, and one that is not parsed when a later request has;
\* "updating" is flushed before, so the other status is a change of its own.
Upload(m) ==
    LET it == request[m]
    IN  /\ It(m, "upload", "read")
        /\ \E v \in Version, j \in Job :
              /\ NextVersion(v) /\ NextJob(j)
              /\ \/ /\ doc' = [doc EXCEPT ![v] = NewDoc]
                    /\ parse' = [parse EXCEPT ![v] = "parsing"]
                    /\ job' = [job EXCEPT ![j] = NewJob(v, "parse_dispatched")]
                    /\ file' = Write(file, it.file)
                 \/ /\ doc' \in {doc, [doc EXCEPT ![v] = NewDoc]}
                    /\ parse' = [parse EXCEPT ![v] = "failed"]
                    /\ job' = [job EXCEPT ![j] = NewJob(v, "failed")]
                    /\ file' = [file EXCEPT !.status = Without(it.version)]
        /\ Answered(m)
        /\ UNCHANGED <<deleted, live, parsed, work, sweep, requests, slips>>

\* reparse_source_file, retry_job: parse_documents, which deletes the chunks.
AskParse(m) ==
    LET v == request[m].version
    IN  /\ It(m, "reparse", "read") \/ It(m, "retry", "read")
        /\ doc[v].run # "none"
        /\ doc' = [doc EXCEPT ![v].run = "UNSTART"]
        /\ Asked(m)
        /\ UNCHANGED <<rowVars, parsed, work, sweep, requests, slips>>

\* A request that RAGFlow refuses, or carries out without its answer
\* arriving, leaves a failed job.
Reparse(m) ==
    LET v == request[m].version
    IN  /\ \E j \in Job :
              /\ NextJob(j)
              /\ \/ /\ It(m, "reparse", "asked")
                    /\ job' = [job EXCEPT ![j] = NewJob(v, "parse_dispatched")]
                    /\ parse' = Write(parse, request[m].parse)
                 \/ /\ It(m, "reparse", "read") \/ It(m, "reparse", "asked")
                    /\ job' = [job EXCEPT ![j] = NewJob(v, "failed")]
                    /\ UNCHANGED parse
        /\ Answered(m)
        /\ UNCHANGED <<file, deleted, live, docVars, work, sweep, requests,
                       slips>>

Retry(m) ==
    LET it == request[m]
    IN  /\ It(m, "retry", "asked")
        /\ WriteJob(it.job, it.row)
        /\ parse' = Write(parse, it.parse)
        /\ Answered(m)
        /\ UNCHANGED <<file, deleted, docVars, work, sweep, requests, slips>>

\* stop_parsing; a failure is logged.
AskStop(m) ==
    LET v == request[m].version
    IN  /\ It(m, "cancel", "read")
        /\ \/ /\ doc[v].run \in {"UNSTART", "RUNNING"}
              /\ doc' = [doc EXCEPT ![v].run = "CANCEL"]
           \/ UNCHANGED doc
        /\ Asked(m)
        /\ UNCHANGED <<rowVars, parsed, work, sweep, requests, slips>>

Cancel(m) ==
    LET it == request[m]
    IN  /\ It(m, "cancel", "asked")
        /\ WriteJob(it.job, it.row)
        /\ parse' = Write(parse, it.parse)
        /\ file' = Write(file, it.file)
        /\ Answered(m)
        /\ UNCHANGED <<deleted, docVars, work, sweep, requests, slips>>

\* activate_source_file_version: the document is enabled, then the version
\* it replaces is read, and the rows are committed.
AskEnable(m) ==
    LET it == request[m]
    IN  /\ It(m, "activate", "read") /\ doc[it.version].run # "none"
        /\ Enable(it.version, TRUE)
        /\ request' = [request EXCEPT ![m].stage = "asked",
               ![m].parse = Both(@, Superseding(it.old))]
        /\ UNCHANGED <<rowVars, parsed, work, sweep, requests, slips>>

Activate(m) ==
    LET it == request[m]
    IN  /\ It(m, "activate", "asked")
        /\ file' = Write(file, it.file)
        /\ parse' = Write(parse, it.parse)
        /\ IF it.old = None THEN Answered(m)
           ELSE request' = [request EXCEPT ![m].stage = "committed"]
        /\ UNCHANGED <<deleted, job, live, docVars, work, sweep, requests,
                       slips>>

AskDisable(m) ==
    /\ It(m, "activate", "committed")
    /\ Enable(request[m].old, FALSE) \/ UNCHANGED doc
    /\ Answered(m)
    /\ UNCHANGED <<rowVars, parsed, work, sweep, requests, slips>>

NoDocs == [v \in Version |-> NoDoc]

\* delete_source_file: a failure leaves the file "deleting".
AskDelete(m) ==
    /\ It(m, "delete", "read")
    /\ doc' = NoDocs
    /\ Asked(m)
    /\ UNCHANGED <<rowVars, parsed, work, sweep, requests, slips>>

Delete(m) ==
    /\ It(m, "delete", "asked") \/ It(m, "delete", "read")
    /\ file' = Write(file, request[m].file)
    /\ deleted' = (deleted \/ It(m, "delete", "asked"))
    /\ Answered(m)
    /\ UNCHANGED <<parse, job, live, docVars, work, sweep, requests, slips>>

-----------------------------------------------------------------------------
(***************************************************************************)
(* The reconciler, in one transaction: what it reads at the start is what  *)
(* it disables; deleted_at is committed with the rest at the end.          *)
(***************************************************************************)

\* Seeded fault: the versions are joined to the file's active one.
SupersededActive ==
    {v \in Version : parse[v] = "superseded" /\ file.active = v /\ ~deleted}

Superseded == {v \in Version : parse[v] = "superseded" /\ ~deleted}

\* A run that finds nothing to do changes nothing.
SweepStarts ==
    /\ sweep = NoSweep
    /\ (Superseded # {}) \/ (file.status = "deleting" /\ ~deleted)
    /\ sweep' = [sweep EXCEPT !.stage = "disabling", !.todo = Superseded]
    /\ UNCHANGED <<rowVars, docVars, work, request, requests, slips>>

Swept(v) == sweep' = [sweep EXCEPT !.todo = @ \ {v}]

SweepDisables(v) ==
    /\ v \in sweep.todo
    /\ Enable(v, FALSE)
    /\ Swept(v)
    /\ UNCHANGED <<rowVars, parsed, work, request, requests, slips>>

\* RAGFlow answers with an error, or has no such document.
SweepMisses(v) ==
    /\ v \in sweep.todo
    /\ Swept(v)
    /\ UNCHANGED <<rowVars, docVars, work, request, requests, slips>>

\* _retry_deleting_source_files; the documents may not be deleted this time.
SweepDeletes ==
    /\ sweep.stage = "disabling" /\ sweep.todo = {}
    /\ \/ /\ file.status = "deleting" /\ ~deleted
          /\ doc' = NoDocs
          /\ sweep' = [sweep EXCEPT !.stage = "commit", !.removes = TRUE]
       \/ /\ sweep' = NoSweep
          /\ UNCHANGED doc
    /\ UNCHANGED <<rowVars, parsed, work, request, requests, slips>>

SweepCommits ==
    /\ sweep.stage = "commit"
    /\ deleted' = (deleted \/ sweep.removes)
    /\ sweep' = NoSweep
    /\ UNCHANGED <<file, parse, job, live, docVars, work, request, requests,
                   slips>>

SweepCrashes ==
    /\ sweep # NoSweep
    /\ Slip
    /\ sweep' = NoSweep
    /\ UNCHANGED <<rowVars, docVars, work, request, requests>>

SweepStep ==
    \/ SweepStarts
    \/ \E v \in Version : SweepMisses(v)
    \/ SweepDeletes
    \/ SweepCommits

-----------------------------------------------------------------------------
RequestBegins(m) ==
    \/ BeginUpload(m)
    \/ BeginReparse(m)
    \/ \E j \in Job : BeginRetry(m, j) \/ BeginCancel(m, j)
    \/ \E v \in Version : BeginActivate(m, v)
    \/ BeginDelete(m)

RequestStep(m) ==
    \/ Upload(m)
    \/ AskParse(m)
    \/ Reparse(m)
    \/ Retry(m)
    \/ AskStop(m)
    \/ Cancel(m)
    \/ AskEnable(m)
    \/ Activate(m)
    \/ AskDisable(m)
    \/ AskDelete(m)
    \/ Delete(m)
    \/ Abandon(m)

DocNext(v) == DocStarts(v) \/ DocEnds(v)

Next ==
    \/ \E v \in Version : DocNext(v) \/ SweepDisables(v)
    \/ \E w \in Worker :
          \/ \E j \in Job : Claim(w, j)
          \/ WorkerStep(w)
          \/ LeaseOutlived(w)
          \/ Crash(w)
    \/ \E j \in Job : LeaseEnds(j)
    \/ \E m \in Member : RequestBegins(m) \/ RequestStep(m)
    \/ SweepStep
    \/ SweepCrashes

(***************************************************************************)
(* RAGFlow ends every parse and does not refuse the same request for ever; *)
(* requests to it have timeouts, and a worker that has died is started     *)
(* again; claims go to the job that has waited longest.                    *)
(***************************************************************************)
Fairness ==
    /\ WF_vars(\E v \in Version : DocNext(v))
    /\ \A w \in Worker : WF_vars(WorkerStep(w))
    /\ \A j \in Job :
          /\ SF_vars(\E w \in Worker : Claim(w, j))
          /\ WF_vars(LeaseEnds(j))
    /\ WF_vars(SweepStep)
    /\ \A v \in Version : SF_vars(SweepDisables(v))

Spec     == Init /\ [][Next]_vars
FairSpec == Spec /\ Fairness

-----------------------------------------------------------------------------
(***************************************************************************)
(* The types of the variables.                                             *)
(***************************************************************************)
Verdict == {"error"} \cup Pending \cup Over
\* What a session is to write: some cells of the file, of a job, and the
\* parse_status of some versions.
FileChange(f) ==
    /\ DOMAIN f \subseteq {"status", "active"}
    /\ "status" \in DOMAIN f => f.status \in FileStatus
    /\ "active" \in DOMAIN f => f.active \in Version

JobChange(row) ==
    /\ DOMAIN row \subseteq {"status", "attempts", "holder"}
    /\ "status" \in DOMAIN row => row.status \in Pending \cup Over
    /\ "attempts" \in DOMAIN row => row.attempts \in Nat
    /\ "holder" \in DOMAIN row => row.holder = Nobody

ParseChange(p) ==
    /\ DOMAIN p \subseteq Version
    /\ \A v \in DOMAIN p : p[v] \in ParseStatus \ {"absent"}

Changes(it) ==
    /\ it.old \in Version \cup {None}
    /\ FileChange(it.file) /\ JobChange(it.row) /\ ParseChange(it.parse)

WorkOK(w) ==
    LET it == work[w]
    IN  \/ it = AtRest
        \/ it \in [stage : {"claimed"}, job : Job]
        \/ /\ it \in [stage : {"looked"}, job : Job, row : JobRow,
                      file : FileRow, parse : ParseStatus]
           /\ it.row.version # None
        \/ /\ DOMAIN it = {"stage", "job", "old", "row", "file", "parse"}
           /\ it.stage \in {"polled", "publishing"} /\ it.job \in Job
           /\ Changes(it)

RequestOK(m) ==
    LET it == request[m]
    IN  \/ it = AtRest
        \/ /\ DOMAIN it = {"op", "stage", "version", "job", "file", "parse",
                           "row", "old"}
           /\ it.op \in {"upload", "reparse", "retry", "cancel", "activate",
                         "delete"}
           /\ it.stage \in {"read", "asked", "committed"}
           /\ it.version \in Version \cup {None} /\ it.job \in Job \cup {None}
           /\ Changes(it)

TablesOK ==
    /\ file \in FileRow /\ deleted \in BOOLEAN
    /\ parse \in [Version -> ParseStatus]
    /\ job \in [Job -> JobRow] /\ live \subseteq Job
    /\ doc \in [Version -> [run : Runs, enabled : BOOLEAN]]
    /\ parsed \subseteq Version

RestOK ==
    /\ sweep \in [stage : {"idle", "disabling", "commit"},
                  todo : SUBSET Version, removes : BOOLEAN]
    /\ requests \in 0 .. MaxRequests /\ slips \in 0 .. MaxSlips

TypeOK ==
    /\ TablesOK /\ RestOK
    /\ DOMAIN work = Worker /\ \A w \in Worker : WorkOK(w)
    /\ DOMAIN request = Member /\ \A m \in Member : RequestOK(m)

(***************************************************************************)
(* The version members search is one whose document RAGFlow has once       *)
(* parsed into chunks: however stale the rows a commit goes by, a version  *)
(* that has only ever failed, or come out empty, is never published in its *)
(* place.  A reparse deletes the chunks of the version that is published,  *)
(* and may leave it empty: nothing takes it back then.                     *)
(***************************************************************************)
ActiveWasParsed == file.active # None => file.active \in parsed

(***************************************************************************)
(* A file that members see as active has a version they search: status and *)
(* active_version_id are written by sessions that have read them long ago, *)
(* and each writes only the column that differs from what it has read.     *)
(***************************************************************************)
ActiveHasVersion == file.status = "active" => file.active # None

(***************************************************************************)
(* A version is published by a member, or by the worker that holds the     *)
(* lease of its job; a worker whose lease was taken leaves no trace        *)
(* (finalize_leased_job's token check).                                    *)
(***************************************************************************)
Publishing == INSTANCE VersionPublishing WITH
    NoJob <- None, NoVersion <- None,
    published <- file.active,
    target <- [j \in Job |-> job[j].version],
    lease <- [j \in Job |-> job[j].holder],
    at <- [w \in Worker |-> IF work[w] = AtRest THEN None ELSE work[w].job]

ImplementsPublishing == Publishing!Spec

(***************************************************************************)
(* A job the workers poll ends, whatever RAGFlow answers and whoever dies  *)
(* or outlives his lease: published, failed or cancelled.                  *)
(***************************************************************************)
JobEnds ==
    \A j \in Job : job[j].status \in Pending ~> job[j].status \in Over

(***************************************************************************)
(* The document of a superseded version goes out of the search sooner or   *)
(* later, though the worker that replaced it disables it at best effort,   *)
(* unless the version is published again.                                  *)
(***************************************************************************)
SupersededGoesDark ==
    \A v \in Version :
        parse[v] = "superseded"
            ~> ~doc[v].enabled \/ parse[v] # "superseded" \/ deleted
=============================================================================
