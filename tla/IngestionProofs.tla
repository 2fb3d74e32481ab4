-------------------------- MODULE IngestionProofs --------------------------
(***************************************************************************)
(* Proofs about Ingestion: the types, that the published version was       *)
(* parsed, that an active file has a version, and that Ingestion           *)
(* implements VersionPublishing.  A session's changes outlive the rows     *)
(* they were made from, so the invariant says of every kept change what it *)
(* may say of a row.                                                       *)
(***************************************************************************)
EXTENDS Ingestion, TLAPS

USE IngestionAssumption

-----------------------------------------------------------------------------
(***************************************************************************)
(* Changes, and rows they are written on.                                  *)
(***************************************************************************)

\* A file row that becomes another one, of the same version or of version v.
LEMMA ChangedFile ==
    ASSUME NEW f \in FileRow, NEW g \in FileRow,
           g.active # f.active => g.active \in Version
    PROVE  /\ FileChange(Changed(f, g))
           /\ "active" \in DOMAIN Changed(f, g) =>
                  g.active # f.active /\ Changed(f, g).active = g.active
  <1> DEFINE c == Changed(f, g)
  <1>1. DOMAIN f = {"status", "active"} /\ g.status \in FileStatus
    BY DEF FileRow
  <1>2. DOMAIN c = {d \in {"status", "active"} : f[d] # g[d]}
    BY <1>1 DEF Changed
  <1>3. \A d \in DOMAIN c : c[d] = g[d]
    BY DEF Changed
  <1> QED
    BY <1>1, <1>2, <1>3 DEF FileChange

LEMMA WrittenFile ==
    ASSUME NEW f \in FileRow, NEW c, FileChange(c)
    PROVE  /\ Write(f, c) \in FileRow
           /\ Write(f, c).active = IF "active" \in DOMAIN c THEN c.active
                                   ELSE f.active
  <1>1. DOMAIN f = {"status", "active"} /\ f.status \in FileStatus
        /\ f.active \in Version \cup {None}
    BY DEF FileRow
  <1>2. Write(f, c) = [x \in {"status", "active"} |->
                           IF x \in DOMAIN c THEN c[x] ELSE f[x]]
    BY <1>1 DEF Write
  <1>3. /\ Write(f, c).status \in FileStatus
        /\ Write(f, c).active \in Version \cup {None}
        /\ Write(f, c).active = IF "active" \in DOMAIN c THEN c.active
                                ELSE f.active
    BY <1>1, <1>2 DEF FileChange
  <1>4. Write(f, c) = [status |-> Write(f, c).status,
                       active |-> Write(f, c).active]
    BY <1>2
  <1> QED
    BY <1>3, <1>4 DEF FileRow

LEMMA ChangedJob ==
    ASSUME NEW r \in JobRow, NEW q \in JobRow,
           q.version = r.version,
           q.status # r.status => q.status # "absent",
           q.holder # r.holder => q.holder = Nobody
    PROVE  JobChange(Changed(r, q))
  <1> DEFINE c == Changed(r, q)
  <1>1. /\ DOMAIN r = {"version", "status", "attempts", "holder"}
        /\ q.status \in Pending \cup Over \cup {"absent"} /\ q.attempts \in Nat
    BY DEF JobRow
  <1>2. DOMAIN c = {d \in {"version", "status", "attempts", "holder"} :
                       r[d] # q[d]}
    BY <1>1 DEF Changed
  <1>3. \A d \in DOMAIN c : c[d] = q[d]
    BY DEF Changed
  <1> QED
    BY <1>1, <1>2, <1>3 DEF JobChange

LEMMA WrittenJob ==
    ASSUME NEW r \in JobRow, NEW c, JobChange(c)
    PROVE  /\ Write(r, c) \in JobRow
           /\ Write(r, c).version = r.version
           /\ r.status # "absent" => Write(r, c).status # "absent"
           /\ Write(r, c).holder = IF "holder" \in DOMAIN c THEN Nobody
                                   ELSE r.holder
  <1>1. /\ DOMAIN r = {"version", "status", "attempts", "holder"}
        /\ r.version \in Version \cup {None} /\ r.attempts \in Nat
        /\ r.status \in Pending \cup Over \cup {"absent"}
        /\ r.holder \in Worker \cup {Nobody}
    BY DEF JobRow
  <1>2. Write(r, c) = [x \in {"version", "status", "attempts", "holder"} |->
                           IF x \in DOMAIN c THEN c[x] ELSE r[x]]
    BY <1>1 DEF Write
  <1>3. /\ Write(r, c).version = r.version
        /\ Write(r, c).status \in Pending \cup Over \cup {"absent"}
        /\ r.status # "absent" => Write(r, c).status # "absent"
        /\ Write(r, c).attempts \in Nat
    BY <1>1, <1>2 DEF JobChange, Pending, Over
  <1>4. Write(r, c).holder = IF "holder" \in DOMAIN c THEN Nobody ELSE r.holder
    BY <1>1, <1>2 DEF JobChange
  <1>5. Write(r, c) = [version |-> Write(r, c).version,
                       status |-> Write(r, c).status,
                       attempts |-> Write(r, c).attempts,
                       holder |-> Write(r, c).holder]
    BY <1>2
  <1> QED
    BY <1>1, <1>3, <1>4, <1>5 DEF JobRow

LEMMA NothingChanged ==
    /\ FileChange(NoChange) /\ JobChange(NoChange) /\ ParseChange(NoChange)
    /\ DOMAIN NoChange = {}
  BY DEF NoChange, FileChange, JobChange, ParseChange

LEMMA ChangedStatus ==
    ASSUME NEW v \in Version, NEW was, NEW new \in ParseStatus,
           new # was => new # "absent"
    PROVE  /\ ParseChange(Status(v, was, new))
           /\ \A u \in DOMAIN Status(v, was, new) :
                  u = v /\ new # was /\ Status(v, was, new)[u] = new
  <1>1. DOMAIN Status(v, was, new) = {u \in {v} : was # new}
    BY DEF Status, Changed
  <1>2. \A u \in DOMAIN Status(v, was, new) : Status(v, was, new)[u] = new
    BY DEF Status, Changed
  <1> QED
    BY <1>1, <1>2 DEF ParseChange

LEMMA BothChanged ==
    ASSUME NEW f, NEW g, ParseChange(f), ParseChange(g)
    PROVE  /\ ParseChange(Both(f, g))
           /\ \A u \in DOMAIN Both(f, g) :
                  \/ u \in DOMAIN f /\ Both(f, g)[u] = f[u]
                  \/ u \in DOMAIN g /\ Both(f, g)[u] = g[u]
  BY DEF Both, ParseChange

LEMMA WrittenParse ==
    ASSUME NEW p \in [Version -> ParseStatus], NEW c, ParseChange(c)
    PROVE  /\ Write(p, c) \in [Version -> ParseStatus]
           /\ \A v \in Version :
                  Write(p, c)[v] = IF v \in DOMAIN c THEN c[v] ELSE p[v]
  BY DEF Write, ParseChange

LEMMA ChangedReplaced ==
    ASSUME NEW old \in Version \cup {None}
    PROVE  /\ ParseChange(Superseding(old))
           /\ \A u \in DOMAIN Superseding(old) : u = old /\ old # None
  <1>1. CASE old = None
    BY <1>1, NothingChanged DEF Superseding
  <1>2. CASE old # None
    <2>1. Superseding(old) = Status(old, parse[old], "superseded")
      BY <1>2 DEF Superseding
    <2>2. "superseded" \in ParseStatus
      BY DEF ParseStatus
    <2>3. PICK was : was = parse[old]
      OBVIOUS
    <2> QED
      BY <1>2, <2>1, <2>2, <2>3, ChangedStatus
  <1> QED
    BY <1>1, <1>2

LEMMA FailedFile ==
    ASSUME NEW f \in FileRow, NEW v
    PROVE  FileWithout(f, v) \in FileRow /\ FileWithout(f, v).active = f.active
  BY DEF FileWithout, FileRow, FileStatus

-----------------------------------------------------------------------------
(***************************************************************************)
(* What a change may say: a published version, and one whose parse_status  *)
(* says that it is or was published, was parsed.                           *)
(***************************************************************************)
KnownParse(p) ==
    \A u \in DOMAIN p : p[u] \in {"active", "superseded"} => u \in parsed

\* The inductive invariant: the rows,
RowsOK ==
    /\ ActiveWasParsed
    /\ \A v \in Version : parse[v] \in {"active", "superseded"} => v \in parsed
    /\ \A v \in Version : doc[v].run = "DONE" => v \in parsed
    /\ \A j \in Job : job[j].status = "absent" <=> job[j].version = None

\* what a worker has read, or is to write,
WorkerOK(w) ==
    LET it == work[w]
    IN  /\ it.stage # "idle" => job[it.job].version # None
        /\ it.stage = "looked" =>
              /\ it.row.version = job[it.job].version
              /\ it.file.active # None => it.file.active \in parsed
              /\ it.parse \in {"active", "superseded"} => it.row.version \in parsed
        /\ it.stage \in {"polled", "publishing"} =>
              /\ "active" \in DOMAIN it.file =>
                    /\ it.file.active = job[it.job].version
                    /\ it.file.active \in parsed
              /\ KnownParse(it.parse)

\* and what a member's request is to write.
MemberOK(m) ==
    LET it == request[m]
    IN  it # AtRest =>
            /\ "active" \in DOMAIN it.file =>
                  it.op = "activate" /\ it.file.active \in parsed
            /\ KnownParse(it.parse)
            /\ it.old # None => it.old \in parsed
            /\ it.op \in {"retry", "cancel"} =>
                  it.job \in Job /\ job[it.job].version # None
            /\ it.op \in {"reparse", "retry", "cancel", "activate"} =>
                  it.version \in Version

IInv ==
    /\ TypeOK
    /\ RowsOK
    /\ \A w \in Worker : WorkerOK(w)
    /\ \A m \in Member : MemberOK(m)

-----------------------------------------------------------------------------
(***************************************************************************)
(* What stays true of the sessions an action does not touch.               *)
(***************************************************************************)
Keeps ==
    /\ parsed \subseteq parsed'
    /\ \A j \in Job : job[j].version # None => job'[j].version = job[j].version

LEMMA WorkerKept ==
    ASSUME IInv, Keeps, NEW w \in Worker, work'[w] = work[w]
    PROVE  WorkOK(w)' /\ WorkerOK(w)'
  <1>1. PICK it : it = work[w]
    OBVIOUS
  <1>2. WorkOK(w)'
    BY <1>1 DEF IInv, TypeOK, WorkOK
  <1>3. it = AtRest \/ it.job \in Job
    BY <1>1 DEF IInv, TypeOK, WorkOK
  <1>4. CASE it = AtRest
    BY <1>1, <1>2, <1>4 DEF WorkerOK, AtRest
  <1>5. CASE it # AtRest
    <2>1. it.stage # "idle"
      BY <1>1, <1>5 DEF IInv, TypeOK, WorkOK
    <2>2. job'[it.job].version = job[it.job].version /\ parsed \subseteq parsed'
      BY <1>1, <1>3, <1>5, <2>1 DEF IInv, WorkerOK, Keeps
    <2> QED
      BY <1>1, <1>2, <2>2 DEF IInv, WorkerOK, KnownParse
  <1> QED
    BY <1>4, <1>5

LEMMA MemberKept ==
    ASSUME IInv, Keeps, NEW m \in Member, request'[m] = request[m]
    PROVE  RequestOK(m)' /\ MemberOK(m)'
  <1>1. PICK it : it = request[m]
    OBVIOUS
  <1>2. RequestOK(m)'
    BY <1>1 DEF IInv, TypeOK, RequestOK
  <1>3. parsed \subseteq parsed'
    BY DEF Keeps
  <1>4. it # AtRest /\ it.op \in {"retry", "cancel"} =>
            job'[it.job].version = job[it.job].version
    BY <1>1 DEF IInv, MemberOK, Keeps
  <1> QED
    BY <1>1, <1>2, <1>3, <1>4 DEF IInv, MemberOK, KnownParse

LEMMA WorkerRests ==
    ASSUME NEW w \in Worker, work'[w] = AtRest
    PROVE  WorkOK(w)' /\ WorkerOK(w)'
  BY DEF WorkOK, WorkerOK, AtRest

LEMMA MemberRests ==
    ASSUME NEW m \in Member, request'[m] = AtRest
    PROVE  RequestOK(m)' /\ MemberOK(m)'
  BY DEF RequestOK, MemberOK

\* When all workers, or all members, are untouched, or all but one.
LEMMA WorkersKept ==
    ASSUME IInv, Keeps, UNCHANGED work
    PROVE  DOMAIN work' = Worker
           /\ \A w \in Worker : WorkOK(w)' /\ WorkerOK(w)'
  BY WorkerKept DEF IInv, TypeOK

LEMMA MembersKept ==
    ASSUME IInv, Keeps, UNCHANGED request
    PROVE  DOMAIN request' = Member
           /\ \A m \in Member : RequestOK(m)' /\ MemberOK(m)'
  BY MemberKept DEF IInv, TypeOK

LEMMA OneWorkerMoves ==
    ASSUME IInv, Keeps, NEW w \in Worker, NEW it,
           work' = [work EXCEPT ![w] = it],
           WorkOK(w)', WorkerOK(w)'
    PROVE  DOMAIN work' = Worker
           /\ \A x \in Worker : WorkOK(x)' /\ WorkerOK(x)'
  <1>1. DOMAIN work = Worker
    BY DEF IInv, TypeOK
  <1>2. \A x \in Worker : x # w => work'[x] = work[x]
    BY <1>1
  <1> QED
    BY <1>1, <1>2, WorkerKept

LEMMA OneMemberMoves ==
    ASSUME IInv, Keeps, NEW m \in Member, NEW it,
           request' = [request EXCEPT ![m] = it],
           RequestOK(m)', MemberOK(m)'
    PROVE  DOMAIN request' = Member
           /\ \A n \in Member : RequestOK(n)' /\ MemberOK(n)'
  <1>1. DOMAIN request = Member
    BY DEF IInv, TypeOK
  <1>2. \A n \in Member : n # m => request'[n] = request[n]
    BY <1>1
  <1> QED
    BY <1>1, <1>2, MemberKept

LEMMA WorkerReturns ==
    ASSUME IInv, Keeps, NEW w \in Worker, work' = [work EXCEPT ![w] = AtRest]
    PROVE  DOMAIN work' = Worker
           /\ \A x \in Worker : WorkOK(x)' /\ WorkerOK(x)'
  <1>1. work'[w] = AtRest
    BY DEF IInv, TypeOK
  <1> QED
    BY <1>1, WorkerRests, OneWorkerMoves

LEMMA MemberReturns ==
    ASSUME IInv, Keeps, NEW m \in Member, Answered(m)
    PROVE  DOMAIN request' = Member
           /\ \A n \in Member : RequestOK(n)' /\ MemberOK(n)'
  <1>1. request'[m] = AtRest /\ request' = [request EXCEPT ![m] = AtRest]
    BY DEF IInv, TypeOK, Answered
  <1> QED
    BY <1>1, MemberRests, OneMemberMoves

-----------------------------------------------------------------------------
(***************************************************************************)
(* Commits.                                                                *)
(***************************************************************************)

\* Changes of the file and of parse_status, both as a session knows them.
LEMMA Committed ==
    ASSUME IInv, NEW f, NEW p, FileChange(f), ParseChange(p), KnownParse(p),
           "active" \in DOMAIN f => f.active \in parsed,
           file' = Write(file, f), parse' = Write(parse, p), UNCHANGED docVars
    PROVE  /\ file' \in FileRow /\ parse' \in [Version -> ParseStatus]
           /\ ActiveWasParsed'
           /\ \A v \in Version :
                  parse'[v] \in {"active", "superseded"} => v \in parsed'
  <1>1. file \in FileRow /\ parse \in [Version -> ParseStatus]
    BY DEF IInv, TypeOK, TablesOK
  <1>2. /\ file' \in FileRow
        /\ file'.active = IF "active" \in DOMAIN f THEN f.active ELSE file.active
    BY <1>1, WrittenFile
  <1>3. /\ parse' \in [Version -> ParseStatus]
        /\ \A v \in Version :
               parse'[v] = IF v \in DOMAIN p THEN p[v] ELSE parse[v]
    BY <1>1, WrittenParse
  <1>4. ActiveWasParsed'
    BY <1>2 DEF IInv, RowsOK, ActiveWasParsed, docVars
  <1>5. \A v \in Version : parse'[v] \in {"active", "superseded"} => v \in parsed'
    BY <1>3 DEF IInv, RowsOK, KnownParse, docVars
  <1> QED
    BY <1>2, <1>3, <1>4, <1>5

LEMMA CommittedJob ==
    ASSUME IInv, NEW j \in Job, NEW c, JobChange(c), job[j].version # None,
           WriteJob(j, c)
    PROVE  /\ job' \in [Job -> JobRow] /\ live' \subseteq Job
           /\ \A k \in Job : job'[k].version = job[k].version
           /\ \A k \in Job : job'[k].status = "absent" <=> job'[k].version = None
           /\ \A k \in Job : job'[k].holder =
                  IF k = j /\ "holder" \in DOMAIN c THEN Nobody
                  ELSE job[k].holder
  <1>1. job \in [Job -> JobRow] /\ live \subseteq Job
    BY DEF IInv, TypeOK, TablesOK
  <1>2. PICK row \in JobRow : row = job[j]
    BY <1>1
  <1>3. PICK new : new = Write(row, c)
    OBVIOUS
  <1>4. /\ new \in JobRow /\ new.version = row.version
        /\ row.status # "absent" => new.status # "absent"
        /\ new.holder = IF "holder" \in DOMAIN c THEN Nobody ELSE row.holder
    BY <1>3, WrittenJob
  <1>5. job' = [job EXCEPT ![j] = new]
    BY <1>2, <1>3 DEF WriteJob
  <1>6. live' \subseteq Job
    BY <1>1 DEF WriteJob
  <1>7. job' \in [Job -> JobRow]
    BY <1>1, <1>4, <1>5
  <1>8. \A k \in Job : job'[k] = IF k = j THEN new ELSE job[k]
    BY <1>1, <1>5
  <1>9. row.status # "absent"
    BY <1>2 DEF IInv, RowsOK
  <1>10. \A k \in Job : job'[k].version = job[k].version
    BY <1>2, <1>4, <1>8
  <1>11. \A k \in Job : job'[k].status = "absent" <=> job'[k].version = None
    BY <1>2, <1>4, <1>8, <1>9 DEF IInv, RowsOK
  <1>12. \A k \in Job : job'[k].holder =
             IF k = j /\ "holder" \in DOMAIN c THEN Nobody ELSE job[k].holder
    BY <1>2, <1>4, <1>8
  <1> QED
    BY <1>6, <1>7, <1>10, <1>11, <1>12

LEMMA NewJobRow ==
    ASSUME NEW v \in Version, NEW s \in Pending \cup Over
    PROVE  /\ NewJob(v, s) \in JobRow /\ NewJob(v, s).version = v
           /\ NewJob(v, s).status = s /\ NewJob(v, s).holder = Nobody
  <1>1. NewJob(v, s) = [version |-> v, status |-> s, attempts |-> 0,
                        holder |-> Nobody]
    BY DEF NewJob
  <1> QED
    BY <1>1 DEF JobRow

LEMMA JobAdded ==
    ASSUME IInv, NEW j \in Job, NEW v \in Version, NEW s \in Pending \cup Over,
           NextJob(j), job' = [job EXCEPT ![j] = NewJob(v, s)]
    PROVE  /\ job' \in [Job -> JobRow]
           /\ job[j].version = None
           /\ \A k \in Job : job'[k].version = IF k = j THEN v
                                               ELSE job[k].version
           /\ \A k \in Job : job'[k].status = "absent" <=> job'[k].version = None
           /\ \A k \in Job : k # j => job'[k] = job[k]
           /\ job'[j].holder = Nobody
  <1>1. job \in [Job -> JobRow] /\ job[j].version = None
    BY DEF IInv, TypeOK, TablesOK, RowsOK, NextJob
  <1>2. PICK new : new = NewJob(v, s)
    OBVIOUS
  <1>3. new \in JobRow /\ new.version = v /\ new.status = s /\ new.holder = Nobody
    BY <1>2, NewJobRow
  <1>4. s # "absent" /\ v # None
    BY DEF Pending, Over, None, Version
  <1>5. job' \in [Job -> JobRow]
    BY <1>1, <1>2, <1>3
  <1>6. \A k \in Job : job'[k] = IF k = j THEN new ELSE job[k]
    BY <1>1, <1>2
  <1> QED
    BY <1>1, <1>3, <1>4, <1>5, <1>6 DEF IInv, RowsOK

LEMMA JobAddedKeeps ==
    ASSUME IInv, NEW j \in Job, NEW v \in Version, NEW s \in Pending \cup Over,
           NextJob(j), job' = [job EXCEPT ![j] = NewJob(v, s)],
           parsed \subseteq parsed'
    PROVE  Keeps
  BY JobAdded DEF Keeps

\* A document that is not parsed further.
LEMMA DocsOK ==
    ASSUME IInv, UNCHANGED parsed,
           doc' \in [Version -> [run : Runs, enabled : BOOLEAN]],
           \A v \in Version : doc'[v].run \in {doc[v].run} \cup (Runs \ {"DONE"})
    PROVE  \A v \in Version : doc'[v].run = "DONE" => v \in parsed'
  BY DEF IInv, RowsOK

LEMMA Enabled ==
    ASSUME IInv, NEW v, NEW on \in BOOLEAN, Enable(v, on) \/ UNCHANGED doc
    PROVE  /\ doc' \in [Version -> [run : Runs, enabled : BOOLEAN]]
           /\ \A u \in Version : doc'[u].run = doc[u].run
  <1>1. doc \in [Version -> [run : Runs, enabled : BOOLEAN]]
    BY DEF IInv, TypeOK, TablesOK
  <1>2. CASE UNCHANGED doc
    BY <1>1, <1>2
  <1>3. CASE Enable(v, on)
    <2>1. doc' = [doc EXCEPT ![v].enabled = on]
      BY <1>3 DEF Enable
    <2> QED
      BY <1>1, <2>1
  <1> QED
    BY <1>2, <1>3

-----------------------------------------------------------------------------
(***************************************************************************)
(* What a poll drafts.                                                     *)
(***************************************************************************)
LEMMA VerdictOK ==
    ASSUME IInv, NEW v \in Version, NEW verdict \in Verdicts(doc[v].run)
    PROVE  /\ verdict \in {"error"} \cup Pending \cup Over
           /\ verdict = "active" => v \in parsed
  <1>1. PICK run \in Runs : run = doc[v].run
    BY DEF IInv, TypeOK, TablesOK
  <1>2. verdict \in {"error"} \cup Pending \cup Over
    BY <1>1 DEF Verdicts, Pending, Over, Runs
  <1>3. verdict = "active" => run = "DONE"
    BY <1>1 DEF Verdicts, Runs
  <1> QED
    BY <1>1, <1>2, <1>3 DEF IInv, RowsOK

LEMMA JobAfterOK ==
    ASSUME NEW row \in JobRow, NEW verdict \in {"error"} \cup Pending \cup Over
    PROVE  JobChange(Changed(row, JobAfter(row, verdict)))
  <1> DEFINE failing == row.attempts + 1 >= MaxAttempts
             next == IF verdict = "error"
                     THEN [row EXCEPT !.attempts = @ + 1,
                               !.status = IF failing THEN "failed" ELSE @]
                     ELSE [row EXCEPT !.status = verdict]
  <1>1. /\ next \in JobRow /\ next.version = row.version
        /\ next.status # row.status => next.status # "absent"
        /\ next.holder = row.holder
    <2>1. CASE verdict = "error"
      <3>1. PICK status : status = IF failing THEN "failed" ELSE row.status
        OBVIOUS
      <3>2. next = [row EXCEPT !.attempts = @ + 1, !.status = status]
        BY <2>1, <3>1
      <3>3. status = "failed" \/ status = row.status
        BY <3>1
      <3>4. /\ row = [version |-> row.version, status |-> row.status,
                      attempts |-> row.attempts, holder |-> row.holder]
            /\ row.attempts \in Nat
        BY DEF JobRow
      <3>5. next = [version |-> row.version, status |-> status,
                    attempts |-> row.attempts + 1, holder |-> row.holder]
        BY <3>2, <3>4
      <3> HIDE DEF failing, next
      <3>6. row.attempts + 1 \in Nat
        BY <3>4
      <3> QED
        BY <3>3, <3>5, <3>6 DEF JobRow, Over
    <2>2. CASE verdict # "error"
      BY <2>2 DEF JobRow, Pending, Over
    <2> QED
      BY <2>1, <2>2
  <1>2. PICK n \in JobRow : n = next
    BY <1>1
  <1>3. PICK q : q = JobAfter(row, verdict)
    OBVIOUS
  <1>4. q = IF n.status \in Over THEN [n EXCEPT !.holder = Nobody] ELSE n
    BY <1>2, <1>3 DEF JobAfter
  <1>5. q \in JobRow /\ q.version = n.version /\ q.status = n.status
        /\ (q.holder # n.holder => q.holder = Nobody)
    BY <1>4 DEF JobRow
  <1>6. /\ q.version = row.version
        /\ q.status # row.status => q.status # "absent"
        /\ q.holder # row.holder => q.holder = Nobody
    BY <1>1, <1>2, <1>5
  <1> HIDE DEF next
  <1> QED
    BY <1>3, <1>5, <1>6, ChangedJob

LEMMA FileAfterOK ==
    ASSUME NEW f \in FileRow, NEW v \in Version,
           NEW verdict \in {"error"} \cup Pending \cup Over
    PROVE  /\ FileAfter(f, v, verdict) \in FileRow
           /\ FileAfter(f, v, verdict).active # f.active =>
                  verdict = "active" /\ FileAfter(f, v, verdict).active = v
  <1>1. CASE verdict \in {"error"} \cup Pending
    <2>1. FileAfter(f, v, verdict) = f
      BY <1>1 DEF FileAfter, Pending, Over
    <2> QED
      BY <2>1
  <1>2. CASE verdict \in {"cancelled", "failed"}
    <2>1. FileAfter(f, v, verdict) = FileWithout(f, v)
      BY <1>2 DEF FileAfter, Pending, Over
    <2> QED
      BY <2>1, FailedFile
  <1>3. CASE verdict = "active"
    <2>1. FileAfter(f, v, verdict) = [status |-> "active", active |-> v]
      BY <1>3 DEF FileAfter, Activated, Pending, Over
    <2> QED
      BY <1>3, <2>1 DEF FileRow, FileStatus
  <1> QED
    BY <1>1, <1>2, <1>3 DEF Over

LEMMA ParseAfterOK ==
    ASSUME NEW was \in ParseStatus, NEW verdict \in {"error"} \cup Pending \cup Over
    PROVE  /\ ParseAfter(was, verdict) \in ParseStatus
           /\ ParseAfter(was, verdict) # was =>
                 /\ ParseAfter(was, verdict) \in {"parsing", "failed", "active"}
                 /\ ParseAfter(was, verdict) = "active" => verdict = "active"
  BY DEF ParseAfter, ParseStatus, Pending, Over

Seen == [stage : {"looked"}, job : Job, row : JobRow, file : FileRow,
         parse : ParseStatus]

LEMMA DraftOK ==
    ASSUME IInv, NEW it \in Seen, it.row.version # None,
           it.file.active # None => it.file.active \in parsed,
           NEW verdict \in Verdicts(doc[it.row.version].run)
    PROVE  LET d == Draft(it, verdict)
           IN  /\ DOMAIN d = {"stage", "job", "old", "row", "file", "parse"}
               /\ d.stage \in {"polled", "publishing"} /\ d.job = it.job
               /\ Changes(d)
               /\ "active" \in DOMAIN d.file =>
                      /\ d.file.active = it.row.version
                      /\ d.file.active \in parsed
               /\ KnownParse(d.parse)
  <1> DEFINE v   == it.row.version
             old == IF verdict = "active" THEN Replaced(it.file, v) ELSE None
             row == Changed(it.row, JobAfter(it.row, verdict))
             f   == Changed(it.file, FileAfter(it.file, v, verdict))
             s   == Status(v, it.parse, ParseAfter(it.parse, verdict))
             p   == Both(s, Superseding(old))
  <1>1. /\ v \in Version /\ it.row \in JobRow /\ it.file \in FileRow
        /\ it.file.active \in Version \cup {None} /\ it.parse \in ParseStatus
    BY DEF Seen, JobRow, FileRow
  <1>2. /\ verdict \in {"error"} \cup Pending \cup Over
        /\ verdict = "active" => v \in parsed
    BY <1>1, VerdictOK
  <1>3. JobChange(row)
    BY <1>1, <1>2, JobAfterOK
  <1>4. /\ FileChange(f)
        /\ "active" \in DOMAIN f => f.active = v /\ verdict = "active"
    BY <1>1, <1>2, FileAfterOK, ChangedFile
  <1>5. old \in Version \cup {None} /\ (old # None => old \in parsed)
    BY <1>1 DEF Replaced
  <1>6. /\ ParseChange(s)
        /\ \A u \in DOMAIN s :
               u = v /\ (s[u] \in {"active", "superseded"} => verdict = "active")
    <2>1. PICK new \in ParseStatus : new = ParseAfter(it.parse, verdict)
      BY <1>1, <1>2, ParseAfterOK
    <2>2. new # it.parse => /\ new \in {"parsing", "failed", "active"}
                            /\ new = "active" => verdict = "active"
      BY <1>1, <1>2, <2>1, ParseAfterOK
    <2> QED
      BY <1>1, <2>1, <2>2, ChangedStatus
  <1>7. /\ ParseChange(Superseding(old))
        /\ \A u \in DOMAIN Superseding(old) : u = old /\ old # None
    BY <1>5, ChangedReplaced
  <1>8. ParseChange(p)
    BY <1>6, <1>7, BothChanged
  <1>9. KnownParse(p)
    <2> HIDE DEF s, old
    <2> QED
      BY <1>2, <1>5, <1>6, <1>7, BothChanged DEF KnownParse
  <1>10. Draft(it, verdict) =
             [stage |-> IF old = None THEN "polled" ELSE "publishing",
              job |-> it.job, old |-> old, row |-> row, file |-> f, parse |-> p]
    BY DEF Draft
  <1> HIDE DEF old, row, f, p
  <1> QED
    BY <1>2, <1>3, <1>4, <1>5, <1>8, <1>9, <1>10 DEF Changes

-----------------------------------------------------------------------------
(***************************************************************************)
(* The invariant holds at first, and one lemma for every kind of step.     *)
(***************************************************************************)
LEMMA Starts == Init => IInv
  <1> SUFFICES ASSUME Init PROVE IInv
    OBVIOUS
  <1>1. PICK v \in Version : Uploaded(v)
    BY DEF Init
  <1>2. v \in Nat /\ v >= 1 /\ v <= MaxVersions /\ MaxVersions <= MaxJobs
    BY DEF Version
  <1>3. file \in FileRow /\ file.active = v - 1
    <2>1. v - 1 \in Version \cup {None}
      BY <1>2 DEF Version, None
    <2> QED
      BY <1>1, <2>1 DEF Uploaded, FileRow, FileStatus
  <1>4. /\ parse \in [Version -> ParseStatus]
        /\ \A u \in Version : parse[u] \in {"active", "superseded"} => u < v
    <2>1. \A u \in Version : parse[u] =
              IF u > v THEN "absent" ELSE IF u = v THEN "parsing"
              ELSE IF u = v - 1 THEN "active" ELSE "superseded"
      BY <1>1, <1>2 DEF Uploaded, Version
    <2>2. parse = [u \in Version |-> parse[u]]
      BY <1>1 DEF Uploaded
    <2>3. \A u \in Version : parse[u] \in ParseStatus
      BY <2>1 DEF ParseStatus
    <2> QED
      BY <1>2, <2>1, <2>2, <2>3 DEF Version
  <1>5. /\ job \in [Job -> JobRow]
        /\ \A j \in Job : job[j].status = "absent" <=> job[j].version = None
    <2>1. \A j \in Job : job[j] =
              IF j > v THEN NewJob(None, "absent")
              ELSE IF j = v THEN NewJob(v, "parse_dispatched")
              ELSE NewJob(j, "active")
      BY <1>1, <1>2 DEF Uploaded, Job, NoRow
    <2>2. job = [j \in Job |-> job[j]]
      BY <1>1 DEF Uploaded
    <2>3. /\ NewJob(None, "absent") \in JobRow
          /\ NewJob(None, "absent").status = "absent"
          /\ NewJob(None, "absent").version = None
      BY DEF NewJob, JobRow
    <2>4. \A j \in Job : j < v => j \in Version
      BY <1>2 DEF Job, Version
    <2>5. ASSUME NEW j \in Job
          PROVE  /\ job[j] \in JobRow
                 /\ job[j].status = "absent" <=> job[j].version = None
      <3>1. CASE j > v
        BY <2>1, <2>3, <3>1
      <3>2. CASE j = v
        BY <1>2, <2>1, <3>2, NewJobRow DEF Pending, None, Job
      <3>3. CASE j < v
        BY <1>2, <2>1, <2>4, <3>3, NewJobRow DEF Over, None, Job
      <3> QED
        BY <1>2, <3>1, <3>2, <3>3 DEF Job
    <2> QED
      BY <2>2, <2>5
  <1>6. /\ doc \in [Version -> [run : Runs, enabled : BOOLEAN]]
        /\ \A u \in Version : doc[u].run = "DONE" => u < v
    <2>1. \A u \in Version : doc[u] =
              IF u > v THEN NoDoc ELSE IF u = v THEN NewDoc
              ELSE [run |-> "DONE", enabled |-> u = v - 1]
      BY <1>1, <1>2 DEF Uploaded, Version
    <2>2. doc = [u \in Version |-> doc[u]]
      BY <1>1 DEF Uploaded
    <2>3. ASSUME NEW u \in Version
          PROVE  /\ doc[u] \in [run : Runs, enabled : BOOLEAN]
                 /\ doc[u].run = "DONE" => u < v
      <3>1. PICK on \in BOOLEAN : on = (u = v - 1)
        OBVIOUS
      <3>2. CASE u > v
        <4>1. doc[u] = NoDoc
          BY <1>2, <2>1, <3>2 DEF Version
        <4> QED
          BY <4>1 DEF NoDoc, Runs
      <3>3. CASE u = v
        <4>1. doc[u] = NewDoc
          <5>1. u \in Nat /\ ~(u > u)
            BY DEF Version
          <5> QED
            BY <2>1, <3>3, <5>1
        <4> QED
          BY <4>1 DEF NewDoc, Runs
      <3>4. CASE u < v
        <4>1. doc[u] = [run |-> "DONE", enabled |-> on]
          BY <1>2, <2>1, <3>1, <3>4 DEF Version
        <4> QED
          BY <3>4, <4>1 DEF Runs
      <3> QED
        BY <1>2, <3>2, <3>3, <3>4 DEF Version
    <2> QED
      BY <2>2, <2>3
  <1>7. parsed \subseteq Version /\ \A u \in Version : u < v => u \in parsed
    BY <1>1, <1>2 DEF Uploaded, Version
  <1>8. TablesOK
    <2>1. deleted \in BOOLEAN /\ live \subseteq Job
      BY DEF Init
    <2> QED
      BY <1>3, <1>4, <1>5, <1>6, <1>7, <2>1 DEF TablesOK
  <1>9. RestOK
    <2>1. sweep = NoSweep /\ requests \in 0 .. MaxRequests
          /\ slips \in 0 .. MaxSlips
      BY DEF Init
    <2> QED
      BY <2>1 DEF RestOK, NoSweep
  <1>10. /\ DOMAIN work = Worker /\ DOMAIN request = Member
         /\ \A w \in Worker : WorkOK(w) /\ WorkerOK(w)
         /\ \A m \in Member : RequestOK(m) /\ MemberOK(m)
    BY DEF Init, WorkOK, WorkerOK, RequestOK, MemberOK, AtRest
  <1>11. RowsOK
    <2>1. ActiveWasParsed
      BY <1>2, <1>3, <1>7 DEF ActiveWasParsed, None, Version
    <2> QED
      BY <1>4, <1>5, <1>6, <1>7, <2>1 DEF RowsOK
  <1> QED
    BY <1>8, <1>9, <1>10, <1>11 DEF IInv, TypeOK

\* RAGFlow; an ended parse adds to the versions that were parsed.
LEMMA DocSteps ==
    ASSUME IInv, NEW v \in Version, DocNext(v)
    PROVE  IInv'
  <1>1. TablesOK /\ RestOK /\ RowsOK
    BY DEF IInv, TypeOK
  <1>2. UNCHANGED <<rowVars, work, request, sweep, requests, slips>>
    BY DEF DocNext, DocStarts, DocEnds
  <1>3. PICK run \in Runs :
            /\ doc' = [doc EXCEPT ![v].run = run]
            /\ parsed' = IF run = "DONE" THEN parsed \cup {v} ELSE parsed
    BY IngestionAssumption DEF DocNext, DocStarts, DocEnds, Runs
  <1>4. Keeps
    BY <1>2, <1>3 DEF Keeps, rowVars
  <1>5. doc' \in [Version -> [run : Runs, enabled : BOOLEAN]]
        /\ \A u \in Version : doc'[u].run = IF u = v THEN run ELSE doc[u].run
    BY <1>1, <1>3 DEF TablesOK
  <1>6. TablesOK' /\ RestOK'
    BY <1>1, <1>2, <1>3, <1>5 DEF TablesOK, RestOK, rowVars
  <1>7. RowsOK'
    BY <1>1, <1>2, <1>3, <1>5 DEF RowsOK, ActiveWasParsed, rowVars
  <1> QED
    BY <1>2, <1>4, <1>6, <1>7, WorkersKept, MembersKept DEF IInv, TypeOK

\* A worker claims a job, and so a job of a version.
LEMMA ClaimStep ==
    ASSUME IInv, NEW w \in Worker, NEW j \in Job, Claim(w, j)
    PROVE  IInv'
  <1>1. TablesOK /\ RestOK /\ RowsOK /\ DOMAIN work = Worker
    BY DEF IInv, TypeOK
  <1>2. /\ UNCHANGED <<file, deleted, parse, docVars, request, sweep, requests,
                       slips>>
        /\ job' = [job EXCEPT ![j].holder = w]
        /\ live' = live \cup {j}
        /\ job[j].status \in Pending
    BY DEF Claim, Claimable
  <1>3. PICK it : it = [stage |-> "claimed", job |-> j]
    OBVIOUS
  <1>4. work' = [work EXCEPT ![w] = it] /\ work'[w] = it
    BY <1>1, <1>3 DEF Claim
  <1>5. /\ job' \in [Job -> JobRow]
        /\ \A k \in Job : /\ job'[k].version = job[k].version
                          /\ job'[k].status = job[k].status
    <2>1. job \in [Job -> JobRow]
      BY <1>1 DEF TablesOK
    <2>2. PICK row \in JobRow : row = job[j]
      BY <2>1
    <2>3. PICK new : new = [row EXCEPT !.holder = w]
      OBVIOUS
    <2>4. new \in JobRow /\ new.version = row.version /\ new.status = row.status
      BY <2>3 DEF JobRow
    <2>5. job' = [job EXCEPT ![j] = new]
      BY <1>2, <2>2, <2>3
    <2> QED
      BY <2>1, <2>2, <2>4, <2>5
  <1>6. job[j].version # None
    BY <1>1, <1>2 DEF RowsOK, Pending
  <1>7. Keeps
    BY <1>2, <1>5 DEF Keeps, docVars
  <1>8. TablesOK' /\ RestOK'
    BY <1>1, <1>2, <1>5 DEF TablesOK, RestOK, docVars
  <1>9. RowsOK'
    BY <1>1, <1>2, <1>5 DEF RowsOK, ActiveWasParsed, docVars
  <1>10. WorkOK(w)'
    BY <1>3, <1>4 DEF WorkOK
  <1>11. WorkerOK(w)'
    BY <1>3, <1>4, <1>5, <1>6 DEF WorkerOK
  <1>12. DOMAIN work' = Worker /\ \A x \in Worker : WorkOK(x)' /\ WorkerOK(x)'
    BY <1>4, <1>7, <1>10, <1>11, OneWorkerMoves
  <1> QED
    BY <1>2, <1>7, <1>8, <1>9, <1>12, MembersKept DEF IInv, TypeOK

\* Steps that write nothing but where sessions are.
LEMMA TablesKept ==
    ASSUME IInv, UNCHANGED <<rowVars, docVars>>
    PROVE  TablesOK' /\ RowsOK' /\ Keeps
  <1>1. TablesOK'
    BY DEF IInv, TypeOK, TablesOK, rowVars, docVars
  <1>2. RowsOK'
    BY DEF IInv, RowsOK, ActiveWasParsed, rowVars, docVars
  <1>3. Keeps
    BY DEF Keeps, rowVars, docVars
  <1> QED
    BY <1>1, <1>2, <1>3

\* The worker reads the rows of its job.
LEMMA LookStep ==
    ASSUME IInv, NEW w \in Worker, Look(w)
    PROVE  IInv'
  <1>1. DOMAIN work = Worker /\ RestOK
    BY DEF IInv, TypeOK
  <1>2. UNCHANGED <<rowVars, docVars, request, sweep, requests, slips>>
    BY DEF Look
  <1>3. TablesOK' /\ RowsOK' /\ Keeps
    BY <1>2, TablesKept
  <1>4. RestOK'
    BY <1>1, <1>2 DEF RestOK
  <1>5. CASE ~Owns(w)
    <2>1. work' = [work EXCEPT ![w] = AtRest]
      BY <1>5 DEF Look
    <2> QED
      BY <1>2, <1>3, <1>4, <2>1, WorkerReturns, MembersKept DEF IInv, TypeOK
  <1>6. CASE Owns(w)
    <2>1. PICK j \in Job : j = work[w].job /\ job[j].version # None
      BY DEF Look, At, IInv, TypeOK, WorkOK, WorkerOK, AtRest
    <2>2. PICK row \in JobRow : row = job[j]
      BY DEF IInv, TypeOK, TablesOK
    <2>3. row.version \in Version
      BY <2>1, <2>2 DEF JobRow
    <2>4. PICK was \in ParseStatus :
              /\ was = parse[row.version]
              /\ was \in {"active", "superseded"} => row.version \in parsed
      BY <2>3 DEF IInv, TypeOK, TablesOK, RowsOK
    <2>5. file \in FileRow /\ (file.active # None => file.active \in parsed)
      BY DEF IInv, TypeOK, TablesOK, RowsOK, ActiveWasParsed
    <2>6. PICK it : it = [stage |-> "looked", job |-> j, row |-> row,
                          file |-> file, parse |-> was]
      OBVIOUS
    <2>7. work' = [work EXCEPT ![w] = it] /\ work'[w] = it
      BY <1>1, <1>6, <2>1, <2>2, <2>4, <2>6 DEF Look
    <2>8. WorkOK(w)'
      BY <2>1, <2>2, <2>4, <2>5, <2>6, <2>7 DEF WorkOK
    <2>9. WorkerOK(w)'
      BY <1>2, <2>1, <2>2, <2>4, <2>5, <2>6, <2>7
         DEF WorkerOK, rowVars, docVars
    <2>10. DOMAIN work' = Worker
           /\ \A x \in Worker : WorkOK(x)' /\ WorkerOK(x)'
      BY <1>3, <2>7, <2>8, <2>9, OneWorkerMoves
    <2> QED
      BY <1>2, <1>3, <1>4, <2>10, MembersKept DEF IInv, TypeOK
  <1> QED
    BY <1>5, <1>6

\* The worker hears from RAGFlow, and drafts.
LEMMA PollStep ==
    ASSUME IInv, NEW w \in Worker, Poll(w)
    PROVE  IInv'
  <1>1. DOMAIN work = Worker /\ RestOK
    BY DEF IInv, TypeOK
  <1>2. UNCHANGED <<rowVars, docVars, request, sweep, requests, slips>>
    BY DEF Poll
  <1>3. TablesOK' /\ RowsOK' /\ Keeps
    BY <1>2, TablesKept
  <1>4. PICK it \in Seen : it = work[w] /\ it.row.version # None
    BY DEF Poll, At, IInv, TypeOK, WorkOK, AtRest, Seen
  <1>5. /\ it.row.version = job[it.job].version
        /\ it.file.active # None => it.file.active \in parsed
        /\ it.job \in Job /\ it.stage = "looked"
    BY <1>4 DEF IInv, WorkerOK, Seen
  <1>6. PICK verdict \in Verdicts(doc[it.row.version].run) :
            work' = [work EXCEPT ![w] = Draft(it, verdict)]
    BY <1>4 DEF Poll
  <1>7. PICK d : d = Draft(it, verdict)
    OBVIOUS
  <1>8. /\ DOMAIN d = {"stage", "job", "old", "row", "file", "parse"}
        /\ d.stage \in {"polled", "publishing"} /\ d.job = it.job
        /\ Changes(d)
        /\ "active" \in DOMAIN d.file =>
               d.file.active = it.row.version /\ d.file.active \in parsed
        /\ KnownParse(d.parse)
    BY <1>4, <1>5, <1>6, <1>7, DraftOK
  <1>9. work' = [work EXCEPT ![w] = d] /\ work'[w] = d
    BY <1>1, <1>6, <1>7
  <1>10. WorkOK(w)'
    BY <1>5, <1>8, <1>9 DEF WorkOK
  <1>11. WorkerOK(w)'
    BY <1>2, <1>4, <1>5, <1>8, <1>9
       DEF WorkerOK, KnownParse, rowVars, docVars
  <1>12. DOMAIN work' = Worker /\ \A x \in Worker : WorkOK(x)' /\ WorkerOK(x)'
    BY <1>3, <1>9, <1>10, <1>11, OneWorkerMoves
  <1>13. RestOK'
    BY <1>1, <1>2 DEF RestOK
  <1> QED
    BY <1>2, <1>3, <1>12, <1>13, MembersKept DEF IInv, TypeOK

\* A worker that has drafted.
LEMMA Drafted ==
    ASSUME IInv, NEW w \in Worker, work[w].stage \in {"polled", "publishing"}
    PROVE  /\ work[w].job \in Job /\ job[work[w].job].version # None
           /\ DOMAIN work[w] = {"stage", "job", "old", "row", "file", "parse"}
           /\ Changes(work[w])
           /\ "active" \in DOMAIN work[w].file => work[w].file.active \in parsed
           /\ KnownParse(work[w].parse)
  <1>1. PICK it : it = work[w]
    OBVIOUS
  <1>2. /\ DOMAIN it = {"stage", "job", "old", "row", "file", "parse"}
        /\ it.job \in Job /\ Changes(it)
    BY <1>1 DEF IInv, TypeOK, WorkOK, AtRest
  <1>3. WorkerOK(w) /\ it.stage # "idle"
    BY <1>1 DEF IInv
  <1> QED
    BY <1>1, <1>2, <1>3 DEF WorkerOK

\* The replaced document is disabled, or not.
LEMMA DisableStep ==
    ASSUME IInv, NEW w \in Worker, DisableReplaced(w)
    PROVE  IInv'
  <1>1. TablesOK /\ RestOK /\ RowsOK /\ DOMAIN work = Worker
    BY DEF IInv, TypeOK
  <1>2. /\ UNCHANGED <<rowVars, parsed, request, sweep, requests, slips>>
        /\ work[w].stage = "publishing"
        /\ work' = [work EXCEPT ![w].stage = "polled"]
    BY DEF DisableReplaced, At
  <1>3. /\ doc' \in [Version -> [run : Runs, enabled : BOOLEAN]]
        /\ \A u \in Version : doc'[u].run = doc[u].run
    BY Enabled DEF DisableReplaced
  <1>4. Keeps
    BY <1>2 DEF Keeps, rowVars
  <1>5. TablesOK' /\ RestOK'
    BY <1>1, <1>2, <1>3 DEF TablesOK, RestOK, rowVars
  <1>6. RowsOK'
    BY <1>1, <1>2, <1>3 DEF RowsOK, ActiveWasParsed, rowVars
  <1>7. PICK it : it = work[w]
    OBVIOUS
  <1>8. PICK new : new = [it EXCEPT !.stage = "polled"]
    OBVIOUS
  <1>9. work' = [work EXCEPT ![w] = new] /\ work'[w] = new
    BY <1>1, <1>2, <1>7, <1>8
  <1>10. /\ DOMAIN it = {"stage", "job", "old", "row", "file", "parse"}
         /\ Changes(it) /\ it.job \in Job /\ job[it.job].version # None
         /\ KnownParse(it.parse) /\ WorkerOK(w)
    BY <1>2, <1>7, Drafted DEF IInv
  <1>11. /\ DOMAIN new = {"stage", "job", "old", "row", "file", "parse"}
         /\ new.stage = "polled" /\ new.job = it.job /\ new.old = it.old
         /\ new.row = it.row /\ new.file = it.file /\ new.parse = it.parse
    BY <1>8, <1>10
  <1>12. WorkOK(w)'
    BY <1>9, <1>10, <1>11 DEF WorkOK, Changes
  <1>13. WorkerOK(w)'
    BY <1>2, <1>7, <1>9, <1>10, <1>11 DEF WorkerOK, KnownParse, rowVars
  <1>14. DOMAIN work' = Worker /\ \A x \in Worker : WorkOK(x)' /\ WorkerOK(x)'
    BY <1>4, <1>9, <1>12, <1>13, OneWorkerMoves
  <1> QED
    BY <1>2, <1>4, <1>5, <1>6, <1>14, MembersKept DEF IInv, TypeOK

\* The worker commits, if it still holds the lease.
LEMMA FinalizeStep ==
    ASSUME IInv, NEW w \in Worker, Finalize(w)
    PROVE  IInv'
  <1>1. TablesOK /\ RestOK /\ RowsOK
    BY DEF IInv, TypeOK
  <1>2. /\ UNCHANGED <<deleted, docVars, request, sweep, requests, slips>>
        /\ work' = [work EXCEPT ![w] = AtRest]
        /\ work[w].stage \in {"polled", "publishing"}
    BY DEF Finalize, At
  <1>3. RestOK'
    BY <1>1, <1>2 DEF RestOK
  <1>4. CASE ~Owns(w)
    <2>1. UNCHANGED <<rowVars, docVars>>
      BY <1>2, <1>4 DEF Finalize, rowVars
    <2>2. TablesOK' /\ RowsOK' /\ Keeps
      BY <2>1, TablesKept
    <2> QED
      BY <1>2, <1>3, <2>2, WorkerReturns, MembersKept DEF IInv, TypeOK
  <1>5. CASE Owns(w)
    <2>1. PICK j, row, p, f : j = work[w].job /\ row = work[w].row
                              /\ p = work[w].parse /\ f = work[w].file
      OBVIOUS
    <2>2. /\ j \in Job /\ job[j].version # None
          /\ JobChange(row) /\ ParseChange(p) /\ FileChange(f) /\ KnownParse(p)
          /\ "active" \in DOMAIN f => f.active \in parsed
      BY <1>2, <2>1, Drafted DEF Changes
    <2>3. WriteJob(j, row) /\ parse' = Write(parse, p) /\ file' = Write(file, f)
      BY <1>5, <2>1 DEF Finalize
    <2>4. /\ job' \in [Job -> JobRow] /\ live' \subseteq Job
          /\ \A k \in Job : job'[k].version = job[k].version
          /\ \A k \in Job : job'[k].status = "absent" <=> job'[k].version = None
      BY <2>2, <2>3, CommittedJob
    <2>5. /\ file' \in FileRow /\ parse' \in [Version -> ParseStatus]
          /\ ActiveWasParsed'
          /\ \A v \in Version :
                 parse'[v] \in {"active", "superseded"} => v \in parsed'
      BY <1>2, <2>2, <2>3, Committed
    <2>6. Keeps
      BY <1>2, <2>4 DEF Keeps, docVars
    <2>7. TablesOK'
      BY <1>1, <1>2, <2>4, <2>5 DEF TablesOK, docVars
    <2>8. RowsOK'
      BY <1>1, <1>2, <2>4, <2>5 DEF RowsOK, docVars
    <2> QED
      BY <1>2, <1>3, <2>6, <2>7, <2>8, WorkerReturns, MembersKept
         DEF IInv, TypeOK
  <1> QED
    BY <1>4, <1>5

\* A lease ends; nothing else changes.
LEMMA LeaseSteps ==
    ASSUME IInv, live' \subseteq live, slips' \in 0 .. MaxSlips,
           UNCHANGED <<file, deleted, parse, job, docVars, work, request, sweep,
                       requests>>
    PROVE  IInv'
  <1>1. TablesOK /\ RestOK /\ RowsOK
    BY DEF IInv, TypeOK
  <1>2. Keeps
    BY DEF Keeps, docVars
  <1>3. TablesOK' /\ RestOK'
    BY <1>1 DEF TablesOK, RestOK, docVars
  <1>4. RowsOK'
    BY <1>1 DEF RowsOK, ActiveWasParsed, docVars
  <1> QED
    BY <1>2, <1>3, <1>4, WorkersKept, MembersKept DEF IInv, TypeOK

LEMMA SlipOK ==
    ASSUME IInv, Slip PROVE slips' \in 0 .. MaxSlips
  BY DEF IInv, TypeOK, RestOK, Slip

LEMMA CrashStep ==
    ASSUME IInv, NEW w \in Worker, Crash(w)
    PROVE  IInv'
  <1>1. UNCHANGED <<rowVars, docVars, request, sweep, requests>>
        /\ work' = [work EXCEPT ![w] = AtRest]
    BY DEF Crash
  <1>2. TablesOK' /\ RowsOK' /\ Keeps
    BY <1>1, TablesKept
  <1>3. RestOK'
    BY <1>1, SlipOK DEF Crash, IInv, TypeOK, RestOK
  <1> QED
    BY <1>1, <1>2, <1>3, WorkerReturns, MembersKept DEF IInv, TypeOK

-----------------------------------------------------------------------------
(***************************************************************************)
(* Member requests.                                                        *)
(***************************************************************************)
Op == {"upload", "reparse", "retry", "cancel", "activate", "delete"}

\* A request begins with changes that say what may be said.
LEMMA BeginStep ==
    ASSUME IInv, NEW m \in Member, NEW op \in Op, NEW v \in Version \cup {None},
           NEW j \in Job \cup {None}, NEW f, NEW p, NEW row,
           NEW old \in Version \cup {None},
           Begin(m, op, v, j, f, p, row, old),
           FileChange(f), ParseChange(p), JobChange(row),
           "active" \in DOMAIN f => op = "activate" /\ f.active \in parsed,
           KnownParse(p), old # None => old \in parsed,
           op \in {"retry", "cancel"} => j \in Job /\ job[j].version # None,
           op \in {"reparse", "retry", "cancel", "activate"} => v \in Version
    PROVE  IInv'
  <1>1. DOMAIN request = Member /\ RestOK
    BY DEF IInv, TypeOK
  <1>2. PICK it : it = [op |-> op, stage |-> "read", version |-> v, job |-> j,
                        file |-> f, parse |-> p, row |-> row, old |-> old]
    OBVIOUS
  <1>3. UNCHANGED <<rowVars, docVars, work, sweep, slips>>
        /\ request' = [request EXCEPT ![m] = it] /\ request'[m] = it
    BY <1>1, <1>2 DEF Begin
  <1>4. requests' \in 0 .. MaxRequests
    BY <1>1 DEF Begin, RestOK
  <1>5. RestOK'
    BY <1>1, <1>3, <1>4 DEF RestOK
  <1>6. TablesOK' /\ RowsOK' /\ Keeps
    BY <1>3, TablesKept
  <1>7. RequestOK(m)'
    BY <1>2, <1>3 DEF RequestOK, Changes, Op
  <1>8. MemberOK(m)'
    <2>1. /\ it.file = f /\ it.parse = p /\ it.old = old /\ it.op = op
          /\ it.job = j /\ it.version = v
      BY <1>2
    <2>2. parsed' = parsed /\ job' = job
      BY <1>3 DEF rowVars, docVars
    <2> QED
      BY <1>3, <2>1, <2>2 DEF MemberOK, KnownParse
  <1>9. DOMAIN request' = Member /\ \A n \in Member : RequestOK(n)' /\ MemberOK(n)'
    BY <1>3, <1>6, <1>7, <1>8, OneMemberMoves
  <1> QED
    BY <1>3, <1>5, <1>6, <1>9, WorkersKept DEF IInv, TypeOK

LEMMA StatusTo ==
    ASSUME IInv, NEW s \in FileStatus
    PROVE  FileChange(FileStatusTo(s)) /\ "active" \notin DOMAIN FileStatusTo(s)
  <1>1. PICK f \in FileRow : f = file
    BY DEF IInv, TypeOK, TablesOK
  <1>2. PICK g : g = [f EXCEPT !.status = s]
    OBVIOUS
  <1>3. g \in FileRow /\ g.active = f.active
    BY <1>2 DEF FileRow
  <1> QED
    BY <1>1, <1>2, <1>3, ChangedFile DEF FileStatusTo

LEMMA StatusChange ==
    ASSUME IInv, NEW v \in Version, NEW s \in {"parsing", "failed"}
    PROVE  ParseChange(Status(v, parse[v], s)) /\ KnownParse(Status(v, parse[v], s))
  <1>1. PICK was : was = parse[v]
    OBVIOUS
  <1>2. s \in ParseStatus
    BY DEF ParseStatus
  <1>3. /\ ParseChange(Status(v, was, s))
        /\ \A u \in DOMAIN Status(v, was, s) : Status(v, was, s)[u] = s
    BY <1>2, ChangedStatus
  <1> QED
    BY <1>1, <1>3 DEF KnownParse

LEMMA NoStatusKnown == KnownParse(NoChange)
  BY NothingChanged DEF KnownParse

LEMMA UploadBegins ==
    ASSUME IInv, NEW m \in Member, BeginUpload(m) PROVE IInv'
  <1>1. PICK v, f, p : v = file.active /\ f = FileStatusTo("updating")
                       /\ p = NoChange
    OBVIOUS
  <1>2. Begin(m, "upload", v, None, f, p, p, None)
    BY <1>1 DEF BeginUpload
  <1>3. v \in Version \cup {None}
    BY <1>1 DEF IInv, TypeOK, TablesOK, FileRow
  <1>4. FileChange(f) /\ "active" \notin DOMAIN f
    BY <1>1, StatusTo DEF FileStatus
  <1> QED
    BY <1>1, <1>2, <1>3, <1>4, BeginStep, NothingChanged, NoStatusKnown DEF Op

LEMMA ReparseBegins ==
    ASSUME IInv, NEW m \in Member, BeginReparse(m) PROVE IInv'
  <1>1. PICK v, n, p : v = file.active /\ n = NoChange
                       /\ p = Status(v, parse[v], "parsing")
    OBVIOUS
  <1>2. Begin(m, "reparse", v, None, n, p, n, None)
    BY <1>1 DEF BeginReparse
  <1>3. v \in Version
    BY <1>1 DEF IInv, TypeOK, TablesOK, FileRow, BeginReparse
  <1>4. ParseChange(p) /\ KnownParse(p)
    BY <1>1, <1>3, StatusChange
  <1> QED
    BY <1>1, <1>2, <1>3, <1>4, BeginStep, NothingChanged DEF Op

LEMMA RetryBegins ==
    ASSUME IInv, NEW m \in Member, NEW j \in Job, BeginRetry(m, j) PROVE IInv'
  <1>1. PICK v, row, new, n, p, r :
            /\ row = job[j] /\ v = row.version /\ n = NoChange
            /\ new = NewJob(v, "parse_dispatched")
            /\ p = Status(v, parse[v], "parsing") /\ r = Changed(row, new)
    OBVIOUS
  <1>2. Begin(m, "retry", v, j, n, p, r, None)
    BY <1>1 DEF BeginRetry
  <1>3. row \in JobRow /\ v # None /\ v \in Version
    BY <1>1 DEF IInv, TypeOK, TablesOK, RowsOK, JobRow, BeginRetry
  <1>4. ParseChange(p) /\ KnownParse(p)
    BY <1>1, <1>3, StatusChange
  <1>5. /\ new \in JobRow /\ new.version = v /\ new.status # "absent"
        /\ new.holder = Nobody
    BY <1>1, <1>3, NewJobRow DEF Pending
  <1>6. JobChange(r)
    BY <1>1, <1>3, <1>5, ChangedJob
  <1> QED
    BY <1>1, <1>2, <1>3, <1>4, <1>6, BeginStep, NothingChanged DEF Op

LEMMA CancelBegins ==
    ASSUME IInv, NEW m \in Member, NEW j \in Job, BeginCancel(m, j) PROVE IInv'
  <1>1. PICK v, row, new, f, g, p, r :
            /\ row = job[j] /\ v = row.version
            /\ new = [row EXCEPT !.status = "cancelled", !.holder = Nobody]
            /\ g = FileWithout(file, v) /\ f = Changed(file, g)
            /\ p = Status(v, parse[v], "failed") /\ r = Changed(row, new)
    OBVIOUS
  <1>2. Begin(m, "cancel", v, j, f, p, r, None)
    BY <1>1 DEF BeginCancel
  <1>3. row \in JobRow /\ v # None /\ v \in Version
    BY <1>1 DEF IInv, TypeOK, TablesOK, RowsOK, JobRow, BeginCancel, Pending
  <1>4. ParseChange(p) /\ KnownParse(p)
    BY <1>1, <1>3, StatusChange
  <1>5. /\ new \in JobRow /\ new.version = v /\ new.status # "absent"
        /\ new.holder = Nobody
    <2>1. row = [version |-> row.version, status |-> row.status,
                 attempts |-> row.attempts, holder |-> row.holder]
      BY <1>3 DEF JobRow
    <2>2. new = [version |-> row.version, status |-> "cancelled",
                 attempts |-> row.attempts, holder |-> Nobody]
      BY <1>1, <2>1
    <2> QED
      BY <1>1, <1>3, <2>2 DEF JobRow, Over
  <1>6. JobChange(r)
    BY <1>1, <1>3, <1>5, ChangedJob
  <1>7. FileChange(f) /\ "active" \notin DOMAIN f
    <2>1. PICK was \in FileRow : was = file
      BY DEF IInv, TypeOK, TablesOK
    <2>2. g \in FileRow /\ g.active = was.active
      BY <1>1, <2>1, FailedFile
    <2> QED
      BY <1>1, <2>1, <2>2, ChangedFile
  <1> QED
    BY <1>1, <1>2, <1>3, <1>4, <1>6, <1>7, BeginStep DEF Op

LEMMA ActivateBegins ==
    ASSUME IInv, NEW m \in Member, NEW v \in Version, BeginActivate(m, v)
    PROVE  IInv'
  <1>1. PICK was, f, g, p, n, old :
            /\ was = parse[v] /\ p = Status(v, was, "active") /\ n = NoChange
            /\ g = Activated(v) /\ f = Changed(file, g)
            /\ old = Replaced(file, v)
    OBVIOUS
  <1>2. Begin(m, "activate", v, None, f, p, n, old)
    BY <1>1 DEF BeginActivate
  <1>3. v \in parsed
    BY DEF BeginActivate, IInv, RowsOK
  <1>4. ParseChange(p) /\ KnownParse(p)
    <2>1. "active" \in ParseStatus
      BY DEF ParseStatus
    <2> QED
      BY <1>1, <1>3, <2>1, ChangedStatus DEF KnownParse
  <1>5. PICK now \in FileRow : now = file
    BY DEF IInv, TypeOK, TablesOK
  <1>6. FileChange(f) /\ ("active" \in DOMAIN f => f.active \in parsed)
    <2>1. g \in FileRow /\ g.active = v
      BY <1>1 DEF Activated, FileRow, FileStatus
    <2> QED
      BY <1>1, <1>3, <1>5, <2>1, ChangedFile
  <1>7. old \in Version \cup {None} /\ (old # None => old \in parsed)
    BY <1>1, <1>5 DEF Replaced, FileRow, IInv, RowsOK, ActiveWasParsed
  <1> QED
    BY <1>1, <1>2, <1>4, <1>6, <1>7, BeginStep, NothingChanged DEF Op

LEMMA DeleteBegins ==
    ASSUME IInv, NEW m \in Member, BeginDelete(m) PROVE IInv'
  <1>1. PICK f, n : f = FileStatusTo("deleting") /\ n = NoChange
    OBVIOUS
  <1>2. Begin(m, "delete", None, None, f, n, n, None)
    BY <1>1 DEF BeginDelete
  <1>3. FileChange(f) /\ "active" \notin DOMAIN f
    BY <1>1, StatusTo DEF FileStatus
  <1> QED
    BY <1>1, <1>2, <1>3, BeginStep, NothingChanged, NoStatusKnown DEF Op

\* A request that moves on, with the changes it had.
LEMMA MemberMoves ==
    ASSUME IInv, Keeps, NEW m \in Member, request[m] # AtRest,
           NEW stage \in {"asked", "committed"},
           request' = [request EXCEPT ![m].stage = stage]
    PROVE  DOMAIN request' = Member
           /\ \A n \in Member : RequestOK(n)' /\ MemberOK(n)'
  <1>1. PICK it : it = request[m]
    OBVIOUS
  <1>2. /\ DOMAIN it = {"op", "stage", "version", "job", "file", "parse", "row",
                        "old"}
        /\ it.op \in Op /\ Changes(it)
        /\ it.version \in Version \cup {None} /\ it.job \in Job \cup {None}
    BY <1>1 DEF IInv, TypeOK, RequestOK, Op
  <1>3. PICK new : new = [it EXCEPT !.stage = stage]
    OBVIOUS
  <1>4. request' = [request EXCEPT ![m] = new] /\ request'[m] = new
    BY <1>1, <1>3 DEF IInv, TypeOK
  <1>5. /\ DOMAIN new = DOMAIN it /\ new.stage = stage /\ new.op = it.op
        /\ new.version = it.version /\ new.job = it.job /\ new.file = it.file
        /\ new.parse = it.parse /\ new.row = it.row /\ new.old = it.old
    BY <1>2, <1>3
  <1>6. RequestOK(m)'
    BY <1>2, <1>4, <1>5 DEF RequestOK, Op, Changes
  <1>7. MemberOK(m)'
    <2>1. MemberOK(m) /\ parsed \subseteq parsed'
      BY DEF IInv, Keeps
    <2>2. it.op \in {"retry", "cancel"} =>
              it.job \in Job /\ job'[it.job].version # None
      BY <1>1, <2>1 DEF MemberOK, Keeps
    <2> QED
      BY <1>1, <1>4, <1>5, <2>1, <2>2 DEF MemberOK, KnownParse
  <1> QED
    BY <1>4, <1>6, <1>7, OneMemberMoves

\* What is asked of RAGFlow parses no document further, and commits nothing.
LEMMA AskStep ==
    ASSUME IInv, NEW m \in Member, request[m] # AtRest,
           Asked(m) \/ Answered(m),
           doc' \in [Version -> [run : Runs, enabled : BOOLEAN]],
           \A v \in Version : doc'[v].run \in {doc[v].run} \cup (Runs \ {"DONE"}),
           UNCHANGED <<rowVars, parsed, work, sweep, requests, slips>>
    PROVE  IInv'
  <1>1. TablesOK /\ RestOK /\ RowsOK
    BY DEF IInv, TypeOK
  <1>2. Keeps
    BY DEF Keeps, rowVars
  <1>3. TablesOK' /\ RestOK'
    BY <1>1 DEF TablesOK, RestOK, rowVars
  <1>4. \A v \in Version : doc'[v].run = "DONE" => v \in parsed'
    BY DocsOK
  <1>5. RowsOK'
    BY <1>1, <1>4 DEF RowsOK, ActiveWasParsed, rowVars
  <1>6. DOMAIN request' = Member /\ \A n \in Member : RequestOK(n)' /\ MemberOK(n)'
    BY <1>2, MemberMoves, MemberReturns DEF Asked
  <1> QED
    BY <1>2, <1>3, <1>5, <1>6, WorkersKept DEF IInv, TypeOK

LEMMA OneDoc ==
    ASSUME IInv, NEW v, NEW run \in Runs \ {"DONE"},
           doc' = [doc EXCEPT ![v].run = run]
    PROVE  /\ doc' \in [Version -> [run : Runs, enabled : BOOLEAN]]
           /\ \A u \in Version :
                  doc'[u].run \in {doc[u].run} \cup (Runs \ {"DONE"})
  BY DEF IInv, TypeOK, TablesOK

LEMMA SameDocs ==
    ASSUME IInv, UNCHANGED doc
    PROVE  /\ doc' \in [Version -> [run : Runs, enabled : BOOLEAN]]
           /\ \A u \in Version :
                  doc'[u].run \in {doc[u].run} \cup (Runs \ {"DONE"})
  BY DEF IInv, TypeOK, TablesOK

LEMMA DocsGone ==
    ASSUME IInv, doc' = NoDocs
    PROVE  /\ doc' \in [Version -> [run : Runs, enabled : BOOLEAN]]
           /\ \A u \in Version :
                  doc'[u].run \in {doc[u].run} \cup (Runs \ {"DONE"})
  <1>1. NoDoc \in [run : Runs, enabled : BOOLEAN] /\ NoDoc.run = "none"
    BY DEF NoDoc, Runs
  <1> QED
    BY <1>1 DEF NoDocs, Runs

LEMMA ParseAsked ==
    ASSUME IInv, NEW m \in Member, AskParse(m) PROVE IInv'
  <1>1. request[m] # AtRest /\ Asked(m)
        /\ UNCHANGED <<rowVars, parsed, work, sweep, requests, slips>>
    BY DEF AskParse, It
  <1>2. PICK v : doc' = [doc EXCEPT ![v].run = "UNSTART"]
    BY DEF AskParse
  <1> QED
    BY <1>1, <1>2, OneDoc, AskStep DEF Runs

LEMMA StopAsked ==
    ASSUME IInv, NEW m \in Member, AskStop(m) PROVE IInv'
  <1>1. request[m] # AtRest /\ Asked(m)
        /\ UNCHANGED <<rowVars, parsed, work, sweep, requests, slips>>
    BY DEF AskStop, It
  <1>2. PICK v : doc' = [doc EXCEPT ![v].run = "CANCEL"] \/ UNCHANGED doc
    BY DEF AskStop
  <1> QED
    BY <1>1, <1>2, OneDoc, SameDocs, AskStep DEF Runs

LEMMA DeleteAsked ==
    ASSUME IInv, NEW m \in Member, AskDelete(m) PROVE IInv'
  <1>1. request[m] # AtRest /\ Asked(m) /\ doc' = NoDocs
        /\ UNCHANGED <<rowVars, parsed, work, sweep, requests, slips>>
    BY DEF AskDelete, It
  <1> QED
    BY <1>1, DocsGone, AskStep

LEMMA DisableAsked ==
    ASSUME IInv, NEW m \in Member, AskDisable(m) PROVE IInv'
  <1>1. request[m] # AtRest /\ Answered(m)
        /\ UNCHANGED <<rowVars, parsed, work, sweep, requests, slips>>
    BY DEF AskDisable, It
  <1>2. /\ doc' \in [Version -> [run : Runs, enabled : BOOLEAN]]
        /\ \A u \in Version : doc'[u].run = doc[u].run
    BY Enabled DEF AskDisable
  <1> QED
    BY <1>1, <1>2, AskStep

LEMMA Abandoned ==
    ASSUME IInv, NEW m \in Member, Abandon(m) PROVE IInv'
  <1>1. request[m] # AtRest /\ Answered(m)
        /\ UNCHANGED <<rowVars, docVars, work, sweep, requests, slips>>
    BY DEF Abandon
  <1> QED
    BY <1>1, SameDocs, AskStep DEF docVars

\* The replaced version is read, and will be superseded.
LEMMA EnableAsked ==
    ASSUME IInv, NEW m \in Member, AskEnable(m) PROVE IInv'
  <1>1. PICK it, q : it = request[m] /\ q = Superseding(it.old)
    OBVIOUS
  <1>2. /\ DOMAIN it = {"op", "stage", "version", "job", "file", "parse", "row",
                        "old"}
        /\ it.op = "activate" /\ it.stage = "read" /\ Changes(it)
        /\ it.version \in Version \cup {None} /\ it.job \in Job \cup {None}
        /\ it # AtRest /\ MemberOK(m)
    BY <1>1 DEF IInv, TypeOK, RequestOK, AskEnable, It
  <1>3. ParseChange(q) /\ KnownParse(q)
    BY <1>1, <1>2, ChangedReplaced DEF Changes, MemberOK, KnownParse
  <1>4. PICK both : both = Both(it.parse, q)
    OBVIOUS
  <1>5. ParseChange(both) /\ KnownParse(both)
    BY <1>1, <1>2, <1>3, <1>4, BothChanged DEF Changes, MemberOK, KnownParse
  <1>6. PICK new : new = [it EXCEPT !.stage = "asked", !.parse = both]
    OBVIOUS
  <1>7. request' = [request EXCEPT ![m] = new] /\ request'[m] = new
    <2>1. request' = [request EXCEPT ![m].stage = "asked",
                                     ![m].parse = Both(@, q)]
      BY <1>1 DEF AskEnable
    <2>2. DOMAIN request = Member
      BY DEF IInv, TypeOK
    <2>3. request' = [request EXCEPT ![m] =
                          [it EXCEPT !.stage = "asked", !.parse = both]]
      BY <1>1, <1>4, <2>1, <2>2
    <2> QED
      BY <1>6, <2>2, <2>3
  <1>8. /\ DOMAIN new = DOMAIN it /\ new.stage = "asked" /\ new.op = it.op
        /\ new.version = it.version /\ new.job = it.job
        /\ new.file = it.file /\ new.parse = both /\ new.row = it.row
        /\ new.old = it.old
    BY <1>2, <1>6
  <1>9. UNCHANGED <<rowVars, parsed, work, sweep, requests, slips>>
    BY DEF AskEnable
  <1>10. /\ doc' \in [Version -> [run : Runs, enabled : BOOLEAN]]
         /\ \A u \in Version : doc'[u].run = doc[u].run
    BY Enabled DEF AskEnable
  <1>11. TablesOK /\ RestOK /\ RowsOK
    BY DEF IInv, TypeOK
  <1>12. Keeps
    BY <1>9 DEF Keeps, rowVars
  <1>13. TablesOK' /\ RestOK'
    BY <1>9, <1>10, <1>11 DEF TablesOK, RestOK, rowVars
  <1>14. RowsOK'
    BY <1>9, <1>10, <1>11 DEF RowsOK, ActiveWasParsed, rowVars
  <1>15. RequestOK(m)'
    BY <1>2, <1>5, <1>8, <1>7 DEF RequestOK, Changes
  <1>16. MemberOK(m)'
    BY <1>1, <1>2, <1>5, <1>7, <1>9, <1>8 DEF MemberOK, KnownParse, rowVars
  <1>17. DOMAIN request' = Member
         /\ \A n \in Member : RequestOK(n)' /\ MemberOK(n)'
    BY <1>7, <1>12, <1>15, <1>16, OneMemberMoves
  <1> QED
    BY <1>9, <1>12, <1>13, <1>14, <1>17, WorkersKept DEF IInv, TypeOK

\* What a request that is not at rest has in its hands.
LEMMA InHand ==
    ASSUME IInv, NEW m \in Member, request[m] # AtRest
    PROVE  /\ Changes(request[m]) /\ KnownParse(request[m].parse)
           /\ "active" \in DOMAIN request[m].file =>
                  request[m].file.active \in parsed
           /\ request[m].op \in {"retry", "cancel"} =>
                  request[m].job \in Job /\ job[request[m].job].version # None
           /\ request[m].op \in {"reparse", "retry", "cancel", "activate"} =>
                  request[m].version \in Version
  BY DEF IInv, TypeOK, RequestOK, MemberOK

\* The commit of a request that changes the file and parse_status.
LEMMA RowsCommitted ==
    ASSUME IInv, NEW m \in Member, NEW f, NEW p,
           FileChange(f), ParseChange(p), KnownParse(p),
           "active" \in DOMAIN f => f.active \in parsed,
           file' = Write(file, f), parse' = Write(parse, p),
           deleted' \in BOOLEAN, job' \in [Job -> JobRow], live' \subseteq Job,
           \A k \in Job : job'[k].version = job[k].version,
           \A k \in Job : job'[k].status = "absent" <=> job'[k].version = None,
           Answered(m) \/
               (request[m] # AtRest
                /\ request' = [request EXCEPT ![m].stage = "committed"]),
           UNCHANGED <<docVars, work, sweep, requests, slips>>
    PROVE  IInv'
  <1>1. TablesOK /\ RestOK /\ RowsOK
    BY DEF IInv, TypeOK
  <1>2. /\ file' \in FileRow /\ parse' \in [Version -> ParseStatus]
        /\ ActiveWasParsed'
        /\ \A v \in Version : parse'[v] \in {"active", "superseded"} => v \in parsed'
    BY Committed
  <1>3. Keeps
    BY DEF Keeps, docVars
  <1>4. TablesOK' /\ RestOK'
    BY <1>1, <1>2 DEF TablesOK, RestOK, docVars
  <1>5. RowsOK'
    BY <1>1, <1>2 DEF RowsOK, docVars
  <1>6. DOMAIN request' = Member /\ \A n \in Member : RequestOK(n)' /\ MemberOK(n)'
    BY <1>3, MemberMoves, MemberReturns
  <1> QED
    BY <1>3, <1>4, <1>5, <1>6, WorkersKept DEF IInv, TypeOK

\* Nothing is written where nothing has changed.
LEMMA WrittenNothing ==
    ASSUME IInv
    PROVE  Write(file, NoChange) = file /\ Write(parse, NoChange) = parse
  <1>1. file \in FileRow /\ parse \in [Version -> ParseStatus]
    BY DEF IInv, TypeOK, TablesOK
  <1>2. Write(file, NoChange) = [c \in DOMAIN file |-> file[c]]
    BY NothingChanged DEF Write
  <1>3. Write(parse, NoChange) = [c \in DOMAIN parse |-> parse[c]]
    BY NothingChanged DEF Write
  <1>4. [c \in DOMAIN file |-> file[c]] = file
    BY <1>1 DEF FileRow
  <1>5. [c \in DOMAIN parse |-> parse[c]] = parse
    BY <1>1
  <1> QED
    BY <1>2, <1>3, <1>4, <1>5

LEMMA RetryStep ==
    ASSUME IInv, NEW m \in Member, Retry(m) PROVE IInv'
  <1>1. PICK j, row, p, n : j = request[m].job /\ row = request[m].row
                            /\ p = request[m].parse /\ n = NoChange
    OBVIOUS
  <1>2. /\ j \in Job /\ job[j].version # None
        /\ JobChange(row) /\ ParseChange(p) /\ KnownParse(p)
    BY <1>1, InHand DEF Retry, It, Changes
  <1>3. WriteJob(j, row) /\ parse' = Write(parse, p) /\ Answered(m)
        /\ UNCHANGED <<file, deleted, docVars, work, sweep, requests, slips>>
    BY <1>1 DEF Retry
  <1>4. /\ job' \in [Job -> JobRow] /\ live' \subseteq Job
        /\ \A k \in Job : job'[k].version = job[k].version
        /\ \A k \in Job : job'[k].status = "absent" <=> job'[k].version = None
    BY <1>2, <1>3, CommittedJob
  <1>5. FileChange(n) /\ "active" \notin DOMAIN n /\ file' = Write(file, n)
    BY <1>1, <1>3, NothingChanged, WrittenNothing
  <1>6. deleted' \in BOOLEAN
    BY <1>3 DEF IInv, TypeOK, TablesOK
  <1> QED
    BY <1>2, <1>3, <1>4, <1>5, <1>6, RowsCommitted

LEMMA CancelStep ==
    ASSUME IInv, NEW m \in Member, Cancel(m) PROVE IInv'
  <1>1. PICK j, row, p, f : j = request[m].job /\ row = request[m].row
                            /\ p = request[m].parse /\ f = request[m].file
    OBVIOUS
  <1>2. /\ j \in Job /\ job[j].version # None
        /\ JobChange(row) /\ ParseChange(p) /\ KnownParse(p) /\ FileChange(f)
        /\ "active" \in DOMAIN f => f.active \in parsed
    BY <1>1, InHand DEF Cancel, It, Changes
  <1>3. /\ WriteJob(j, row) /\ parse' = Write(parse, p) /\ file' = Write(file, f)
        /\ Answered(m) /\ UNCHANGED <<deleted, docVars, work, sweep, requests, slips>>
    BY <1>1 DEF Cancel
  <1>4. /\ job' \in [Job -> JobRow] /\ live' \subseteq Job
        /\ \A k \in Job : job'[k].version = job[k].version
        /\ \A k \in Job : job'[k].status = "absent" <=> job'[k].version = None
    BY <1>2, <1>3, CommittedJob
  <1>5. deleted' \in BOOLEAN
    BY <1>3 DEF IInv, TypeOK, TablesOK
  <1> QED
    BY <1>2, <1>3, <1>4, <1>5, RowsCommitted

LEMMA ActivateStep ==
    ASSUME IInv, NEW m \in Member, Activate(m) PROVE IInv'
  <1>1. PICK p, f : p = request[m].parse /\ f = request[m].file
    OBVIOUS
  <1>2. /\ ParseChange(p) /\ KnownParse(p) /\ FileChange(f)
        /\ "active" \in DOMAIN f => f.active \in parsed
        /\ request[m] # AtRest
    BY <1>1, InHand DEF Activate, It, Changes
  <1>3. /\ parse' = Write(parse, p) /\ file' = Write(file, f)
        /\ Answered(m) \/ request' = [request EXCEPT ![m].stage = "committed"]
        /\ UNCHANGED <<deleted, job, live, docVars, work, sweep, requests, slips>>
    BY <1>1 DEF Activate
  <1>4. /\ deleted' \in BOOLEAN /\ job' \in [Job -> JobRow] /\ live' \subseteq Job
        /\ \A k \in Job : job'[k].version = job[k].version
        /\ \A k \in Job : job'[k].status = "absent" <=> job'[k].version = None
    BY <1>3 DEF IInv, TypeOK, TablesOK, RowsOK
  <1> QED
    BY <1>2, <1>3, <1>4, RowsCommitted

LEMMA DeleteStep ==
    ASSUME IInv, NEW m \in Member, Delete(m) PROVE IInv'
  <1>1. PICK p, f : p = NoChange /\ f = request[m].file
    OBVIOUS
  <1>2. FileChange(f) /\ ("active" \in DOMAIN f => f.active \in parsed)
    BY <1>1, InHand DEF Delete, It, Changes
  <1>3. /\ file' = Write(file, f) /\ Answered(m)
        /\ deleted' = (deleted \/ It(m, "delete", "asked"))
        /\ UNCHANGED <<parse, job, live, docVars, work, sweep, requests, slips>>
    BY <1>1 DEF Delete
  <1>4. /\ job' \in [Job -> JobRow] /\ live' \subseteq Job
        /\ \A k \in Job : job'[k].version = job[k].version
        /\ \A k \in Job : job'[k].status = "absent" <=> job'[k].version = None
    BY <1>3 DEF IInv, TypeOK, TablesOK, RowsOK
  <1>5. deleted' \in BOOLEAN
    BY <1>3
  <1>6. ParseChange(p) /\ KnownParse(p) /\ parse' = Write(parse, p)
    BY <1>1, <1>3, NothingChanged, NoStatusKnown, WrittenNothing
  <1> QED
    BY <1>2, <1>3, <1>4, <1>5, <1>6, RowsCommitted

\* A job is added, of a version whose parse_status may change.
LEMMA JobCommitted ==
    ASSUME IInv, NEW m \in Member, NEW j \in Job, NEW v \in Version,
           NEW s \in Pending \cup Over, NextJob(j),
           job' = [job EXCEPT ![j] = NewJob(v, s)],
           file' \in FileRow, file'.active = file.active,
           parse' \in [Version -> ParseStatus],
           \A u \in Version : parse'[u] \in {"active", "superseded"} =>
                                 parse'[u] = parse[u],
           doc' \in [Version -> [run : Runs, enabled : BOOLEAN]],
           \A u \in Version : doc'[u].run \in {doc[u].run} \cup (Runs \ {"DONE"}),
           Answered(m),
           UNCHANGED <<deleted, live, parsed, work, sweep, requests, slips>>
    PROVE  IInv'
  <1>1. TablesOK /\ RestOK /\ RowsOK
    BY DEF IInv, TypeOK
  <1>2. /\ job' \in [Job -> JobRow]
        /\ \A k \in Job : job'[k].status = "absent" <=> job'[k].version = None
    BY JobAdded
  <1>3. Keeps
    BY JobAddedKeeps
  <1>4. TablesOK' /\ RestOK'
    BY <1>1, <1>2 DEF TablesOK, RestOK
  <1>5. \A u \in Version : doc'[u].run = "DONE" => u \in parsed'
    BY DocsOK
  <1>6. RowsOK'
    BY <1>1, <1>2, <1>5 DEF RowsOK, ActiveWasParsed
  <1> QED
    BY <1>3, <1>4, <1>6, WorkersKept, MemberReturns DEF IInv, TypeOK

LEMMA UploadStep ==
    ASSUME IInv, NEW m \in Member, Upload(m) PROVE IInv'
  <1>1. PICK f, t : f = request[m].file /\ t = Without(request[m].version)
    OBVIOUS
  <1>2. FileChange(f) /\ "active" \notin DOMAIN f
    BY <1>1 DEF Upload, It, IInv, TypeOK, RequestOK, Changes, MemberOK
  <1>3. t \in FileStatus
    BY <1>1 DEF Without, FileStatus
  <1>4. PICK v \in Version, j \in Job :
            /\ NextJob(j)
            /\ \/ /\ doc' = [doc EXCEPT ![v] = NewDoc]
                  /\ parse' = [parse EXCEPT ![v] = "parsing"]
                  /\ job' = [job EXCEPT ![j] = NewJob(v, "parse_dispatched")]
                  /\ file' = Write(file, f)
               \/ /\ doc' \in {doc, [doc EXCEPT ![v] = NewDoc]}
                  /\ parse' = [parse EXCEPT ![v] = "failed"]
                  /\ job' = [job EXCEPT ![j] = NewJob(v, "failed")]
                  /\ file' = [file EXCEPT !.status = t]
    BY <1>1 DEF Upload
  <1>5. Answered(m)
        /\ UNCHANGED <<deleted, live, parsed, work, sweep, requests, slips>>
    BY DEF Upload
  <1>6. PICK now \in FileRow : now = file
    BY DEF IInv, TypeOK, TablesOK
  <1>7. file' \in FileRow /\ file'.active = file.active
    <2>1. CASE file' = Write(file, f)
      BY <1>2, <1>6, <2>1, WrittenFile
    <2>2. CASE file' = [file EXCEPT !.status = t]
      BY <1>3, <1>6, <2>2 DEF FileRow
    <2> QED
      BY <1>4, <2>1, <2>2
  <1>8. PICK s \in {"parse_dispatched", "failed"} :
            job' = [job EXCEPT ![j] = NewJob(v, s)]
    BY <1>4
  <1>9. /\ parse' \in [Version -> ParseStatus]
        /\ \A u \in Version : parse'[u] \in {"active", "superseded"} =>
                                parse'[u] = parse[u]
    <2>1. PICK to \in {"parsing", "failed"} : parse' = [parse EXCEPT ![v] = to]
      BY <1>4
    <2>2. parse \in [Version -> ParseStatus]
      BY DEF IInv, TypeOK, TablesOK
    <2> QED
      BY <2>1, <2>2 DEF ParseStatus
  <1>10. /\ doc' \in [Version -> [run : Runs, enabled : BOOLEAN]]
         /\ \A u \in Version :
                doc'[u].run \in {doc[u].run} \cup (Runs \ {"DONE"})
    <2>1. CASE UNCHANGED doc
      BY <2>1, SameDocs
    <2>2. CASE doc' = [doc EXCEPT ![v] = NewDoc]
      <3>1. NewDoc \in [run : Runs, enabled : BOOLEAN] /\ NewDoc.run = "UNSTART"
        BY DEF NewDoc, Runs
      <3> QED
        BY <2>2, <3>1 DEF IInv, TypeOK, TablesOK, Runs
    <2> QED
      BY <1>4, <2>1, <2>2
  <1>11. s \in Pending \cup Over
    BY DEF Pending, Over
  <1> QED
    BY <1>4, <1>5, <1>7, <1>8, <1>9, <1>10, <1>11, JobCommitted

LEMMA ReparseStep ==
    ASSUME IInv, NEW m \in Member, Reparse(m) PROVE IInv'
  <1>1. PICK v, p : v = request[m].version /\ p = request[m].parse
    OBVIOUS
  <1>2. v \in Version /\ ParseChange(p) /\ KnownParse(p)
    BY <1>1, InHand DEF Reparse, It, Changes
  <1>3. PICK j \in Job, s \in {"parse_dispatched", "failed"} :
            /\ NextJob(j) /\ job' = [job EXCEPT ![j] = NewJob(v, s)]
            /\ parse' = Write(parse, p) \/ UNCHANGED parse
    BY <1>1 DEF Reparse
  <1>4. UNCHANGED <<file, deleted, live, docVars, work, sweep, requests, slips>>
        /\ Answered(m)
    BY DEF Reparse
  <1>5. PICK q : ParseChange(q) /\ KnownParse(q) /\ parse' = Write(parse, q)
    <2>1. PICK n : n = NoChange
      OBVIOUS
    <2>2. ParseChange(n) /\ KnownParse(n) /\ Write(parse, n) = parse
      BY <2>1, NothingChanged, NoStatusKnown, WrittenNothing
    <2> QED
      BY <1>2, <1>3, <2>2
  <1>6. PICK f : FileChange(f) /\ "active" \notin DOMAIN f /\ file' = Write(file, f)
    <2>1. PICK n : n = NoChange
      OBVIOUS
    <2> QED
      BY <1>4, <2>1, NothingChanged, WrittenNothing
  <1>7. /\ file' \in FileRow /\ parse' \in [Version -> ParseStatus]
        /\ ActiveWasParsed'
        /\ \A u \in Version : parse'[u] \in {"active", "superseded"} => u \in parsed'
    BY <1>4, <1>5, <1>6, Committed
  <1>8. s \in Pending \cup Over
    BY DEF Pending, Over
  <1>9. /\ job' \in [Job -> JobRow]
        /\ \A k \in Job : job'[k].status = "absent" <=> job'[k].version = None
    BY <1>2, <1>3, <1>8, JobAdded
  <1>10. Keeps
    BY <1>2, <1>3, <1>4, <1>8, JobAddedKeeps DEF docVars
  <1>11. TablesOK /\ RestOK /\ RowsOK
    BY DEF IInv, TypeOK
  <1>12. TablesOK' /\ RestOK'
    BY <1>4, <1>7, <1>9, <1>11 DEF TablesOK, RestOK, docVars
  <1>13. RowsOK'
    BY <1>4, <1>7, <1>9, <1>11 DEF RowsOK, docVars
  <1> QED
    BY <1>4, <1>10, <1>12, <1>13, WorkersKept, MemberReturns DEF IInv, TypeOK

-----------------------------------------------------------------------------
(***************************************************************************)
(* The reconciler writes deleted_at and no other column.                   *)
(***************************************************************************)
SweepRow == [stage : {"idle", "disabling", "commit"},
             todo : SUBSET Version, removes : BOOLEAN]

LEMMA Sweeps ==
    ASSUME IInv, deleted' \in BOOLEAN, sweep' \in SweepRow,
           slips' \in 0 .. MaxSlips,
           doc' \in [Version -> [run : Runs, enabled : BOOLEAN]],
           \A v \in Version : doc'[v].run \in {doc[v].run} \cup (Runs \ {"DONE"}),
           UNCHANGED <<file, parse, job, live, parsed, work, request, requests>>
    PROVE  IInv'
  <1>1. TablesOK /\ RestOK /\ RowsOK
    BY DEF IInv, TypeOK
  <1>2. Keeps
    BY DEF Keeps
  <1>3. TablesOK' /\ RestOK'
    BY <1>1 DEF TablesOK, RestOK, SweepRow
  <1>4. \A v \in Version : doc'[v].run = "DONE" => v \in parsed'
    BY DocsOK
  <1>5. RowsOK'
    BY <1>1, <1>4 DEF RowsOK, ActiveWasParsed
  <1> QED
    BY <1>2, <1>3, <1>5, WorkersKept, MembersKept DEF IInv, TypeOK

LEMMA SweepSteps ==
    ASSUME IInv, SweepStep \/ SweepCrashes \/ \E v \in Version : SweepDisables(v)
    PROVE  IInv'
  <1>1. /\ sweep \in SweepRow /\ deleted \in BOOLEAN
        /\ slips \in 0 .. MaxSlips
    BY DEF IInv, TypeOK, TablesOK, RestOK, SweepRow
  <1>2. NoSweep \in SweepRow
    BY DEF NoSweep, SweepRow
  <1>3. CASE SweepStarts
    <2>1. UNCHANGED <<rowVars, docVars, work, request, requests, slips>>
      BY <1>3 DEF SweepStarts
    <2>2. sweep' \in SweepRow
      BY <1>1, <1>3 DEF SweepStarts, SweepRow, Superseded
    <2> QED
      BY <1>1, <2>1, <2>2, SameDocs, Sweeps DEF rowVars, docVars
  <1>4. ASSUME NEW v \in Version, SweepMisses(v)
        PROVE  IInv'
    <2>1. UNCHANGED <<rowVars, docVars, work, request, requests, slips>>
      BY <1>4 DEF SweepMisses
    <2>2. sweep' \in SweepRow
      BY <1>1, <1>4 DEF SweepMisses, Swept, SweepRow
    <2> QED
      BY <1>1, <2>1, <2>2, SameDocs, Sweeps DEF rowVars, docVars
  <1>5. ASSUME NEW v \in Version, SweepDisables(v)
        PROVE  IInv'
    <2>1. UNCHANGED <<rowVars, parsed, work, request, requests, slips>>
      BY <1>5 DEF SweepDisables
    <2>2. sweep' \in SweepRow
      BY <1>1, <1>5 DEF SweepDisables, Swept, SweepRow
    <2>3. /\ doc' \in [Version -> [run : Runs, enabled : BOOLEAN]]
          /\ \A u \in Version : doc'[u].run = doc[u].run
      BY <1>5, Enabled DEF SweepDisables
    <2> QED
      BY <1>1, <2>1, <2>2, <2>3, Sweeps DEF rowVars
  <1>6. CASE SweepDeletes
    <2>1. UNCHANGED <<rowVars, parsed, work, request, requests, slips>>
      BY <1>6 DEF SweepDeletes
    <2>2. sweep' \in SweepRow
      BY <1>1, <1>2, <1>6 DEF SweepDeletes, SweepRow
    <2>3. doc' = NoDocs \/ UNCHANGED doc
      BY <1>6 DEF SweepDeletes
    <2> QED
      BY <1>1, <2>1, <2>2, <2>3, DocsGone, SameDocs, Sweeps DEF rowVars
  <1>7. CASE SweepCommits
    <2>1. UNCHANGED <<file, parse, job, live, docVars, work, request, requests,
                      slips>>
          /\ sweep' = NoSweep /\ deleted' \in BOOLEAN
      BY <1>7 DEF SweepCommits
    <2> QED
      BY <1>1, <1>2, <2>1, SameDocs, Sweeps DEF docVars
  <1>8. CASE SweepCrashes
    <2>1. UNCHANGED <<rowVars, docVars, work, request, requests>>
          /\ sweep' = NoSweep
      BY <1>8 DEF SweepCrashes
    <2>2. slips' \in 0 .. MaxSlips
      BY <1>8, SlipOK DEF SweepCrashes
    <2> QED
      BY <1>1, <1>2, <2>1, <2>2, SameDocs, Sweeps DEF rowVars, docVars
  <1> QED
    BY <1>3, <1>4, <1>5, <1>6, <1>7, <1>8 DEF SweepStep

-----------------------------------------------------------------------------
(***************************************************************************)
(* The invariant is inductive.                                             *)
(***************************************************************************)
LEMMA WorkerSteps ==
    ASSUME IInv, NEW w \in Worker,
           \/ \E j \in Job : Claim(w, j)
           \/ WorkerStep(w)
           \/ LeaseOutlived(w)
           \/ Crash(w)
    PROVE  IInv'
  <1>1. CASE LeaseOutlived(w)
    <2>1. live' \subseteq live
          /\ UNCHANGED <<file, deleted, parse, job, docVars, work, request,
                         sweep, requests>>
      BY <1>1 DEF LeaseOutlived
    <2>2. slips' \in 0 .. MaxSlips
      BY <1>1, SlipOK DEF LeaseOutlived
    <2> QED
      BY <2>1, <2>2, LeaseSteps
  <1> QED
    BY <1>1, ClaimStep, LookStep, PollStep, DisableStep, FinalizeStep, CrashStep
       DEF WorkerStep

LEMMA LeaseEndSteps ==
    ASSUME IInv, NEW j \in Job, LeaseEnds(j)
    PROVE  IInv'
  <1>1. live' \subseteq live
        /\ UNCHANGED <<file, deleted, parse, job, docVars, work, request, sweep,
                       requests, slips>>
    BY DEF LeaseEnds
  <1>2. slips' \in 0 .. MaxSlips
    BY <1>1 DEF IInv, TypeOK, RestOK
  <1> QED
    BY <1>1, <1>2, LeaseSteps

LEMMA MemberSteps ==
    ASSUME IInv, NEW m \in Member, RequestBegins(m) \/ RequestStep(m)
    PROVE  IInv'
  <1>1. CASE RequestBegins(m)
    BY <1>1, UploadBegins, ReparseBegins, RetryBegins, CancelBegins,
       ActivateBegins, DeleteBegins DEF RequestBegins
  <1>2. CASE RequestStep(m)
    BY <1>2, UploadStep, ParseAsked, ReparseStep, RetryStep, StopAsked,
       CancelStep, EnableAsked, ActivateStep, DisableAsked, DeleteAsked,
       DeleteStep, Abandoned DEF RequestStep
  <1> QED
    BY <1>1, <1>2

LEMMA NothingHappens ==
    ASSUME IInv, UNCHANGED vars PROVE IInv'
  <1>1. UNCHANGED <<rowVars, docVars, work, request, sweep, requests, slips>>
    BY DEF vars
  <1>2. TablesOK' /\ RowsOK' /\ Keeps
    BY <1>1, TablesKept
  <1>3. RestOK'
    BY <1>1 DEF IInv, TypeOK, RestOK
  <1> QED
    BY <1>1, <1>2, <1>3, WorkersKept, MembersKept DEF IInv, TypeOK

LEMMA Inductive == IInv /\ [Next]_vars => IInv'
  <1> SUFFICES ASSUME IInv, [Next]_vars PROVE IInv'
    OBVIOUS
  <1>1. CASE UNCHANGED vars
    BY <1>1, NothingHappens
  <1>2. CASE Next
    BY <1>2, DocSteps, SweepSteps, WorkerSteps, LeaseEndSteps, MemberSteps
       DEF Next
  <1> QED
    BY <1>1, <1>2

(***************************************************************************)
(* What a session read, and what it is going to write, names only versions *)
(* that were parsed, however the rows have changed since.                  *)
(***************************************************************************)
THEOREM Invariance == Spec => []IInv
<1> QED
  BY Starts, Inductive, PTL DEF Spec

(***************************************************************************)
(* The variables keep their types.                                         *)
(***************************************************************************)
THEOREM TypeCorrect == Spec => []TypeOK
<1>1. IInv => TypeOK
  BY DEF IInv
<1> QED
  BY <1>1, Invariance, PTL

(***************************************************************************)
(* The version the file publishes was parsed into chunks, for any number   *)
(* of workers, members, versions and requests (finalize_leased_job commits *)
(* what it decided before).                                                *)
(***************************************************************************)
THEOREM PublishedCorrect == Spec => []ActiveWasParsed
<1>1. IInv => ActiveWasParsed
  BY DEF IInv, RowsOK
<1> QED
  BY <1>1, Invariance, PTL

-----------------------------------------------------------------------------
(***************************************************************************)
(* The status of the file.  The version it publishes is never taken away,  *)
(* so a session that saw one may leave active_version_id as it is.         *)
(***************************************************************************)
HasVersion(f) == f.status = "active" => f.active # None

\* A change to "active" names the version, or the file has one already.
Backed(c) ==
    /\ "status" \in DOMAIN c
    /\ c.status = "active"
    => "active" \in DOMAIN c \/ file.active # None

WorkerBacked(w) ==
    LET it == work[w]
    IN  /\ it.stage = "looked" =>
              /\ HasVersion(it.file)
              /\ it.file.active # None => file.active # None
        /\ it.stage \in {"polled", "publishing"} => Backed(it.file)

MemberBacked(m) ==
    LET it == request[m]
    IN  it # AtRest =>
            /\ Backed(it.file)
            /\ it.op = "upload" /\ it.version # None => file.active # None

StatusBacked ==
    /\ ActiveHasVersion
    /\ \A w \in Worker : WorkerBacked(w)
    /\ \A m \in Member : MemberBacked(m)

StaysPublished == file.active # None => file'.active # None

\* A change from a row the session knows to one that has a version.
LEMMA ChangeBacked ==
    ASSUME NEW f \in FileRow, NEW g \in FileRow, HasVersion(g),
           f.active # None => file.active # None
    PROVE  Backed(Changed(f, g))
  <1>1. DOMAIN f = {"status", "active"}
    BY DEF FileRow
  <1>2. DOMAIN Changed(f, g) = {d \in {"status", "active"} : f[d] # g[d]}
    BY <1>1 DEF Changed
  <1>3. \A d \in DOMAIN Changed(f, g) : Changed(f, g)[d] = g[d]
    BY DEF Changed
  <1> QED
    BY <1>2, <1>3 DEF Backed, HasVersion

\* A backed change is written.
LEMMA BackedWritten ==
    ASSUME IInv, ActiveHasVersion, NEW c, FileChange(c), Backed(c),
           file' = Write(file, c)
    PROVE  ActiveHasVersion' /\ StaysPublished
  <1>1. file \in FileRow /\ DOMAIN file = {"status", "active"}
    BY DEF IInv, TypeOK, TablesOK, FileRow
  <1>2. file'.active = IF "active" \in DOMAIN c THEN c.active ELSE file.active
    BY <1>1, WrittenFile
  <1>3. file'.status = IF "status" \in DOMAIN c THEN c.status ELSE file.status
    BY <1>1 DEF Write
  <1>4. "active" \in DOMAIN c => c.active # None
    BY DEF FileChange, Version, None
  <1> QED
    BY <1>2, <1>3, <1>4
    DEF ActiveHasVersion, StaysPublished, Backed

\* What the other sessions keep.
LEMMA OthersBacked ==
    ASSUME StatusBacked, StaysPublished
    PROVE  /\ \A w \in Worker : work'[w] = work[w] => WorkerBacked(w)'
           /\ \A m \in Member : request'[m] = request[m] => MemberBacked(m)'
  BY DEF StatusBacked, StaysPublished, WorkerBacked, MemberBacked, Backed,
         HasVersion

LEMMA RestBacked ==
    /\ \A w \in Worker : work'[w] = AtRest => WorkerBacked(w)'
    /\ \A m \in Member : request'[m] = AtRest => MemberBacked(m)'
  BY DEF WorkerBacked, MemberBacked, AtRest

\* The steps of sessions that leave the file alone.
LEMMA WorkerReads ==
    ASSUME IInv, StatusBacked, NEW w \in Worker, UNCHANGED <<file, request>>,
           NEW it, work' = [work EXCEPT ![w] = it], WorkerBacked(w)'
    PROVE  StatusBacked'
  <1>1. DOMAIN work = Worker
    BY DEF IInv, TypeOK
  <1>2. \A x \in Worker \ {w} : work'[x] = work[x]
    BY <1>1
  <1>3. StaysPublished /\ ActiveHasVersion'
    BY DEF StaysPublished, StatusBacked, ActiveHasVersion
  <1> QED
    BY <1>2, <1>3, OthersBacked DEF StatusBacked

LEMMA MemberReads ==
    ASSUME IInv, StatusBacked, NEW m \in Member, UNCHANGED <<file, work>>,
           NEW it, request' = [request EXCEPT ![m] = it], MemberBacked(m)'
    PROVE  StatusBacked'
  <1>1. DOMAIN request = Member
    BY DEF IInv, TypeOK
  <1>2. \A n \in Member \ {m} : request'[n] = request[n]
    BY <1>1
  <1>3. StaysPublished /\ ActiveHasVersion'
    BY DEF StaysPublished, StatusBacked, ActiveHasVersion
  <1> QED
    BY <1>2, <1>3, OthersBacked DEF StatusBacked

\* The row a verdict leaves has a version when the row before had one.
LEMMA FileAfterBacked ==
    ASSUME NEW f \in FileRow, HasVersion(f), NEW v \in Version,
           NEW verdict \in {"error"} \cup Pending \cup Over
    PROVE  HasVersion(FileAfter(f, v, verdict))
  <1>1. CASE verdict \in {"error"} \cup Pending
    BY <1>1 DEF FileAfter, Pending, Over
  <1>2. CASE verdict \in {"cancelled", "failed"}
    <2>1. FileAfter(f, v, verdict) = FileWithout(f, v)
      BY <1>2 DEF FileAfter, Pending, Over
    <2>2. HasVersion(FileWithout(f, v))
      BY DEF FileWithout, HasVersion, FileRow
    <2> QED
      BY <2>1, <2>2
  <1>3. CASE verdict = "active"
    <2>1. FileAfter(f, v, verdict) = [status |-> "active", active |-> v]
      BY <1>3 DEF FileAfter, Activated, Pending, Over
    <2> QED
      BY <2>1 DEF HasVersion, Version, None
  <1> QED
    BY <1>1, <1>2, <1>3 DEF Over

LEMMA WorkersBacked ==
    ASSUME IInv, StatusBacked, NEW w \in Worker,
           \/ \E j \in Job : Claim(w, j)
           \/ WorkerStep(w)
           \/ LeaseOutlived(w)
           \/ Crash(w)
    PROVE  StatusBacked'
  <1>0. DOMAIN work = Worker
    BY DEF IInv, TypeOK
  <1>1. ASSUME NEW j \in Job, Claim(w, j) PROVE StatusBacked'
    <2>1. PICK it : it = [stage |-> "claimed", job |-> j]
      OBVIOUS
    <2>2. work' = [work EXCEPT ![w] = it] /\ UNCHANGED <<file, request>>
      BY <1>1, <2>1 DEF Claim
    <2>3. WorkerBacked(w)'
      BY <1>0, <2>1, <2>2 DEF WorkerBacked
    <2> QED
      BY <2>2, <2>3, WorkerReads
  <1>2. CASE Look(w)
    <2>1. UNCHANGED <<file, request>>
      BY <1>2 DEF Look, rowVars
    <2>2. PICK it : /\ work' = [work EXCEPT ![w] = it] /\ work'[w] = it
                    /\ \/ it = AtRest
                       \/ (it.stage = "looked" /\ it.file = file)
      <3>1. CASE ~Owns(w)
        <4>1. work' = [work EXCEPT ![w] = AtRest]
          BY <1>2, <3>1 DEF Look
        <4>2. work'[w] = AtRest
          BY <1>0, <4>1
        <4> QED
          BY <4>1, <4>2
      <3>2. CASE Owns(w)
        <4>1. PICK it : it =
                  [stage |-> "looked", job |-> work[w].job,
                   row |-> job[work[w].job], file |-> file,
                   parse |-> parse[job[work[w].job].version]]
          OBVIOUS
        <4>2. work' = [work EXCEPT ![w] = it] /\ work'[w] = it
          BY <1>0, <1>2, <3>2, <4>1 DEF Look
        <4>3. it.stage = "looked" /\ it.file = file
          BY <4>1
        <4> QED
          BY <4>2, <4>3
      <3> QED
        BY <3>1, <3>2
    <2>3. WorkerBacked(w)'
      BY <2>1, <2>2
      DEF WorkerBacked, HasVersion, StatusBacked, ActiveHasVersion, AtRest
    <2> QED
      BY <2>1, <2>2, <2>3, WorkerReads
  <1>3. CASE Poll(w)
    <2>1. UNCHANGED <<file, request>>
      BY <1>3 DEF Poll, rowVars
    <2>2. PICK it \in Seen : it = work[w] /\ it.row.version # None
      BY <1>3 DEF Poll, At, IInv, TypeOK, WorkOK, AtRest, Seen
    <2>3. /\ HasVersion(it.file) /\ it.file \in FileRow
          /\ it.file.active # None => file.active # None
          /\ it.row.version \in Version
      BY <2>2 DEF StatusBacked, WorkerBacked, Seen, JobRow
    <2>4. PICK verdict \in Verdicts(doc[it.row.version].run) :
              work' = [work EXCEPT ![w] = Draft(it, verdict)]
      BY <1>3, <2>2 DEF Poll
    <2>5. verdict \in {"error"} \cup Pending \cup Over
      BY <2>3, <2>4, VerdictOK
    <2>6. PICK f, g : /\ g = FileAfter(it.file, it.row.version, verdict)
                      /\ f = Changed(it.file, g)
      OBVIOUS
    <2>7. Backed(f)
      BY <2>3, <2>5, <2>6, FileAfterOK, FileAfterBacked, ChangeBacked
    <2>8. PICK d : d = Draft(it, verdict)
      OBVIOUS
    <2>9. d.file = f /\ d.stage # "looked"
      BY <2>6, <2>8 DEF Draft
    <2>10. work' = [work EXCEPT ![w] = d] /\ work'[w] = d
      BY <1>0, <2>4, <2>8
    <2>11. WorkerBacked(w)'
      BY <2>1, <2>7, <2>9, <2>10 DEF WorkerBacked, Backed
    <2> QED
      BY <2>1, <2>10, <2>11, WorkerReads
  <1>4. CASE DisableReplaced(w)
    <2>1. UNCHANGED <<file, request>> /\ work[w].stage = "publishing"
      BY <1>4 DEF DisableReplaced, rowVars, At
    <2>2. PICK it : it = [work[w] EXCEPT !.stage = "polled"]
      OBVIOUS
    <2>3. DOMAIN work[w] = {"stage", "job", "old", "row", "file", "parse"}
      BY <2>1, Drafted
    <2>4. it.stage = "polled" /\ it.file = work[w].file
      BY <2>2, <2>3
    <2>5. work' = [work EXCEPT ![w] = it] /\ work'[w] = it
      BY <1>0, <1>4, <2>2 DEF DisableReplaced
    <2>6. WorkerBacked(w)'
      BY <2>1, <2>4, <2>5 DEF WorkerBacked, Backed, StatusBacked
    <2> QED
      BY <2>1, <2>5, <2>6, WorkerReads
  <1>5. CASE Finalize(w)
    <2>1. /\ work' = [work EXCEPT ![w] = AtRest] /\ UNCHANGED request
          /\ work[w].stage = "polled"
      BY <1>5 DEF Finalize, At
    <2>2. PICK c : c = work[w].file
      OBVIOUS
    <2>3. FileChange(c) /\ Backed(c)
      BY <2>1, <2>2, Drafted DEF Changes, StatusBacked, WorkerBacked
    <2>4. file' = Write(file, c) \/ file' = file
      BY <1>5, <2>2 DEF Finalize
    <2>5. ActiveHasVersion' /\ StaysPublished
      BY <2>3, <2>4, BackedWritten
      DEF StatusBacked, ActiveHasVersion, StaysPublished
    <2>6. \A x \in Worker : work'[x] = work[x] \/ work'[x] = AtRest
      BY <1>0, <2>1
    <2> QED
      BY <2>1, <2>5, <2>6, OthersBacked, RestBacked DEF StatusBacked
  <1>6. CASE LeaseOutlived(w)
    BY <1>6, OthersBacked
    DEF LeaseOutlived, StatusBacked, StaysPublished, ActiveHasVersion
  <1>7. CASE Crash(w)
    <2>1. UNCHANGED <<file, request>> /\ work' = [work EXCEPT ![w] = AtRest]
      BY <1>7 DEF Crash, rowVars
    <2>2. WorkerBacked(w)'
      BY <1>0, <2>1, RestBacked
    <2> QED
      BY <2>1, <2>2, WorkerReads
  <1> QED
    BY <1>1, <1>2, <1>3, <1>4, <1>5, <1>6, <1>7 DEF WorkerStep

LEMMA FileStays ==
    ASSUME StatusBacked, UNCHANGED file
    PROVE  ActiveHasVersion' /\ StaysPublished
  BY DEF StatusBacked, ActiveHasVersion, StaysPublished

\* A request that goes on as it was, and one that is over.
LEMMA StageBacked ==
    ASSUME IInv, StatusBacked, NEW m \in Member, request[m] # AtRest, NEW it,
           it.file = request[m].file, it.op = request[m].op,
           it.version = request[m].version,
           request' = [request EXCEPT ![m] = it], UNCHANGED work,
           ActiveHasVersion', StaysPublished
    PROVE  StatusBacked'
  <1>1. DOMAIN request = Member
    BY DEF IInv, TypeOK
  <1>2. request'[m] = it /\ \A n \in Member \ {m} : request'[n] = request[n]
    BY <1>1
  <1>3. MemberBacked(m)'
    BY <1>2 DEF MemberBacked, Backed, StatusBacked, StaysPublished
  <1> QED
    BY <1>2, <1>3, OthersBacked DEF StatusBacked

LEMMA AnswerBacked ==
    ASSUME IInv, StatusBacked, NEW m \in Member, Answered(m), UNCHANGED work,
           ActiveHasVersion', StaysPublished
    PROVE  StatusBacked'
  <1>1. DOMAIN request = Member /\ request' = [request EXCEPT ![m] = AtRest]
    BY DEF IInv, TypeOK, Answered
  <1>2. \A n \in Member : request'[n] = request[n] \/ request'[n] = AtRest
    BY <1>1
  <1> QED
    BY <1>2, OthersBacked, RestBacked DEF StatusBacked

LEMMA BeginBacked ==
    ASSUME IInv, StatusBacked, NEW m \in Member, NEW op, NEW v, NEW j, NEW f,
           NEW p, NEW row, NEW old, Begin(m, op, v, j, f, p, row, old),
           Backed(f), op = "upload" /\ v # None => file.active # None
    PROVE  StatusBacked'
  <1>1. PICK it : it = [op |-> op, stage |-> "read", version |-> v, job |-> j,
                        file |-> f, parse |-> p, row |-> row, old |-> old]
    OBVIOUS
  <1>2. request' = [request EXCEPT ![m] = it] /\ UNCHANGED <<file, work>>
    BY <1>1 DEF Begin, rowVars
  <1>3. it.file = f /\ it.op = op /\ it.version = v
    BY <1>1
  <1>4. request'[m] = it
    BY <1>2 DEF IInv, TypeOK
  <1>5. MemberBacked(m)'
    BY <1>2, <1>3, <1>4 DEF MemberBacked, Backed
  <1> QED
    BY <1>2, <1>5, MemberReads

LEMMA NothingBacked == Backed(NoChange)
  BY NothingChanged DEF Backed

LEMMA StatusToBacked ==
    ASSUME IInv, NEW s \in FileStatus \ {"active"}
    PROVE  Backed(FileStatusTo(s))
  <1>1. file \in FileRow
    BY DEF IInv, TypeOK, TablesOK
  <1>2. PICK g : g = [file EXCEPT !.status = s]
    OBVIOUS
  <1>3. g \in FileRow /\ HasVersion(g)
    BY <1>1, <1>2 DEF FileRow, HasVersion
  <1>4. FileStatusTo(s) = Changed(file, g)
    BY <1>2 DEF FileStatusTo
  <1> QED
    BY <1>1, <1>3, <1>4, ChangeBacked

LEMMA BeginsBacked ==
    ASSUME IInv, StatusBacked, NEW m \in Member, RequestBegins(m)
    PROVE  StatusBacked'
  <1>0. file \in FileRow /\ HasVersion(file)
    BY DEF IInv, TypeOK, TablesOK, StatusBacked, ActiveHasVersion, HasVersion
  <1>1. CASE BeginUpload(m)
    <2>1. PICK f, v : f = FileStatusTo("updating") /\ v = file.active
      OBVIOUS
    <2>2. Begin(m, "upload", v, None, f, NoChange, NoChange, None)
      BY <1>1, <2>1 DEF BeginUpload
    <2>3. Backed(f)
      BY <2>1, StatusToBacked DEF FileStatus
    <2> QED
      BY <2>1, <2>2, <2>3, BeginBacked
  <1>2. CASE BeginReparse(m)
    <2>1. PICK n, v, p : /\ n = NoChange /\ v = file.active
                         /\ p = Status(v, parse[v], "parsing")
      OBVIOUS
    <2>2. Begin(m, "reparse", v, None, n, p, n, None)
      BY <1>2, <2>1 DEF BeginReparse
    <2> QED
      BY <2>1, <2>2, NothingBacked, BeginBacked
  <1>3. ASSUME NEW j \in Job, BeginRetry(m, j) PROVE StatusBacked'
    <2>1. PICK n, v, p, r :
              /\ n = NoChange /\ v = job[j].version
              /\ p = Status(v, parse[v], "parsing")
              /\ r = Changed(job[j], NewJob(v, "parse_dispatched"))
      OBVIOUS
    <2>2. Begin(m, "retry", v, j, n, p, r, None)
      BY <1>3, <2>1 DEF BeginRetry
    <2> QED
      BY <2>1, <2>2, NothingBacked, BeginBacked
  <1>4. ASSUME NEW j \in Job, BeginCancel(m, j) PROVE StatusBacked'
    <2>1. PICK v, g, f, p, r :
              /\ v = job[j].version /\ g = FileWithout(file, v)
              /\ f = Changed(file, g) /\ p = Status(v, parse[v], "failed")
              /\ r = Changed(job[j], [job[j] EXCEPT !.status = "cancelled",
                                                    !.holder = Nobody])
      OBVIOUS
    <2>2. Begin(m, "cancel", v, j, f, p, r, None)
      BY <1>4, <2>1 DEF BeginCancel
    <2>3. g \in FileRow /\ HasVersion(g)
      BY <1>0, <2>1 DEF FileWithout, FileRow, FileStatus, HasVersion
    <2> QED
      BY <1>0, <2>1, <2>2, <2>3, ChangeBacked, BeginBacked
  <1>5. ASSUME NEW v \in Version, BeginActivate(m, v) PROVE StatusBacked'
    <2>1. PICK g, f, p, old :
              /\ g = Activated(v) /\ f = Changed(file, g)
              /\ p = Status(v, parse[v], "active") /\ old = Replaced(file, v)
      OBVIOUS
    <2>2. Begin(m, "activate", v, None, f, p, NoChange, old)
      BY <1>5, <2>1 DEF BeginActivate
    <2>3. g \in FileRow /\ HasVersion(g)
      BY <2>1 DEF Activated, FileRow, FileStatus, HasVersion, Version, None
    <2> QED
      BY <1>0, <2>1, <2>2, <2>3, ChangeBacked, BeginBacked
  <1>6. CASE BeginDelete(m)
    <2>1. PICK f : f = FileStatusTo("deleting")
      OBVIOUS
    <2>2. Begin(m, "delete", None, None, f, NoChange, NoChange, None)
      BY <1>6, <2>1 DEF BeginDelete
    <2>3. Backed(f)
      BY <2>1, StatusToBacked DEF FileStatus
    <2> QED
      BY <2>2, <2>3, BeginBacked
  <1> QED
    BY <1>1, <1>2, <1>3, <1>4, <1>5, <1>6 DEF RequestBegins

\* The commits.
LEMMA UploadBacked ==
    ASSUME IInv, StatusBacked, NEW m \in Member, Upload(m)
    PROVE  StatusBacked'
  <1>1. PICK c, v, t : /\ c = request[m].file /\ v = request[m].version
                       /\ t = Without(v)
    OBVIOUS
  <1>2. /\ request[m] # AtRest /\ request[m].op = "upload"
        /\ Answered(m) /\ UNCHANGED work
        /\ \/ file' = Write(file, c)
           \/ file' = [file EXCEPT !.status = t]
    BY <1>1 DEF Upload, It
  <1>3. /\ FileChange(c) /\ Backed(c)
        /\ v # None => file.active # None
    BY <1>1, <1>2, InHand DEF Changes, StatusBacked, MemberBacked
  <1>4. CASE file' = Write(file, c)
    BY <1>2, <1>3, <1>4, BackedWritten, AnswerBacked DEF StatusBacked
  <1>5. CASE file' = [file EXCEPT !.status = t]
    <2>1. t = "active" => file.active # None
      BY <1>1, <1>3 DEF Without
    <2>2. file'.status = t /\ file'.active = file.active
      BY <1>5 DEF IInv, TypeOK, TablesOK, FileRow
    <2>3. ActiveHasVersion' /\ StaysPublished
      BY <2>1, <2>2 DEF ActiveHasVersion, StaysPublished
    <2> QED
      BY <1>2, <2>3, AnswerBacked
  <1> QED
    BY <1>2, <1>4, <1>5

LEMMA CommitsBacked ==
    ASSUME IInv, StatusBacked, NEW m \in Member,
           Cancel(m) \/ Activate(m) \/ Delete(m)
    PROVE  StatusBacked'
  <1>1. PICK it, c : it = request[m] /\ c = it.file
    OBVIOUS
  <1>2. /\ it # AtRest /\ file' = Write(file, c) /\ UNCHANGED work
        /\ Answered(m) \/ request' = [request EXCEPT ![m].stage = "committed"]
    BY <1>1 DEF Cancel, Activate, Delete, It
  <1>3. FileChange(c) /\ Backed(c)
    BY <1>1, <1>2, InHand DEF Changes, StatusBacked, MemberBacked
  <1>4. ActiveHasVersion' /\ StaysPublished
    BY <1>2, <1>3, BackedWritten DEF StatusBacked
  <1>5. CASE Answered(m)
    BY <1>2, <1>4, <1>5, AnswerBacked
  <1>6. CASE request' = [request EXCEPT ![m].stage = "committed"]
    <2>1. PICK new : new = [it EXCEPT !.stage = "committed"]
      OBVIOUS
    <2>2. new.file = it.file /\ new.op = it.op /\ new.version = it.version
      BY <1>1, <1>2, <2>1 DEF IInv, TypeOK, RequestOK
    <2>3. request' = [request EXCEPT ![m] = new]
      BY <1>1, <1>6, <2>1 DEF IInv, TypeOK
    <2> QED
      BY <1>1, <1>2, <1>4, <2>2, <2>3, StageBacked
  <1> QED
    BY <1>2, <1>5, <1>6

\* The steps of a request that leave the file alone.
LEMMA AsksBacked ==
    ASSUME IInv, StatusBacked, NEW m \in Member, request[m] # AtRest,
           UNCHANGED <<file, work>>,
           \/ Asked(m)
           \/ Answered(m)
           \/ \E p : request' = [request EXCEPT ![m].stage = "asked",
                                                ![m].parse = p]
    PROVE  StatusBacked'
  <1>1. PICK it : it = request[m]
    OBVIOUS
  <1>2. DOMAIN it = {"op", "stage", "version", "job", "file", "parse", "row",
                     "old"}
    BY <1>1 DEF IInv, TypeOK, RequestOK
  <1>3. ActiveHasVersion' /\ StaysPublished /\ DOMAIN request = Member
    BY FileStays DEF IInv, TypeOK
  <1>4. CASE Answered(m)
    BY <1>3, <1>4, AnswerBacked
  <1>5. CASE Asked(m)
    <2>1. PICK new : new = [it EXCEPT !.stage = "asked"]
      OBVIOUS
    <2>2. new.file = it.file /\ new.op = it.op /\ new.version = it.version
      BY <1>2, <2>1
    <2>3. request' = [request EXCEPT ![m] = new]
      BY <1>1, <1>3, <1>5, <2>1 DEF Asked
    <2> QED
      BY <1>1, <1>3, <2>2, <2>3, StageBacked
  <1>6. ASSUME NEW p, request' = [request EXCEPT ![m].stage = "asked",
                                                 ![m].parse = p]
        PROVE  StatusBacked'
    <2>1. PICK new : new = [it EXCEPT !.stage = "asked", !.parse = p]
      OBVIOUS
    <2>2. new.file = it.file /\ new.op = it.op /\ new.version = it.version
      BY <1>2, <2>1
    <2>3. request' = [request EXCEPT ![m] = new]
      BY <1>1, <1>3, <1>6, <2>1
    <2> QED
      BY <1>1, <1>3, <2>2, <2>3, StageBacked
  <1> QED
    BY <1>4, <1>5, <1>6

LEMMA MembersBacked ==
    ASSUME IInv, StatusBacked, NEW m \in Member,
           RequestBegins(m) \/ RequestStep(m)
    PROVE  StatusBacked'
  <1>1. CASE AskParse(m)
    BY <1>1, AsksBacked DEF AskParse, It, rowVars
  <1>2. CASE Reparse(m)
    BY <1>2, AsksBacked DEF Reparse, It
  <1>3. CASE Retry(m)
    BY <1>3, AsksBacked DEF Retry, It
  <1>4. CASE AskStop(m)
    BY <1>4, AsksBacked DEF AskStop, It, rowVars
  <1>5. CASE AskEnable(m)
    <2>1. PICK q : q = Superseding(request[m].old)
      OBVIOUS
    <2>2. PICK p : p = Both(request[m].parse, q)
      OBVIOUS
    <2>3. request' = [request EXCEPT ![m].stage = "asked",
                                     ![m].parse = Both(@, q)]
      BY <1>5, <2>1 DEF AskEnable
    <2>4. request' = [request EXCEPT ![m].stage = "asked", ![m].parse = p]
      BY <2>2, <2>3 DEF IInv, TypeOK, RequestOK
    <2>5. request[m] # AtRest /\ UNCHANGED <<file, work>>
      BY <1>5 DEF AskEnable, It, rowVars
    <2> QED
      BY <2>4, <2>5, AsksBacked
  <1>6. CASE AskDisable(m)
    BY <1>6, AsksBacked DEF AskDisable, It, rowVars
  <1>7. CASE AskDelete(m)
    BY <1>7, AsksBacked DEF AskDelete, It, rowVars
  <1>8. CASE Abandon(m)
    BY <1>8, AsksBacked DEF Abandon, rowVars
  <1> QED
    BY <1>1, <1>2, <1>3, <1>4, <1>5, <1>6, <1>7, <1>8, BeginsBacked,
       UploadBacked, CommitsBacked DEF RequestStep

LEMMA StatusInductive ==
    IInv /\ StatusBacked /\ [Next]_vars => StatusBacked'
  <1> SUFFICES ASSUME IInv, StatusBacked, [Next]_vars PROVE StatusBacked'
    OBVIOUS
  <1>1. ASSUME UNCHANGED <<file, work, request>> PROVE StatusBacked'
    BY <1>1, FileStays, OthersBacked DEF StatusBacked
  <1>2. CASE UNCHANGED vars
    BY <1>1, <1>2 DEF vars, rowVars
  <1>3. ASSUME NEW v \in Version, DocNext(v) \/ SweepDisables(v)
        PROVE  StatusBacked'
    BY <1>1, <1>3 DEF DocNext, DocStarts, DocEnds, SweepDisables, rowVars
  <1>4. ASSUME NEW j \in Job, LeaseEnds(j) PROVE StatusBacked'
    BY <1>1, <1>4 DEF LeaseEnds
  <1>5. CASE SweepStep \/ SweepCrashes
    BY <1>1, <1>5 DEF SweepStep, SweepStarts, SweepMisses, SweepDeletes,
                      SweepCommits, SweepCrashes, rowVars
  <1> QED
    BY <1>2, <1>3, <1>4, <1>5, WorkersBacked, MembersBacked DEF Next

LEMMA StatusStarts == Init => StatusBacked
  <1> SUFFICES ASSUME Init PROVE StatusBacked
    OBVIOUS
  <1>1. \A w \in Worker : WorkerBacked(w)
    BY DEF Init, WorkerBacked, AtRest
  <1>2. \A m \in Member : MemberBacked(m)
    BY DEF Init, MemberBacked
  <1>3. ActiveHasVersion
    BY DEF Init, Uploaded, ActiveHasVersion
  <1> QED
    BY <1>1, <1>2, <1>3 DEF StatusBacked

(***************************************************************************)
(* A file that members see as active has a version they search, for any    *)
(* number of sessions: the status that ingest_core, FileWithout and        *)
(* activate_version write was decided on a row that is no longer the one   *)
(* they write to, but a version once published is only ever replaced.      *)
(***************************************************************************)
THEOREM StatusCorrect == Spec => []ActiveHasVersion
<1>1. StatusBacked => ActiveHasVersion
  BY DEF StatusBacked
<1>2. Spec => []StatusBacked
  <2>1. IInv /\ StatusBacked /\ [Next]_vars => StatusBacked'
    BY StatusInductive
  <2> QED
    BY <2>1, StatusStarts, Invariance, PTL DEF Spec
<1> QED
  BY <1>1, <1>2, PTL

-----------------------------------------------------------------------------
(***************************************************************************)
(* Ingestion implements VersionPublishing.                                 *)
(***************************************************************************)
AtJob(w) == IF work[w] = AtRest THEN None ELSE work[w].job

Target == [j \in Job |-> job[j].version]
Lease  == [j \in Job |-> job[j].holder]
Where  == [w \in Worker |-> AtJob(w)]

Same == <<file.active, parsed, Target, Lease, Where>>

LEMMA SameMeansStutter == UNCHANGED Same => UNCHANGED Publishing!vars
  BY DEF Same, Target, Lease, Where, AtJob, Publishing!vars

\* What the abstract state is made of, row by row.
LEMMA RowsSame ==
    ASSUME \A j \in Job : job'[j].version = job[j].version
    PROVE  Target' = Target
  BY DEF Target

LEMMA LeasesSame ==
    ASSUME \A j \in Job : job'[j].holder = job[j].holder
    PROVE  Lease' = Lease
  BY DEF Lease

LEMMA PlacesSame ==
    ASSUME \A w \in Worker : AtJob(w)' = AtJob(w)
    PROVE  Where' = Where
  BY DEF Where

LEMMA PlaceMoves ==
    ASSUME NEW w \in Worker, NEW j, AtJob(w)' = j,
           \A x \in Worker : x # w => AtJob(x)' = AtJob(x)
    PROVE  Where' = [Where EXCEPT ![w] = j]
  BY DEF Where

LEMMA WorkSame == ASSUME UNCHANGED work PROVE Where' = Where
  BY DEF Where, AtJob

LEMMA JobsSame == ASSUME UNCHANGED job PROVE Target' = Target /\ Lease' = Lease
  BY DEF Target, Lease

\* A worker that stays at its job.
LEMMA StaysPut ==
    ASSUME IInv, NEW w \in Worker, NEW it, work' = [work EXCEPT ![w] = it],
           work[w] # AtRest, it # AtRest, it.job = work[w].job
    PROVE  Where' = Where
  <1>1. \A x \in Worker : work'[x] = IF x = w THEN it ELSE work[x]
    BY DEF IInv, TypeOK
  <1> QED
    BY <1>1, PlacesSame DEF AtJob

\* Discard.
LEMMA ReturnsRefines ==
    ASSUME IInv, NEW w \in Worker, work' = [work EXCEPT ![w] = AtRest],
           UNCHANGED <<file, parsed, job>>
    PROVE  Publishing!Discard(w)
  <1>1. \A x \in Worker : work'[x] = IF x = w THEN AtRest ELSE work[x]
    BY DEF IInv, TypeOK
  <1>2. Where' = [Where EXCEPT ![w] = None]
    <2>1. AtJob(w)' = None /\ \A x \in Worker : x # w => AtJob(x)' = AtJob(x)
      BY <1>1 DEF AtJob
    <2> QED
      BY <2>1, PlaceMoves
  <1> QED
    BY <1>2, JobsSame DEF Publishing!Discard, Target, Lease, Where, AtJob

LEMMA ClaimRefines ==
    ASSUME IInv, NEW w \in Worker, NEW j \in Job, Claim(w, j)
    PROVE  Publishing!Claim(w, j)
  <1>1. job \in [Job -> JobRow] /\ DOMAIN work = Worker
    BY DEF IInv, TypeOK, TablesOK
  <1>2. PICK it : it = [stage |-> "claimed", job |-> j]
    OBVIOUS
  <1>3. /\ work' = [work EXCEPT ![w] = it] /\ work[w] = AtRest
        /\ job' = [job EXCEPT ![j].holder = w]
        /\ UNCHANGED <<file, docVars>>
    BY <1>2 DEF Claim, Free
  <1>4. \A x \in Worker : work'[x] = IF x = w THEN it ELSE work[x]
    BY <1>1, <1>3
  <1>5. it # AtRest /\ it.job = j
    <2>1. it.stage = "claimed" /\ AtRest.stage = "idle"
      BY <1>2 DEF AtRest
    <2> QED
      BY <1>2, <2>1
  <1>6. Where' = [Where EXCEPT ![w] = j] /\ Where[w] = None
    <2>1. AtJob(w)' = j /\ \A x \in Worker : x # w => AtJob(x)' = AtJob(x)
      BY <1>4, <1>5 DEF AtJob
    <2>2. AtJob(w) = None
      BY <1>3 DEF AtJob
    <2> QED
      BY <2>1, <2>2, PlaceMoves DEF Where
  <1>7. \A k \in Job : /\ job'[k].version = job[k].version
                      /\ job'[k].holder = IF k = j THEN w ELSE job[k].holder
    <2>1. PICK row \in JobRow : row = job[j]
      BY <1>1
    <2>2. PICK new : new = [row EXCEPT !.holder = w]
      OBVIOUS
    <2>3. new.version = row.version /\ new.holder = w
      BY <2>2 DEF JobRow
    <2>4. job' = [job EXCEPT ![j] = new]
      BY <1>3, <2>1, <2>2
    <2> QED
      BY <1>1, <2>1, <2>3, <2>4
  <1>8. Lease' = [Lease EXCEPT ![j] = w] /\ Target' = Target
    BY <1>7, RowsSame DEF Lease
  <1> QED
    BY <1>3, <1>6, <1>8
       DEF Publishing!Claim, Target, Lease, Where, AtJob, docVars

LEMMA FinishRefines ==
    ASSUME IInv, NEW w \in Worker, Finalize(w), Owns(w),
           NEW j, j = work[w].job
    PROVE  Publishing!Finish(w, j)
  <1>1. PICK it : it = work[w]
    OBVIOUS
  <1>2. PICK row, f : j = it.job /\ row = it.row /\ f = it.file
    BY <1>1
  <1>3. /\ it.stage \in {"polled", "publishing"} /\ job[j].holder = w
        /\ WriteJob(j, row) /\ file' = Write(file, f)
        /\ work' = [work EXCEPT ![w] = AtRest] /\ UNCHANGED docVars
    BY <1>1, <1>2 DEF Finalize, At, Owns
  <1>4. /\ j \in Job /\ job[j].version # None /\ JobChange(row) /\ FileChange(f)
        /\ "active" \in DOMAIN f =>
               f.active = job[j].version /\ f.active \in parsed
    BY <1>1, <1>2, <1>3, Drafted DEF Changes, IInv, WorkerOK
  <1>5. /\ \A k \in Job : job'[k].version = job[k].version
        /\ \A k \in Job : job'[k].holder =
               IF k = j /\ "holder" \in DOMAIN row THEN Nobody
               ELSE job[k].holder
    BY <1>3, <1>4, CommittedJob
  <1>6. Target' = Target /\ Lease' \in {Lease, [Lease EXCEPT ![j] = Nobody]}
    <2>1. CASE "holder" \in DOMAIN row
      <3>1. Lease' = [Lease EXCEPT ![j] = Nobody]
        BY <1>5, <2>1 DEF Lease
      <3> QED
        BY <1>5, <3>1, RowsSame
    <2>2. CASE "holder" \notin DOMAIN row
      BY <1>5, <2>2, RowsSame, LeasesSame
    <2> QED
      BY <2>1, <2>2
  <1>7. file'.active \in {file.active} \cup ({Target[j]} \cap parsed)
    <2>1. file'.active = IF "active" \in DOMAIN f THEN f.active ELSE file.active
      BY <1>3, <1>4, WrittenFile DEF IInv, TypeOK, TablesOK
    <2> QED
      BY <1>4, <2>1 DEF Target
  <1>8. \A x \in Worker : work'[x] = IF x = w THEN AtRest ELSE work[x]
    BY <1>3 DEF IInv, TypeOK
  <1>9. it # AtRest
    <2>1. AtRest.stage = "idle"
      BY DEF AtRest
    <2> QED
      BY <1>3, <2>1
  <1>10. Where' = [Where EXCEPT ![w] = None] /\ Where[w] = j
    BY <1>1, <1>2, <1>8, <1>9 DEF Where, AtJob
  <1>11. Lease[j] = w /\ parsed' = parsed
    BY <1>3, <1>4 DEF Lease, docVars
  <1> QED
    BY <1>1, <1>2, <1>6, <1>7, <1>10, <1>11
       DEF Publishing!Finish, Target, Lease, Where, AtJob

LEMMA WorkerRefines ==
    ASSUME IInv, NEW w \in Worker,
           \/ \E j \in Job : Claim(w, j)
           \/ WorkerStep(w)
           \/ LeaseOutlived(w)
           \/ Crash(w)
    PROVE  Publishing!Next \/ UNCHANGED Same
  <1>1. ASSUME NEW j \in Job, Claim(w, j) PROVE Publishing!Next
    BY <1>1, ClaimRefines DEF Publishing!Next
  <1>2. CASE Look(w) /\ ~Owns(w)
    <2>1. work' = [work EXCEPT ![w] = AtRest] /\ UNCHANGED <<file, parsed, job>>
      BY <1>2 DEF Look, rowVars, docVars
    <2> QED
      BY <2>1, ReturnsRefines DEF Publishing!Next
  <1>3. CASE Look(w) /\ Owns(w)
    <2>1. PICK it : it = [stage |-> "looked", job |-> work[w].job,
                          row |-> job[work[w].job], file |-> file,
                          parse |-> parse[job[work[w].job].version]]
      OBVIOUS
    <2>2. /\ work' = [work EXCEPT ![w] = it] /\ work[w].stage = "claimed"
          /\ UNCHANGED <<rowVars, docVars>>
      BY <1>3, <2>1 DEF Look, At
    <2>3. AtRest.stage = "idle" /\ it.stage = "looked"
      BY <2>1 DEF AtRest
    <2>4. it # AtRest /\ work[w] # AtRest /\ it.job = work[w].job
      BY <2>1, <2>2, <2>3
    <2> QED
      BY <2>2, <2>4, StaysPut, JobsSame DEF Same, rowVars, docVars
  <1>4. CASE Poll(w)
    <2>1. PICK it : work' = [work EXCEPT ![w] = it] /\ it.job = work[w].job
                    /\ it.stage \in {"polled", "publishing"}
      <3>1. PICK was, verdict : was = work[w]
                /\ work' = [work EXCEPT ![w] = Draft(was, verdict)]
        BY <1>4 DEF Poll
      <3>2. PICK it : it = Draft(was, verdict)
        OBVIOUS
      <3>3. it.job = was.job /\ it.stage \in {"polled", "publishing"}
        BY <3>2 DEF Draft
      <3> QED
        BY <3>1, <3>2, <3>3
    <2>2. work[w].stage = "looked" /\ UNCHANGED <<rowVars, docVars>>
      BY <1>4 DEF Poll, At
    <2>3. AtRest.stage = "idle"
      BY DEF AtRest
    <2>4. it # AtRest /\ work[w] # AtRest
      BY <2>1, <2>2, <2>3
    <2> QED
      BY <2>1, <2>2, <2>4, StaysPut, JobsSame DEF Same, rowVars, docVars
  <1>5. CASE DisableReplaced(w)
    <2>1. PICK was : was = work[w]
      OBVIOUS
    <2>2. PICK it : it = [was EXCEPT !.stage = "polled"]
      OBVIOUS
    <2>3. /\ was.stage = "publishing" /\ UNCHANGED <<rowVars, parsed>>
          /\ work' = [work EXCEPT ![w] = it]
      BY <1>5, <2>1, <2>2 DEF DisableReplaced, At, IInv, TypeOK
    <2>4. DOMAIN was = {"stage", "job", "old", "row", "file", "parse"}
      BY <2>1, <2>3, Drafted
    <2>5. it.stage = "polled" /\ it.job = was.job /\ AtRest.stage = "idle"
      BY <2>2, <2>4 DEF AtRest
    <2>6. it # AtRest /\ was # AtRest
      BY <2>3, <2>5
    <2> QED
      BY <2>1, <2>3, <2>5, <2>6, StaysPut, JobsSame DEF Same, rowVars
  <1>6. CASE Finalize(w) /\ Owns(w)
    <2>1. PICK j \in Job : j = work[w].job
      BY <1>6, Drafted DEF Finalize, At
    <2>2. Publishing!Finish(w, j)
      BY <1>6, <2>1, FinishRefines
    <2> QED
      BY <2>2 DEF Publishing!Next
  <1>7. CASE Finalize(w) /\ ~Owns(w)
    <2>1. work' = [work EXCEPT ![w] = AtRest] /\ UNCHANGED <<file, parsed, job>>
      BY <1>7 DEF Finalize, docVars
    <2> QED
      BY <2>1, ReturnsRefines DEF Publishing!Next
  <1>8. CASE LeaseOutlived(w)
    BY <1>8, JobsSame, WorkSame DEF LeaseOutlived, Same, docVars
  <1>9. CASE Crash(w)
    <2>1. work' = [work EXCEPT ![w] = AtRest] /\ UNCHANGED <<file, parsed, job>>
      BY <1>9 DEF Crash, rowVars, docVars
    <2> QED
      BY <2>1, ReturnsRefines DEF Publishing!Next
  <1> QED
    BY <1>1, <1>2, <1>3, <1>4, <1>5, <1>6, <1>7, <1>8, <1>9 DEF WorkerStep

LEMMA DocRefines ==
    ASSUME NEW v \in Version, DocNext(v)
    PROVE  Publishing!Next \/ UNCHANGED Same
  <1>1. UNCHANGED <<rowVars, work>> /\ parsed' \in {parsed, parsed \cup {v}}
    BY DEF DocNext, DocStarts, DocEnds
  <1>2. file' = file /\ Target' = Target /\ Lease' = Lease /\ Where' = Where
    BY <1>1, JobsSame, WorkSame DEF rowVars
  <1>3. CASE parsed' = parsed
    BY <1>2, <1>3 DEF Same
  <1>4. CASE parsed' = parsed \cup {v}
    <2>1. Publishing!Parse(v)
      BY <1>2, <1>4 DEF Publishing!Parse, Target, Lease, Where, AtJob
    <2> QED
      BY <2>1 DEF Publishing!Next
  <1> QED
    BY <1>1, <1>3, <1>4

LEMMA QuietRefines ==
    ASSUME UNCHANGED <<file, parsed, job, work>>
    PROVE  UNCHANGED Same
  BY JobsSame, WorkSame DEF Same

\* AddJob.
LEMMA AddedRefines ==
    ASSUME IInv, NEW j \in Job, NEW v \in Version, NEW s \in Pending \cup Over,
           NextJob(j), job' = [job EXCEPT ![j] = NewJob(v, s)],
           file'.active = file.active, UNCHANGED <<parsed, work>>
    PROVE  Publishing!Next
  <1>1. /\ job[j].version = None /\ job'[j].holder = Nobody
        /\ \A k \in Job : job'[k].version = IF k = j THEN v ELSE job[k].version
        /\ \A k \in Job : k # j => job'[k] = job[k]
    BY JobAdded
  <1>2. Target' = [Target EXCEPT ![j] = v] /\ Target[j] = None
    BY <1>1 DEF Target
  <1>3. Lease' = [Lease EXCEPT ![j] = Nobody]
    <2>1. \A k \in Job : job'[k].holder =
              IF k = j THEN Nobody ELSE job[k].holder
      BY <1>1
    <2> QED
      BY <2>1 DEF Lease
  <1>4. Publishing!AddJob(j, v)
    BY <1>2, <1>3, WorkSame DEF Publishing!AddJob, Target, Lease, Where, AtJob
  <1> QED
    BY <1>4 DEF Publishing!Next

LEMMA UploadRefines ==
    ASSUME IInv, NEW m \in Member, Upload(m)
    PROVE  Publishing!Next
  <1>1. PICK f, t : f = request[m].file /\ t = Without(request[m].version)
    OBVIOUS
  <1>2. FileChange(f) /\ "active" \notin DOMAIN f
    BY <1>1 DEF Upload, It, IInv, TypeOK, RequestOK, Changes, MemberOK
  <1>3. PICK v \in Version, j \in Job, s \in {"parse_dispatched", "failed"} :
            /\ NextJob(j) /\ job' = [job EXCEPT ![j] = NewJob(v, s)]
            /\ file' = Write(file, f) \/ file' = [file EXCEPT !.status = t]
            /\ UNCHANGED <<parsed, work>>
    BY <1>1 DEF Upload
  <1>4. PICK now \in FileRow : now = file
    BY DEF IInv, TypeOK, TablesOK
  <1>5. file'.active = file.active
    BY <1>2, <1>3, <1>4, WrittenFile DEF FileRow
  <1>6. s \in Pending \cup Over
    BY DEF Pending, Over
  <1> QED
    BY <1>3, <1>5, <1>6, AddedRefines

LEMMA ReparseRefines ==
    ASSUME IInv, NEW m \in Member, Reparse(m)
    PROVE  Publishing!Next
  <1>1. PICK v : v = request[m].version
    OBVIOUS
  <1>2. v \in Version
    BY <1>1, InHand DEF Reparse, It
  <1>3. PICK j \in Job, s \in {"parse_dispatched", "failed"} :
            /\ NextJob(j) /\ job' = [job EXCEPT ![j] = NewJob(v, s)]
            /\ UNCHANGED <<file, parsed, work>>
    BY <1>1 DEF Reparse, docVars
  <1>4. s \in Pending \cup Over
    BY DEF Pending, Over
  <1> QED
    BY <1>2, <1>3, <1>4, AddedRefines

\* Withdraw, or nothing.
LEMMA WithdrawnRefines ==
    ASSUME IInv, NEW j \in Job, NEW row, JobChange(row), job[j].version # None,
           WriteJob(j, row), file'.active = file.active, UNCHANGED <<parsed, work>>
    PROVE  Publishing!Next \/ UNCHANGED Same
  <1>1. /\ \A k \in Job : job'[k].version = job[k].version
        /\ \A k \in Job : job'[k].holder =
               IF k = j /\ "holder" \in DOMAIN row THEN Nobody
               ELSE job[k].holder
    BY CommittedJob
  <1>2. Target' = Target /\ Where' = Where
    BY <1>1, RowsSame, WorkSame
  <1>3. CASE "holder" \in DOMAIN row
    <2>1. Lease' = [Lease EXCEPT ![j] = Nobody]
      BY <1>1, <1>3 DEF Lease
    <2>2. Publishing!Withdraw(j)
      BY <1>2, <2>1 DEF Publishing!Withdraw, Target, Lease, Where, AtJob
    <2> QED
      BY <2>2 DEF Publishing!Next
  <1>4. CASE "holder" \notin DOMAIN row
    BY <1>1, <1>2, <1>4, LeasesSame DEF Same
  <1> QED
    BY <1>3, <1>4

LEMMA RetryRefines ==
    ASSUME IInv, NEW m \in Member, Retry(m)
    PROVE  Publishing!Next \/ UNCHANGED Same
  <1>1. PICK j, row : j = request[m].job /\ row = request[m].row
    OBVIOUS
  <1>2. j \in Job /\ job[j].version # None /\ JobChange(row)
    BY <1>1, InHand DEF Retry, It, Changes
  <1>3. WriteJob(j, row) /\ UNCHANGED <<file, parsed, work>>
    BY <1>1 DEF Retry, docVars
  <1> QED
    BY <1>2, <1>3, WithdrawnRefines

LEMMA CancelRefines ==
    ASSUME IInv, NEW m \in Member, Cancel(m)
    PROVE  Publishing!Next \/ UNCHANGED Same
  <1>1. PICK j, row, f : j = request[m].job /\ row = request[m].row
                         /\ f = request[m].file
    OBVIOUS
  <1>2. /\ j \in Job /\ job[j].version # None /\ JobChange(row)
        /\ FileChange(f) /\ "active" \notin DOMAIN f
    BY <1>1, InHand DEF Cancel, It, Changes, IInv, MemberOK
  <1>3. WriteJob(j, row) /\ file' = Write(file, f) /\ UNCHANGED <<parsed, work>>
    BY <1>1 DEF Cancel, docVars
  <1>4. file'.active = file.active
    BY <1>2, <1>3, WrittenFile DEF IInv, TypeOK, TablesOK
  <1> QED
    BY <1>2, <1>3, <1>4, WithdrawnRefines

LEMMA ActivateRefines ==
    ASSUME IInv, NEW m \in Member, Activate(m)
    PROVE  Publishing!Next \/ UNCHANGED Same
  <1>1. PICK f : f = request[m].file
    OBVIOUS
  <1>2. FileChange(f) /\ ("active" \in DOMAIN f => f.active \in parsed)
    BY <1>1, InHand DEF Activate, It, Changes
  <1>3. file' = Write(file, f) /\ UNCHANGED <<parsed, work, job>>
    BY <1>1 DEF Activate, docVars
  <1>4. file'.active = IF "active" \in DOMAIN f THEN f.active ELSE file.active
    BY <1>2, <1>3, WrittenFile DEF IInv, TypeOK, TablesOK
  <1>5. Target' = Target /\ Lease' = Lease /\ Where' = Where
    BY <1>3, JobsSame, WorkSame
  <1>6. CASE "active" \in DOMAIN f
    <2>1. f.active \in Version
      BY <1>2, <1>6 DEF FileChange
    <2>2. Publishing!Activate(f.active)
      BY <1>2, <1>3, <1>4, <1>5, <1>6
         DEF Publishing!Activate, Target, Lease, Where, AtJob
    <2> QED
      BY <2>1, <2>2 DEF Publishing!Next
  <1>7. CASE "active" \notin DOMAIN f
    BY <1>3, <1>4, <1>5, <1>7 DEF Same
  <1> QED
    BY <1>6, <1>7

LEMMA DeleteRefines ==
    ASSUME IInv, NEW m \in Member, Delete(m)
    PROVE  UNCHANGED Same
  <1>1. PICK f : f = request[m].file
    OBVIOUS
  <1>2. FileChange(f) /\ "active" \notin DOMAIN f
    BY <1>1, InHand DEF Delete, It, Changes, IInv, MemberOK
  <1>3. file' = Write(file, f) /\ UNCHANGED <<parsed, work, job>>
    BY <1>1 DEF Delete, docVars
  <1>4. file'.active = file.active
    BY <1>2, <1>3, WrittenFile DEF IInv, TypeOK, TablesOK
  <1> QED
    BY <1>3, <1>4, JobsSame, WorkSame DEF Same

LEMMA MemberRefines ==
    ASSUME IInv, NEW m \in Member, RequestBegins(m) \/ RequestStep(m)
    PROVE  Publishing!Next \/ UNCHANGED Same
  <1>1. CASE RequestBegins(m)
    BY <1>1, QuietRefines
       DEF RequestBegins, BeginUpload, BeginReparse, BeginRetry, BeginCancel,
           BeginActivate, BeginDelete, Begin, rowVars, docVars
  <1>2. CASE AskParse(m) \/ AskStop(m) \/ AskEnable(m)
    BY <1>2, QuietRefines DEF AskParse, AskStop, AskEnable, rowVars
  <1>3. CASE AskDisable(m) \/ AskDelete(m) \/ Abandon(m)
    BY <1>3, QuietRefines DEF AskDisable, AskDelete, Abandon, rowVars, docVars
  <1> QED
    BY <1>1, <1>2, <1>3, UploadRefines, ReparseRefines, RetryRefines,
       CancelRefines, ActivateRefines, DeleteRefines DEF RequestStep

LEMMA SweepRefines ==
    ASSUME \/ SweepStep \/ SweepCrashes
           \/ \E v \in Version : SweepDisables(v)
           \/ \E j \in Job : LeaseEnds(j)
    PROVE  UNCHANGED Same
  BY QuietRefines
     DEF SweepStep, SweepStarts, SweepMisses, SweepDeletes, SweepCommits,
         SweepCrashes, SweepDisables, LeaseEnds, rowVars, docVars

LEMMA StepRefines ==
    IInv /\ [Next]_vars => [Publishing!Next]_(Publishing!vars)
  <1> SUFFICES ASSUME IInv, [Next]_vars
               PROVE  Publishing!Next \/ UNCHANGED Publishing!vars
    OBVIOUS
  <1>1. CASE UNCHANGED vars
    BY <1>1, QuietRefines, SameMeansStutter DEF vars, rowVars, docVars
  <1>2. CASE Next
    <2>1. Publishing!Next \/ UNCHANGED Same
      BY <1>2, DocRefines, WorkerRefines, MemberRefines, SweepRefines DEF Next
    <2> QED
      BY <2>1, SameMeansStutter
  <1> QED
    BY <1>1, <1>2

LEMMA InitRefines == Init => Publishing!Init
  <1> SUFFICES ASSUME Init PROVE Publishing!Init
    OBVIOUS
  <1>1. parsed \subseteq Version /\ file.active \in {None} \cup parsed
    BY Starts DEF IInv, TypeOK, TablesOK, RowsOK, ActiveWasParsed
  <1>2. \A j \in Job : job[j].version \in {None} \cup Version
    BY Starts DEF IInv, TypeOK, TablesOK, JobRow
  <1>3. \A j \in Job : job[j].holder = Nobody
    <2>1. PICK v \in Version : Uploaded(v)
      BY DEF Init
    <2>2. \A j \in Job : job[j] = IF j > v THEN NewJob(None, "absent")
                          ELSE IF j = v THEN NewJob(v, "parse_dispatched")
                          ELSE NewJob(j, "active")
      BY <2>1 DEF Uploaded, Job, Version, NoRow
    <2>3. \A v1, s : NewJob(v1, s).holder = Nobody
      BY DEF NewJob
    <2> QED
      BY <2>2, <2>3
  <1>4. \A w \in Worker : AtJob(w) = None
    BY DEF Init, AtJob
  <1> QED
    BY <1>1, <1>2, <1>3, <1>4 DEF Publishing!Init, AtJob

(***************************************************************************)
(* However workers, members and RAGFlow interleave, a version is published *)
(* by a member or by the worker that holds the lease of a job of it, and a *)
(* worker that has lost its lease commits nothing (finalize_leased_job).   *)
(***************************************************************************)
THEOREM Implements == Spec => ImplementsPublishing
<1>1. IInv /\ [Next]_vars => [Publishing!Next]_(Publishing!vars)
  BY StepRefines
<1> QED
  BY <1>1, InitRefines, Invariance, PTL
  DEF Spec, ImplementsPublishing, Publishing!Spec
=============================================================================
