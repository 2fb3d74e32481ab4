--------------------------- MODULE EdgeJobProofs ---------------------------
(***************************************************************************)
(* Type correctness of EdgeJob, that an ended job was reported, that a     *)
(* cancellation was asked for unless something has gone wrong, and that    *)
(* the transport implements JobDelivery: for any number of jobs, requests  *)
(* in progress, deliveries and faults.                                     *)
(***************************************************************************)
EXTENDS EdgeJob, TLAPS

\* A job stays well typed when its columns are written.
LEMMA JobType ==
    ASSUME job \in [Job -> Row], NEW j \in Job
    PROVE  /\ \A st \in JobStatus :
                  [job EXCEPT ![j].status = st] \in [Job -> Row]
           /\ [job EXCEPT ![j].cancel = "requested"] \in [Job -> Row]
           /\ job[j].generation < MaxDeliveries =>
                  /\ job[j].generation + 1 \in Generation
                  /\ [job EXCEPT ![j].status = "CLAIMED",
                                 ![j].generation = @ + 1] \in [Job -> Row]
<1>1. ASSUME NEW row \in Row, NEW st \in JobStatus
      PROVE  [row EXCEPT !.status = st] \in Row
  BY DEF Row
<1>0. ASSUME NEW row \in Row
      PROVE  [row EXCEPT !.cancel = "requested"] \in Row
  BY DEF Row
<1>2. ASSUME NEW row \in Row, row.generation < MaxDeliveries
      PROVE  row.generation + 1 \in Generation
  BY <1>2, EdgeJobAssumption DEF Row, Generation
<1>3. ASSUME NEW row \in Row, NEW n \in 0 .. MaxDeliveries
      PROVE  [row EXCEPT !.status = "CLAIMED", !.generation = n] \in Row
  BY DEF Row, JobStatus
<1>4. [job EXCEPT ![j].status = "CLAIMED", ![j].generation = @ + 1] =
          [job EXCEPT ![j] = [job[j] EXCEPT !.status = "CLAIMED",
                                 !.generation = job[j].generation + 1]]
  BY DEF Row
<1>5. job[j].generation < MaxDeliveries =>
          [job EXCEPT ![j].status = "CLAIMED", ![j].generation = @ + 1]
              \in [Job -> Row]
  <2>1. ASSUME NEW n \in Generation PROVE n \in 0 .. MaxDeliveries
    BY EdgeJobAssumption DEF Generation
  <2> QED
    BY <1>2, <1>3, <1>4, <2>1
<1>6. \A st \in JobStatus : [job EXCEPT ![j].status = st] \in [Job -> Row]
  BY <1>1
<1>7. [job EXCEPT ![j].cancel = "requested"] \in [Job -> Row]
  BY <1>0
<1>8. job[j].generation < MaxDeliveries =>
          job[j].generation + 1 \in Generation
  BY <1>2
<1> QED
  BY <1>5, <1>6, <1>7, <1>8

LEMMA PollingType ==
    ASSUME NEW files \in SUBSET Report
    PROVE  /\ Polling(files) \in Node
           /\ Polling(files).at = "spool"
  BY EdgeJobAssumption DEF Polling, Node

\* A request in progress stays well typed when it moves on.
LEMMA PostedType ==
    ASSUME posted \in [Handler -> Posted], NEW h \in Handler
    PROVE  /\ [posted EXCEPT ![h] = Free] \in [Handler -> Posted]
           /\ \A report \in Report :
                  [posted EXCEPT ![h] =
                      [phase |-> "received", report |-> report,
                       client |-> "waiting"]] \in [Handler -> Posted]
           /\ Abandoned \in [Handler -> Posted]
           /\ posted[h] # Free =>
                  /\ posted[h].report \in Report
                  /\ [posted EXCEPT ![h].phase = "checked"]
                         \in [Handler -> Posted]
                  /\ [posted EXCEPT ![h].phase = "relayed"]
                         \in [Handler -> Posted]
<1>1. ASSUME NEW p \in Posted
      PROVE  [p EXCEPT !.client = "gone"] \in Posted
  BY DEF Posted, Free
<1>2. ASSUME NEW p \in Posted, p # Free
      PROVE  /\ p.report \in Report
             /\ [p EXCEPT !.phase = "checked"] \in Posted
             /\ [p EXCEPT !.phase = "relayed"] \in Posted
  BY <1>2 DEF Posted
<1>3. ASSUME NEW report \in Report
      PROVE  [phase |-> "received", report |-> report, client |-> "waiting"]
                 \in Posted
  BY DEF Posted
<1>4. Free \in Posted
  BY DEF Posted
<1>5. [posted EXCEPT ![h] = Free] \in [Handler -> Posted]
  BY <1>4
<1>6. \A report \in Report :
          [posted EXCEPT ![h] =
              [phase |-> "received", report |-> report, client |-> "waiting"]]
              \in [Handler -> Posted]
  BY <1>3
<1>7. Abandoned \in [Handler -> Posted]
  BY <1>1 DEF Abandoned
<1>8. posted[h] # Free =>
          /\ posted[h].report \in Report
          /\ [posted EXCEPT ![h].phase = "checked"] \in [Handler -> Posted]
          /\ [posted EXCEPT ![h].phase = "relayed"] \in [Handler -> Posted]
  BY <1>2
<1> QED
  BY <1>5, <1>6, <1>7, <1>8

LEMMA TakeAnswerType ==
    ASSUME TypeOK, NEW answer, TakeAnswer(answer)
    PROVE  spool' \subseteq Report /\ node' \in Node /\ NodeWorks'
<1>1. SpoolAfter(answer) \subseteq Report
  BY DEF TypeOK, NodeWorks, SpoolAfter
<1>2. node.files \subseteq Report
  BY DEF TypeOK, Node
<1>3. PICK files \in SUBSET Report : node' = Polling(files)
  BY <1>1, <1>2 DEF TakeAnswer
<1> QED
  BY <1>1, <1>3, PollingType DEF TakeAnswer, NodeWorks

LEMMA AnswerType ==
    ASSUME TypeOK, NEW h \in Handler, NEW answer, Answer(h, answer)
    PROVE  /\ spool' \subseteq Report /\ node' \in Node /\ NodeWorks'
           /\ posted' \in [Handler -> Posted]
<1>1. posted' \in [Handler -> Posted]
  BY PostedType DEF TypeOK, Answer
<1>2. CASE posted[h].client = "waiting"
  BY <1>1, <1>2, TakeAnswerType DEF Answer
<1>3. CASE posted[h].client # "waiting"
  BY <1>1, <1>3 DEF Answer, TypeOK, nodeVars, NodeWorks
<1> QED
  BY <1>2, <1>3

LEMMA IngestType ==
    ASSUME TypeOK, NEW report \in Report, Ingest(report)
    PROVE  /\ recorded' \subseteq Report
           /\ step' \in [Job -> Report \cup {NoReport}]
           /\ open' \subseteq Job
<1>1. report.job \in Job
  BY DEF Report
<1> QED
  BY <1>1 DEF Ingest, TypeOK, agentVars

\* The node's own steps.
LEMMA NodeType ==
    ASSUME TypeOK, NodeNext \/ EngineNext
    PROVE  TypeOK'
<1> USE EdgeJobAssumption
<1>1. ASSUME NEW h \in Handler, NEW report \in Report, ReplayFile(h, report)
      PROVE  TypeOK'
  <2>1. node' \in Node
    BY <1>1 DEF ReplayFile, TypeOK, Node
  <2>2. NodeWorks'
    BY <1>1 DEF ReplayFile, NodeWorks, TypeOK, Node
  <2>3. posted' \in [Handler -> Posted]
    BY <1>1, PostedType DEF ReplayFile, Post, TypeOK
  <2> QED
    BY <1>1, <2>1, <2>2, <2>3 DEF ReplayFile, TypeOK, jobVars, agentVars
<1>2. CASE FlushDone
  <2>1. node' \in Node /\ NodeWorks'
    BY <1>2 DEF FlushDone, TypeOK, Node, NodeWorks
  <2> QED
    BY <1>2, <2>1 DEF FlushDone, TypeOK, jobVars, agentVars
<1>3. ASSUME NEW j \in Job, Claim(j)
      PROVE  TypeOK'
  <2>1. job' \in [Job -> Row] /\ job[j].generation + 1 \in Generation
    BY <1>3, JobType DEF Claim, Deliver, Claimable, TypeOK
  <2>2. ASSUME NEW n \in Generation, n \in 0 .. MaxDeliveries,
               node' = [node EXCEPT !.at = "engine", !.job = j,
                                    !.generation = n]
        PROVE  node' \in Node /\ NodeWorks'
    <3>1. node' \in Node
      BY <2>2 DEF TypeOK, Node
    <3> QED
      BY <2>2, <3>1 DEF TypeOK, Node, NodeWorks
  <2>3. job[j].generation + 1 \in 0 .. MaxDeliveries
    BY <2>1 DEF Generation
  <2>4. node' \in Node /\ NodeWorks'
    BY <1>3, <2>1, <2>2, <2>3 DEF Claim
  <2> QED
    BY <1>3, <2>1, <2>4 DEF Claim, Deliver, TypeOK, agentVars
<1>4. CASE NothingToClaim
  <2>1. node' \in Node /\ NodeWorks'
    BY <1>4, PollingType DEF NothingToClaim, TypeOK, NodeWorks
  <2> QED
    BY <1>4, <2>1 DEF NothingToClaim, TypeOK, jobVars, agentVars
<1>5. ASSUME NEW h \in Handler, NEW kind \in Kind, Finish(h, kind),
             node.at = "engine"
      PROVE  TypeOK'
  <2> DEFINE report == [job |-> node.job, generation |-> node.generation,
                        kind |-> kind]
  <2>1. report \in Report
    BY <1>5 DEF TypeOK, NodeWorks, Report
  <2>2. node' = [node EXCEPT !.at = "report", !.report = report]
    BY <1>5 DEF Finish
  <2>3. node' \in Node /\ NodeWorks'
    BY <1>5, <2>1, <2>2 DEF TypeOK, Node, NodeWorks
  <2>4. posted' \in [Handler -> Posted]
    BY <1>5, <2>1, PostedType DEF Finish, Post, TypeOK
  <2> QED
    BY <1>5, <2>3, <2>4 DEF Finish, TypeOK, jobVars, agentVars
<1> QED
  BY <1>1, <1>2, <1>3, <1>4, <1>5
  DEF NodeNext, EngineNext, EngineEnds, EngineCancelled, Kind

\* The steps of the backend and the agent with a report.
LEMMA HandlerType ==
    ASSUME TypeOK, NEW h \in Handler, HandlerNext(h) \/ RelayFails(h)
    PROVE  TypeOK'
<1> USE EdgeJobAssumption
<1> DEFINE report == posted[h].report
<1>0. posted[h].phase # "free"
  BY DEF HandlerNext, CheckReport, Relay, RelayFails, CommitReport
<1>a. posted[h] # Free
  BY <1>0 DEF Free
<1>1. report \in Report /\ posted[h] # Free
  BY <1>a, PostedType DEF TypeOK
<1>2. report.job \in Job
  BY <1>1 DEF Report
<1>3. CASE CheckReport(h)
  <2>1. CASE job[report.job].generation = report.generation
    BY <1>1, <1>3, <2>1, PostedType
    DEF CheckReport, TypeOK, jobVars, nodeVars, agentVars, NodeWorks
  <2>2. CASE job[report.job].generation # report.generation
    BY <1>3, <2>2, AnswerType DEF CheckReport, TypeOK, jobVars, agentVars
  <2> QED
    BY <2>1, <2>2
<1>4. CASE Relay(h)
  BY <1>1, <1>4, IngestType, PostedType
  DEF Relay, TypeOK, jobVars, nodeVars, NodeWorks
<1>5. CASE RelayFails(h)
  <2>1. /\ recorded' \subseteq Report
        /\ step' \in [Job -> Report \cup {NoReport}]
        /\ open' \subseteq Job
    BY <1>1, <1>5, IngestType DEF RelayFails, TypeOK, agentVars
  <2>2. faults' \in 0 .. MaxFaults
    BY <1>5 DEF RelayFails, Fault, TypeOK
  <2> QED
    BY <1>5, <2>1, <2>2, AnswerType DEF RelayFails, TypeOK, jobVars
<1>6. CASE CommitReport(h)
  <2>1. StatusAfter(report, job[report.job].status) \in JobStatus
    BY <1>2 DEF StatusAfter, TypeOK, Row, JobStatus
  <2>2. job' \in [Job -> Row]
    BY <1>2, <1>6, <2>1, JobType DEF CommitReport, TypeOK
  <2> QED
    BY <1>6, <2>2, AnswerType DEF CommitReport, TypeOK, agentVars
<1> QED
  BY <1>3, <1>4, <1>5, <1>6 DEF HandlerNext

\* The clock, the cancellations, and everything that goes wrong.
LEMMA EnvironmentType ==
    ASSUME TypeOK, Environment \/ \E j \in Job : LeaseLapses(j)
    PROVE  TypeOK'
<1> USE EdgeJobAssumption
<1>1. ASSUME NEW j \in Job, ClaimWithoutJob(j)
      PROVE  TypeOK'
  <2>1. job' \in [Job -> Row]
    BY <1>1, JobType DEF ClaimWithoutJob, Deliver, Claimable, TypeOK
  <2>2. node' \in Node /\ NodeWorks'
    BY <1>1, PollingType DEF ClaimWithoutJob, TypeOK, NodeWorks
  <2> QED
    BY <1>1, <2>1, <2>2
    DEF ClaimWithoutJob, Deliver, Fault, TypeOK, agentVars
<1>2. ASSUME NEW j \in Job, LeaseLapses(j) \/ RenewalsFail(j) \/ Renew(j)
      PROVE  TypeOK'
  <2>1. /\ lease' \in [Job -> {"none", "live", "over"}]
        /\ faults' \in 0 .. MaxFaults
    BY <1>2 DEF LeaseLapses, RenewalsFail, Renew, Fault, TypeOK
  <2>2. UNCHANGED <<job, nodeVars, posted, agentVars>>
    BY <1>2 DEF LeaseLapses, RenewalsFail, Renew
  <2> QED
    BY <2>1, <2>2 DEF TypeOK, nodeVars, agentVars, NodeWorks
<1>3. ASSUME NEW j \in Job, RequestCancel(j)
      PROVE  TypeOK'
  BY <1>3, JobType DEF RequestCancel, TypeOK, nodeVars, agentVars, NodeWorks
<1>4. ASSUME NEW j \in Job, RunEnds(j)
      PROVE  TypeOK'
  BY <1>4 DEF RunEnds, TypeOK, jobVars, nodeVars, NodeWorks
<1>5. ASSUME NEW h \in Handler, ConnectionBreaks(h)
      PROVE  TypeOK'
  <2>1. posted' \in [Handler -> Posted]
    <3>1. posted[h] # Free
      BY <1>5 DEF ConnectionBreaks, Free
    <3>2. [posted[h] EXCEPT !.client = "gone"] \in Posted
      BY <3>1 DEF TypeOK, Posted
    <3> QED
      BY <1>5, <3>2, PostedType DEF ConnectionBreaks, TypeOK
  <2> QED
    BY <1>5, <2>1, TakeAnswerType
    DEF ConnectionBreaks, Fault, TypeOK, jobVars, agentVars
<1>6. CASE Crash
  <2>1. node' \in Node /\ NodeWorks'
    BY <1>6, PollingType DEF Crash, TypeOK, NodeWorks
  <2>2. posted' \in [Handler -> Posted]
    BY <1>6, PostedType DEF Crash, Abandoned, TypeOK, Posted, Free
  <2> QED
    BY <1>6, <2>1, <2>2 DEF Crash, Fault, TypeOK, jobVars, agentVars
<1>7. ASSUME NEW h \in Handler, ShutDown(h)
      PROVE  TypeOK'
  <2> DEFINE report == [job |-> node.job, generation |-> node.generation,
                        kind |-> "cancelled"]
  <2>1. report \in Report
    BY <1>7 DEF ShutDown, TypeOK, NodeWorks, Report, Kind
  <2>2. node' = [node EXCEPT !.at = "report", !.report = report]
    BY <1>7 DEF ShutDown
  <2>3. node' \in Node /\ NodeWorks'
    BY <1>7, <2>1, <2>2 DEF ShutDown, TypeOK, Node, NodeWorks
  <2>4. posted' \in [Handler -> Posted]
    <3>1. Abandoned \in [Handler -> Posted]
      BY PostedType DEF TypeOK
    <3>2. [phase |-> "received", report |-> report, client |-> "waiting"]
              \in Posted
      BY <2>1 DEF Posted
    <3> QED
      BY <1>7, <3>1, <3>2 DEF ShutDown
  <2> QED
    BY <1>7, <2>3, <2>4 DEF ShutDown, Fault, TypeOK, jobVars, agentVars
<1> QED
  BY <1>1, <1>2, <1>3, <1>4, <1>5, <1>6, <1>7, HandlerType DEF Environment

LEMMA NextType == TypeOK /\ [Next]_vars => TypeOK'
<1>1. ASSUME TypeOK, UNCHANGED vars
      PROVE  TypeOK'
  BY <1>1
  DEF TypeOK, NodeWorks, vars, jobVars, nodeVars, agentVars
<1> QED
  BY <1>1, NodeType, HandlerType, EnvironmentType DEF Next

LEMMA InitType == Init => TypeOK
<1> SUFFICES ASSUME Init PROVE TypeOK
  OBVIOUS
<1>1. job \in [Job -> Row] /\ faults \in 0 .. MaxFaults
  BY EdgeJobAssumption DEF Init, Row, JobStatus
<1>2. node \in Node /\ NodeWorks
  BY PollingType DEF Init, NodeWorks
<1> QED
  BY <1>1, <1>2 DEF Init, TypeOK, Posted

(***************************************************************************)
(* Every variable of the transport keeps its type.                         *)
(***************************************************************************)
THEOREM TypeCorrect == Spec => []TypeOK
  BY InitType, NextType, PTL DEF Spec

-----------------------------------------------------------------------------
(***************************************************************************)
(* What the status of a job rests on: a report is checked against a job    *)
(* that was handed out, and is relayed before it is committed.             *)
(***************************************************************************)
HandedOut == \A j \in Job : job[j].status = "QUEUED" <=> job[j].generation = 0

CheckedMeansHandedOut ==
    \A h \in Handler :
        posted[h].phase \in {"checked", "relayed"} =>
            job[posted[h].report.job].generation > 0

RelayedMeansTold ==
    \A h \in Handler :
        posted[h].phase = "relayed" /\ posted[h].report.job \in open =>
            posted[h].report \in recorded

RecordedMeansHandedOut ==
    \A report \in recorded : job[report.job].generation > 0

IInv ==
    /\ TypeOK
    /\ HandedOut
    /\ CheckedMeansHandedOut
    /\ RelayedMeansTold
    /\ RecordedMeansHandedOut
    /\ EndedMeansReported

(***************************************************************************)
(* What a step may do to the jobs, the reports in progress, the recorded   *)
(* reports and the open runs: one of five things.                          *)
(***************************************************************************)
Underway == {"checked", "relayed"}

\* A report whose handling is not advanced is dropped or as before.
Stays(h) ==
    posted'[h].phase \in Underway =>
        /\ posted'[h].phase = posted[h].phase
        /\ posted'[h].report = posted[h].report

OthersStay(h) == \A g \in Handler \ {h} : Stays(g)

SameColumns ==
    \A j \in Job : /\ job'[j].status = job[j].status
                  /\ job'[j].generation = job[j].generation

Quiet ==
    /\ SameColumns
    /\ recorded' = recorded
    /\ open' = open \/ \E j \in Job : open' = open \ {j}
    /\ \A h \in Handler : Stays(h)

Delivered(j) ==
    /\ job[j].status \in {"QUEUED", "CLAIMED"}
    /\ job' = [job EXCEPT ![j].status = "CLAIMED", ![j].generation = @ + 1]
    /\ UNCHANGED <<recorded, open, posted>>

Checked(h) ==
    /\ posted[h].report \in Report
    /\ job[posted[h].report.job].generation = posted[h].report.generation
    /\ posted'[h].phase = "checked" /\ posted'[h].report = posted[h].report
    /\ OthersStay(h)
    /\ UNCHANGED <<job, recorded, open>>

Relayed(h) ==
    /\ posted[h].phase = "checked" /\ posted[h].report \in Report
    /\ Ingest(posted[h].report)
    /\ posted'[h].report = posted[h].report \/ posted'[h].phase = "free"
    /\ OthersStay(h)
    /\ UNCHANGED job

Committed(h) ==
    LET report == posted[h].report
    IN  /\ posted[h].phase = "relayed" /\ report \in Report
        /\ job' = [job EXCEPT ![report.job].status = StatusAfter(report, @)]
        /\ \A g \in Handler : Stays(g)
        /\ UNCHANGED <<recorded, open>>

Effect ==
    \/ Quiet
    \/ \E j \in Job : Delivered(j)
    \/ \E h \in Handler : Checked(h) \/ Relayed(h) \/ Committed(h)

\* Requests that come, go or lose their client are not underway by that.
LEMMA PostStays ==
    ASSUME TypeOK, NEW h \in Handler, NEW report,
           posted' = [posted EXCEPT ![h] = [phase |-> "received",
                          report |-> report, client |-> "waiting"]]
    PROVE  \A g \in Handler : Stays(g)
  BY DEF TypeOK, Stays, Underway

LEMMA FreeStays ==
    ASSUME TypeOK, NEW h \in Handler, posted' = [posted EXCEPT ![h] = Free]
    PROVE  posted'[h] = Free /\ \A g \in Handler : Stays(g)
  BY DEF TypeOK, Stays, Underway, Free

LEMMA AbandonedStays ==
    ASSUME TypeOK, NEW h \in Handler
    PROVE  /\ Abandoned[h].phase = posted[h].phase
           /\ Abandoned[h].report = posted[h].report
<1>1. posted[h] \in Posted
  BY DEF TypeOK
<1>2. \A p \in Posted : /\ [p EXCEPT !.client = "gone"].phase = p.phase
                       /\ [p EXCEPT !.client = "gone"].report = p.report
  BY DEF Posted, Free
<1> QED
  BY <1>1, <1>2 DEF Abandoned

\* A report that is being handled is a report.
LEMMA HandledReport ==
    ASSUME TypeOK, NEW h \in Handler, posted[h].phase # "free"
    PROVE  posted[h].report \in Report
<1>1. posted[h] # Free
  BY DEF Free
<1> QED
  BY <1>1, PostedType DEF TypeOK

LEMMA NodeEffect ==
    ASSUME TypeOK, NodeNext \/ EngineNext
    PROVE  Effect
<1>1. ASSUME NEW h \in Handler, NEW report \in Report, ReplayFile(h, report)
      PROVE  Quiet
  BY <1>1, PostStays
  DEF ReplayFile, Post, Quiet, SameColumns, jobVars, agentVars
<1>2. CASE FlushDone \/ NothingToClaim
  <2>1. posted' = posted /\ UNCHANGED <<jobVars, agentVars>>
    BY <1>2 DEF FlushDone, NothingToClaim
  <2>2. \A h \in Handler : Stays(h)
    BY <2>1 DEF Stays
  <2> QED
    BY <2>1, <2>2 DEF Quiet, SameColumns, Effect, jobVars, agentVars
<1>3. ASSUME NEW j \in Job, Claim(j)
      PROVE  Delivered(j)
  BY <1>3 DEF Claim, Deliver, Claimable, Delivered, agentVars
<1>4. ASSUME NEW h \in Handler, NEW kind \in Kind, Finish(h, kind)
      PROVE  Quiet
  BY <1>4, PostStays
  DEF Finish, Post, Quiet, SameColumns, jobVars, agentVars
<1> QED
  BY <1>1, <1>2, <1>3, <1>4
  DEF NodeNext, EngineNext, EngineEnds, EngineCancelled, Kind, Effect

LEMMA HandlerEffect ==
    ASSUME TypeOK, NEW h \in Handler, HandlerNext(h) \/ RelayFails(h)
    PROVE  Effect
<1>0. posted[h].phase # "free"
  BY DEF HandlerNext, CheckReport, Relay, RelayFails, CommitReport
<1>1. posted[h].report \in Report
  BY <1>0, HandledReport
<1>2. CASE CheckReport(h)
  <2>1. CASE job[posted[h].report.job].generation = posted[h].report.generation
    <3>1. posted' = [posted EXCEPT ![h].phase = "checked"]
      BY <1>2, <2>1 DEF CheckReport
    <3>2. posted'[h].phase = "checked" /\ posted'[h].report = posted[h].report
      BY <3>1, PostedType, <1>0 DEF TypeOK, Posted, Free
    <3>3. OthersStay(h)
      BY <3>1 DEF TypeOK, OthersStay, Stays
    <3> QED
      BY <1>1, <1>2, <2>1, <3>2, <3>3
      DEF CheckReport, Checked, Effect, jobVars, agentVars
  <2>2. CASE job[posted[h].report.job].generation # posted[h].report.generation
    BY <1>2, <2>2, FreeStays
    DEF CheckReport, Answer, Quiet, SameColumns, Effect, jobVars, agentVars
  <2> QED
    BY <2>1, <2>2
<1>3. CASE Relay(h)
  <2>1. posted' = [posted EXCEPT ![h].phase = "relayed"]
    BY <1>3 DEF Relay
  <2>2. posted'[h].report = posted[h].report
    BY <2>1, <1>0 DEF TypeOK, Posted, Free
  <2>3. OthersStay(h)
    BY <2>1 DEF TypeOK, OthersStay, Stays
  <2> QED
    BY <1>1, <1>3, <2>2, <2>3 DEF Relay, Relayed, Effect, jobVars
<1>4. CASE RelayFails(h)
  <2>1. posted'[h] = Free /\ \A g \in Handler : Stays(g)
    BY <1>4, FreeStays DEF RelayFails, Answer
  <2>2. CASE Ingest(posted[h].report)
    BY <1>1, <1>4, <2>1, <2>2
    DEF RelayFails, Relayed, OthersStay, Effect, jobVars, Free
  <2>3. CASE UNCHANGED agentVars
    BY <1>4, <2>1, <2>3
    DEF RelayFails, Quiet, SameColumns, Effect, jobVars, agentVars
  <2> QED
    BY <1>4, <2>2, <2>3 DEF RelayFails
<1>5. CASE CommitReport(h)
  BY <1>1, <1>5, FreeStays
  DEF CommitReport, Answer, Committed, Effect, agentVars
<1> QED
  BY <1>2, <1>3, <1>4, <1>5 DEF HandlerNext

LEMMA EnvironmentEffect ==
    ASSUME TypeOK, Environment \/ \E j \in Job : LeaseLapses(j)
    PROVE  Effect
<1>1. ASSUME NEW j \in Job, ClaimWithoutJob(j)
      PROVE  Delivered(j)
  BY <1>1 DEF ClaimWithoutJob, Deliver, Claimable, Delivered, agentVars
<1>2. ASSUME NEW j \in Job, LeaseLapses(j) \/ RenewalsFail(j) \/ Renew(j)
      PROVE  Quiet
  <2>1. posted' = posted /\ job' = job /\ UNCHANGED agentVars
    BY <1>2 DEF LeaseLapses, RenewalsFail, Renew
  <2> QED
    BY <2>1 DEF Quiet, SameColumns, Stays, agentVars
<1>3. ASSUME NEW j \in Job, RequestCancel(j)
      PROVE  Quiet
  <2>1. posted' = posted /\ UNCHANGED agentVars
    BY <1>3 DEF RequestCancel
  <2>2. SameColumns
    BY <1>3 DEF RequestCancel, SameColumns, TypeOK, Row
  <2> QED
    BY <2>1, <2>2 DEF Quiet, Stays, agentVars
<1>4. ASSUME NEW j \in Job, RunEnds(j)
      PROVE  Quiet
  BY <1>4 DEF RunEnds, Quiet, SameColumns, Stays, jobVars
<1>5. ASSUME NEW h \in Handler, ConnectionBreaks(h)
      PROVE  Quiet
  <2>1. ASSUME NEW g \in Handler,
               posted' = [posted EXCEPT ![h].client = "gone"]
        PROVE  Stays(g)
    BY <2>1 DEF TypeOK, Posted, Free, Stays
  <2>2. \A g \in Handler : Stays(g)
    BY <1>5, <2>1, FreeStays DEF ConnectionBreaks
  <2> QED
    BY <1>5, <2>2
    DEF ConnectionBreaks, Quiet, SameColumns, jobVars, agentVars
<1>6. CASE Crash
  <2>1. \A g \in Handler : Stays(g)
    BY <1>6, AbandonedStays DEF Crash, Stays
  <2> QED
    BY <1>6, <2>1 DEF Crash, Quiet, SameColumns, Effect, jobVars, agentVars
<1>7. ASSUME NEW h \in Handler, ShutDown(h)
      PROVE  Quiet
  <2>1. \A g \in Handler : Stays(g)
    BY <1>7, AbandonedStays DEF ShutDown, Stays, Underway, Abandoned
  <2> QED
    BY <1>7, <2>1 DEF ShutDown, Quiet, SameColumns, jobVars, agentVars
<1> QED
  BY <1>1, <1>2, <1>3, <1>4, <1>5, <1>6, <1>7, HandlerEffect
  DEF Environment, Effect

LEMMA NextEffect == TypeOK /\ [Next]_vars => Effect
<1>1. ASSUME UNCHANGED vars
      PROVE  Quiet
  BY <1>1
  DEF Quiet, SameColumns, Stays, vars, jobVars, agentVars
<1> QED
  BY <1>1, NodeEffect, HandlerEffect, EnvironmentEffect DEF Next, Effect

-----------------------------------------------------------------------------
\* What being told of a report does: it is recorded, unless the run is over.
LEMMA IngestEffect ==
    ASSUME TypeOK, NEW report \in Report, Ingest(report)
    PROVE  /\ recorded' \in {recorded, recorded \cup {report}}
           /\ open' \in {open, open \ {report.job}}
           /\ report.job \in open' => report \in recorded'
  BY DEF TypeOK, Ingest, agentVars

\* With the columns and the records as before, only less can be open.
LEMMA QuietInductive == IInv /\ TypeOK' /\ Quiet => IInv'
<1> SUFFICES ASSUME IInv, TypeOK', Quiet
             PROVE  IInv'
  OBVIOUS
<1>0. TypeOK /\ SameColumns /\ recorded' = recorded /\ open' \subseteq open
  BY DEF IInv, Quiet
<1>1. HandedOut'
  BY <1>0 DEF IInv, HandedOut, SameColumns
<1>2. CheckedMeansHandedOut'
  <2> SUFFICES ASSUME NEW h \in Handler,
                      posted'[h].phase \in {"checked", "relayed"}
               PROVE  job'[posted'[h].report.job].generation > 0
    BY DEF CheckedMeansHandedOut
  <2>1. /\ posted'[h].phase = posted[h].phase
        /\ posted'[h].report = posted[h].report
    BY DEF Quiet, Stays, Underway
  <2>2. posted[h].report \in Report
    BY <1>0, <2>1, HandledReport
  <2>3. job[posted[h].report.job].generation > 0
    BY <2>1 DEF IInv, CheckedMeansHandedOut
  <2> QED
    BY <1>0, <2>1, <2>2, <2>3 DEF SameColumns, Report
<1>3. RelayedMeansTold'
  BY <1>0 DEF IInv, RelayedMeansTold, Quiet, Stays, Underway
<1>4. RecordedMeansHandedOut'
  BY <1>0 DEF IInv, RecordedMeansHandedOut, SameColumns, TypeOK, Report
<1>5. EndedMeansReported'
  <2>1. \A j \in Job : Told(j)' = Told(j)
    BY <1>0 DEF Told
  <2> QED
    BY <1>0, <2>1 DEF IInv, EndedMeansReported, SameColumns, TypeOK
<1> QED
  BY <1>1, <1>2, <1>3, <1>4, <1>5 DEF IInv

\* A job that is handed out was not over, and has been handed out before or
\* is no longer queued.
LEMMA DeliveredColumns ==
    ASSUME TypeOK, NEW j \in Job, Delivered(j)
    PROVE  /\ job'[j].status = "CLAIMED"
           /\ job'[j].generation = job[j].generation + 1
           /\ \A i \in Job \ {j} : job'[i] = job[i]
           /\ \A i \in Job : job'[i].generation >= job[i].generation
           /\ \A i \in Job : job[i].generation \in Nat
<1>1. \A i \in Job : job[i].generation \in Nat
  BY EdgeJobAssumption DEF TypeOK, Row
<1>2. /\ job'[j].status = "CLAIMED"
      /\ job'[j].generation = job[j].generation + 1
      /\ \A i \in Job \ {j} : job'[i] = job[i]
  BY DEF Delivered, TypeOK, Row
<1> QED
  BY <1>1, <1>2

LEMMA DeliveredInductive ==
    ASSUME IInv, TypeOK', NEW j \in Job, Delivered(j)
    PROVE  IInv'
<1>0. TypeOK
  BY DEF IInv
<1>1. HandedOut'
  <2>1. job'[j].status # "QUEUED" /\ job'[j].generation # 0
    BY <1>0, DeliveredColumns
  <2> QED
    BY <1>0, <2>1, DeliveredColumns DEF IInv, HandedOut
<1>2. CheckedMeansHandedOut'
  <2> SUFFICES ASSUME NEW h \in Handler,
                      posted[h].phase \in {"checked", "relayed"}
               PROVE  job'[posted[h].report.job].generation > 0
    BY DEF CheckedMeansHandedOut, Delivered
  <2>1. posted[h].report.job \in Job
    BY <1>0, HandledReport DEF Report
  <2>2. job[posted[h].report.job].generation > 0
    BY DEF IInv, CheckedMeansHandedOut
  <2> QED
    BY <1>0, <2>1, <2>2, DeliveredColumns
<1>3. RelayedMeansTold'
  BY DEF IInv, RelayedMeansTold, Delivered
<1>4. RecordedMeansHandedOut'
  <2> SUFFICES ASSUME NEW report \in recorded
               PROVE  job'[report.job].generation > 0
    BY DEF RecordedMeansHandedOut, Delivered
  <2>1. report.job \in Job /\ job[report.job].generation > 0
    BY <1>0 DEF IInv, RecordedMeansHandedOut, TypeOK, Report
  <2> QED
    BY <1>0, <2>1, DeliveredColumns
<1>5. EndedMeansReported'
  <2> SUFFICES ASSUME NEW i \in open, job'[i].status \in Ended
               PROVE  job'[i].status \in Told(i)'
    BY DEF EndedMeansReported, Delivered
  <2>1. i \in Job /\ i # j
    BY <1>0, DeliveredColumns DEF TypeOK, Ended
  <2>2. job'[i] = job[i] /\ Told(i)' = Told(i)
    BY <1>0, <2>1, DeliveredColumns DEF Delivered, Told
  <2> QED
    BY <2>2 DEF IInv, EndedMeansReported
<1> QED
  BY <1>1, <1>2, <1>3, <1>4, <1>5 DEF IInv

\* The report's generation is the job's, and no report has generation 0.
LEMMA CheckedInductive ==
    ASSUME IInv, TypeOK', NEW h \in Handler, Checked(h)
    PROVE  IInv'
<1>0. TypeOK /\ UNCHANGED <<job, recorded, open>>
  BY DEF IInv, Checked
<1>1. CheckedMeansHandedOut'
  <2> SUFFICES ASSUME NEW g \in Handler,
                      posted'[g].phase \in {"checked", "relayed"}
               PROVE  job[posted'[g].report.job].generation > 0
    BY <1>0 DEF CheckedMeansHandedOut
  <2>1. CASE g = h
    <3>1. posted[h].report.generation > 0
      BY EdgeJobAssumption DEF Checked, Report, Generation
    <3> QED
      BY <2>1, <3>1 DEF Checked
  <2>2. CASE g # h
    BY <2>2 DEF IInv, CheckedMeansHandedOut, Checked, OthersStay, Stays,
                Underway
  <2> QED
    BY <2>1, <2>2
<1>2. RelayedMeansTold'
  <2> SUFFICES ASSUME NEW g \in Handler, posted'[g].phase = "relayed",
                      posted'[g].report.job \in open
               PROVE  posted'[g].report \in recorded
    BY <1>0 DEF RelayedMeansTold
  <2>1. g # h
    BY DEF Checked
  <2> QED
    BY <2>1 DEF IInv, RelayedMeansTold, Checked, OthersStay, Stays, Underway
<1>3. EndedMeansReported'
  BY <1>0 DEF IInv, EndedMeansReported, Told
<1> QED
  BY <1>0, <1>1, <1>2, <1>3 DEF IInv, HandedOut, RecordedMeansHandedOut

LEMMA RelayedInductive ==
    ASSUME IInv, TypeOK', NEW h \in Handler, Relayed(h)
    PROVE  IInv'
<1> DEFINE report == posted[h].report
<1>0. TypeOK /\ UNCHANGED job
  BY DEF IInv, Relayed
<1>1. /\ report \in Report
      /\ recorded' \in {recorded, recorded \cup {report}}
      /\ open' \subseteq open
      /\ report.job \in open' => report \in recorded'
  BY <1>0, IngestEffect DEF Relayed
<1>2. job[report.job].generation > 0
  BY DEF IInv, CheckedMeansHandedOut, Relayed
<1>3. CheckedMeansHandedOut'
  <2> SUFFICES ASSUME NEW g \in Handler,
                      posted'[g].phase \in {"checked", "relayed"}
               PROVE  job[posted'[g].report.job].generation > 0
    BY <1>0 DEF CheckedMeansHandedOut
  <2>1. CASE g = h
    BY <1>2, <2>1 DEF Relayed
  <2>2. CASE g # h
    BY <2>2 DEF IInv, CheckedMeansHandedOut, Relayed, OthersStay, Stays,
                Underway
  <2> QED
    BY <2>1, <2>2
<1>4. RelayedMeansTold'
  <2> SUFFICES ASSUME NEW g \in Handler, posted'[g].phase = "relayed",
                      posted'[g].report.job \in open'
               PROVE  posted'[g].report \in recorded'
    BY DEF RelayedMeansTold
  <2>1. CASE g = h
    BY <1>1, <2>1 DEF Relayed
  <2>2. CASE g # h
    BY <1>1, <2>2 DEF IInv, RelayedMeansTold, Relayed, OthersStay, Stays,
                      Underway
  <2> QED
    BY <2>1, <2>2
<1>5. RecordedMeansHandedOut'
  BY <1>0, <1>1, <1>2 DEF IInv, RecordedMeansHandedOut
<1>6. EndedMeansReported'
  <2>1. \A j \in Job : Told(j) \subseteq Told(j)'
    BY <1>1 DEF Told
  <2> QED
    BY <1>0, <1>1, <2>1 DEF IInv, EndedMeansReported, TypeOK
<1> QED
  BY <1>0, <1>3, <1>4, <1>5, <1>6 DEF IInv, HandedOut

\* Only the status of one job changes, and to what its report says.
LEMMA CommittedColumns ==
    ASSUME TypeOK, NEW h \in Handler, Committed(h)
    PROVE  LET report == posted[h].report
           IN  /\ report \in Report
               /\ job'[report.job].status =
                      StatusAfter(report, job[report.job].status)
               /\ \A j \in Job \ {report.job} : job'[j] = job[j]
               /\ \A j \in Job : job'[j].generation = job[j].generation
  BY DEF TypeOK, Committed, Row, Report

LEMMA CommittedInductive ==
    ASSUME IInv, TypeOK', NEW h \in Handler, Committed(h)
    PROVE  IInv'
<1> DEFINE report == posted[h].report
<1>0. TypeOK /\ UNCHANGED <<recorded, open>>
  BY DEF IInv, Committed
<1>1. report.job \in Job /\ job[report.job].generation > 0
  BY <1>0, CommittedColumns
  DEF IInv, CheckedMeansHandedOut, Committed, Report
<1>2. HandedOut'
  <2>1. job[report.job].status # "QUEUED"
    BY <1>0, <1>1 DEF IInv, HandedOut
  <2>2. job'[report.job].status # "QUEUED"
    BY <1>0, <2>1, CommittedColumns DEF StatusAfter
  <2> QED
    BY <1>0, <1>1, <2>1, <2>2, CommittedColumns DEF IInv, HandedOut
<1>3. CheckedMeansHandedOut'
  <2> SUFFICES ASSUME NEW g \in Handler,
                      posted'[g].phase \in {"checked", "relayed"}
               PROVE  job'[posted'[g].report.job].generation > 0
    BY DEF CheckedMeansHandedOut
  <2>1. /\ posted'[g].phase = posted[g].phase
        /\ posted'[g].report = posted[g].report
    BY DEF Committed, Stays, Underway
  <2>2. posted[g].report.job \in Job
    BY <1>0, <2>1, HandledReport DEF Report
  <2>3. job[posted[g].report.job].generation > 0
    BY <2>1 DEF IInv, CheckedMeansHandedOut
  <2> QED
    BY <1>0, <2>1, <2>2, <2>3, CommittedColumns
<1>4. RelayedMeansTold'
  BY <1>0 DEF IInv, RelayedMeansTold, Committed, Stays, Underway
<1>5. RecordedMeansHandedOut'
  BY <1>0, CommittedColumns
  DEF IInv, RecordedMeansHandedOut, TypeOK, Report
<1>6. EndedMeansReported'
  <2> SUFFICES ASSUME NEW j \in open, job'[j].status \in Ended
               PROVE  job'[j].status \in Told(j)
    BY <1>0 DEF EndedMeansReported, Told
  <2>0. j \in Job
    BY <1>0 DEF TypeOK
  <2>1. CASE job'[j].status = job[j].status
    BY <2>1 DEF IInv, EndedMeansReported
  <2>2. CASE job'[j].status # job[j].status
    <3>1. j = report.job
      BY <1>0, <2>0, <2>2, CommittedColumns
    <3>2. report \in recorded
      BY <3>1 DEF IInv, RelayedMeansTold, Committed
    <3>3. /\ job'[j].status = StatusAfter(report, job[j].status)
          /\ StatusAfter(report, "none") = job'[j].status
      BY <1>0, <2>2, <3>1, CommittedColumns DEF StatusAfter
    <3> QED
      BY <3>1, <3>2, <3>3 DEF Told
  <2> QED
    BY <2>1, <2>2
<1> QED
  BY <1>2, <1>3, <1>4, <1>5, <1>6 DEF IInv

LEMMA NextInductive == IInv /\ [Next]_vars => IInv'
<1>1. IInv /\ [Next]_vars => TypeOK' /\ Effect
  BY NextType, NextEffect DEF IInv
<1> QED
  BY <1>1, QuietInductive, DeliveredInductive, CheckedInductive,
     RelayedInductive, CommittedInductive DEF Effect

LEMMA InitInductive == Init => IInv
<1> SUFFICES ASSUME Init PROVE IInv
  OBVIOUS
<1>1. TypeOK
  BY InitType
<1>2. HandedOut /\ EndedMeansReported
  BY <1>1 DEF Init, HandedOut, EndedMeansReported, TypeOK, Ended
<1>3. /\ CheckedMeansHandedOut
      /\ RelayedMeansTold
      /\ RecordedMeansHandedOut
  BY DEF Init, CheckedMeansHandedOut, RelayedMeansTold,
         RecordedMeansHandedOut, Free
<1> QED
  BY <1>1, <1>2, <1>3 DEF IInv

(***************************************************************************)
(* A job of an open run is over only with an outcome the run has been      *)
(* told: the relay of post_edge_job_events is fail-closed.                 *)
(***************************************************************************)
THEOREM Reported == Spec => []EndedMeansReported
<1>1. IInv => EndedMeansReported
  BY DEF IInv
<1> QED
  BY <1>1, InitInductive, NextInductive, PTL DEF Spec

-----------------------------------------------------------------------------
(***************************************************************************)
(* While nothing has gone wrong the node has at most one report on its     *)
(* way, the one it waits for, and it is the report of the delivery that    *)
(* the job is under: so a report of a cancellation was asked for.          *)
(***************************************************************************)
NothingSpooled == spool = {} /\ node.files = {} /\ node.at # "replay"

OneReport ==
    \A h \in Handler :
        posted[h] # Free =>
            /\ node.at = "report" /\ posted[h].report = node.report
            /\ posted[h].client = "waiting"
            /\ \A g \in Handler \ {h} : posted[g] = Free

OwnDelivery ==
    /\ Executes(node.job) => job[node.job].generation = node.generation
    /\ node.at = "engine" => job[node.job].status = "CLAIMED"

OwnReport ==
    node.at = "report" =>
        /\ node.report.job = node.job
        /\ node.report.generation = node.generation
        /\ node.report.kind = "cancelled" => job[node.job].cancel = "requested"

AskedFor ==
    \A report \in recorded :
        report.kind = "cancelled" => job[report.job].cancel = "requested"

Calm ==
    /\ NothingSpooled
    /\ OneReport
    /\ OwnDelivery
    /\ OwnReport
    /\ AskedFor

\* The loop starts over, and no report is on its way.
LEMMA PollingIsCalm ==
    ASSUME AskedFor', spool' = {}, node' = Polling({}),
           \A h \in Handler : posted'[h] = Free
    PROVE  Calm'
<1>1. node'.at = "spool" /\ node'.files = {}
  BY DEF Polling
<1> QED
  BY <1>1
  DEF Calm, NothingSpooled, OneReport, OwnDelivery, OwnReport, Executes

\* The report of the running delivery is sent, with nothing else on its way.
LEMMA FinishIsCalm ==
    ASSUME TypeOK, Calm, NEW h \in Handler, NEW kind \in Kind,
           node.at = "engine", Finish(h, kind),
           kind = "cancelled" => job[node.job].cancel = "requested"
    PROVE  Calm'
<1> DEFINE report == [job |-> node.job, generation |-> node.generation,
                      kind |-> kind]
<1>1. node' = [node EXCEPT !.at = "report", !.report = report]
  BY DEF Finish
<1>2. /\ node'.at = "report" /\ node'.report = report
      /\ node'.job = node.job /\ node'.generation = node.generation
      /\ node'.files = node.files
  BY ONLY <1>1, TypeOK DEF TypeOK, Node
<1>3. UNCHANGED <<job, spool, recorded>>
  BY DEF Finish, jobVars, agentVars
<1>4. NothingSpooled'
  BY <1>2, <1>3 DEF Calm, NothingSpooled
<1>5. OneReport'
  <2>1. \A g \in Handler : posted[g] = Free
    BY DEF Calm, OneReport
  <2>2. posted' = [posted EXCEPT ![h] = [phase |-> "received",
                       report |-> report, client |-> "waiting"]]
    BY DEF Finish, Post
  <2>3. /\ posted'[h].report = report /\ posted'[h].client = "waiting"
        /\ \A g \in Handler \ {h} : posted'[g] = Free
    BY <2>1, <2>2 DEF TypeOK
  <2> QED
    BY <1>2, <2>3 DEF OneReport
<1>6. OwnDelivery'
  BY <1>2, <1>3 DEF Calm, OwnDelivery, Executes
<1>7. OwnReport'
  BY <1>2, <1>3 DEF OwnReport
<1>8. AskedFor'
  BY <1>3 DEF Calm, AskedFor
<1> QED
  BY <1>4, <1>5, <1>6, <1>7, <1>8 DEF Calm

\* The node's own steps.
LEMMA NodeIsCalm ==
    ASSUME TypeOK, Calm, NodeNext \/ EngineNext
    PROVE  Calm'
<1>1. ASSUME NEW h \in Handler, NEW report \in Report, ReplayFile(h, report)
      PROVE  FALSE
  BY <1>1 DEF ReplayFile, Calm, NothingSpooled
<1>2. CASE FlushDone
  <2>1. node'.at = "claim" /\ node'.files = node.files
    BY <1>2 DEF FlushDone, TypeOK, Node
  <2>2. \A h \in Handler : posted'[h] = Free
    BY <1>2 DEF FlushDone, Calm, OneReport
  <2> QED
    BY <1>2, <2>1, <2>2
    DEF FlushDone, Calm, NothingSpooled, OneReport, OwnDelivery, OwnReport,
        AskedFor, Executes, jobVars, agentVars
<1>3. ASSUME NEW j \in Job, Claim(j)
      PROVE  Calm'
  <2>1. job' = [job EXCEPT ![j].status = "CLAIMED", ![j].generation = @ + 1]
    BY <1>3 DEF Claim, Deliver
  <2>2. /\ job'[j].status = "CLAIMED"
        /\ job'[j].generation = job[j].generation + 1
        /\ \A i \in Job : job'[i].cancel = job[i].cancel
    BY <2>1 DEF TypeOK, Row
  <2>3. node' = [node EXCEPT !.at = "engine", !.job = j,
                             !.generation = job[j].generation + 1]
    BY <1>3 DEF Claim
  <2>4. /\ node'.at = "engine" /\ node'.job = j
        /\ node'.generation = job[j].generation + 1
        /\ node'.files = node.files
    BY ONLY <2>3, TypeOK DEF TypeOK, Node
  <2>5. UNCHANGED <<spool, posted, recorded>>
    BY <1>3 DEF Claim, Deliver, agentVars
  <2>6. \A h \in Handler : posted'[h] = Free
    BY <1>3, <2>5 DEF Claim, Deliver, Calm, OneReport
  <2>7. NothingSpooled' /\ OneReport' /\ OwnDelivery' /\ OwnReport'
    BY <2>2, <2>4, <2>5, <2>6
    DEF Calm, NothingSpooled, OneReport, OwnDelivery, OwnReport
  <2>8. AskedFor'
    BY <2>2, <2>5 DEF Calm, AskedFor, TypeOK, Report
  <2> QED
    BY <2>7, <2>8 DEF Calm
<1>4. CASE NothingToClaim
  <2>1. \A h \in Handler : posted'[h] = Free
    BY <1>4 DEF NothingToClaim, Calm, OneReport
  <2> QED
    BY <1>4, <2>1, PollingIsCalm
    DEF NothingToClaim, Calm, NothingSpooled, AskedFor, jobVars, agentVars
<1>5. ASSUME NEW h \in Handler, EngineCancelled(h)
      PROVE  Calm'
  <2>1. /\ node.job \in Job /\ job[node.job].status = "CLAIMED"
        /\ job[node.job].generation = node.generation
    BY <1>5
    DEF EngineCancelled, Calm, OwnDelivery, Executes, TypeOK, NodeWorks
  <2>2. job[node.job].cancel = "requested"
    BY <1>5, <2>1 DEF EngineCancelled, MustStop
  <2> QED
    BY <1>5, <2>2, FinishIsCalm DEF EngineCancelled, Kind
<1>6. ASSUME NEW h \in Handler, EngineEnds(h)
      PROVE  Calm'
  BY <1>6, FinishIsCalm DEF EngineEnds, Kind
<1> QED
  BY <1>1, <1>2, <1>3, <1>4, <1>5, <1>6 DEF NodeNext, EngineNext

\* The only report there is moves on.
LEMMA AdvancesCalmly ==
    ASSUME TypeOK, Calm, NEW h \in Handler, posted[h] # Free,
           NEW phase \in {"checked", "relayed"},
           posted' = [posted EXCEPT ![h].phase = phase],
           UNCHANGED nodeVars
    PROVE  OneReport'
<1>1. /\ posted'[h].report = posted[h].report
      /\ posted'[h].client = posted[h].client
      /\ \A g \in Handler \ {h} : posted'[g] = posted[g]
  BY DEF TypeOK, Posted, Free
<1> QED
  BY <1>1 DEF Calm, OneReport, nodeVars

\* Its answer is ok, and so nothing goes to the spool.
LEMMA AnsweredCalmly ==
    ASSUME Calm, TypeOK, AskedFor', NEW h \in Handler, posted[h] # Free,
           Answer(h, "ok")
    PROVE  Calm'
<1>1. /\ node.at = "report" /\ posted[h].client = "waiting"
      /\ \A g \in Handler \ {h} : posted[g] = Free
  BY DEF Calm, OneReport
<1>2. SpoolAfter("ok") = {}
  BY <1>1 DEF SpoolAfter, Calm, NothingSpooled
<1>3. spool' = {} /\ node' = Polling({})
  BY <1>1, <1>2 DEF Answer, TakeAnswer
<1>4. \A g \in Handler : posted'[g] = Free
  BY <1>1 DEF Answer, TypeOK
<1> QED
  BY <1>3, <1>4, PollingIsCalm

\* The steps of the backend and the agent with the report.
LEMMA HandlerIsCalm ==
    ASSUME TypeOK, Calm, NEW h \in Handler, HandlerNext(h)
    PROVE  Calm'
<1> DEFINE report == posted[h].report
<1>0. posted[h].phase # "free" /\ posted[h] # Free
  BY DEF HandlerNext, CheckReport, Relay, CommitReport, Free
<1>1. /\ node.at = "report" /\ report = node.report
      /\ node.report.job = node.job /\ node.job \in Job
      /\ node.report.generation = node.generation
      /\ job[node.job].generation = node.generation
      /\ report.kind = "cancelled" => job[report.job].cancel = "requested"
  BY <1>0
  DEF Calm, OneReport, OwnReport, OwnDelivery, Executes, TypeOK, NodeWorks
<1>2. CASE CheckReport(h)
  <2>1. /\ posted' = [posted EXCEPT ![h].phase = "checked"]
        /\ UNCHANGED <<jobVars, nodeVars, agentVars>>
    BY <1>1, <1>2 DEF CheckReport
  <2>2. OneReport'
    BY <1>0, <2>1, AdvancesCalmly
  <2> QED
    BY <2>1, <2>2
    DEF Calm, NothingSpooled, OwnDelivery, OwnReport, AskedFor, Executes,
        jobVars, nodeVars, agentVars
<1>3. CASE Relay(h)
  <2>1. /\ posted' = [posted EXCEPT ![h].phase = "relayed"]
        /\ UNCHANGED <<jobVars, nodeVars>>
    BY <1>3 DEF Relay
  <2>2. OneReport'
    BY <1>0, <2>1, AdvancesCalmly
  <2>3. recorded' \subseteq recorded \cup {report}
    BY <1>3 DEF Relay, Ingest, agentVars
  <2>4. AskedFor'
    BY <1>1, <2>1, <2>3 DEF Calm, AskedFor, jobVars
  <2> QED
    BY <2>1, <2>2, <2>4
    DEF Calm, NothingSpooled, OwnDelivery, OwnReport, Executes,
        jobVars, nodeVars
<1>4. CASE CommitReport(h)
  <2>1. job' = [job EXCEPT ![report.job].status =
                    StatusAfter(report, job[report.job].status)]
    BY <1>4 DEF CommitReport
  <2>2. \A j \in Job : job'[j].cancel = job[j].cancel
    BY <2>1 DEF TypeOK, Row
  <2>3. AskedFor'
    BY <1>4, <2>2 DEF CommitReport, Calm, AskedFor, TypeOK, Report, agentVars
  <2> QED
    BY <1>0, <1>4, <2>3, AnsweredCalmly DEF CommitReport
<1> QED
  BY <1>2, <1>3, <1>4 DEF HandlerNext

\* The clock, the cancellations and the ends of runs; the rest is a fault.
LEMMA OthersAreCalm ==
    ASSUME TypeOK, Calm, faults' = 0,
           Environment \/ \E j \in Job : LeaseLapses(j)
    PROVE  Calm'
<1>1. ~Fault
  BY DEF Fault, TypeOK
<1>2. ASSUME NEW j \in Job, LeaseLapses(j) \/ Renew(j) \/ RunEnds(j)
      PROVE  Calm'
  <2>1. UNCHANGED <<job, node, spool, posted, recorded>>
    BY <1>2 DEF LeaseLapses, Renew, RunEnds, jobVars, nodeVars, agentVars
  <2> QED
    BY <2>1
    DEF Calm, NothingSpooled, OneReport, OwnDelivery, OwnReport, AskedFor,
        Executes
<1>3. ASSUME NEW j \in Job, RequestCancel(j)
      PROVE  Calm'
  <2>1. UNCHANGED <<node, spool, posted, recorded>>
    BY <1>3 DEF RequestCancel, nodeVars, agentVars
  <2>2. \A i \in Job : /\ job'[i].status = job[i].status
                       /\ job'[i].generation = job[i].generation
                       /\ \/ job'[i].cancel = job[i].cancel
                          \/ job'[i].cancel = "requested"
    BY <1>3 DEF RequestCancel, TypeOK, Row
  <2>3. AskedFor'
    BY <2>1, <2>2 DEF Calm, AskedFor, TypeOK, Report
  <2>4. OwnDelivery' /\ OwnReport'
    BY <2>1, <2>2
    DEF Calm, OwnDelivery, OwnReport, Executes, TypeOK, NodeWorks
  <2> QED
    BY <2>1, <2>3, <2>4 DEF Calm, NothingSpooled, OneReport
<1> QED
  BY <1>1, <1>2, <1>3
  DEF Environment, ClaimWithoutJob, RenewalsFail, RelayFails,
      ConnectionBreaks, ShutDown, Crash

\* Nothing takes a fault back.
LEMMA NextFaults == TypeOK /\ [Next]_vars => faults' >= faults
<1> SUFFICES ASSUME TypeOK, [Next]_vars
             PROVE  faults' = faults \/ Fault
  BY DEF Fault, TypeOK
<1>1. CASE NodeNext \/ EngineNext
  BY <1>1
  DEF NodeNext, EngineNext, ReplayFile, FlushDone, Claim, NothingToClaim,
      EngineCancelled, EngineEnds, Finish
<1>2. ASSUME NEW h \in Handler, HandlerNext(h)
      PROVE  faults' = faults
  BY <1>2 DEF HandlerNext, CheckReport, Relay, CommitReport
<1>3. CASE Environment \/ \E j \in Job : LeaseLapses(j)
  BY <1>3
  DEF Environment, LeaseLapses, ClaimWithoutJob, RenewalsFail, Renew,
      RequestCancel, RunEnds, RelayFails, ConnectionBreaks, ShutDown, Crash
<1>4. CASE UNCHANGED vars
  BY <1>4 DEF vars
<1> QED
  BY <1>1, <1>2, <1>3, <1>4 DEF Next

CalmUntilFault == faults = 0 => Calm

LEMMA NextIsCalm == TypeOK /\ CalmUntilFault /\ [Next]_vars => CalmUntilFault'
<1> SUFFICES ASSUME TypeOK, CalmUntilFault, [Next]_vars, faults' = 0
             PROVE  Calm'
  BY DEF CalmUntilFault
<1>1. faults = 0
  <2>1. faults' >= faults
    BY NextFaults
  <2> QED
    BY <2>1 DEF TypeOK
<1>2. Calm
  BY <1>1 DEF CalmUntilFault
<1>3. CASE UNCHANGED vars
  BY <1>2, <1>3
  DEF Calm, NothingSpooled, OneReport, OwnDelivery, OwnReport, AskedFor,
      Executes, vars, jobVars, nodeVars, agentVars
<1> QED
  BY <1>2, <1>3, NodeIsCalm, HandlerIsCalm, OthersAreCalm DEF Next

LEMMA InitIsCalm == Init => Calm
  BY DEF Init, Calm, NothingSpooled, OneReport, OwnDelivery, OwnReport,
         AskedFor, Executes, Polling

(***************************************************************************)
(* Whatever the number of jobs and requests: unless something has gone     *)
(* wrong, a run is told of a cancelled job only when that was asked for.   *)
(***************************************************************************)
THEOREM CancelledWasAsked == Spec => []CancelledMeansAsked
<1>1. TypeOK /\ CalmUntilFault => CancelledMeansAsked
  BY DEF CalmUntilFault, CancelledMeansAsked, Calm, AskedFor, TypeOK
<1>2. Init => TypeOK /\ CalmUntilFault
  BY InitType, InitIsCalm DEF CalmUntilFault
<1> QED
  BY <1>1, <1>2, NextType, NextIsCalm, PTL DEF Spec

-----------------------------------------------------------------------------
(***************************************************************************)
(* The refinement.  Every effect is an action of JobDelivery or none.      *)
(***************************************************************************)
LEMMA QuietRefines ==
    ASSUME IInv, Quiet
    PROVE  Delivery!Next \/ UNCHANGED Delivery!vars
<1>1. /\ \A j \in Job : State(j)' = State(j)
      /\ \A j \in Job : job'[j].generation = job[j].generation
      /\ \A j \in Job : Told(j)' = Told(j)
  BY DEF Quiet, SameColumns, State, Told
<1>2. CASE open' = open
  BY <1>1, <1>2 DEF Delivery!vars
<1>3. ASSUME NEW j \in Job, open' = open \ {j}
      PROVE  Delivery!EndRun(j)
  BY <1>1, <1>3 DEF Delivery!EndRun
<1> QED
  BY <1>2, <1>3 DEF Quiet, Delivery!Next

LEMMA DeliveredRefines ==
    ASSUME IInv, NEW j \in Job, Delivered(j)
    PROVE  Delivery!Deliver(j)
<1>0. TypeOK
  BY DEF IInv
<1>1. State(j) \in {"waiting", "delivered"} /\ State(j)' = "delivered"
  BY <1>0, DeliveredColumns DEF Delivered, State
<1>2. [i \in Job |-> State(i)]' =
          [[i \in Job |-> State(i)] EXCEPT ![j] = "delivered"]
  BY <1>0, <1>1, DeliveredColumns DEF State
<1>3. [i \in Job |-> job[i].generation]' =
          [[i \in Job |-> job[i].generation] EXCEPT ![j] = @ + 1]
  BY <1>0, DeliveredColumns
<1>4. [i \in Job |-> Told(i)]' = [i \in Job |-> Told(i)]
  BY DEF Delivered, Told
<1> QED
  BY <1>1, <1>2, <1>3, <1>4 DEF Delivered, Delivery!Deliver

\* The report of a cancellation tells the run of no outcome.
LEMMA RelayedRefines ==
    ASSUME IInv, NEW h \in Handler, Relayed(h)
    PROVE  Delivery!Next \/ UNCHANGED Delivery!vars
<1> PICK report \in Report : report = posted[h].report
  BY DEF Relayed
<1> DEFINE j == report.job
           o == StatusAfter(report, "none")
<1>0. TypeOK /\ UNCHANGED job
  BY DEF IInv, Relayed
<1>1. /\ report \in Report
      /\ recorded' \in {recorded, recorded \cup {report}}
      /\ open' \in {open, open \ {j}}
  BY <1>0, IngestEffect DEF Relayed
<1>2. j \in Job /\ job[j].generation > 0
  BY <1>1 DEF IInv, CheckedMeansHandedOut, Relayed, Report
<1>3. /\ [i \in Job |-> State(i)]' = [i \in Job |-> State(i)]
      /\ [i \in Job |-> job[i].generation]' =
             [i \in Job |-> job[i].generation]
  BY <1>0 DEF State
<1>4. (Job \ open)' \in {Job \ open, (Job \ open) \cup {j}}
  BY <1>1, <1>2
<1>5. ASSUME \A i \in Job : Told(i)' = Told(i)
      PROVE  Delivery!EndRun(j) \/ UNCHANGED Delivery!vars
  BY <1>3, <1>4, <1>5 DEF Delivery!EndRun, Delivery!vars
<1>6. ASSUME o \in Ended, recorded' = recorded \cup {report}
      PROVE  Delivery!Tell(j, o)
  <2>1. \A i \in Job \ {j} : Told(i)' = Told(i)
    BY <1>6 DEF Told
  <2>2. \A x \in Ended : x \in Told(j)' <=> x \in Told(j) \/ x = o
    BY <1>6 DEF Told
  <2>3. Told(j)' = Told(j) \cup {o}
    <3>1. Told(j)' \subseteq Ended /\ Told(j) \subseteq Ended
      BY DEF Told
    <3> QED
      BY <1>6, <2>2, <3>1
  <2>4. \A i \in Job : Told(i)' = IF i = j THEN Told(i) \cup {o} ELSE Told(i)
    BY <2>1, <2>3
  <2>5. [i \in Job |-> Told(i)]' =
            [[i \in Job |-> Told(i)] EXCEPT ![j] = @ \cup {o}]
    BY <1>2, <2>4
  <2> QED
    BY <1>2, <1>3, <1>4, <2>5 DEF Delivery!Tell
<1>7. CASE recorded' = recorded \/ o \notin Ended
  <2>1. \A i \in Job : Told(i)' = Told(i)
    BY <1>1, <1>7 DEF Told
  <2> QED
    BY <1>2, <1>5, <2>1 DEF Delivery!Next
<1> QED
  BY <1>1, <1>2, <1>6, <1>7 DEF Delivery!Next, Delivery!Outcome, Ended

\* What is committed was told, or the run has ended.
LEMMA CommittedRefines ==
    ASSUME IInv, NEW h \in Handler, Committed(h)
    PROVE  Delivery!Next \/ UNCHANGED Delivery!vars
<1> PICK report \in Report : report = posted[h].report
  BY DEF Committed
<1> DEFINE j == report.job
           o == StatusAfter(report, "none")
<1>0. TypeOK /\ UNCHANGED <<recorded, open>>
  BY DEF IInv, Committed
<1>1. /\ report \in Report
      /\ job'[j].status = StatusAfter(report, job[j].status)
      /\ \A i \in Job \ {j} : job'[i] = job[i]
      /\ \A i \in Job : job'[i].generation = job[i].generation
  BY <1>0, CommittedColumns
<1>2. j \in Job /\ State(j) # "waiting"
  BY <1>0, <1>1
  DEF IInv, HandedOut, CheckedMeansHandedOut, Committed, Report, State,
      TypeOK, Row, JobStatus
<1>3. /\ [i \in Job |-> job[i].generation]' =
             [i \in Job |-> job[i].generation]
      /\ [i \in Job |-> Told(i)]' = [i \in Job |-> Told(i)]
      /\ (Job \ open)' = Job \ open
  BY <1>0, <1>1 DEF Told
<1>4. CASE o \in Ended
  <2>0. job'[j].status = o
    BY <1>1, <1>4 DEF StatusAfter, Ended
  <2>1. State(j)' = o /\ o \in Delivery!Outcome
    BY <1>4, <2>0 DEF State, Ended, Delivery!Outcome
  <2>2. [i \in Job |-> State(i)]' =
            [[i \in Job |-> State(i)] EXCEPT ![j] = o]
    <3>1. \A i \in Job : State(i)' = IF i = j THEN o ELSE State(i)
      BY <1>1, <2>1 DEF State
    <3> QED
      BY <1>2, <3>1
  <2>3. o \in Told(j) \/ j \in Job \ open
    <3>1. j \in open => report \in recorded
      BY DEF IInv, RelayedMeansTold, Committed
    <3> QED
      BY <1>2, <1>4, <3>1 DEF Told
  <2>4. Delivery!Settle(j, o)
    BY <1>2, <1>3, <2>2, <2>3 DEF Delivery!Settle
  <2> QED
    BY <1>2, <2>1, <2>4 DEF Delivery!Next
<1>5. CASE o \notin Ended
  <2>1. job'[j].status = job[j].status
    BY <1>1, <1>5 DEF StatusAfter, Ended
  <2>2. [i \in Job |-> State(i)]' = [i \in Job |-> State(i)]
    BY <1>1, <2>1 DEF State
  <2> QED
    BY <1>3, <2>2 DEF Delivery!vars
<1> QED
  BY <1>4, <1>5

LEMMA CheckedRefines ==
    ASSUME NEW h \in Handler, Checked(h)
    PROVE  UNCHANGED Delivery!vars
  BY DEF Checked, State, Told, Delivery!vars

LEMMA NextRefines ==
    IInv /\ [Next]_vars => Delivery!Next \/ UNCHANGED Delivery!vars
<1>1. IInv /\ [Next]_vars => Effect
  BY NextEffect DEF IInv
<1>2. ASSUME IInv, NEW j \in Job, Delivered(j)
      PROVE  Delivery!Next
  BY <1>2, DeliveredRefines DEF Delivery!Next
<1> QED
  BY <1>1, <1>2, QuietRefines, RelayedRefines, CommittedRefines,
     CheckedRefines DEF Effect

LEMMA InitRefines == Init => Delivery!Init
<1> SUFFICES ASSUME Init PROVE Delivery!Init
  OBVIOUS
<1>1. \A j \in Job : State(j) = "waiting" /\ Told(j) = {}
  BY DEF Init, State, Told
<1> QED
  BY <1>1 DEF Init, Delivery!Init

(***************************************************************************)
(* However jobs, requests and faults interleave, what the backend and the  *)
(* agent hold of an edge job behaves as JobDelivery says: it is handed out *)
(* until it is settled, under rising numbers, and settled as reported.     *)
(***************************************************************************)
THEOREM Implements == Spec => ImplementsDelivery
<1>1. IInv /\ [Next]_vars => [Delivery!Next]_(Delivery!vars)
  BY NextRefines
<1> QED
  BY <1>1, InitInductive, NextInductive, InitRefines, PTL
  DEF Spec, ImplementsDelivery, Delivery!Spec

=============================================================================
