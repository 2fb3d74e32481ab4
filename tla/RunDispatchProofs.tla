------------------------- MODULE RunDispatchProofs -------------------------
(***************************************************************************)
(* Type correctness of RunDispatch, and what its rows and tasks promise,   *)
(* for any number of runs, dispatchers, projectors, overlapping requests   *)
(* and faults.                                                             *)
(***************************************************************************)
EXTENDS RunDispatch, TLAPS

\* A row stays well typed when its columns are written.
LEMMA RowType ==
    ASSUME NEW row \in Row, NEW st \in RunDispatchStatus, NEW n \in Nat
    PROVE  /\ [row EXCEPT !.status = st] \in Row
           /\ [row EXCEPT !.lease = "expired"] \in Row
           /\ [row EXCEPT !.status = st, !.retries = n] \in Row
  BY DEF Row

LEMMA ClaimedRowType ==
    ASSUME NEW row \in Row, NEW d \in Dispatcher
    PROVE  /\ row.generation + 1 \in Nat
           /\ [row EXCEPT !.status = "DELIVERING", !.dispatcher = d,
                          !.lease = "held", !.generation = @ + 1] \in Row
<1>1. row.generation + 1 \in Nat
  BY DEF Row
<1>2. ASSUME NEW n \in Nat
      PROVE  [row EXCEPT !.status = "DELIVERING", !.dispatcher = d,
                         !.lease = "held", !.generation = n] \in Row
  BY DEF Row, RunDispatchStatus
<1> QED
  BY <1>1, <1>2

\* What a dispatcher holds is well typed when it is done with a row.
LEMMA DoneType ==
    ASSUME TypeOK, NEW d \in Dispatcher, Done(d)
    PROVE  /\ claimed' \in [Dispatcher -> [Run -> Nat]]
           /\ sending' \in [Dispatcher -> [run : Run \cup {NoRun}, row : Row]]
           /\ answer' \in
                  [Dispatcher -> {"none", "awaited", "created", "refused"}]
           /\ \A e \in Dispatcher :
                  answer'[e] # "none" => sending'[e].run \in Run
<1>1. NotSending \in [run : Run \cup {NoRun}, row : Row]
  BY DEF NotSending, NewRow, Row, RunDispatchStatus
<1> QED
  BY <1>1 DEF TypeOK, Done

\* What _record_failure leaves of the row and the task is well typed.
LEMMA RecordFailureType ==
    ASSUME TypeOK, NEW d \in Dispatcher, answer[d] # "none",
           NEW permanent \in BOOLEAN, RecordFailure(d, permanent)
    PROVE  outbox' \in [Run -> Row] /\ task' \in [Run -> TaskStatus]
<1> DEFINE r == sending[d].run
           n == sending[d].row.retries + 1
           dead == permanent \/ Exhausted(n)
           st == IF dead THEN "DEAD_LETTER" ELSE "PENDING"
<1>1. r \in Run /\ n \in Nat /\ outbox[r] \in Row
  BY DEF TypeOK, Row
<1>2. FailTask(sending[d].row, r) \in [Run -> TaskStatus]
  BY <1>1 DEF TypeOK, FailTask, TaskStatus
<1>3. CASE Expired(d)
  BY <1>3 DEF RecordFailure, TypeOK, rows
<1>4. CASE ~Expired(d)
  <2>1. [outbox[r] EXCEPT !.status = st, !.lease = "none", !.retries = n]
            \in Row
    BY <1>1 DEF Row, RunDispatchStatus
  <2>2. outbox' = [outbox EXCEPT ![r] =
            [outbox[r] EXCEPT !.status = st, !.lease = "none", !.retries = n]]
    BY <1>1, <1>4 DEF RecordFailure, TypeOK, Row
  <2>3. task' = FailTask(sending[d].row, r) \/ task' = task
    BY <1>4 DEF RecordFailure
  <2> QED
    BY <2>1, <2>2, <2>3, <1>2 DEF TypeOK
<1> QED
  BY <1>3, <1>4

\* A column keeps its type.
LEMMA ColumnType ==
    ASSUME NEW S, NEW stored \in S, NEW new \in S, NEW read
    PROVE  Column(stored, read, new) \in S
  BY DEF Column

LEMMA NextType == TypeOK /\ [Next]_vars => TypeOK'
<1> SUFFICES ASSUME TypeOK, [Next]_vars PROVE TypeOK'
  OBVIOUS
<1> USE DispatchAssumption
<1> USE DEF rows, agent, dispatcherVars, requestVars
<1>d. ASSUME NEW d \in Dispatcher,
             \/ DispatcherStep(d) \/ AgentAnswers(d)
             \/ TimesOut(d) \/ Crash(d)
      PROVE  TypeOK'
  <2>1. CASE ClaimPending(d)
    <3> PICK S \in SUBSET {r \in Run : Claimable(r)} :
            /\ outbox' = [r \in Run |->
                   IF r \notin S THEN outbox[r]
                   ELSE [outbox[r] EXCEPT !.status = "DELIVERING",
                                          !.dispatcher = d, !.lease = "held",
                                          !.generation = @ + 1]]
            /\ claimed' = [claimed EXCEPT ![d] = [r \in Run |->
                   IF r \in S THEN outbox[r].generation + 1 ELSE 0]]
      BY <2>1 DEF ClaimPending
    <3>1. outbox' \in [Run -> Row]
      <4>1. ASSUME NEW r \in Run
            PROVE  [outbox[r] EXCEPT !.status = "DELIVERING",
                                     !.dispatcher = d, !.lease = "held",
                                     !.generation = @ + 1] \in Row
        BY ClaimedRowType DEF TypeOK
      <4> QED
        BY <4>1 DEF TypeOK
    <3>2. claimed' \in [Dispatcher -> [Run -> Nat]]
      <4>1. [r \in Run |-> IF r \in S THEN outbox[r].generation + 1 ELSE 0]
                \in [Run -> Nat]
        BY ClaimedRowType DEF TypeOK
      <4> QED
        BY <4>1, <2>1 DEF TypeOK, ClaimPending
    <3> QED
      BY <2>1, <3>1, <3>2 DEF ClaimPending, TypeOK
  <2>2. ASSUME NEW r \in Run, Post(d, r) PROVE TypeOK'
    BY <2>2 DEF Post, TypeOK
  <2>3. ASSUME NEW r \in Run, Skip(d, r) PROVE TypeOK'
    BY <2>3 DEF Skip, TypeOK
  <2>4. CASE Delivered(d)
    <3>1. sending[d].run \in Run /\ outbox[sending[d].run] \in Row
      BY <2>4 DEF Delivered, Success, TypeOK
    <3>2. outbox' \in [Run -> Row]
      BY <2>4, <3>1 DEF Delivered, TypeOK, Row, RunDispatchStatus
    <3> QED
      BY <2>4, <3>2, DoneType DEF Delivered, TypeOK
  <2>5. CASE Refused(d)
    BY <2>5, RecordFailureType, DoneType DEF Refused, TypeOK
  <2>6. CASE AgentServes(d)
    BY <2>6 DEF AgentServes, Create, TypeOK, AgentStatus
  <2>7. CASE AgentRefuses(d)
    BY <2>7 DEF AgentRefuses, TypeOK
  <2>8. CASE TimesOut(d)
    <3>1. late' \subseteq Run /\ faults' \in 0 .. MaxFaults
      BY <2>8 DEF TimesOut, Abandon, Fault, TypeOK
    <3>2. outbox' \in [Run -> Row] /\ task' \in [Run -> TaskStatus]
      BY <2>8, RecordFailureType DEF TimesOut
    <3> QED
      BY <2>8, <3>1, <3>2, DoneType DEF TimesOut, TypeOK
  <2>9. CASE Crash(d)
    BY <2>9
    DEF Crash, Fault, Abandon, NotSending, NewRow, TypeOK, Row,
        RunDispatchStatus
  <2> QED
    BY <1>d, <2>1, <2>2, <2>3, <2>4, <2>5, <2>6, <2>7, <2>8, <2>9
    DEF DispatcherStep, AgentAnswers
<1>r. ASSUME NEW r \in Run,
             \/ LeaseExpires(r) \/ Stall(r)
             \/ AgentServesLate(r) \/ AgentEnds(r)
      PROVE  TypeOK'
  <2>0. [outbox EXCEPT ![r].lease = "expired"] \in [Run -> Row]
    <3>1. outbox[r] \in Row /\ "PENDING" \in RunDispatchStatus /\ 0 \in Nat
      BY DEF TypeOK, RunDispatchStatus
    <3>2. [outbox[r] EXCEPT !.lease = "expired"] \in Row
      BY <3>1, RowType
    <3> QED
      BY <3>2 DEF TypeOK
  <2>1. CASE LeaseExpires(r)
    BY <2>0, <2>1 DEF LeaseExpires, TypeOK
  <2>2. CASE Stall(r)
    BY <2>0, <2>2 DEF Stall, Fault, TypeOK
  <2>3. CASE AgentServesLate(r)
    <3>1. agentRun' \in [Run -> AgentStatus]
      BY <2>3 DEF AgentServesLate, Create, TypeOK, AgentStatus
    <3>2. late' \subseteq Run
      BY <2>3 DEF AgentServesLate, TypeOK
    <3> QED
      BY <2>3, <3>1, <3>2 DEF AgentServesLate, TypeOK
  <2>4. CASE AgentEnds(r)
    BY <2>4 DEF AgentEnds, TypeOK, AgentStatus
  <2> QED
    BY <1>r, <2>1, <2>2, <2>3, <2>4
<1>p. ASSUME NEW p \in Projector,
             Project(p) \/ \E r \in Run : Look(p, r)
      PROVE  TypeOK'
  <2>1. CASE Project(p)
    <3> DEFINE r == looked[p].run
               told == looked[p].agent
    <3>1. r \in Run /\ told \in AgentStatus
      BY <2>1 DEF Project, TypeOK
    <3>2. told # "none" => Projected(told) \in TaskStatus
      BY <3>1 DEF Projected, AgentStatus, TaskStatus
    <3>3. task' \in [Run -> TaskStatus]
      BY <2>1, <3>1, <3>2 DEF Project, Column, TypeOK, TaskStatus
    <3>4. NotLooking \in [run : Run \cup {NoRun}, task : TaskStatus,
                          agent : AgentStatus]
      BY DEF NotLooking, TaskStatus, AgentStatus
    <3> QED
      BY <2>1, <3>3, <3>4 DEF Project, TypeOK
  <2>2. ASSUME NEW r \in Run, Look(p, r) PROVE TypeOK'
    BY <2>2 DEF Look, TypeOK
  <2> QED
    BY <1>p, <2>1, <2>2
<1>q. ASSUME NEW q \in Request,
             \/ RequestStep(q)
             \/ \E kind \in Kinds, r \in Run : Read(q, kind, r)
      PROVE  TypeOK'
  <2> DEFINE Held == [kind : Kinds \cup {"none"}, run : Run \cup {NoRun},
                      status : RunDispatchStatus, task : TaskStatus]
  <2>0. NoRequest \in Held /\ NoRequest.kind = "none"
    BY DEF NoRequest, RunDispatchStatus, TaskStatus
  <2>1. CASE RequestStep(q)
    <3>1. request[q].kind # "none" /\ request[q].run \in Run
      BY <2>1
      DEF RequestStep, CancelLocally, CancelAtAgent, Resume, TypeOK
    <3>2. ASSUME Answered(q)
          PROVE  /\ request' \in [Request -> Held]
                 /\ \A e \in Request :
                        request'[e].kind # "none" => request'[e].run \in Run
      BY <3>2, <2>0 DEF Answered, TypeOK
    <3>3. ASSUME CancelTask(q) PROVE task' \in [Run -> TaskStatus]
      BY <3>1, <3>3, ColumnType DEF CancelTask, TypeOK, TaskStatus
    <3>4. CASE CancelLocally(q)
      <4>1. ASSUME NEW read
            PROVE  [outbox EXCEPT ![request[q].run].status =
                        Column(@, read, "CANCELLED")] \in [Run -> Row]
        <5>1. outbox[request[q].run] \in Row
          BY <3>1 DEF TypeOK
        <5>2. outbox[request[q].run].status \in RunDispatchStatus
          BY <5>1 DEF Row
        <5>3. Column(outbox[request[q].run].status, read, "CANCELLED")
                  \in RunDispatchStatus
          BY <5>2 DEF Column, RunDispatchStatus
        <5> QED
          BY <3>1, <5>1, <5>3, RowType DEF TypeOK
      <4> QED
        BY <3>2, <3>3, <3>4, <4>1 DEF CancelLocally, Answered, TypeOK
    <3>5. CASE CancelAtAgent(q)
      <4>1. agentRun' \in [Run -> AgentStatus]
        BY <3>1, <3>5 DEF CancelAtAgent, TypeOK, AgentStatus
      <4>2. task' \in [Run -> TaskStatus]
        BY <3>3, <3>5 DEF CancelAtAgent, TypeOK
      <4> QED
        BY <3>2, <3>5, <4>1, <4>2 DEF CancelAtAgent, Answered, TypeOK
    <3>6. CASE Resume(q)
      <4>1. [outbox EXCEPT ![request[q].run].status = "PENDING",
                           ![request[q].run].retries = 0] \in [Run -> Row]
        BY <3>1, RowType DEF TypeOK, RunDispatchStatus
      <4> QED
        BY <3>2, <3>6, <4>1 DEF Resume, Answered, TypeOK
    <3> QED
      BY <2>1, <3>4, <3>5, <3>6 DEF RequestStep
  <2>2. ASSUME NEW kind \in Kinds, NEW r \in Run, Read(q, kind, r)
        PROVE  TypeOK'
    BY <2>2 DEF Read, TypeOK, Row
  <2> QED
    BY <1>q, <2>1, <2>2
<1>s. CASE UNCHANGED vars
  BY <1>s DEF vars, TypeOK
<1> QED
  BY <1>d, <1>r, <1>p, <1>q, <1>s DEF Next

(***************************************************************************)
(* The rows, the tasks and what the actors hold are well typed in every    *)
(* reachable state.                                                        *)
(***************************************************************************)
THEOREM TypeCorrect == Spec => []TypeOK
<1>1. Init => TypeOK
  BY DispatchAssumption
  DEF Init, TypeOK, Row, NewRow, RunDispatchStatus, TaskStatus, AgentStatus,
      NotSending, NotLooking, NoRequest
<1> QED
  BY <1>1, NextType, PTL DEF Spec

-----------------------------------------------------------------------------
(***************************************************************************)
(* Neither property is inductive: whoever writes a row or a task has read  *)
(* or heard something before, and what he holds must still be true.  It is *)
(* because the agent never forgets a run, and a row never changes its tool.*)
(***************************************************************************)
Held ==
    /\ \A d \in Dispatcher :
           answer[d] = "created" => agentRun[sending[d].run] # "none"
    /\ \A d \in Dispatcher :
           answer[d] # "none" =>
               sending[d].row.tool = outbox[sending[d].run].tool
    /\ \A p \in Projector :
           looked[p].agent # "none" => agentRun[looked[p].run] # "none"

IInv == TypeOK /\ Held /\ DeliveredMeansCreated /\ DeadLetterEndsTask

\* The agent never forgets a run, whatever happens.
LEMMA AgentRemembers ==
    ASSUME TypeOK, [Next]_vars, NEW r \in Run, agentRun[r] # "none"
    PROVE  agentRun'[r] # "none"
<1> USE DEF TypeOK, agent, Create
<1>d. ASSUME NEW d \in Dispatcher,
             \/ DispatcherStep(d) \/ AgentAnswers(d)
             \/ TimesOut(d) \/ Crash(d)
      PROVE  agentRun'[r] # "none"
  BY <1>d
  DEF DispatcherStep, AgentAnswers, ClaimPending, Post, Skip, Delivered,
      Refused, TimesOut, Crash, AgentServes, AgentRefuses
<1>r. ASSUME NEW s \in Run,
             \/ LeaseExpires(s) \/ Stall(s)
             \/ AgentServesLate(s) \/ AgentEnds(s)
      PROVE  agentRun'[r] # "none"
  BY <1>r DEF LeaseExpires, Stall, AgentServesLate, AgentEnds
<1>p. ASSUME NEW p \in Projector,
             Project(p) \/ \E s \in Run : Look(p, s)
      PROVE  agentRun'[r] # "none"
  BY <1>p DEF Project, Look
<1>q. ASSUME NEW q \in Request,
             \/ RequestStep(q)
             \/ \E kind \in Kinds, s \in Run : Read(q, kind, s)
      PROVE  agentRun'[r] # "none"
  BY <1>q DEF RequestStep, CancelLocally, CancelAtAgent, Resume, Read
<1> QED
  BY <1>d, <1>r, <1>p, <1>q DEF Next, vars

\* What a claim and the clock do to a row.
LEMMA ClaimWrites ==
    ASSUME TypeOK, NEW d \in Dispatcher, ClaimPending(d), NEW r \in Run
    PROVE  \/ outbox'[r] = outbox[r]
           \/ /\ outbox'[r].status = "DELIVERING"
              /\ outbox'[r].tool = outbox[r].tool
<1>1. \/ outbox'[r] = outbox[r]
      \/ outbox'[r] = [outbox[r] EXCEPT !.status = "DELIVERING",
                                        !.dispatcher = d, !.lease = "held",
                                        !.generation = @ + 1]
  BY DEF ClaimPending
<1>2. outbox[r] \in Row
  BY DEF TypeOK
<1> QED
  BY <1>1, <1>2 DEF Row

LEMMA ExpiryWrites ==
    ASSUME TypeOK, NEW r \in Run, NEW s \in Run,
           \/ LeaseExpires(s) \/ Stall(s)
           \/ AgentServesLate(s) \/ AgentEnds(s)
    PROVE  /\ outbox'[r].status = outbox[r].status
           /\ outbox'[r].tool = outbox[r].tool
<1>1. outbox' = outbox \/ outbox' = [outbox EXCEPT ![s].lease = "expired"]
  BY DEF LeaseExpires, Stall, AgentServesLate, AgentEnds, rows
<1>2. \/ outbox'[r] = outbox[r]
      \/ outbox'[r] = [outbox[r] EXCEPT !.lease = "expired"]
  BY <1>1 DEF TypeOK
<1>3. outbox[r] \in Row
  BY DEF TypeOK
<1> QED
  BY <1>2, <1>3 DEF Row

\* An update of other columns leaves a row's tool.
LEMMA ToolColumn ==
    ASSUME NEW table \in [Run -> Row], NEW s, NEW r \in Run,
           NEW a, NEW b, NEW c
    PROVE  /\ [table EXCEPT ![s].status = a, ![s].lease = b][r].tool
                  = table[r].tool
           /\ [table EXCEPT ![s].status = a, ![s].lease = b,
                            ![s].retries = c][r].tool = table[r].tool
<1>1. table[r] \in Row
  OBVIOUS
<1>2. CASE s # r
  BY <1>2
<1>3. CASE s = r
  <2>1. /\ [table EXCEPT ![r].status = a, ![r].lease = b][r]
               = [table[r] EXCEPT !.status = a, !.lease = b]
        /\ [table EXCEPT ![r].status = a, ![r].lease = b,
                         ![r].retries = c][r]
               = [table[r] EXCEPT !.status = a, !.lease = b, !.retries = c]
    OBVIOUS
  <2> QED BY <1>1, <1>3, <2>1 DEF Row
<1> QED BY <1>2, <1>3

LEMMA DeliveryWrites ==
    ASSUME TypeOK, NEW d \in Dispatcher, Delivered(d), NEW r \in Run
    PROVE  outbox'[r].tool = outbox[r].tool
<1>1. outbox \in [Run -> Row]
  BY DEF TypeOK
<1>2. CASE Expired(d)
  BY <1>2 DEF Delivered
<1>3. CASE ~Expired(d)
  <2>1. outbox' = [outbox EXCEPT ![sending[d].run].status = "DELIVERED",
                                 ![sending[d].run].lease = "none"]
    BY <1>3 DEF Delivered
  <2> QED BY <1>1, <2>1, ToolColumn
<1> QED BY <1>2, <1>3

LEMMA FailureWrites ==
    ASSUME TypeOK, NEW d \in Dispatcher, NEW permanent,
           RecordFailure(d, permanent), NEW r \in Run
    PROVE  outbox'[r].tool = outbox[r].tool
<1>1. outbox \in [Run -> Row]
  BY DEF TypeOK
<1>2. CASE Expired(d)
  BY <1>2 DEF RecordFailure, rows
<1>3. CASE ~Expired(d)
  <2> DEFINE n  == sending[d].row.retries + 1
             st == IF permanent \/ Exhausted(n)
                   THEN "DEAD_LETTER" ELSE "PENDING"
  <2>1. outbox' = [outbox EXCEPT ![sending[d].run].status = st,
                                 ![sending[d].run].lease = "none",
                                 ![sending[d].run].retries = n]
    BY <1>3 DEF RecordFailure
  <2> HIDE DEF n, st
  <2> QED BY <1>1, <2>1, ToolColumn
<1> QED BY <1>2, <1>3

\* Nothing but the status, lease, claim and retries of a row is written.
LEMMA ToolKept ==
    ASSUME TypeOK, [Next]_vars, NEW r \in Run
    PROVE  outbox'[r].tool = outbox[r].tool
<1> USE DEF TypeOK, Row, rows
<1>d. ASSUME NEW d \in Dispatcher,
             \/ DispatcherStep(d) \/ AgentAnswers(d)
             \/ TimesOut(d) \/ Crash(d)
      PROVE  outbox'[r].tool = outbox[r].tool
  <2>1. CASE ClaimPending(d)
    BY <2>1, ClaimWrites
  <2>2. CASE Delivered(d)
    BY <2>2, DeliveryWrites
  <2>5. CASE Refused(d) \/ TimesOut(d)
    BY <2>5, FailureWrites DEF Refused, TimesOut
  <2>3. CASE \/ \E s \in Run : Post(d, s) \/ Skip(d, s)
             \/ AgentServes(d) \/ AgentRefuses(d) \/ Crash(d)
    BY <2>3 DEF Post, Skip, AgentServes, AgentRefuses, Crash
  <2> QED
    BY <1>d, <2>1, <2>2, <2>3, <2>5 DEF DispatcherStep, AgentAnswers
<1>r. ASSUME NEW s \in Run,
             \/ LeaseExpires(s) \/ Stall(s)
             \/ AgentServesLate(s) \/ AgentEnds(s)
      PROVE  outbox'[r].tool = outbox[r].tool
  BY <1>r, ExpiryWrites
<1>p. ASSUME NEW p \in Projector,
             Project(p) \/ \E s \in Run : Look(p, s)
      PROVE  outbox'[r].tool = outbox[r].tool
  BY <1>p DEF Project, Look
<1>q. ASSUME NEW q \in Request,
             \/ RequestStep(q)
             \/ \E kind \in Kinds, s \in Run : Read(q, kind, s)
      PROVE  outbox'[r].tool = outbox[r].tool
  BY <1>q DEF RequestStep, CancelLocally, CancelAtAgent, Resume, Read
<1> QED
  BY <1>d, <1>r, <1>p, <1>q DEF Next, vars

LEMMA NextHeld == TypeOK /\ Held /\ [Next]_vars => Held'
<1> SUFFICES ASSUME TypeOK, Held, [Next]_vars PROVE Held'
  OBVIOUS
<1>1. ASSUME NEW d \in Dispatcher, answer'[d] = answer[d],
             sending'[d] = sending[d], answer[d] # "none"
      PROVE  /\ answer'[d] = "created" => agentRun'[sending'[d].run] # "none"
             /\ sending'[d].row.tool = outbox'[sending'[d].run].tool
  BY <1>1, AgentRemembers, ToolKept DEF Held, TypeOK
<1>2. ASSUME NEW p \in Projector, looked'[p] = looked[p],
             looked[p].agent # "none"
      PROVE  agentRun'[looked'[p].run] # "none"
  BY <1>2, AgentRemembers DEF Held, TypeOK, NotLooking
<1>d. ASSUME NEW d \in Dispatcher,
             \/ DispatcherStep(d) \/ AgentAnswers(d)
             \/ TimesOut(d) \/ Crash(d)
      PROVE  Held'
  <2> DEFINE Others == \A e \in Dispatcher \ {d} :
                           answer'[e] = answer[e] /\ sending'[e] = sending[e]
  <2>a. ASSUME Delivered(d) \/ Refused(d) \/ TimesOut(d)
        PROVE  looked' = looked /\ Others
    BY <2>a DEF Delivered, Refused, TimesOut, Done, TypeOK
  <2>b. ASSUME ClaimPending(d) \/ \E s \in Run : Post(d, s) \/ Skip(d, s)
        PROVE  looked' = looked /\ Others
    BY <2>b DEF ClaimPending, Post, Skip, TypeOK
  <2>c. ASSUME Crash(d) \/ AgentServes(d) \/ AgentRefuses(d)
        PROVE  looked' = looked /\ Others
    BY <2>c DEF Crash, AgentServes, AgentRefuses, TypeOK
  <2>1. looked' = looked /\ Others
    BY <1>d, <2>a, <2>b, <2>c DEF DispatcherStep, AgentAnswers
  <2>2. CASE ClaimPending(d) \/ \E r \in Run : Skip(d, r)
    <3>1. answer' = answer /\ sending' = sending
      BY <2>2 DEF ClaimPending, Skip
    <3> QED
      BY <1>1, <1>2, <2>1, <3>1 DEF Held
  <2>3. ASSUME NEW r \in Run, Post(d, r) PROVE Held'
    <3>1. answer'[d] = "awaited" /\ sending'[d] = [run |-> r, row |-> outbox[r]]
      BY <2>3 DEF Post, TypeOK
    <3>2. outbox' = outbox
      BY <2>3 DEF Post, rows
    <3> QED
      BY <1>1, <1>2, <2>1, <3>1, <3>2 DEF Held
  <2>4. CASE Delivered(d) \/ Refused(d) \/ TimesOut(d) \/ Crash(d)
    <3>1. answer'[d] = "none"
      BY <2>4 DEF Delivered, Refused, TimesOut, Crash, Done, TypeOK
    <3> QED
      BY <1>1, <1>2, <2>1, <3>1 DEF Held
  <2>5. CASE AgentServes(d) \/ AgentRefuses(d)
    <3>1. /\ answer[d] = "awaited" /\ sending' = sending /\ outbox' = outbox
          /\ answer'[d] = "created" => agentRun'[sending[d].run] # "none"
      BY <2>5
      DEF AgentServes, AgentRefuses, Create, TypeOK, agent, rows
    <3> QED
      BY <1>1, <1>2, <2>1, <3>1 DEF Held
  <2> QED
    BY <1>d, <2>2, <2>3, <2>4, <2>5 DEF DispatcherStep, AgentAnswers
<1>p. ASSUME NEW p \in Projector,
             Project(p) \/ \E r \in Run : Look(p, r)
      PROVE  Held'
  <2>1. /\ answer' = answer /\ sending' = sending
        /\ \A e \in Projector \ {p} : looked'[e] = looked[e]
    BY <1>p DEF Project, Look, dispatcherVars, TypeOK
  <2>2. looked'[p].agent # "none" => agentRun'[looked'[p].run] # "none"
    BY <1>p DEF Project, Look, NotLooking, agent, TypeOK
  <2> QED
    BY <1>1, <1>2, <2>1, <2>2 DEF Held
<1>o. CASE /\ answer' = answer /\ sending' = sending /\ looked' = looked
  BY <1>1, <1>2, <1>o DEF Held
<1>r. ASSUME NEW r \in Run,
             \/ LeaseExpires(r) \/ Stall(r)
             \/ AgentServesLate(r) \/ AgentEnds(r)
      PROVE  Held'
  BY <1>r, <1>o
  DEF LeaseExpires, Stall, AgentServesLate, AgentEnds, dispatcherVars
<1>q. ASSUME NEW q \in Request,
             \/ RequestStep(q)
             \/ \E kind \in Kinds, r \in Run : Read(q, kind, r)
      PROVE  Held'
  BY <1>q, <1>o
  DEF RequestStep, CancelLocally, CancelAtAgent, Resume, Read, Answered,
      dispatcherVars
<1> QED
  BY <1>d, <1>p, <1>r, <1>q, <1>o DEF Next, vars, dispatcherVars

LEMMA NextDelivered ==
    TypeOK /\ Held /\ DeliveredMeansCreated /\ [Next]_vars
        => DeliveredMeansCreated'
<1> SUFFICES ASSUME TypeOK, Held, DeliveredMeansCreated, [Next]_vars,
                    NEW r \in Run, outbox'[r].status = "DELIVERED"
             PROVE  agentRun'[r] # "none"
  BY DEF DeliveredMeansCreated
<1>0. SUFFICES ASSUME outbox[r].status # "DELIVERED"
               PROVE  agentRun[r] # "none"
  BY AgentRemembers DEF DeliveredMeansCreated
<1> USE DEF TypeOK, Row, rows
<1>d. ASSUME NEW d \in Dispatcher,
             \/ DispatcherStep(d) \/ AgentAnswers(d)
             \/ TimesOut(d) \/ Crash(d)
      PROVE  agentRun[r] # "none"
  <2>1. CASE ClaimPending(d)
    BY <1>0, <2>1, ClaimWrites
  <2>2. CASE Delivered(d)
    <3>1. sending[d].run = r
      BY <1>0, <2>2 DEF Delivered
    <3> QED
      BY <2>2, <3>1 DEF Delivered, Success, Held
  <2>3. CASE Refused(d) \/ TimesOut(d)
    BY <1>0, <2>3 DEF Refused, TimesOut, RecordFailure
  <2>4. CASE \/ \E s \in Run : Post(d, s) \/ Skip(d, s)
             \/ AgentServes(d) \/ AgentRefuses(d) \/ Crash(d)
    BY <1>0, <2>4 DEF Post, Skip, AgentServes, AgentRefuses, Crash
  <2> QED
    BY <1>d, <2>1, <2>2, <2>3, <2>4 DEF DispatcherStep, AgentAnswers
<1>r. ASSUME NEW s \in Run,
             \/ LeaseExpires(s) \/ Stall(s)
             \/ AgentServesLate(s) \/ AgentEnds(s)
      PROVE  agentRun[r] # "none"
  BY <1>0, <1>r, ExpiryWrites
<1>p. ASSUME NEW p \in Projector,
             Project(p) \/ \E s \in Run : Look(p, s)
      PROVE  agentRun[r] # "none"
  BY <1>0, <1>p DEF Project, Look
<1>q. ASSUME NEW q \in Request,
             \/ RequestStep(q)
             \/ \E kind \in Kinds, s \in Run : Read(q, kind, s)
      PROVE  agentRun[r] # "none"
  <2>1. CASE CancelLocally(q)
    <3>1. \/ outbox'[r].status = outbox[r].status
          \/ outbox'[r].status = "CANCELLED"
      BY <2>1 DEF CancelLocally, Column
    <3> QED
      BY <1>0, <3>1
  <2>2. CASE Resume(q)
    BY <1>0, <2>2 DEF Resume
  <2>3. CASE \/ CancelAtAgent(q)
             \/ \E kind \in Kinds, s \in Run : Read(q, kind, s)
    BY <1>0, <2>3 DEF CancelAtAgent, Read
  <2> QED
    BY <1>q, <2>1, <2>2, <2>3 DEF RequestStep
<1> QED
  BY <1>0, <1>d, <1>r, <1>p, <1>q DEF Next, vars

LEMMA NextDeadLetter == IInv /\ [Next]_vars => DeadLetterEndsTask'
<1> SUFFICES ASSUME IInv, [Next]_vars, NEW r \in Run,
                    outbox'[r].tool = "remote_agent",
                    outbox'[r].status = "DEAD_LETTER",
                    agentRun'[r] = "none"
             PROVE  task'[r] \notin Active
  BY DEF DeadLetterEndsTask
<1> USE DEF IInv, TypeOK, Row, rows
<1>0. outbox[r].tool = "remote_agent" /\ agentRun[r] = "none"
  BY AgentRemembers, ToolKept
<1>1. outbox[r].status = "DEAD_LETTER" => task[r] \notin Active
  BY <1>0 DEF DeadLetterEndsTask
<1>d. ASSUME NEW d \in Dispatcher,
             \/ DispatcherStep(d) \/ AgentAnswers(d)
             \/ TimesOut(d) \/ Crash(d)
      PROVE  task'[r] \notin Active
  <2>1. CASE ClaimPending(d)
    <3>1. task' = task
      BY <2>1 DEF ClaimPending
    <3> QED
      BY <1>1, <2>1, <3>1, ClaimWrites
  <2>2. CASE Delivered(d)
    BY <1>1, <2>2 DEF Delivered
  <2>3. CASE Refused(d) \/ TimesOut(d)
    <3>1. PICK permanent \in BOOLEAN :
              RecordFailure(d, permanent) /\ answer[d] # "none"
      BY <2>3 DEF Refused, Success, TimesOut
    <3>2. CASE sending[d].run = r /\ ~Expired(d)
      <4>1. sending[d].row.tool = "remote_agent"
        BY <1>0, <3>1, <3>2 DEF Held
      <4>2. permanent \/ Exhausted(sending[d].row.retries + 1)
        BY <3>1, <3>2 DEF RecordFailure
      <4>3. task' = FailTask(sending[d].row, r)
        BY <3>1, <3>2, <4>2 DEF RecordFailure
      <4> QED
        BY <4>1, <4>3 DEF FailTask, Active
    <3>3. CASE Expired(d)
      BY <1>1, <3>1, <3>3 DEF RecordFailure
    <3>4. CASE sending[d].run # r /\ ~Expired(d)
      <4>1. outbox'[r] = outbox[r]
        BY <3>1, <3>4 DEF RecordFailure
      <4>2. task'[r] = task[r]
        BY <3>1, <3>4 DEF RecordFailure, FailTask
      <4> QED
        BY <1>1, <4>1, <4>2
    <3> QED
      BY <3>2, <3>3, <3>4
  <2>4. CASE \/ \E s \in Run : Post(d, s) \/ Skip(d, s)
             \/ AgentServes(d) \/ AgentRefuses(d) \/ Crash(d)
    BY <1>1, <2>4 DEF Post, Skip, AgentServes, AgentRefuses, Crash
  <2> QED
    BY <1>d, <2>1, <2>2, <2>3, <2>4 DEF DispatcherStep, AgentAnswers
<1>r. ASSUME NEW s \in Run,
             \/ LeaseExpires(s) \/ Stall(s)
             \/ AgentServesLate(s) \/ AgentEnds(s)
      PROVE  task'[r] \notin Active
  <2>1. task' = task
    BY <1>r DEF LeaseExpires, Stall, AgentServesLate, AgentEnds
  <2> QED
    BY <1>1, <1>r, <2>1, ExpiryWrites
<1>p. ASSUME NEW p \in Projector,
             Project(p) \/ \E s \in Run : Look(p, s)
      PROVE  task'[r] \notin Active
  <2>1. CASE \E s \in Run : Look(p, s)
    BY <1>1, <2>1 DEF Look
  <2>2. CASE Project(p)
    <3>1. looked[p].run = r => looked[p].agent = "none"
      BY <1>0 DEF Held
    <3>2. outbox' = outbox
      BY <2>2 DEF Project
    <3>3. task'[r] = task[r] \/ task'[r] = "missing"
      BY <2>2, <3>1 DEF Project
    <3> QED
      BY <1>1, <3>2, <3>3 DEF Active
  <2> QED
    BY <1>p, <2>1, <2>2
<1>q. ASSUME NEW q \in Request,
             \/ RequestStep(q)
             \/ \E kind \in Kinds, s \in Run : Read(q, kind, s)
      PROVE  task'[r] \notin Active
  <2>1. ASSUME CancelTask(q)
        PROVE  task'[r] = task[r] \/ task'[r] = "cancelled"
    BY <2>1 DEF CancelTask, Column
  <2>2. CASE CancelLocally(q)
    <3>1. outbox[r].status = "DEAD_LETTER"
      BY <2>2 DEF CancelLocally, Column
    <3> QED
      BY <1>1, <2>1, <2>2, <3>1 DEF CancelLocally, Active
  <2>3. CASE CancelAtAgent(q)
    BY <1>1, <2>1, <2>3 DEF CancelAtAgent, Active
  <2>4. CASE Resume(q)
    BY <1>1, <2>4 DEF Resume
  <2>5. CASE \E kind \in Kinds, s \in Run : Read(q, kind, s)
    BY <1>1, <2>5 DEF Read
  <2> QED
    BY <1>q, <2>2, <2>3, <2>4, <2>5 DEF RequestStep
<1> QED
  BY <1>1, <1>d, <1>r, <1>p, <1>q DEF Next, vars

\* The conjunction is inductive.
LEMMA Inductive == Spec => []IInv
<1>1. Init => IInv
  <2>1. Init => TypeOK
    BY DispatchAssumption
    DEF Init, TypeOK, Row, NewRow, RunDispatchStatus, TaskStatus, AgentStatus,
        NotSending, NotLooking, NoRequest
  <2>2. Init => Held
    BY DEF Init, Held, NotLooking
  <2>3. Init => DeliveredMeansCreated /\ DeadLetterEndsTask
    BY DEF Init, NewRow, DeliveredMeansCreated, DeadLetterEndsTask
  <2> QED
    BY <2>1, <2>2, <2>3 DEF IInv
<1>2. IInv /\ [Next]_vars => IInv'
  BY NextType, NextHeld, NextDelivered, NextDeadLetter DEF IInv
<1> QED
  BY <1>1, <1>2, PTL DEF Spec

(***************************************************************************)
(* A DELIVERED row has its run at the agent.                               *)
(***************************************************************************)
THEOREM DeliveredCorrect == Spec => []DeliveredMeansCreated
  BY Inductive, PTL DEF IInv

(***************************************************************************)
(* The dead letter of a remote-agent run leaves no open task behind,       *)
(* unless the run is at the agent.                                         *)
(***************************************************************************)
THEOREM DeadLetterCorrect == Spec => []DeadLetterEndsTask
  BY Inductive, PTL DEF IInv

-----------------------------------------------------------------------------
(***************************************************************************)
(* RunDispatch implements RunHandover.  Whoever queues a row again or asks *)
(* for its run has met a claimed row, and what a projector was told of the *)
(* end of a run is still the end of that run when it writes.               *)
(***************************************************************************)
Worked ==
    /\ \A r \in Run : outbox[r].status = "DEAD_LETTER" \/ r \in late =>
                        outbox[r].generation > 0
    /\ \A d \in Dispatcher :
           answer[d] # "none" => outbox[sending[d].run].generation > 0
    /\ \A q \in Request :
           request[q].kind = "resume" =>
               outbox[request[q].run].generation > 0

ToldEnds ==
    \A p \in Projector :
        looked[p].agent \in {"COMPLETED", "CANCELLED"} =>
            agentRun[looked[p].run] = looked[p].agent

\* What an update of some columns of a row leaves in the others.
LEMMA RowColumns ==
    ASSUME NEW row \in Row, NEW a, NEW b, NEW c
    PROVE  /\ [row EXCEPT !.lease = b].status = row.status
           /\ [row EXCEPT !.lease = b].generation = row.generation
           /\ [row EXCEPT !.status = a].status = a
           /\ [row EXCEPT !.status = a].generation = row.generation
           /\ [row EXCEPT !.status = a, !.lease = b].status = a
           /\ [row EXCEPT !.status = a, !.lease = b].generation
                  = row.generation
           /\ [row EXCEPT !.status = a, !.retries = c].status = a
           /\ [row EXCEPT !.status = a, !.retries = c].generation
                  = row.generation
           /\ [row EXCEPT !.status = a, !.lease = b, !.retries = c].status = a
           /\ [row EXCEPT !.status = a, !.lease = b, !.retries = c].generation
                  = row.generation
  BY DEF Row

Unmoved(r) ==
    UNCHANGED <<outbox[r].status, outbox[r].generation, agentRun[r], task[r]>>

LEMMA UnmovedStays ==
    ASSUME NEW r \in Run, Unmoved(r) PROVE Handover!Stay(r)
  BY DEF Unmoved, Handover!Stay

\* What the dispatchers do to the hand-over of run r.
LEMMA DispatcherHandsOver ==
    ASSUME IInv, Worked, NEW d \in Dispatcher,
           \/ DispatcherStep(d) \/ AgentAnswers(d)
           \/ TimesOut(d) \/ Crash(d),
           NEW r \in Run
    PROVE  Handover!Advance(r) \/ Handover!Stay(r)
<1> USE DEF IInv, TypeOK, rows, agent
<1>0. outbox[r] \in Row /\ outbox[r].generation \in Nat
  BY DEF Row
<1> DEFINE s == sending[d].run
<1>1. CASE ClaimPending(d)
  <2>1. /\ UNCHANGED <<task, agentRun>>
        /\ \/ outbox'[r] = outbox[r]
           \/ /\ Claimable(r)
              /\ outbox'[r] = [outbox[r] EXCEPT !.status = "DELIVERING",
                                    !.dispatcher = d, !.lease = "held",
                                    !.generation = @ + 1]
    BY <1>1 DEF ClaimPending
  <2>2. CASE outbox'[r] = outbox[r]
    BY <2>1, <2>2, UnmovedStays DEF Unmoved
  <2>3. CASE outbox'[r] # outbox[r]
    <3>1. /\ outbox'[r].status = "DELIVERING"
          /\ outbox'[r].generation = outbox[r].generation + 1
      BY ONLY <1>0, <2>1, <2>3 DEF Row
    <3>2. outbox[r].status \in Handover!Open
      BY <2>1, <2>3 DEF Claimable, Handover!Open
    <3> QED
      BY <2>1, <3>1, <3>2 DEF Handover!Advance, Handover!Claim
  <2> QED BY <2>2, <2>3
<1>2. CASE Delivered(d)
  <2>1. UNCHANGED <<task, agentRun>> /\ s \in Run
    BY <1>2 DEF Delivered, Success
  <2>2. CASE Expired(d) \/ s # r
    <3>1. outbox'[r] = outbox[r]
      BY <1>2, <2>2 DEF Delivered
    <3> QED BY <2>1, <3>1, UnmovedStays DEF Unmoved
  <2>3. CASE ~Expired(d) /\ s = r
    <3>1. outbox'[r] = [outbox[r] EXCEPT !.status = "DELIVERED",
                                         !.lease = "none"]
      BY <1>2, <2>3 DEF Delivered
    <3>2. /\ outbox'[r].status = "DELIVERED"
          /\ outbox'[r].generation = outbox[r].generation
      BY <1>0, <3>1, RowColumns
    <3>3. agentRun[r] # "none"
      BY <1>2, <2>3 DEF Delivered, Success, Held
    <3> QED
      BY <2>1, <3>2, <3>3 DEF Handover!Advance, Handover!Deliver
  <2> QED BY <2>2, <2>3
<1>3. CASE Refused(d) \/ TimesOut(d)
  <2> DEFINE n == sending[d].row.retries + 1
  <2>1. PICK permanent \in BOOLEAN :
            RecordFailure(d, permanent) /\ answer[d] # "none"
    BY <1>3 DEF Refused, Success, TimesOut
  <2>2. UNCHANGED agentRun /\ s \in Run /\ outbox[s].generation > 0
    BY <1>3, <2>1 DEF Refused, TimesOut, Worked
  <2>3. CASE Expired(d) \/ s # r
    <3>1. outbox'[r] = outbox[r] /\ task'[r] = task[r]
      BY <2>1, <2>3 DEF RecordFailure, FailTask
    <3> QED BY <2>2, <3>1, UnmovedStays DEF Unmoved
  <2>4. CASE ~Expired(d) /\ s = r
    <3> DEFINE st == IF permanent \/ Exhausted(n)
                     THEN "DEAD_LETTER" ELSE "PENDING"
    <3>1. outbox'[r] = [outbox[r] EXCEPT !.status = st, !.lease = "none",
                                         !.retries = n]
      BY <2>1, <2>4 DEF RecordFailure
    <3>2. /\ outbox'[r].status = st
          /\ outbox'[r].generation = outbox[r].generation
      BY ONLY <1>0, <3>1, RowColumns
    <3>3. \/ task'[r] = task[r]
          \/ /\ st = "DEAD_LETTER" /\ task[r] \in {"queued", "running"}
             /\ task'[r] = "failed"
      BY <2>1, <2>4 DEF RecordFailure, FailTask
    <3>4. CASE st = "DEAD_LETTER"
      BY <2>2, <2>4, <3>2, <3>3, <3>4 DEF Handover!Advance, Handover!GiveUp
    <3>5. CASE st = "PENDING"
      BY <2>2, <2>4, <3>2, <3>3, <3>5 DEF Handover!Advance, Handover!Requeue
    <3> QED BY <3>4, <3>5
  <2> QED BY <2>3, <2>4
<1>4. CASE AgentServes(d)
  <2>1. UNCHANGED <<outbox, task>> /\ s \in Run /\ outbox[s].generation > 0
    BY <1>4 DEF AgentServes, Worked
  <2>2. CASE s = r /\ agentRun[r] = "none"
    BY <1>4, <2>1, <2>2
    DEF AgentServes, Create, Handover!Advance, Handover!Create
  <2>3. CASE ~(s = r /\ agentRun[r] = "none")
    BY <1>4, <2>1, <2>3, UnmovedStays DEF AgentServes, Create, Unmoved
  <2> QED BY <2>2, <2>3
<1>5. CASE \/ \E q \in Run : Post(d, q) \/ Skip(d, q)
           \/ AgentRefuses(d) \/ Crash(d)
  BY <1>5, UnmovedStays DEF Post, Skip, AgentRefuses, Crash, Unmoved
<1> QED
  BY <1>1, <1>2, <1>3, <1>4, <1>5 DEF DispatcherStep, AgentAnswers

\* What the clock and the agent do to it.
LEMMA AgentHandsOver ==
    ASSUME IInv, Worked, NEW s \in Run,
           \/ LeaseExpires(s) \/ Stall(s)
           \/ AgentServesLate(s) \/ AgentEnds(s),
           NEW r \in Run
    PROVE  Handover!Advance(r) \/ Handover!Stay(r)
<1> USE DEF IInv, TypeOK, rows, agent
<1>0. outbox[r] \in Row
  OBVIOUS
<1>1. CASE LeaseExpires(s) \/ Stall(s)
  <2>1. \/ outbox'[r] = outbox[r]
        \/ outbox'[r] = [outbox[r] EXCEPT !.lease = "expired"]
    BY <1>1 DEF LeaseExpires, Stall
  <2>2. UNCHANGED <<outbox[r].status, outbox[r].generation>>
    BY ONLY <1>0, <2>1 DEF Row
  <2> QED BY <1>1, <2>2, UnmovedStays DEF LeaseExpires, Stall, Unmoved
<1>2. CASE AgentServesLate(s)
  <2>1. UNCHANGED <<outbox, task>> /\ outbox[s].generation > 0
    BY <1>2 DEF AgentServesLate, Worked
  <2>2. CASE s = r /\ agentRun[r] = "none"
    BY <1>2, <2>1, <2>2
    DEF AgentServesLate, Create, Handover!Advance, Handover!Create
  <2>3. CASE ~(s = r /\ agentRun[r] = "none")
    BY <1>2, <2>1, <2>3, UnmovedStays DEF AgentServesLate, Create, Unmoved
  <2> QED BY <2>2, <2>3
<1>3. CASE AgentEnds(s)
  <2>1. CASE s = r
    BY <1>3, <2>1 DEF AgentEnds, Handover!Advance, Handover!End
  <2>2. CASE s # r
    BY <1>3, <2>2, UnmovedStays DEF AgentEnds, Unmoved
  <2> QED BY <2>1, <2>2
<1> QED BY <1>1, <1>2, <1>3

\* What the projectors do to it.
LEMMA ProjectorHandsOver ==
    ASSUME IInv, ToldEnds, NEW p \in Projector,
           Project(p) \/ \E s \in Run : Look(p, s),
           NEW r \in Run
    PROVE  Handover!Advance(r) \/ Handover!Stay(r)
<1> USE DEF IInv, TypeOK, rows, agent
<1>0. UNCHANGED <<outbox, agentRun>>
  BY DEF Project, Look
<1>1. CASE task'[r] = task[r]
  BY <1>0, <1>1, UnmovedStays DEF Unmoved
<1>2. CASE task'[r] # task[r]
  <2> DEFINE told == looked[p].agent
  <2>1. Project(p) /\ looked[p].run = r /\ told \in AgentStatus
    BY <1>2 DEF Project, Look
  <2>2. CASE told = "none"
    <3>1. outbox[r].status \notin StillOpen /\ task'[r] = "missing"
      BY <1>2, <2>1, <2>2 DEF Project
    <3> QED
      BY <1>0, <3>1
      DEF StillOpen, Handover!Open, Handover!Advance, Handover!ReportMissing
  <2>3. CASE told # "none"
    <3>1. task'[r] = Projected(told)
      BY <1>2, <2>1, <2>3 DEF Project, Column
    <3>2. told = "RUNNING" => agentRun[r] # "none"
      BY <2>1 DEF Held
    <3>3. told \in {"COMPLETED", "CANCELLED"} => agentRun[r] = told
      BY <2>1 DEF ToldEnds
    <3>4. told \in {"RUNNING", "COMPLETED", "CANCELLED"}
      BY <2>1, <2>3 DEF AgentStatus
    <3> QED
      BY <1>0, <3>1, <3>2, <3>3, <3>4
      DEF Projected, Handover!Advance, Handover!Report
  <2> QED BY <2>2, <2>3
<1> QED BY <1>1, <1>2

\* What the endpoints do to it.
LEMMA EndpointHandsOver ==
    ASSUME IInv, Worked, NEW q \in Request,
           \/ RequestStep(q)
           \/ \E kind \in Kinds, s \in Run : Read(q, kind, s),
           NEW r \in Run
    PROVE  Handover!Advance(r) \/ Handover!Stay(r)
<1> USE DEF IInv, TypeOK, rows, agent
<1>0. outbox[r] \in Row
  OBVIOUS
<1> DEFINE s == request[q].run
<1>t. ASSUME CancelTask(q)
      PROVE  task'[r] \in {task[r], "cancelled"}
  <2>1. task \in [Run -> TaskStatus]
    OBVIOUS
  <2> QED BY ONLY <1>t, <2>1 DEF CancelTask, Column
<1>1. CASE CancelLocally(q)
  <2>1. \/ outbox'[r] = outbox[r]
        \/ \E a \in {outbox[r].status, "CANCELLED"} :
               outbox'[r] = [outbox[r] EXCEPT !.status = a]
    BY <1>1 DEF CancelLocally, Column
  <2>2. /\ outbox'[r].status \in {outbox[r].status, "CANCELLED"}
        /\ outbox'[r].generation = outbox[r].generation
    BY ONLY <1>0, <2>1 DEF Row
  <2> QED
    BY <1>1, <1>t, <2>2 DEF CancelLocally, Handover!Advance, Handover!Withdraw
<1>2. CASE CancelAtAgent(q)
  <2>1. outbox' = outbox /\ task'[r] \in {task[r], "cancelled"}
    BY <1>2, <1>t DEF CancelAtAgent
  <2>2. CASE agentRun[r] = "RUNNING" /\ s = r
    BY <1>2, <2>1, <2>2
    DEF CancelAtAgent, Handover!Advance, Handover!CancelRun
  <2>3. CASE ~(agentRun[r] = "RUNNING" /\ s = r)
    <3>1. agentRun'[r] = agentRun[r]
      BY <1>2, <2>3 DEF CancelAtAgent
    <3> QED BY <2>1, <3>1 DEF Handover!Advance, Handover!Withdraw
  <2> QED BY <2>2, <2>3
<1>3. CASE Resume(q)
  <2>1. UNCHANGED <<task, agentRun>> /\ outbox[s].generation > 0 /\ s \in Run
    BY <1>3 DEF Resume, Worked
  <2>2. CASE s = r
    <3>1. outbox'[r] = [outbox[r] EXCEPT !.status = "PENDING", !.retries = 0]
      BY <1>3, <2>2 DEF Resume
    <3>2. /\ outbox'[r].status = "PENDING"
          /\ outbox'[r].generation = outbox[r].generation
      BY <1>0, <3>1, RowColumns
    <3> QED
      BY <2>1, <2>2, <3>2 DEF Handover!Advance, Handover!Requeue
  <2>3. CASE s # r
    BY <1>3, <2>1, <2>3, UnmovedStays DEF Resume, Unmoved
  <2> QED BY <2>2, <2>3
<1>4. CASE \E kind \in Kinds, t \in Run : Read(q, kind, t)
  BY <1>4, UnmovedStays DEF Read, Unmoved
<1> QED BY <1>1, <1>2, <1>3, <1>4 DEF RequestStep

\* Every step advances the hand-over of every run, or leaves it.
LEMMA HandoverSteps ==
    ASSUME IInv, Worked, ToldEnds, [Next]_vars
    PROVE  \A r \in Run : Handover!Advance(r) \/ Handover!Stay(r)
<1>1. CASE UNCHANGED vars
  BY <1>1, UnmovedStays DEF vars, rows, agent, Unmoved
<1>2. CASE Next
  BY <1>2, DispatcherHandsOver, AgentHandsOver, ProjectorHandsOver,
     EndpointHandsOver DEF Next
<1> QED BY <1>1, <1>2

\* A claim counts up, a run that is over stays as it ended, and only a row
\* that has been claimed becomes a dead letter.
LEMMA HandoverKeeps ==
    ASSUME IInv, NEW r \in Run, Handover!Advance(r) \/ Handover!Stay(r)
    PROVE  /\ outbox[r].generation > 0 => outbox'[r].generation > 0
           /\ agentRun[r] \in {"COMPLETED", "CANCELLED"} =>
                  agentRun'[r] = agentRun[r]
           /\ outbox'[r].status = "DEAD_LETTER" =>
                  outbox[r].status = "DEAD_LETTER" \/ outbox[r].generation > 0
<1>1. outbox[r].generation \in Nat
  BY DEF IInv, TypeOK, Row
<1> QED
  BY <1>1
  DEF Handover!Advance, Handover!Stay, Handover!Claim, Handover!Deliver,
      Handover!Requeue, Handover!GiveUp, Handover!Withdraw, Handover!Create,
      Handover!End, Handover!CancelRun, Handover!Report,
      Handover!ReportMissing

\* A request that is given up by its dispatcher had been posted.
LEMMA LateOnes ==
    ASSUME IInv, [Next]_vars, NEW r \in late' \ late
    PROVE  \E d \in Dispatcher : answer[d] # "none" /\ sending[d].run = r
<1> USE DEF agent, rows
<1>1. ASSUME NEW d \in Dispatcher, DispatcherStep(d) \/ AgentAnswers(d)
      PROVE  FALSE
  BY <1>1
  DEF DispatcherStep, AgentAnswers, ClaimPending, Post, Skip, Delivered,
      Refused, AgentServes, AgentRefuses
<1>2. ASSUME NEW d \in Dispatcher, TimesOut(d) \/ Crash(d)
      PROVE  answer[d] # "none" /\ sending[d].run = r
  BY <1>2 DEF TimesOut, Crash, Abandon
<1>3. ASSUME NEW s \in Run,
             \/ LeaseExpires(s) \/ Stall(s)
             \/ AgentServesLate(s) \/ AgentEnds(s)
      PROVE  FALSE
  BY <1>3 DEF LeaseExpires, Stall, AgentServesLate, AgentEnds
<1>4. ASSUME NEW p \in Projector, Project(p) \/ \E s \in Run : Look(p, s)
      PROVE  FALSE
  BY <1>4 DEF Project, Look
<1>5. ASSUME NEW q \in Request,
             \/ RequestStep(q)
             \/ \E kind \in Kinds, s \in Run : Read(q, kind, s)
      PROVE  FALSE
  BY <1>5 DEF RequestStep, CancelLocally, CancelAtAgent, Resume, Read
<1>6. CASE UNCHANGED vars
  BY <1>6 DEF vars
<1> QED BY <1>1, <1>2, <1>3, <1>4, <1>5, <1>6 DEF Next

\* A request goes on with the row it was posted for.
LEMMA PostedRows ==
    ASSUME IInv, [Next]_vars, NEW d \in Dispatcher, answer'[d] # "none"
    PROVE  /\ sending'[d].run \in Run
           /\ \/ outbox[sending'[d].run].generation > 0
              \/ answer[d] # "none" /\ sending'[d] = sending[d]
<1> USE DEF IInv, TypeOK, rows, agent, dispatcherVars
<1>0. CASE answer[d] # "none" /\ sending'[d] = sending[d]
  BY <1>0
<1>1. CASE UNCHANGED <<sending[d], answer[d]>>
  BY <1>0, <1>1
<1>2. ASSUME NEW e \in Dispatcher, e # d,
             \/ DispatcherStep(e) \/ AgentAnswers(e)
             \/ TimesOut(e) \/ Crash(e)
      PROVE  UNCHANGED <<sending[d], answer[d]>>
  BY <1>2
  DEF DispatcherStep, AgentAnswers, ClaimPending, Post, Skip, Delivered,
      Refused, TimesOut, Crash, Done, AgentServes, AgentRefuses
<1>3. ASSUME NEW r \in Run, Post(d, r)
      PROVE  sending'[d].run = r /\ outbox[r].generation > 0
  <2>1. outbox[r].generation # 0 /\ outbox[r].generation \in Nat
    BY <1>3 DEF Post, Batch, Confirmed, Row
  <2> QED BY <1>3, <2>1 DEF Post
<1>4. CASE AgentServes(d) \/ AgentRefuses(d)
  BY <1>0, <1>4 DEF AgentServes, AgentRefuses
<1>5. CASE ClaimPending(d) \/ \E r \in Run : Skip(d, r)
  BY <1>1, <1>5 DEF ClaimPending, Skip
<1>6. CASE Delivered(d) \/ Refused(d) \/ TimesOut(d) \/ Crash(d)
  BY <1>6 DEF Delivered, Refused, TimesOut, Crash, Done
<1>7. ASSUME NEW r \in Run,
             \/ LeaseExpires(r) \/ Stall(r)
             \/ AgentServesLate(r) \/ AgentEnds(r)
      PROVE  UNCHANGED <<sending[d], answer[d]>>
  BY <1>7 DEF LeaseExpires, Stall, AgentServesLate, AgentEnds
<1>8. ASSUME NEW p \in Projector, Project(p) \/ \E r \in Run : Look(p, r)
      PROVE  UNCHANGED <<sending[d], answer[d]>>
  BY <1>8 DEF Project, Look
<1>9. ASSUME NEW q \in Request,
             \/ RequestStep(q)
             \/ \E kind \in Kinds, r \in Run : Read(q, kind, r)
      PROVE  UNCHANGED <<sending[d], answer[d]>>
  BY <1>9
  DEF RequestStep, CancelLocally, CancelAtAgent, Resume, Read, Answered
<1>10. CASE UNCHANGED vars
  BY <1>1, <1>10 DEF vars
<1> QED
  BY <1>1, <1>2, <1>3, <1>4, <1>5, <1>6, <1>7, <1>8, <1>9, <1>10
  DEF Next, DispatcherStep, AgentAnswers

\* A resume goes on with a row that it has found a dead letter.
LEMMA ResumedRows ==
    ASSUME IInv, [Next]_vars, NEW q \in Request, request'[q].kind = "resume"
    PROVE  \/ request'[q] = request[q]
           \/ /\ request'[q].run \in Run
              /\ outbox[request'[q].run].status = "DEAD_LETTER"
<1> USE DEF IInv, TypeOK, requestVars
<1>1. ASSUME NEW e \in Request, RequestStep(e)
      PROVE  request'[q] \in {request[q], NoRequest}
  BY <1>1 DEF RequestStep, CancelLocally, CancelAtAgent, Resume, Answered
<1>2. ASSUME NEW e \in Request, NEW kind \in Kinds, NEW s \in Run,
             Read(e, kind, s), request'[q] # request[q]
      PROVE  request'[q].run = s /\ outbox[s].status = "DEAD_LETTER"
  BY <1>2 DEF Read, Proceeds
<1>3. ASSUME NEW d \in Dispatcher,
             \/ DispatcherStep(d) \/ AgentAnswers(d)
             \/ TimesOut(d) \/ Crash(d)
      PROVE  request' = request
  BY <1>3
  DEF DispatcherStep, AgentAnswers, ClaimPending, Post, Skip, Delivered,
      Refused, TimesOut, Crash, AgentServes, AgentRefuses
<1>4. ASSUME NEW r \in Run,
             \/ LeaseExpires(r) \/ Stall(r)
             \/ AgentServesLate(r) \/ AgentEnds(r)
      PROVE  request' = request
  BY <1>4 DEF LeaseExpires, Stall, AgentServesLate, AgentEnds
<1>5. ASSUME NEW p \in Projector, Project(p) \/ \E r \in Run : Look(p, r)
      PROVE  request' = request
  BY <1>5 DEF Project, Look
<1>6. CASE UNCHANGED vars
  BY <1>6 DEF vars
<1> QED
  BY <1>1, <1>2, <1>3, <1>4, <1>5, <1>6 DEF Next, NoRequest

LEMMA NextWorked ==
    IInv /\ Worked /\ ToldEnds /\ [Next]_vars => Worked'
<1> SUFFICES ASSUME IInv, Worked, ToldEnds, [Next]_vars PROVE Worked'
  OBVIOUS
<1>1. ASSUME NEW r \in Run
      PROVE  /\ outbox[r].generation > 0 => outbox'[r].generation > 0
             /\ outbox'[r].status = "DEAD_LETTER" => outbox[r].generation > 0
  BY HandoverSteps, HandoverKeeps DEF Worked
<1>2. ASSUME NEW r \in Run, r \in late' PROVE outbox[r].generation > 0
  BY <1>2, LateOnes DEF Worked
<1>3. ASSUME NEW d \in Dispatcher, answer'[d] # "none"
      PROVE  outbox[sending'[d].run].generation > 0
             /\ sending'[d].run \in Run
  BY <1>3, PostedRows DEF Worked
<1>4. ASSUME NEW q \in Request, request'[q].kind = "resume"
      PROVE  outbox[request'[q].run].generation > 0
             /\ request'[q].run \in Run
  BY <1>4, ResumedRows DEF Worked, IInv, TypeOK
<1> QED BY <1>1, <1>2, <1>3, <1>4 DEF Worked

LEMMA NextToldEnds ==
    IInv /\ Worked /\ ToldEnds /\ [Next]_vars => ToldEnds'
<1> SUFFICES ASSUME IInv, Worked, ToldEnds, [Next]_vars, NEW p \in Projector,
                    looked'[p].agent \in {"COMPLETED", "CANCELLED"}
             PROVE  agentRun'[looked'[p].run] = looked'[p].agent
  BY DEF ToldEnds
<1> USE DEF IInv, TypeOK, agent
<1>1. ASSUME NEW r \in Run, agentRun[r] \in {"COMPLETED", "CANCELLED"}
      PROVE  agentRun'[r] = agentRun[r]
  BY <1>1, HandoverSteps, HandoverKeeps
<1>2. CASE looked'[p] = looked[p]
  BY <1>1, <1>2 DEF ToldEnds, NotLooking
<1>3. ASSUME NEW s \in Projector, NEW r \in Run, Look(s, r),
             looked'[p] # looked[p]
      PROVE  agentRun'[looked'[p].run] = looked'[p].agent
  BY <1>3 DEF Look
<1>4. ASSUME NEW s \in Projector, Project(s) PROVE looked'[p] = looked[p]
  BY <1>4 DEF Project, NotLooking
<1>5. ASSUME NEW d \in Dispatcher,
             \/ DispatcherStep(d) \/ AgentAnswers(d)
             \/ TimesOut(d) \/ Crash(d)
      PROVE  looked' = looked
  BY <1>5
  DEF DispatcherStep, AgentAnswers, ClaimPending, Post, Skip, Delivered,
      Refused, TimesOut, Crash, AgentServes, AgentRefuses
<1>6. ASSUME NEW r \in Run,
             \/ LeaseExpires(r) \/ Stall(r)
             \/ AgentServesLate(r) \/ AgentEnds(r)
      PROVE  looked' = looked
  BY <1>6 DEF LeaseExpires, Stall, AgentServesLate, AgentEnds
<1>7. ASSUME NEW q \in Request,
             \/ RequestStep(q)
             \/ \E kind \in Kinds, r \in Run : Read(q, kind, r)
      PROVE  looked' = looked
  BY <1>7
  DEF RequestStep, CancelLocally, CancelAtAgent, Resume, Read, Answered
<1>8. CASE UNCHANGED vars
  BY <1>2, <1>8 DEF vars
<1> QED BY <1>2, <1>3, <1>4, <1>5, <1>6, <1>7, <1>8 DEF Next

(***************************************************************************)
(* Leases that run out, answers that are lost, requests that are served    *)
(* late, reads that have become stale and endpoints in between: whatever   *)
(* happens to a run is what RunHandover allows.                            *)
(***************************************************************************)
THEOREM HandoverImplemented == Spec => ImplementsHandover
<1>1. Init => Handover!Init /\ Worked /\ ToldEnds
  <2> SUFFICES ASSUME Init
               PROVE  Handover!Init /\ Worked /\ ToldEnds
    OBVIOUS
  <2>1. ASSUME NEW r \in Run
        PROVE  outbox[r].status = "PENDING" /\ outbox[r].generation = 0
    BY DEF Init, NewRow
  <2>2. Handover!Init
    BY <2>1 DEF Init, Handover!Init
  <2>3. Worked /\ ToldEnds
    BY <2>1 DEF Init, Worked, ToldEnds, NoRequest, NotLooking
  <2> QED BY <2>2, <2>3
<1>2. IInv /\ IInv' /\ Worked /\ ToldEnds /\ [Next]_vars =>
          [Handover!Next]_(Handover!vars)
  <2> SUFFICES ASSUME IInv, IInv', Worked, ToldEnds, [Next]_vars
               PROVE  Handover!Next
    OBVIOUS
  <2>1. /\ outbox' \in [Run -> Row] /\ agentRun' \in [Run -> AgentStatus]
        /\ task' \in [Run -> TaskStatus]
    BY DEF IInv, TypeOK
  <2>2. \A r \in Run : /\ outbox'[r].status \in RunDispatchStatus
                       /\ outbox'[r].generation \in Nat
    BY <2>1 DEF Row
  <2> QED
    BY <2>1, <2>2, HandoverSteps
    DEF Handover!Next, Handover!Open, RunDispatchStatus, AgentStatus,
        TaskStatus
<1> QED
  BY <1>1, <1>2, NextWorked, NextToldEnds, Inductive, PTL
  DEF Spec, ImplementsHandover, Handover!Spec

=============================================================================
