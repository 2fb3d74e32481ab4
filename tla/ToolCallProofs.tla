--------------------------- MODULE ToolCallProofs ---------------------------
(***************************************************************************)
(* Type correctness of ToolCall, that an "ok" result was performed, that   *)
(* what was performed was allowed, that a waiting run can be decided, and  *)
(* that the ledger implements ActionLedger: for any number of calls,       *)
(* decisions, generations and upsets.                                      *)
(***************************************************************************)
EXTENDS ToolCall, TLAPS

Asked   == [call : Call, tool : Tool, digest : Digest]
Working == BackendPc \cup {"answered"}

\* The provider has acted once, with these arguments.
Did(k, digest) ==
    \E x \in Action : performed[k] = <<x>> /\ x.digest = digest

\* What a decision in progress knows of its row and of the provider.
WorkOK(d) ==
    decider[d].pc \in Working =>
        /\ decider[d].approval \in allowed
        /\ decider[d].pc \in {"mark", "broker", "finish", "settle"} =>
               ledger[WorkKey(d)] # NoRow
        /\ decider[d].pc \in {"broker", "finish", "settle"} =>
               ledger[WorkKey(d)].digest = WorkDigest(d)
        /\ decider[d].pc = "broker" => performed[WorkKey(d)] = << >>
        /\ /\ decider[d].pc \in {"finish", "settle", "answered"}
           /\ decider[d].outcome = "ok"
           => Did(WorkKey(d), WorkDigest(d))

\* Only one decision executes an identity.
OneBroker ==
    \A d, e \in Decider :
        At(d, "broker") /\ At(e, "broker") /\ WorkKey(d) = WorkKey(e) => d = e

\* What a row says of the provider, which acts at most once.
RowOK(k) ==
    /\ ledger[k] = NoRow => performed[k] = << >>
    /\ performed[k] = << >> \/ \E x \in Action : performed[k] = <<x>>
    /\ ledger[k].state = "SUCCEEDED" => Did(k, ledger[k].digest)

ResultOK(r) ==
    r.outcome = "ok" =>
        \E g \in Generation :
            Did([generation |-> g, call |-> asked[r.approval].call],
                asked[r.approval].digest)

IInv ==
    /\ TypeOK
    /\ \A d \in Decider : WorkOK(d)
    /\ OneBroker
    /\ \A k \in Key : RowOK(k)
    /\ \A r \in results : ResultOK(r)
    /\ PerformedMeansAllowed

Denial     == [pc : {"deny"}, approval : 1 .. MaxAsks]
Place      == {NoWork} \cup Work \cup Denial
DeciderOK  ==
    /\ decider \in [Decider -> Place]
    /\ \A d \in Decider : ~Idle(d) => decider[d].approval \in DOMAIN asked
ResultType == [approval : DOMAIN asked, outcome : Outcome \cup {"denied"}]

-----------------------------------------------------------------------------
(***************************************************************************)
(* Type correctness.                                                       *)
(***************************************************************************)
LEMMA KeyParts ==
    ASSUME NEW k \in Key
    PROVE  /\ k.generation \in Generation /\ k.call \in Call
           /\ k = [generation |-> k.generation, call |-> k.call]
  BY DEF Key

LEMMA AskedParts ==
    ASSUME NEW x \in Asked
    PROVE  /\ x.call \in Call /\ x.tool \in Tool /\ x.digest \in Digest
           /\ x = [call |-> x.call, tool |-> x.tool, digest |-> x.digest]
  BY DEF Asked

LEMMA AskedType ==
    ASSUME TypeOK
    PROVE  /\ asked \in Seq(Asked)
           /\ DOMAIN asked = 1 .. Len(asked) /\ Len(asked) \in Nat
           /\ \A a \in DOMAIN asked : asked[a] \in Asked
           /\ DOMAIN asked \subseteq 1 .. MaxAsks
<1>1. asked \in Seq(Asked)
  BY DEF TypeOK, Asked
<1>2. Len(asked) <= MaxAsks
  BY DEF TypeOK
<1> QED
  BY <1>1, <1>2, ToolCallAssumption

LEMMA WorkType ==
    ASSUME TypeOK, NEW d \in Decider, decider[d].pc \in Working
    PROVE  /\ decider[d] \in Work /\ ~Idle(d)
           /\ decider[d].approval \in DOMAIN asked
           /\ asked[decider[d].approval] \in Asked
           /\ WorkKey(d) \in Key /\ WorkDigest(d) \in Digest
           /\ WorkAction(d) \in Action
           /\ WorkAction(d).digest = WorkDigest(d)
           /\ WorkKey(d).call = asked[decider[d].approval].call
<1>1. decider[d] \in Place
  BY DEF TypeOK, Place, Denial
<1>2. decider[d].pc # "idle" /\ decider[d].pc # "deny"
  BY DEF Working, BackendPc
<1>3. ~Idle(d)
  BY <1>2 DEF Idle, NoWork
<1>4. decider[d] \in Work
  BY <1>1, <1>2 DEF Place, NoWork, Denial
<1>5. decider[d].approval \in DOMAIN asked
  BY <1>3 DEF TypeOK
<1>6. asked[decider[d].approval] \in Asked
  BY <1>5, AskedType
<1>7. decider[d].generation \in Generation
  BY <1>4 DEF Work
<1>8. WorkKey(d) \in Key /\ WorkDigest(d) \in Digest
  BY <1>6, <1>7, AskedParts DEF WorkKey, WorkDigest, Key
<1>9. WorkKey(d).call = asked[decider[d].approval].call
  BY DEF WorkKey
<1>10. WorkAction(d) \in Action /\ WorkAction(d).digest = WorkDigest(d)
  BY <1>6, <1>8, AskedParts DEF WorkAction, Action
<1> QED
  BY <1>3, <1>4, <1>5, <1>6, <1>8, <1>9, <1>10

\* The moves of a decision, as a replacement of its whole record.
LEMMA PlaceType ==
    ASSUME TypeOK, NEW d \in Decider, NEW w \in Place,
           w # NoWork => w.approval \in DOMAIN asked,
           decider' = [decider EXCEPT ![d] = w], UNCHANGED asked
    PROVE  DeciderOK'
<1>1. decider \in [Decider -> Place]
  BY DEF TypeOK, Place, Denial
<1>2. decider' \in [Decider -> Place]
  BY <1>1
<1>3. ASSUME NEW e \in Decider, decider'[e] # NoWork
      PROVE  decider'[e].approval \in DOMAIN asked
  <2>1. CASE e = d
    BY <1>1, <1>3, <2>1
  <2>2. CASE e # d
    <3>1. decider'[e] = decider[e]
      BY <1>1, <2>2
    <3>2. ~Idle(e)
      BY <1>3, <3>1 DEF Idle
    <3> QED
      BY <3>1, <3>2 DEF TypeOK
  <2> QED
    BY <2>1, <2>2
<1> QED
  BY <1>2, <1>3 DEF DeciderOK, Idle, Place, Work, Denial

LEMMA IdleType ==
    ASSUME TypeOK, NEW d \in Decider, Return(d), UNCHANGED asked
    PROVE  DeciderOK'
  BY PlaceType DEF Return, Place

LEMMA WorkMoveType ==
    ASSUME TypeOK, NEW d \in Decider, decider[d].pc \in Working,
           UNCHANGED asked,
           \/ \E pc \in Working : Goto(d, pc)
           \/ \E pc \in Working, outcome \in Outcome :
                 decider' =
                     [decider EXCEPT ![d].pc = pc, ![d].outcome = outcome]
           \/ decider' = [decider EXCEPT ![d].waits = FALSE]
    PROVE  DeciderOK'
<1>1. /\ decider[d] \in Work /\ decider[d].approval \in DOMAIN asked
      /\ decider \in [Decider -> Place]
  BY WorkType DEF TypeOK, Place, Denial
<1>2. ASSUME NEW w \in Work, w.approval = decider[d].approval,
             decider' = [decider EXCEPT ![d] = w]
      PROVE  DeciderOK'
  BY <1>1, <1>2, PlaceType DEF Place
<1>3. CASE \E pc \in Working : Goto(d, pc)
  <2>1. PICK pc \in Working : Goto(d, pc)
    BY <1>3
  <2>2. decider' = [decider EXCEPT ![d] = [decider[d] EXCEPT !.pc = pc]]
    BY <2>1 DEF Goto
  <2>3. /\ [decider[d] EXCEPT !.pc = pc] \in Work
        /\ [decider[d] EXCEPT !.pc = pc].approval = decider[d].approval
    <3>1. ASSUME NEW w \in Work
          PROVE  /\ [w EXCEPT !.pc = pc] \in Work
                 /\ [w EXCEPT !.pc = pc].approval = w.approval
      BY <2>1 DEF Work, Working
    <3> QED
      BY <1>1, <3>1
  <2> QED
    BY <1>2, <2>2, <2>3
<1>4. CASE \E pc \in Working, outcome \in Outcome :
          decider' = [decider EXCEPT ![d].pc = pc, ![d].outcome = outcome]
  <2>1. PICK pc \in Working, outcome \in Outcome :
            decider' = [decider EXCEPT ![d].pc = pc, ![d].outcome = outcome]
    BY <1>4
  <2>2. decider' = [decider EXCEPT ![d] =
                       [decider[d] EXCEPT !.pc = pc, !.outcome = outcome]]
    BY <2>1
  <2>3. /\ [decider[d] EXCEPT !.pc = pc, !.outcome = outcome] \in Work
        /\ [decider[d] EXCEPT !.pc = pc, !.outcome = outcome].approval =
               decider[d].approval
    <3>1. ASSUME NEW w \in Work
          PROVE  /\ [w EXCEPT !.pc = pc, !.outcome = outcome] \in Work
                 /\ [w EXCEPT !.pc = pc, !.outcome = outcome].approval =
                        w.approval
      BY <2>1 DEF Work, Working
    <3> QED
      BY <1>1, <3>1
  <2> QED
    BY <1>2, <2>2, <2>3
<1>5. CASE decider' = [decider EXCEPT ![d].waits = FALSE]
  <2>1. decider' = [decider EXCEPT ![d] =
                       [decider[d] EXCEPT !.waits = FALSE]]
    BY <1>5
  <2>2. /\ [decider[d] EXCEPT !.waits = FALSE] \in Work
        /\ [decider[d] EXCEPT !.waits = FALSE].approval =
               decider[d].approval
    <3>1. ASSUME NEW w \in Work
          PROVE  /\ [w EXCEPT !.waits = FALSE] \in Work
                 /\ [w EXCEPT !.waits = FALSE].approval = w.approval
      BY DEF Work
    <3> QED
      BY <1>1, <3>1
  <2> QED
    BY <1>2, <2>1, <2>2
<1> QED
  BY <1>3, <1>4, <1>5

\* Result events of an approval that exists.
LEMMA RecordType ==
    ASSUME TypeOK, NEW d \in Decider, NEW outcome \in Outcome \cup {"denied"},
           ~Idle(d), Record(d, outcome), UNCHANGED asked
    PROVE  status' \in RunStatus /\ results' \subseteq ResultType'
<1>1. decider[d].approval \in DOMAIN asked
  BY DEF TypeOK
<1>2. results \subseteq ResultType
  BY DEF TypeOK, ResultType
<1>3. [approval |-> decider[d].approval, outcome |-> outcome] \in ResultType
  BY <1>1 DEF ResultType
<1>4. results' \subseteq ResultType
  BY <1>2, <1>3 DEF Record
<1>5. status' \in RunStatus
  BY DEF TypeOK, Record, RunStatus
<1> QED
  BY <1>4, <1>5 DEF ResultType

\* The parts of TypeOK, as the actions leave or change them.
LEMMA Assemble ==
    ASSUME status \in RunStatus, generation \in Generation,
           asked \in Seq(Asked), Len(asked) <= MaxAsks,
           results \subseteq ResultType,
           caller \in [Caller -> {NoCall} \cup
               [status : {"RUNNING", "CANCELLING"}, call : Call,
                tool : Tool, digest : Digest]],
           DeciderOK,
           ledger \in [Key -> {NoRow} \cup Row],
           performed \in [Key -> Seq(Action)],
           allowed \subseteq DOMAIN asked,
           withdrawn \in BOOLEAN, upsets \in 0 .. MaxUpsets
    PROVE  TypeOK
  BY DEF TypeOK, Asked, ResultType, DeciderOK, Place, Denial

LEMMA Parts ==
    ASSUME TypeOK
    PROVE  /\ status \in RunStatus /\ generation \in Generation
           /\ asked \in Seq(Asked) /\ Len(asked) <= MaxAsks
           /\ results \subseteq ResultType
           /\ caller \in [Caller -> {NoCall} \cup
                  [status : {"RUNNING", "CANCELLING"}, call : Call,
                   tool : Tool, digest : Digest]]
           /\ DeciderOK
           /\ ledger \in [Key -> {NoRow} \cup Row]
           /\ performed \in [Key -> Seq(Action)]
           /\ allowed \subseteq DOMAIN asked
           /\ withdrawn \in BOOLEAN /\ upsets \in 0 .. MaxUpsets
  BY DEF TypeOK, Asked, ResultType, DeciderOK, Place, Denial

LEMMA LedgerType ==
    ASSUME TypeOK, NEW k \in Key
    PROVE  /\ \A x \in Digest :
                  [ledger EXCEPT ![k] = [state |-> "EXECUTING", digest |-> x]]
                      \in [Key -> {NoRow} \cup Row]
           /\ \A state \in {"SUCCEEDED", "OUTCOME_UNKNOWN", "FAILED"} :
                  ledger[k] # NoRow =>
                      [ledger EXCEPT ![k].state = state]
                          \in [Key -> {NoRow} \cup Row]
<1>1. ledger \in [Key -> {NoRow} \cup Row]
  BY Parts
<1>2. ASSUME NEW x \in Digest
      PROVE  [state |-> "EXECUTING", digest |-> x] \in Row
  BY DEF Row
<1>3. ASSUME NEW row \in Row,
             NEW state \in {"SUCCEEDED", "OUTCOME_UNKNOWN", "FAILED"}
      PROVE  [row EXCEPT !.state = state] \in Row
  BY DEF Row
<1> QED
  BY <1>1, <1>2, <1>3

\* Calls at the MCP endpoint, and what happens to the run.
LEMMA CallerType ==
    ASSUME TypeOK, NEW c \in Caller, CallerNext(c)
    PROVE  TypeOK'
<1>1. CASE \E params \in Sends(c) : CallRead(c, params)
  <2>1. PICK params \in Sends(c) : CallRead(c, params)
    BY <1>1
  <2>2. /\ params.rpc \in Rpc /\ params.tool \in Tool
        /\ params.digest \in Digest
    BY ToolCallAssumption
  <2>3. [status |-> status, call |-> [generation |-> generation,
                                      rpc |-> params.rpc],
         tool |-> params.tool, digest |-> params.digest]
            \in [status : {"RUNNING", "CANCELLING"}, call : Call,
                 tool : Tool, digest : Digest]
    BY <2>1, <2>2, Parts DEF CallRead, Call
  <2>4. caller' \in [Caller -> {NoCall} \cup
                         [status : {"RUNNING", "CANCELLING"}, call : Call,
                          tool : Tool, digest : Digest]]
    BY <2>1, <2>3, Parts DEF CallRead
  <2> QED
    BY <2>1, <2>4 DEF CallRead, TypeOK, runVars, eventVars, actionVars,
       worldVars, Idle
<1>2. CASE CallAsks(c)
  <2>1. caller[c] \in [status : {"RUNNING", "CANCELLING"}, call : Call,
                       tool : Tool, digest : Digest]
    BY <1>2, Parts DEF CallAsks
  <2>2. [call |-> caller[c].call, tool |-> caller[c].tool,
         digest |-> caller[c].digest] \in Asked
    BY <2>1 DEF Asked
  <2>3. asked \in Seq(Asked) /\ Len(asked) < MaxAsks
    BY <1>2, Parts DEF CallAsks
  <2>4. /\ asked' \in Seq(Asked) /\ Len(asked') <= MaxAsks
        /\ DOMAIN asked \subseteq DOMAIN asked'
    BY <1>2, <2>2, <2>3, ToolCallAssumption DEF CallAsks
  <2>5. caller' \in [Caller -> {NoCall} \cup
                         [status : {"RUNNING", "CANCELLING"}, call : Call,
                          tool : Tool, digest : Digest]]
    BY <1>2, Parts DEF CallAsks
  <2>6. status' \in RunStatus
    BY <1>2, Parts DEF CallAsks, RunStatus
  <2>7. results' \subseteq ResultType'
    BY <1>2, <2>4, Parts DEF CallAsks, ResultType
  <2>8. DeciderOK'
    BY <1>2, <2>4, Parts DEF CallAsks, DeciderOK, Idle, Place, Denial, Work
  <2>9. allowed' \subseteq DOMAIN asked'
    BY <1>2, <2>4, Parts DEF CallAsks
  <2> QED
    BY <1>2, <2>4, <2>5, <2>6, <2>7, <2>8, <2>9, Parts, Assemble
    DEF CallAsks, TypeOK, actionVars, worldVars, Asked, ResultType, DeciderOK,
        Place, Denial, Work
<1>3. CASE CallFails(c)
  BY <1>3 DEF CallFails, TypeOK, runVars, eventVars, actionVars, worldVars,
     Idle
<1> QED
  BY <1>1, <1>2, <1>3 DEF CallerNext

LEMMA WorldType ==
    ASSUME TypeOK, NextAttempt \/ RunMoves \/ Withdraw
    PROVE  TypeOK'
<1>1. Upset => upsets' \in 0 .. MaxUpsets
  BY Parts, ToolCallAssumption DEF Upset
<1>2. CASE NextAttempt
  <2>1. generation' \in Generation
    BY <1>2, Parts, ToolCallAssumption DEF NextAttempt, Generation
  <2> QED
    BY <1>1, <1>2, <2>1 DEF NextAttempt, TypeOK, eventVars, actionVars, Idle
<1>3. CASE RunMoves
  BY <1>1, <1>3 DEF RunMoves, TypeOK, RunStatus, eventVars, actionVars, Idle
<1>4. CASE Withdraw
  BY <1>1, <1>4 DEF Withdraw, TypeOK, runVars, eventVars, actionVars, Idle
<1> QED
  BY <1>2, <1>3, <1>4

\* An action that leaves these variables alone keeps the rest of TypeOK.
LEMMA DecisionFrame ==
    ASSUME TypeOK,
           UNCHANGED <<generation, asked, caller>>,
           status' \in RunStatus, results' \subseteq ResultType', DeciderOK',
           ledger' \in [Key -> {NoRow} \cup Row],
           performed' \in [Key -> Seq(Action)],
           allowed' \subseteq DOMAIN asked,
           withdrawn' \in BOOLEAN, upsets' \in 0 .. MaxUpsets
    PROVE  TypeOK'
  BY Parts DEF TypeOK, Asked, ResultType, DeciderOK, Place, Denial, Work

LEMMA OutcomeType ==
    /\ \A row : ReplayOf(row) \in Outcome
    /\ \A outcome : FinalState(outcome) \in
           {"SUCCEEDED", "OUTCOME_UNKNOWN", "FAILED"}
  BY DEF ReplayOf, FinalState, Outcome

\* The outcomes of a look at the row.
LEMMA LookCases ==
    ASSUME NEW d \in Decider, Look(d)
    PROVE  \/ Goto(d, "insert")
           \/ /\ ledger[WorkKey(d)] # NoRow
              /\ ledger[WorkKey(d)].digest = WorkDigest(d)
              /\ \/ Goto(d, "mark")
                 \/ Answer(d, ReplayOf(ledger[WorkKey(d)]))
           \/ Answer(d, "conflict")
<1>1. PICK row, digest : row = ledger[WorkKey(d)] /\ digest = WorkDigest(d)
  OBVIOUS
<1>2. CASE row = NoRow
  <2>1. LedgerGate(row, digest) = "start"
    BY <1>2 DEF LedgerGate
  <2> QED
    BY <1>1, <2>1 DEF Look
<1>3. CASE row # NoRow /\ row.digest # digest
  <2>1. LedgerGate(row, digest) = "conflict"
    BY <1>3 DEF LedgerGate
  <2> QED
    BY <1>1, <2>1 DEF Look
<1>4. CASE row # NoRow /\ row.digest = digest /\ row.state = "EXECUTING"
  <2>1. LedgerGate(row, digest) = "unknown"
    BY <1>4 DEF LedgerGate
  <2> QED
    BY <1>1, <1>4, <2>1 DEF Look
<1>5. CASE row # NoRow /\ row.digest = digest /\ row.state # "EXECUTING"
  <2>1. LedgerGate(row, digest) = "replay"
    BY <1>5 DEF LedgerGate
  <2> QED
    BY <1>1, <1>5, <2>1 DEF Look
<1> QED
  BY <1>2, <1>3, <1>4, <1>5

\* Where "allow" leads, whether the tool is listed or not.
LEMMA AllowFacts ==
    ASSUME NEW d \in Decider, NEW a \in DOMAIN asked, Allow(d, a)
    PROVE  \E p \in DOMAIN asked, pc \in {"find", "answered"},
              outcome \in {"none", "stale"} :
               /\ Selects(a, p)
               /\ decider' = [decider EXCEPT ![d] =
                      [pc |-> pc, approval |-> p, generation |-> generation,
                       outcome |-> outcome, waits |-> TRUE]]
<1>1. CASE withdrawn
  BY <1>1 DEF Allow
<1>2. CASE ~withdrawn
  BY <1>2 DEF Allow
<1> QED
  BY <1>1, <1>2

LEMMA DecideType ==
    ASSUME TypeOK, NEW d \in Decider, Decide(d)
    PROVE  TypeOK'
<1>1. PICK a \in DOMAIN asked : Deny(d, a) \/ Allow(d, a)
  BY DEF Decide
<1>2. CASE Deny(d, a)
  <2>1. PICK p \in DOMAIN asked : decider' =
            [decider EXCEPT ![d] = [pc |-> "deny", approval |-> p]]
    BY <1>2 DEF Deny
  <2>2. [pc |-> "deny", approval |-> p] \in Place
    BY AskedType DEF Place, Denial
  <2>3. DeciderOK'
    BY <1>2, <2>1, <2>2, PlaceType DEF Deny, eventVars
  <2> QED
    BY <1>2, <2>3, Parts, DecisionFrame
    DEF Deny, runVars, eventVars, actionVars, worldVars, ResultType
<1>3. CASE Allow(d, a)
  <2>1. PICK p \in DOMAIN asked, pc \in {"find", "answered"},
             outcome \in {"none", "stale"} :
            decider' = [decider EXCEPT ![d] =
                [pc |-> pc, approval |-> p, generation |-> generation,
                 outcome |-> outcome, waits |-> TRUE]]
    BY <1>3, AllowFacts
  <2>2. [pc |-> pc, approval |-> p, generation |-> generation,
         outcome |-> outcome, waits |-> TRUE] \in Place
    BY AskedType, Parts DEF Place, Work, BackendPc, Outcome
  <2>3. DeciderOK'
    BY <1>3, <2>1, <2>2, PlaceType DEF Allow, eventVars
  <2>4. allowed' \subseteq DOMAIN asked
    BY <1>1, <1>3, Parts DEF Allow
  <2> QED
    BY <1>3, <2>3, <2>4, Parts, DecisionFrame
    DEF Allow, runVars, eventVars, actionVars, worldVars, ResultType
<1> QED
  BY <1>1, <1>2, <1>3

LEMMA LookType ==
    ASSUME TypeOK, NEW d \in Decider, decider[d].pc \in Working, Look(d),
           UNCHANGED asked
    PROVE  DeciderOK'
<1>1. \/ Goto(d, "insert")
      \/ Goto(d, "mark")
      \/ \E outcome \in Outcome : Answer(d, outcome)
  BY OutcomeType, LookCases DEF Outcome
<1>2. \/ \E pc \in Working : Goto(d, pc)
      \/ \E pc \in Working, outcome \in Outcome :
            decider' = [decider EXCEPT ![d].pc = pc, ![d].outcome = outcome]
  BY <1>1 DEF Answer, Working, BackendPc
<1> QED
  BY <1>2, WorkMoveType

\* The steps that only move a decision, or record its outcome.
LEMMA QuietType ==
    ASSUME TypeOK, NEW d \in Decider,
           \/ DenyWrite(d) \/ AllowWrite(d) \/ BackendRefuses(d) \/ Find(d)
           \/ FinishReads(d) \/ AgentGivesUp(d) \/ BackendCrashes(d)
    PROVE  TypeOK'
<1>1. CASE DenyWrite(d)
  <2>1. ~Idle(d)
    BY <1>1 DEF DenyWrite, At, Idle, NoWork
  <2>2. status' \in RunStatus /\ results' \subseteq ResultType'
    BY <1>1, <2>1, RecordType DEF DenyWrite
  <2>3. DeciderOK'
    BY <1>1, IdleType DEF DenyWrite
  <2> QED
    BY <1>1, <2>2, <2>3, Parts, DecisionFrame
    DEF DenyWrite, actionVars, worldVars
<1>2. CASE AllowWrite(d)
  <2>1. decider[d] \in Work /\ ~Idle(d)
    BY <1>2, WorkType DEF AllowWrite, At, Working
  <2>2. CASE decider[d].waits /\ decider[d].outcome \in Recorded
    <3>1. decider[d].outcome \in Outcome
      BY <2>2 DEF Recorded, Outcome
    <3> QED
      BY <1>2, <2>1, <2>2, <3>1, RecordType, IdleType, Parts, DecisionFrame
      DEF AllowWrite, actionVars, worldVars
  <2>3. CASE ~(decider[d].waits /\ decider[d].outcome \in Recorded)
    BY <1>2, <2>3, IdleType, Parts, DecisionFrame
    DEF AllowWrite, actionVars, worldVars, ResultType
  <2> QED
    BY <2>2, <2>3
<1>3. CASE BackendRefuses(d)
  <2>1. decider[d].pc \in Working
    BY <1>3 DEF BackendRefuses, At, Working, BackendPc
  <2>2. \E pc \in Working, outcome \in Outcome :
            decider' = [decider EXCEPT ![d].pc = pc, ![d].outcome = outcome]
    BY <1>3 DEF BackendRefuses, Answer, Working, Outcome
  <2>3. DeciderOK'
    BY <1>3, <2>1, <2>2, WorkMoveType DEF BackendRefuses, eventVars
  <2> QED
    BY <1>3, <2>3, Parts, DecisionFrame
    DEF BackendRefuses, runVars, eventVars, actionVars, worldVars, ResultType
<1>4. CASE Find(d)
  <2>1. decider[d].pc \in Working
    BY <1>4 DEF Find, At, Working, BackendPc
  <2>2. DeciderOK'
    BY <1>4, <2>1, LookType DEF Find, eventVars
  <2> QED
    BY <1>4, <2>2, Parts, DecisionFrame
    DEF Find, runVars, eventVars, actionVars, worldVars, ResultType
<1>5. CASE FinishReads(d)
  <2>1. decider[d].pc \in Working
    BY <1>5 DEF FinishReads, At, Working, BackendPc
  <2>2. \E pc \in Working : Goto(d, pc)
    BY <1>5 DEF FinishReads, Working, BackendPc
  <2>3. DeciderOK'
    BY <1>5, <2>1, <2>2, WorkMoveType DEF FinishReads, eventVars
  <2> QED
    BY <1>5, <2>3, Parts, DecisionFrame
    DEF FinishReads, runVars, eventVars, actionVars, worldVars, ResultType
<1>6. Upset => upsets' \in 0 .. MaxUpsets
  BY Parts, ToolCallAssumption DEF Upset
<1>7. CASE AgentGivesUp(d)
  <2>1. decider[d].pc \in Working
    BY <1>7 DEF AgentGivesUp, Working
  <2>2. DeciderOK'
    BY <1>7, <2>1, WorkMoveType DEF AgentGivesUp, eventVars
  <2> QED
    BY <1>6, <1>7, <2>2, Parts, DecisionFrame
    DEF AgentGivesUp, runVars, eventVars, actionVars, ResultType
<1>8. CASE BackendCrashes(d)
  BY <1>6, <1>8, IdleType, Parts, DecisionFrame
  DEF BackendCrashes, runVars, eventVars, actionVars, ResultType
<1> QED
  BY <1>1, <1>2, <1>3, <1>4, <1>5, <1>7, <1>8

\* The steps that write the ledger or reach the provider.
LEMMA ExecutionType ==
    ASSUME TypeOK, NEW d \in Decider, WorkOK(d),
           \/ Insert(d) \/ MarkUnknown(d) \/ FinishWrites(d)
           \/ \E outcome \in ProviderSays : Execute(d, outcome)
    PROVE  TypeOK'
<1>1. decider[d].pc \in Working
  BY DEF Insert, MarkUnknown, FinishWrites, Execute, At, Working, BackendPc
<1>2. WorkKey(d) \in Key /\ WorkDigest(d) \in Digest
  BY <1>1, WorkType
<1>3. CASE Insert(d)
  <2>1. ledger' \in [Key -> {NoRow} \cup Row]
    <3>1. CASE Admits(WorkKey(d))
      <4>1. ledger' = [ledger EXCEPT ![WorkKey(d)] =
                 [state |-> "EXECUTING", digest |-> WorkDigest(d)]]
        BY <1>3, <3>1 DEF Insert
      <4> QED
        BY <1>2, <4>1, LedgerType
    <3>2. CASE ~Admits(WorkKey(d))
      BY <1>3, <3>2, Parts DEF Insert
    <3> QED
      BY <3>1, <3>2
  <2>2. ASSUME Admits(WorkKey(d))
        PROVE  DeciderOK'
    <3>1. Goto(d, "broker") /\ UNCHANGED asked
      BY <1>3, <2>2 DEF Insert, eventVars
    <3> QED
      BY <1>1, <3>1, WorkMoveType DEF Working, BackendPc
  <2>3. ASSUME ~Admits(WorkKey(d))
        PROVE  DeciderOK'
    <3>1. Look(d) /\ UNCHANGED asked
      BY <1>3, <2>3 DEF Insert, eventVars
    <3> QED
      BY <1>1, <3>1, LookType
  <2>4. DeciderOK'
    BY <2>2, <2>3
  <2> QED
    BY <1>3, <2>1, <2>4, Parts, DecisionFrame
    DEF Insert, runVars, eventVars, worldVars, ResultType
<1>4. CASE MarkUnknown(d)
  <2>1. ledger[WorkKey(d)] # NoRow
    BY <1>1, <1>4 DEF MarkUnknown, At, WorkOK
  <2>2. ledger' \in [Key -> {NoRow} \cup Row]
    BY <1>2, <1>4, <2>1, LedgerType DEF MarkUnknown, SetState
  <2>3. \E pc \in Working, outcome \in Outcome :
            decider' = [decider EXCEPT ![d].pc = pc, ![d].outcome = outcome]
    BY <1>4 DEF MarkUnknown, Answer, Working, Outcome
  <2>4. DeciderOK'
    BY <1>1, <1>4, <2>3, WorkMoveType DEF MarkUnknown, eventVars
  <2> QED
    BY <1>4, <2>2, <2>4, Parts, DecisionFrame
    DEF MarkUnknown, runVars, eventVars, worldVars, ResultType
<1>5. CASE FinishWrites(d)
  <2>1. ledger[WorkKey(d)] # NoRow
    BY <1>1, <1>5 DEF FinishWrites, At, WorkOK
  <2>2. ledger' \in [Key -> {NoRow} \cup Row]
    BY <1>2, <1>5, <2>1, LedgerType, OutcomeType DEF FinishWrites, SetState
  <2>3. \E pc \in Working : Goto(d, pc)
    BY <1>5 DEF FinishWrites, Working
  <2>4. DeciderOK'
    BY <1>1, <1>5, <2>3, WorkMoveType DEF FinishWrites, eventVars
  <2> QED
    BY <1>5, <2>2, <2>4, Parts, DecisionFrame
    DEF FinishWrites, runVars, eventVars, worldVars, ResultType
<1>6. CASE \E outcome \in ProviderSays : Execute(d, outcome)
  <2>1. PICK outcome \in ProviderSays : Execute(d, outcome)
    BY <1>6
  <2>2. performed' \in [Key -> Seq(Action)]
    <3>1. performed \in [Key -> Seq(Action)]
      BY Parts
    <3>2. Append(performed[WorkKey(d)], WorkAction(d)) \in Seq(Action)
      BY <1>1, <1>2, <3>1, WorkType
    <3> QED
      BY <1>2, <2>1, <3>1, <3>2 DEF Execute, Act
  <2>3. outcome \in Outcome
    BY ToolCallAssumption DEF Outcome
  <2>4. \E pc \in Working, o \in Outcome :
            decider' = [decider EXCEPT ![d].pc = pc, ![d].outcome = o]
    BY <2>1, <2>3 DEF Execute, Working, BackendPc
  <2>5. DeciderOK'
    BY <1>1, <2>1, <2>4, WorkMoveType DEF Execute, eventVars
  <2> QED
    BY <2>1, <2>2, <2>5, Parts, DecisionFrame
    DEF Execute, runVars, eventVars, worldVars, ResultType
<1> QED
  BY <1>3, <1>4, <1>5, <1>6

\* Every step keeps the types, given what the decisions know.
LEMMA StepType ==
    ASSUME TypeOK, \A d \in Decider : WorkOK(d), [Next]_vars
    PROVE  TypeOK'
<1>1. CASE \E c \in Caller : CallerNext(c)
  BY <1>1, CallerType
<1>2. CASE \E d \in Decider : DeciderStep(d)
  <2>1. PICK d \in Decider : DeciderStep(d)
    BY <1>2
  <2>2. CASE \/ Insert(d) \/ MarkUnknown(d) \/ FinishWrites(d)
            \/ \E outcome \in ProviderSays : Execute(d, outcome)
    BY <2>2, ExecutionType
  <2>3. CASE \/ DenyWrite(d) \/ AllowWrite(d) \/ BackendRefuses(d)
            \/ Find(d) \/ FinishReads(d)
    BY <2>3, QuietType
  <2> QED
    BY <2>1, <2>2, <2>3 DEF DeciderStep
<1>3. CASE \E d \in Decider : Decide(d)
  BY <1>3, DecideType
<1>4. CASE \E d \in Decider : AgentGivesUp(d) \/ BackendCrashes(d)
  BY <1>4, QuietType
<1>5. CASE NextAttempt \/ RunMoves \/ Withdraw
  BY <1>5, WorldType
<1>6. CASE UNCHANGED vars
  BY <1>6 DEF vars, TypeOK, runVars, eventVars, actionVars, worldVars, Idle
<1> QED
  BY <1>1, <1>2, <1>3, <1>4, <1>5, <1>6 DEF Next

-----------------------------------------------------------------------------
(***************************************************************************)
(* What the steps leave of the other conjuncts.                            *)
(***************************************************************************)
AskedKept == \A a \in DOMAIN asked : a \in DOMAIN asked' /\ asked'[a] = asked[a]

\* What the others may do to the row and the actions of a decision.
Undisturbed(e) ==
    decider[e].pc \in Working =>
        /\ ledger[WorkKey(e)] # NoRow =>
               /\ ledger'[WorkKey(e)] # NoRow
               /\ ledger'[WorkKey(e)].digest = ledger[WorkKey(e)].digest
        /\ performed[WorkKey(e)] # << >> \/ At(e, "broker") =>
               performed'[WorkKey(e)] = performed[WorkKey(e)]

LEMMA KeyKept ==
    ASSUME TypeOK, NEW e \in Decider, decider[e].pc \in Working, AskedKept,
           decider'[e].approval = decider[e].approval,
           decider'[e].generation = decider[e].generation
    PROVE  WorkKey(e)' = WorkKey(e) /\ WorkDigest(e)' = WorkDigest(e)
  BY WorkType DEF WorkKey, WorkDigest, AskedKept

\* An action stays, with its arguments.
LEMMA DidKept ==
    ASSUME NEW k, NEW digest, Did(k, digest),
           performed[k] # << >> => performed'[k] = performed[k]
    PROVE  \E x \in Action : performed'[k] = <<x>> /\ x.digest = digest
<1>1. \A x : <<x>> # << >>
  OBVIOUS
<1> QED
  BY <1>1 DEF Did

LEMMA WorkKept ==
    ASSUME TypeOK, NEW e \in Decider, WorkOK(e), AskedKept,
           decider'[e] = decider[e], allowed \subseteq allowed', Undisturbed(e)
    PROVE  WorkOK(e)'
<1>1. CASE decider[e].pc \in Working
  <2>1. WorkKey(e)' = WorkKey(e) /\ WorkDigest(e)' = WorkDigest(e)
    BY <1>1, KeyKept
  <2>2. /\ decider[e].approval \in allowed'
        /\ decider[e].pc \in {"mark", "broker", "finish", "settle"} =>
               ledger'[WorkKey(e)] # NoRow
        /\ decider[e].pc \in {"broker", "finish", "settle"} =>
               ledger'[WorkKey(e)].digest = WorkDigest(e)
    BY <1>1 DEF WorkOK, Undisturbed
  <2>3. decider[e].pc = "broker" => performed'[WorkKey(e)] = << >>
    BY <1>1 DEF WorkOK, Undisturbed, At
  <2>4. /\ decider[e].pc \in {"finish", "settle", "answered"}
        /\ decider[e].outcome = "ok"
        => \E x \in Action : /\ performed'[WorkKey(e)] = <<x>>
                              /\ x.digest = WorkDigest(e)
    BY <1>1, DidKept DEF WorkOK, Undisturbed
  <2> QED
    BY <2>1, <2>2, <2>3, <2>4 DEF WorkOK, Did
<1>2. CASE decider[e].pc \notin Working
  BY <1>2 DEF WorkOK
<1> QED
  BY <1>1, <1>2

LEMMA ResultsKept ==
    ASSUME TypeOK, NEW r \in results, ResultOK(r), AskedKept,
           \A k \in Key : performed[k] # << >> => performed'[k] = performed[k]
    PROVE  ResultOK(r)'
<1>1. CASE r.outcome = "ok"
  <2>1. r.approval \in DOMAIN asked
    BY Parts DEF ResultType
  <2>2. asked[r.approval] \in Asked /\ asked'[r.approval] = asked[r.approval]
    BY <2>1, AskedType DEF AskedKept
  <2>3. PICK g \in Generation :
            Did([generation |-> g, call |-> asked[r.approval].call],
                asked[r.approval].digest)
    BY <1>1 DEF ResultOK
  <2>4. [generation |-> g, call |-> asked[r.approval].call] \in Key
    BY <2>2, AskedParts DEF Key
  <2>5. \E x \in Action :
            /\ performed'[[generation |-> g,
                           call |-> asked[r.approval].call]] = <<x>>
            /\ x.digest = asked[r.approval].digest
    BY <2>3, <2>4, DidKept
  <2> QED
    BY <2>2, <2>5 DEF ResultOK, Did
<1>2. CASE r.outcome # "ok"
  BY <1>2 DEF ResultOK
<1> QED
  BY <1>1, <1>2

LEMMA AllowedKept ==
    ASSUME TypeOK, PerformedMeansAllowed, AskedKept,
           allowed \subseteq allowed',
           NEW k \in Key, performed'[k] = performed[k]
    PROVE  \A i \in DOMAIN performed'[k] : \E a \in allowed' :
               asked'[a] = [call   |-> k.call,
                            tool   |-> performed'[k][i].tool,
                            digest |-> performed'[k][i].digest]
<1>1. ASSUME NEW i \in DOMAIN performed[k]
      PROVE  \E a \in allowed' :
                 asked'[a] = [call   |-> k.call,
                              tool   |-> performed[k][i].tool,
                              digest |-> performed[k][i].digest]
  <2>1. PICK a \in allowed :
            asked[a] = [call   |-> k.call,
                        tool   |-> performed[k][i].tool,
                        digest |-> performed[k][i].digest]
    BY DEF PerformedMeansAllowed
  <2>2. a \in DOMAIN asked
    BY Parts
  <2> QED
    BY <2>1, <2>2 DEF AskedKept
<1> QED
  BY <1>1

LEMMA BrokersKept ==
    ASSUME TypeOK, OneBroker, AskedKept,
           \A e \in Decider : decider'[e].pc = "broker" =>
               /\ decider[e].pc = "broker"
               /\ decider'[e].approval = decider[e].approval
               /\ decider'[e].generation = decider[e].generation
    PROVE  OneBroker'
<1>1. ASSUME NEW e \in Decider, NEW f \in Decider,
             decider'[e].pc = "broker", decider'[f].pc = "broker",
             WorkKey(e)' = WorkKey(f)'
      PROVE  e = f
  <2>1. WorkKey(e)' = WorkKey(e) /\ WorkKey(f)' = WorkKey(f)
    BY <1>1, KeyKept DEF Working, BackendPc
  <2> QED
    BY <1>1, <2>1 DEF OneBroker, At
<1> QED
  BY <1>1 DEF OneBroker, At

\* Steps of the calls and of the rest of the system.
LEMMA OutsideStep ==
    ASSUME IInv, TypeOK', AskedKept,
           UNCHANGED <<decider, ledger, performed, allowed, results>>
    PROVE  IInv'
<1>1. TypeOK
  BY DEF IInv
<1>2. \A d \in Decider : WorkOK(d)'
  BY <1>1, WorkKept DEF IInv, Undisturbed
<1>3. OneBroker'
  BY <1>1, BrokersKept DEF IInv
<1>4. \A k \in Key : RowOK(k)'
  BY DEF IInv, RowOK, Did
<1>5. \A r \in results' : ResultOK(r)'
  BY <1>1, ResultsKept DEF IInv
<1>6. PerformedMeansAllowed'
  BY <1>1, AllowedKept DEF IInv, PerformedMeansAllowed
<1> QED
  BY <1>2, <1>3, <1>4, <1>5, <1>6 DEF IInv

\* Steps of a decision that leave the ledger and the provider alone.
LEMMA DecisionStep ==
    ASSUME IInv, TypeOK', NEW d \in Decider,
           UNCHANGED <<asked, ledger, performed>>, allowed \subseteq allowed',
           \A e \in Decider \ {d} : decider'[e] = decider[e],
           WorkOK(d)',
           decider'[d].pc = "broker" =>
               /\ decider[d].pc = "broker"
               /\ decider'[d].approval = decider[d].approval
               /\ decider'[d].generation = decider[d].generation,
           \A r \in results' : r \in results \/ ResultOK(r)'
    PROVE  IInv'
<1>1. TypeOK /\ AskedKept
  BY DEF IInv, AskedKept
<1>2. \A e \in Decider : WorkOK(e)'
  <2>1. ASSUME NEW e \in Decider \ {d}
        PROVE  WorkOK(e)'
    BY <1>1, WorkKept DEF IInv, Undisturbed
  <2> QED
    BY <2>1
<1>3. OneBroker'
  BY <1>1, BrokersKept DEF IInv
<1>4. \A k \in Key : RowOK(k)'
  BY DEF IInv, RowOK, Did
<1>5. \A r \in results' : ResultOK(r)'
  BY <1>1, ResultsKept DEF IInv
<1>6. PerformedMeansAllowed'
  BY <1>1, AllowedKept DEF IInv, PerformedMeansAllowed
<1> QED
  BY <1>2, <1>3, <1>4, <1>5, <1>6 DEF IInv

-----------------------------------------------------------------------------
(***************************************************************************)
(* The steps of a decision, first those that only move it.                 *)
(***************************************************************************)
LEMMA GotoFacts ==
    ASSUME TypeOK, NEW d \in Decider, decider[d].pc \in Working,
           NEW pc, Goto(d, pc)
    PROVE  /\ decider'[d].pc = pc
           /\ decider'[d].approval = decider[d].approval
           /\ decider'[d].generation = decider[d].generation
           /\ decider'[d].outcome = decider[d].outcome
           /\ \A e \in Decider \ {d} : decider'[e] = decider[e]
<1>1. decider \in [Decider -> Place] /\ decider[d] \in Work
  BY WorkType DEF TypeOK, Place, Denial
<1>2. decider' = [decider EXCEPT ![d] = [decider[d] EXCEPT !.pc = pc]]
  BY DEF Goto
<1>3. ASSUME NEW w \in Work
      PROVE  /\ [w EXCEPT !.pc = pc].pc = pc
             /\ [w EXCEPT !.pc = pc].approval = w.approval
             /\ [w EXCEPT !.pc = pc].generation = w.generation
             /\ [w EXCEPT !.pc = pc].outcome = w.outcome
  BY DEF Work
<1> QED
  BY <1>1, <1>2, <1>3

LEMMA AnswerFacts ==
    ASSUME TypeOK, NEW d \in Decider, decider[d].pc \in Working,
           NEW outcome, Answer(d, outcome)
    PROVE  /\ decider'[d].pc = "answered"
           /\ decider'[d].approval = decider[d].approval
           /\ decider'[d].generation = decider[d].generation
           /\ decider'[d].outcome = outcome
           /\ \A e \in Decider \ {d} : decider'[e] = decider[e]
<1>1. decider \in [Decider -> Place] /\ decider[d] \in Work
  BY WorkType DEF TypeOK, Place, Denial
<1> QED
  BY <1>1 DEF Answer, Work

\* A decision that is not in progress afterwards knows nothing.
LEMMA ReturnFacts ==
    ASSUME TypeOK, NEW d \in Decider, Return(d)
    PROVE  /\ decider'[d].pc \notin Working /\ WorkOK(d)'
           /\ \A e \in Decider \ {d} : decider'[e] = decider[e]
<1>1. decider'[d] = NoWork /\ \A e \in Decider \ {d} : decider'[e] = decider[e]
  BY Parts DEF Return, DeciderOK
<1> QED
  BY <1>1 DEF WorkOK, NoWork, Working, BackendPc

\* An outcome "ok" that the decision brings back was performed.
LEMMA RecordedResult ==
    ASSUME IInv, NEW d \in Decider, decider[d].pc \in Working,
           decider[d].outcome = "ok" => Did(WorkKey(d), WorkDigest(d)),
           Record(d, decider[d].outcome), UNCHANGED <<asked, performed>>,
           NEW r \in results'
    PROVE  r \in results \/ ResultOK(r)'
<1>1. CASE r \notin results
  <2>1. r = [approval |-> decider[d].approval, outcome |-> decider[d].outcome]
    BY <1>1 DEF Record
  <2>2. /\ decider[d].generation \in Generation
        /\ WorkKey(d) = [generation |-> decider[d].generation,
                         call |-> asked[r.approval].call]
        /\ WorkDigest(d) = asked[r.approval].digest
    BY <2>1, WorkType DEF IInv, Work, WorkKey, WorkDigest
  <2>3. CASE decider[d].outcome = "ok"
    <3>1. Did([generation |-> decider[d].generation,
               call |-> asked[r.approval].call], asked[r.approval].digest)
      BY <2>2, <2>3
    <3> QED
      BY <2>2, <3>1 DEF ResultOK, Did
  <2>4. CASE decider[d].outcome # "ok"
    BY <2>1, <2>4 DEF ResultOK
  <2> QED
    BY <2>3, <2>4
<1> QED
  BY <1>1

LEMMA DecideStep ==
    ASSUME IInv, TypeOK', NEW d \in Decider, Decide(d)
    PROVE  IInv'
<1>1. PICK a \in DOMAIN asked : Deny(d, a) \/ Allow(d, a)
  BY DEF Decide
<1>2. decider \in [Decider -> Place]
  BY DEF IInv, TypeOK, Place, Denial
<1>3. CASE Deny(d, a)
  <2>1. PICK p \in DOMAIN asked : decider' =
            [decider EXCEPT ![d] = [pc |-> "deny", approval |-> p]]
    BY <1>3 DEF Deny
  <2>2. /\ decider'[d].pc = "deny"
        /\ \A e \in Decider \ {d} : decider'[e] = decider[e]
    BY <1>2, <2>1
  <2>3. WorkOK(d)'
    BY <2>2 DEF WorkOK, Working, BackendPc
  <2> QED
    BY <1>3, <2>2, <2>3, DecisionStep
    DEF Deny, runVars, eventVars, actionVars
<1>4. CASE Allow(d, a)
  <2>1. PICK p \in DOMAIN asked, pc \in {"find", "answered"},
             outcome \in {"none", "stale"} :
            /\ Selects(a, p)
            /\ decider' = [decider EXCEPT ![d] =
                   [pc |-> pc, approval |-> p, generation |-> generation,
                    outcome |-> outcome, waits |-> TRUE]]
    BY <1>4, AllowFacts
  <2>2. /\ decider'[d].pc \in {"find", "answered"}
        /\ decider'[d].approval = a
        /\ decider'[d].outcome \in {"none", "stale"}
        /\ \A e \in Decider \ {d} : decider'[e] = decider[e]
    BY <1>2, <2>1 DEF Selects
  <2>3. a \in allowed' /\ allowed \subseteq allowed'
    BY <1>4 DEF Allow
  <2>4. WorkOK(d)'
    BY <2>2, <2>3 DEF WorkOK, Working, BackendPc
  <2> QED
    BY <1>4, <2>2, <2>3, <2>4, DecisionStep
    DEF Allow, runVars, eventVars, actionVars
<1> QED
  BY <1>1, <1>3, <1>4

LEMMA WriteStep ==
    ASSUME IInv, TypeOK', NEW d \in Decider, DenyWrite(d) \/ AllowWrite(d)
    PROVE  IInv'
<1>1. TypeOK /\ WorkOK(d)
  BY DEF IInv
<1>2. /\ decider'[d].pc \notin Working /\ WorkOK(d)'
      /\ \A e \in Decider \ {d} : decider'[e] = decider[e]
      /\ UNCHANGED <<asked, ledger, performed, allowed>>
  BY <1>1, ReturnFacts DEF DenyWrite, AllowWrite, actionVars
<1>3. ASSUME NEW r \in results'
      PROVE  r \in results \/ ResultOK(r)'
  <2>1. CASE DenyWrite(d)
    <3>1. r \in results \/ r.outcome = "denied"
      BY <2>1 DEF DenyWrite, Record
    <3> QED
      BY <3>1 DEF ResultOK
  <2>2. CASE AllowWrite(d)
    <3>1. decider[d].pc = "answered"
      BY <2>2 DEF AllowWrite, At
    <3>2. CASE Record(d, decider[d].outcome)
      <4>1. decider[d].outcome = "ok" => Did(WorkKey(d), WorkDigest(d))
        BY <1>1, <3>1 DEF WorkOK, Working
      <4> QED
        BY <1>2, <3>1, <3>2, <4>1, RecordedResult DEF Working
    <3>3. CASE UNCHANGED results
      BY <3>3
    <3> QED
      BY <2>2, <3>2, <3>3 DEF AllowWrite
  <2> QED
    BY <2>1, <2>2
<1>4. decider'[d].pc # "broker"
  BY <1>2 DEF Working, BackendPc
<1> QED
  BY <1>2, <1>3, <1>4, DecisionStep

LEMMA CrashStep ==
    ASSUME IInv, TypeOK', NEW d \in Decider, BackendCrashes(d)
    PROVE  IInv'
<1>1. /\ decider'[d].pc \notin Working /\ WorkOK(d)'
      /\ \A e \in Decider \ {d} : decider'[e] = decider[e]
      /\ UNCHANGED <<asked, ledger, performed, allowed, results>>
  BY ReturnFacts DEF IInv, BackendCrashes, actionVars, eventVars
<1>2. decider'[d].pc # "broker"
  BY <1>1 DEF Working, BackendPc
<1> QED
  BY <1>1, <1>2, DecisionStep

LEMMA RefusesStep ==
    ASSUME IInv, TypeOK', NEW d \in Decider, BackendRefuses(d)
    PROVE  IInv'
<1>1. TypeOK /\ WorkOK(d) /\ decider[d].pc \in Working
  BY DEF IInv, BackendRefuses, At, Working, BackendPc
<1>2. UNCHANGED <<asked, ledger, performed, allowed, results>>
  BY DEF BackendRefuses, actionVars, eventVars
<1>3. /\ decider'[d].pc = "answered" /\ decider'[d].outcome = "stale"
      /\ decider'[d].approval = decider[d].approval
      /\ \A e \in Decider \ {d} : decider'[e] = decider[e]
  BY <1>1, AnswerFacts DEF BackendRefuses
<1>4. WorkOK(d)'
  BY <1>1, <1>2, <1>3 DEF WorkOK
<1> QED
  BY <1>2, <1>3, <1>4, DecisionStep

LEMMA GivesUpStep ==
    ASSUME IInv, TypeOK', NEW d \in Decider, AgentGivesUp(d)
    PROVE  IInv'
<1>1. TypeOK /\ WorkOK(d) /\ decider[d].pc \in Working
  BY DEF IInv, AgentGivesUp, Working
<1>2. decider \in [Decider -> Place] /\ decider[d] \in Work
  BY <1>1, WorkType DEF TypeOK, Place, Denial
<1>3. decider' = [decider EXCEPT ![d] = [decider[d] EXCEPT !.waits = FALSE]]
  BY DEF AgentGivesUp
<1>4. ASSUME NEW w \in Work
      PROVE  /\ [w EXCEPT !.waits = FALSE].pc = w.pc
             /\ [w EXCEPT !.waits = FALSE].approval = w.approval
             /\ [w EXCEPT !.waits = FALSE].generation = w.generation
             /\ [w EXCEPT !.waits = FALSE].outcome = w.outcome
  BY DEF Work
<1>5. /\ decider'[d].pc = decider[d].pc
      /\ decider'[d].approval = decider[d].approval
      /\ decider'[d].generation = decider[d].generation
      /\ decider'[d].outcome = decider[d].outcome
      /\ \A e \in Decider \ {d} : decider'[e] = decider[e]
  BY <1>2, <1>3, <1>4
<1>6. UNCHANGED <<asked, ledger, performed, allowed, results>>
  BY DEF AgentGivesUp, actionVars, eventVars
<1>7. WorkKey(d)' = WorkKey(d) /\ WorkDigest(d)' = WorkDigest(d)
  BY <1>1, <1>5, <1>6, KeyKept DEF AskedKept
<1>8. WorkOK(d)'
  BY <1>1, <1>5, <1>6, <1>7 DEF WorkOK, Did
<1> QED
  BY <1>5, <1>6, <1>8, DecisionStep

LEMMA LookStep ==
    ASSUME IInv, TypeOK', NEW d \in Decider, decider[d].pc \in Working,
           Look(d),
           UNCHANGED <<asked, ledger, performed, allowed, results>>
    PROVE  IInv'
<1>1. TypeOK /\ WorkOK(d) /\ WorkKey(d) \in Key
  BY WorkType DEF IInv
<1>2. UNCHANGED <<asked, ledger, performed, allowed, results>>
  OBVIOUS
<1>3. decider[d].approval \in allowed
  BY <1>1 DEF WorkOK
<1>4. CASE Goto(d, "insert")
  <2>1. /\ decider'[d].pc = "insert"
        /\ decider'[d].approval = decider[d].approval
        /\ \A e \in Decider \ {d} : decider'[e] = decider[e]
    BY <1>1, <1>4, GotoFacts
  <2>2. WorkOK(d)'
    BY <1>2, <1>3, <2>1 DEF WorkOK
  <2> QED
    BY <1>2, <2>1, <2>2, DecisionStep
<1>5. CASE Answer(d, "conflict")
  <2>1. /\ decider'[d].pc = "answered" /\ decider'[d].outcome = "conflict"
        /\ decider'[d].approval = decider[d].approval
        /\ \A e \in Decider \ {d} : decider'[e] = decider[e]
    BY <1>1, <1>5, AnswerFacts
  <2>2. WorkOK(d)'
    BY <1>2, <1>3, <2>1 DEF WorkOK
  <2> QED
    BY <1>2, <2>1, <2>2, DecisionStep
<1>6. CASE /\ ledger[WorkKey(d)] # NoRow
           /\ ledger[WorkKey(d)].digest = WorkDigest(d)
           /\ Goto(d, "mark")
  <2>1. /\ decider'[d].pc = "mark"
        /\ decider'[d].approval = decider[d].approval
        /\ decider'[d].generation = decider[d].generation
        /\ \A e \in Decider \ {d} : decider'[e] = decider[e]
    BY <1>1, <1>6, GotoFacts
  <2>2. WorkKey(d)' = WorkKey(d)
    BY <1>1, <1>2, <2>1, KeyKept DEF AskedKept
  <2>3. WorkOK(d)'
    BY <1>2, <1>3, <1>6, <2>1, <2>2 DEF WorkOK
  <2> QED
    BY <1>2, <2>1, <2>3, DecisionStep
<1>7. CASE /\ ledger[WorkKey(d)] # NoRow
           /\ ledger[WorkKey(d)].digest = WorkDigest(d)
           /\ Answer(d, ReplayOf(ledger[WorkKey(d)]))
  <2>1. PICK outcome : outcome = ReplayOf(ledger[WorkKey(d)])
    OBVIOUS
  <2>2. /\ decider'[d].pc = "answered" /\ decider'[d].outcome = outcome
        /\ decider'[d].approval = decider[d].approval
        /\ decider'[d].generation = decider[d].generation
        /\ \A e \in Decider \ {d} : decider'[e] = decider[e]
    BY <1>1, <1>7, <2>1, AnswerFacts
  <2>3. WorkKey(d)' = WorkKey(d) /\ WorkDigest(d)' = WorkDigest(d)
    BY <1>1, <1>2, <2>2, KeyKept DEF AskedKept
  <2>4. outcome = "ok" => ledger[WorkKey(d)].state = "SUCCEEDED"
    BY <2>1 DEF ReplayOf
  <2>5. outcome = "ok" => Did(WorkKey(d), WorkDigest(d))
    BY <1>1, <1>7, <2>4 DEF IInv, RowOK
  <2>6. WorkOK(d)'
    BY <1>2, <1>3, <2>2, <2>3, <2>5 DEF WorkOK, Did
  <2> QED
    BY <1>2, <2>2, <2>6, DecisionStep
<1> QED
  BY <1>4, <1>5, <1>6, <1>7, LookCases

LEMMA FinishReadsStep ==
    ASSUME IInv, TypeOK', NEW d \in Decider, FinishReads(d)
    PROVE  IInv'
<1>1. /\ TypeOK /\ WorkOK(d) /\ decider[d].pc = "finish"
      /\ decider[d].pc \in Working
  BY DEF IInv, FinishReads, At, Working, BackendPc
<1>2. UNCHANGED <<asked, ledger, performed, allowed, results>>
  BY DEF FinishReads, actionVars, eventVars
<1>3. PICK pc \in {"settle", "answered"} : Goto(d, pc)
  BY DEF FinishReads
<1>4. /\ decider'[d].pc = pc
      /\ decider'[d].approval = decider[d].approval
      /\ decider'[d].generation = decider[d].generation
      /\ decider'[d].outcome = decider[d].outcome
      /\ \A e \in Decider \ {d} : decider'[e] = decider[e]
  BY <1>1, <1>3, GotoFacts
<1>5. WorkKey(d)' = WorkKey(d) /\ WorkDigest(d)' = WorkDigest(d)
  BY <1>1, <1>2, <1>4, KeyKept DEF AskedKept
<1>6. WorkOK(d)'
  BY <1>1, <1>2, <1>4, <1>5 DEF WorkOK, Did
<1> QED
  BY <1>2, <1>4, <1>6, DecisionStep

-----------------------------------------------------------------------------
(***************************************************************************)
(* The steps that write the ledger or reach the provider.                  *)
(***************************************************************************)
\* Steps that write one row, and perform nothing.
LEMMA RowStep ==
    ASSUME IInv, TypeOK', NEW d \in Decider, NEW k \in Key,
           UNCHANGED <<asked, performed, allowed, results>>,
           \A e \in Decider \ {d} : decider'[e] = decider[e],
           \A j \in Key \ {k} : ledger'[j] = ledger[j],
           ledger[k] # NoRow =>
               /\ ledger'[k] # NoRow
               /\ ledger'[k].digest = ledger[k].digest,
           RowOK(k)', WorkOK(d)', OneBroker'
    PROVE  IInv'
<1>1. TypeOK /\ AskedKept
  BY DEF IInv, AskedKept
<1>2. \A e \in Decider : WorkOK(e)'
  <2>1. ASSUME NEW e \in Decider \ {d}
        PROVE  WorkOK(e)'
    <3>1. Undisturbed(e)
      BY <1>1, WorkType DEF Undisturbed
    <3> QED
      BY <1>1, <3>1, WorkKept DEF IInv
  <2> QED
    BY <2>1
<1>3. \A j \in Key : RowOK(j)'
  BY DEF IInv, RowOK, Did
<1>4. \A r \in results' : ResultOK(r)'
  BY <1>1, ResultsKept DEF IInv
<1>5. PerformedMeansAllowed'
  BY <1>1, AllowedKept DEF IInv, PerformedMeansAllowed
<1> QED
  BY <1>2, <1>3, <1>4, <1>5 DEF IInv

\* A step that leaves d out of the broker leaves the others' claims.
LEMMA NoBroker ==
    ASSUME IInv, NEW d \in Decider, UNCHANGED asked,
           \A e \in Decider \ {d} : decider'[e] = decider[e],
           decider'[d].pc # "broker"
    PROVE  OneBroker'
  BY BrokersKept DEF IInv, AskedKept

LEMMA InsertStep ==
    ASSUME IInv, TypeOK', NEW d \in Decider, Insert(d)
    PROVE  IInv'
<1>1. /\ TypeOK /\ WorkOK(d) /\ decider[d].pc \in Working
  BY DEF IInv, Insert, At, Working, BackendPc
<1>2. PICK k \in Key : k = WorkKey(d)
  BY <1>1, WorkType
<1>3. UNCHANGED <<asked, performed, allowed, results>>
  BY DEF Insert, eventVars
<1>4. decider[d].approval \in allowed
  BY <1>1 DEF WorkOK
<1>5. CASE Admits(k)
  <2>1. /\ ledger' = [ledger EXCEPT ![k] =
               [state |-> "EXECUTING", digest |-> WorkDigest(d)]]
        /\ Goto(d, "broker") /\ ledger[k] = NoRow
    BY <1>2, <1>5 DEF Insert, Admits
  <2>2. /\ decider'[d].pc = "broker"
        /\ decider'[d].approval = decider[d].approval
        /\ decider'[d].generation = decider[d].generation
        /\ \A e \in Decider \ {d} : decider'[e] = decider[e]
    BY <1>1, <2>1, GotoFacts
  <2>3. /\ ledger'[k] = [state |-> "EXECUTING", digest |-> WorkDigest(d)]
        /\ \A j \in Key \ {k} : ledger'[j] = ledger[j]
    BY <1>1, <2>1, Parts
  <2>4. ledger'[k] # NoRow /\ ledger'[k].digest = WorkDigest(d)
    BY <2>3 DEF NoRow
  <2>5. performed[k] = << >>
    BY <2>1 DEF IInv, RowOK
  <2>6. RowOK(k)'
    BY <1>3, <2>3, <2>4, <2>5 DEF RowOK
  <2>7. WorkKey(d)' = k /\ WorkDigest(d)' = WorkDigest(d)
    BY <1>1, <1>2, <1>3, <2>2, KeyKept DEF AskedKept
  <2>8. WorkOK(d)'
    BY <1>3, <1>4, <2>2, <2>4, <2>5, <2>7 DEF WorkOK
  <2>9. ASSUME NEW e \in Decider \ {d}, decider'[e].pc = "broker"
        PROVE  WorkKey(e)' # k
    <3>1. decider[e].pc = "broker" /\ decider[e].pc \in Working
      BY <2>2, <2>9 DEF Working, BackendPc
    <3>2. WorkKey(e)' = WorkKey(e)
      BY <1>1, <1>3, <2>2, <3>1, KeyKept DEF AskedKept
    <3>3. ledger[WorkKey(e)] # NoRow
      BY <3>1 DEF IInv, WorkOK
    <3> QED
      BY <2>1, <3>2, <3>3
  <2>10. ASSUME NEW e \in Decider \ {d}, NEW f \in Decider \ {d},
                decider'[e].pc = "broker", decider'[f].pc = "broker",
                WorkKey(e)' = WorkKey(f)'
         PROVE  e = f
    <3>1. decider[e].pc = "broker" /\ decider[f].pc = "broker"
      BY <2>2, <2>10
    <3>2. WorkKey(e)' = WorkKey(e) /\ WorkKey(f)' = WorkKey(f)
      BY <1>1, <1>3, <2>2, <3>1, KeyKept DEF AskedKept, Working, BackendPc
    <3> QED
      BY <2>10, <3>1, <3>2 DEF IInv, OneBroker, At
  <2>11. OneBroker'
    BY <2>7, <2>9, <2>10 DEF OneBroker, At
  <2> QED
    BY <1>3, <2>1, <2>2, <2>3, <2>6, <2>8, <2>11, RowStep
<1>6. CASE ~Admits(k)
  <2>1. Look(d) /\ UNCHANGED ledger
    BY <1>2, <1>6 DEF Insert
  <2> QED
    BY <1>1, <1>3, <2>1, LookStep
<1> QED
  BY <1>5, <1>6

LEMMA SetStateFacts ==
    ASSUME TypeOK, NEW k \in Key, NEW state, ledger[k] # NoRow,
           SetState(k, state)
    PROVE  /\ ledger'[k].state = state
           /\ ledger'[k].digest = ledger[k].digest
           /\ \A j \in Key \ {k} : ledger'[j] = ledger[j]
<1>1. ledger \in [Key -> {NoRow} \cup Row] /\ ledger[k] \in Row
  BY Parts
<1>2. ledger' = [ledger EXCEPT ![k] = [ledger[k] EXCEPT !.state = state]]
  BY DEF SetState
<1>3. ASSUME NEW row \in Row
      PROVE  /\ [row EXCEPT !.state = state].state = state
             /\ [row EXCEPT !.state = state].digest = row.digest
  BY DEF Row
<1> QED
  BY <1>1, <1>2, <1>3

LEMMA MarkStep ==
    ASSUME IInv, TypeOK', NEW d \in Decider, MarkUnknown(d)
    PROVE  IInv'
<1>1. /\ TypeOK /\ WorkOK(d) /\ decider[d].pc \in Working
      /\ decider[d].pc = "mark"
  BY DEF IInv, MarkUnknown, At, Working, BackendPc
<1>2. PICK k \in Key : k = WorkKey(d)
  BY <1>1, WorkType
<1>3. UNCHANGED <<asked, performed, allowed, results>>
  BY DEF MarkUnknown, eventVars
<1>4. decider[d].approval \in allowed /\ ledger[k] # NoRow
  BY <1>1, <1>2 DEF WorkOK
<1>5. SetState(k, "OUTCOME_UNKNOWN") /\ Answer(d, "unknown")
  BY <1>2 DEF MarkUnknown
<1>6. /\ ledger'[k].state = "OUTCOME_UNKNOWN"
      /\ ledger'[k].digest = ledger[k].digest
      /\ \A j \in Key \ {k} : ledger'[j] = ledger[j]
  BY <1>1, <1>4, <1>5, SetStateFacts
<1>7. /\ decider'[d].pc = "answered" /\ decider'[d].outcome = "unknown"
      /\ decider'[d].approval = decider[d].approval
      /\ \A e \in Decider \ {d} : decider'[e] = decider[e]
  BY <1>1, <1>5, AnswerFacts
<1>8. ledger'[k] # NoRow
  BY <1>6 DEF NoRow
<1>9. RowOK(k)'
  BY <1>3, <1>6, <1>8 DEF IInv, RowOK, Did
<1>10. WorkOK(d)'
  BY <1>3, <1>4, <1>7 DEF WorkOK
<1>11. OneBroker'
  BY <1>3, <1>7, NoBroker
<1> QED
  BY <1>3, <1>6, <1>7, <1>8, <1>9, <1>10, <1>11, RowStep

LEMMA FinishWritesStep ==
    ASSUME IInv, TypeOK', NEW d \in Decider, FinishWrites(d)
    PROVE  IInv'
<1>1. /\ TypeOK /\ WorkOK(d) /\ decider[d].pc \in Working
      /\ decider[d].pc = "settle"
  BY DEF IInv, FinishWrites, At, Working, BackendPc
<1>2. PICK k \in Key : k = WorkKey(d)
  BY <1>1, WorkType
<1>3. PICK state : state = FinalState(decider[d].outcome)
  OBVIOUS
<1>4. UNCHANGED <<asked, performed, allowed, results>>
  BY DEF FinishWrites, eventVars
<1>5. /\ decider[d].approval \in allowed /\ ledger[k] # NoRow
      /\ ledger[k].digest = WorkDigest(d)
      /\ decider[d].outcome = "ok" => Did(k, WorkDigest(d))
  BY <1>1, <1>2 DEF WorkOK
<1>6. SetState(k, state) /\ Goto(d, "answered")
  BY <1>2, <1>3 DEF FinishWrites
<1>7. /\ ledger'[k].state = state
      /\ ledger'[k].digest = ledger[k].digest
      /\ \A j \in Key \ {k} : ledger'[j] = ledger[j]
  BY <1>1, <1>5, <1>6, SetStateFacts
<1>8. /\ decider'[d].pc = "answered"
      /\ decider'[d].approval = decider[d].approval
      /\ decider'[d].generation = decider[d].generation
      /\ decider'[d].outcome = decider[d].outcome
      /\ \A e \in Decider \ {d} : decider'[e] = decider[e]
  BY <1>1, <1>6, GotoFacts
<1>9. state = "SUCCEEDED" => decider[d].outcome = "ok"
  BY <1>3 DEF FinalState
<1>10. state # "none"
  BY <1>3 DEF FinalState
<1>11. ledger'[k] # NoRow
  BY <1>7, <1>10 DEF NoRow
<1>12. RowOK(k)'
  BY <1>4, <1>5, <1>7, <1>9, <1>11 DEF IInv, RowOK, Did
<1>13. WorkKey(d)' = k /\ WorkDigest(d)' = WorkDigest(d)
  BY <1>1, <1>2, <1>4, <1>8, KeyKept DEF AskedKept
<1>14. WorkOK(d)'
  BY <1>4, <1>5, <1>8, <1>13 DEF WorkOK, Did
<1>15. OneBroker'
  BY <1>4, <1>8, NoBroker
<1> QED
  BY <1>4, <1>7, <1>8, <1>11, <1>12, <1>14, <1>15, RowStep

LEMMA ExecuteFacts ==
    ASSUME TypeOK, NEW d \in Decider, decider[d].pc \in Working,
           NEW outcome, Execute(d, outcome)
    PROVE  /\ decider'[d].pc = "finish"
           /\ decider'[d].approval = decider[d].approval
           /\ decider'[d].generation = decider[d].generation
           /\ decider'[d].outcome = outcome
           /\ \A e \in Decider \ {d} : decider'[e] = decider[e]
<1>1. decider \in [Decider -> Place] /\ decider[d] \in Work
  BY WorkType DEF TypeOK, Place, Denial
<1> QED
  BY <1>1 DEF Execute, Work

LEMMA ActFacts ==
    ASSUME TypeOK, NEW d \in Decider, WorkOK(d), decider[d].pc = "broker",
           NEW k \in Key, k = WorkKey(d), Act(d)
    PROVE  /\ performed[k] = << >> /\ performed'[k] = <<WorkAction(d)>>
           /\ \A j \in Key \ {k} : performed'[j] = performed[j]
<1>1. WorkAction(d) \in Action
  BY WorkType DEF Working, BackendPc
<1>2. performed[k] = << >>
  BY DEF WorkOK, Working, BackendPc
<1>3. performed' = [performed EXCEPT ![k] = Append(performed[k], WorkAction(d))]
  BY DEF Act
<1>4. Append(<< >>, WorkAction(d)) = <<WorkAction(d)>>
  BY <1>1
<1> QED
  BY <1>1, <1>2, <1>3, <1>4, Parts

LEMMA ExecuteStep ==
    ASSUME IInv, TypeOK', NEW d \in Decider, NEW outcome, Execute(d, outcome)
    PROVE  IInv'
<1>1. /\ TypeOK /\ WorkOK(d) /\ decider[d].pc \in Working
      /\ decider[d].pc = "broker"
  BY DEF IInv, Execute, At, Working, BackendPc
<1>2. PICK k \in Key : k = WorkKey(d)
  BY <1>1, WorkType
<1>3. UNCHANGED <<asked, ledger, allowed, results>> /\ AskedKept
  BY DEF Execute, eventVars, AskedKept
<1>4. /\ decider'[d].pc = "finish"
      /\ decider'[d].approval = decider[d].approval
      /\ decider'[d].generation = decider[d].generation
      /\ decider'[d].outcome = outcome
      /\ \A e \in Decider \ {d} : decider'[e] = decider[e]
  BY <1>1, ExecuteFacts
<1>5. WorkKey(d)' = k /\ WorkDigest(d)' = WorkDigest(d)
  BY <1>1, <1>2, <1>3, <1>4, KeyKept
<1>6. /\ decider[d].approval \in allowed /\ ledger[k] # NoRow
      /\ ledger[k].digest = WorkDigest(d)
  BY <1>1, <1>2 DEF WorkOK
<1>7. CASE outcome # "ok" /\ UNCHANGED performed
  <2>1. WorkOK(d)'
    BY <1>3, <1>4, <1>5, <1>6, <1>7 DEF WorkOK, Did
  <2> QED
    BY <1>3, <1>4, <1>7, <2>1, DecisionStep
<1>8. CASE Act(d)
  <2>1. PICK x \in Action : x = WorkAction(d) /\ x.digest = WorkDigest(d)
    BY <1>1, WorkType
  <2>2. /\ performed[k] = << >> /\ performed'[k] = <<x>>
        /\ \A j \in Key \ {k} : performed'[j] = performed[j]
    BY <1>1, <1>2, <1>8, <2>1, ActFacts
  <2>3. <<x>> # << >> /\ \A y : <<y>> # << >>
    OBVIOUS
  <2>4. WorkOK(d)'
    BY <1>3, <1>4, <1>5, <1>6, <2>1, <2>2, <2>3 DEF WorkOK, Did
  <2>5. ASSUME NEW e \in Decider \ {d}
        PROVE  WorkOK(e)'
    <3>1. Undisturbed(e)
      <4>1. SUFFICES ASSUME decider[e].pc \in Working
                     PROVE  Undisturbed(e)
        BY DEF Undisturbed
      <4>2. WorkKey(e) \in Key
        BY <1>1, <4>1, WorkType
      <4>3. CASE WorkKey(e) = k
        <5>1. ~At(e, "broker")
          BY <1>1, <1>2, <4>3 DEF IInv, OneBroker, At
        <5> QED
          BY <1>3, <2>2, <4>3, <5>1 DEF Undisturbed
      <4>4. CASE WorkKey(e) # k
        BY <1>3, <2>2, <4>2, <4>4 DEF Undisturbed
      <4> QED
        BY <4>3, <4>4
    <3> QED
      BY <1>1, <1>3, <1>4, <3>1, WorkKept DEF IInv
  <2>6. OneBroker'
    BY <1>3, <1>4, NoBroker
  <2>7. ASSUME NEW j \in Key
        PROVE  RowOK(j)'
    <3>1. CASE j = k
      <4>1. ledger'[j] # NoRow
        BY <1>3, <1>6, <3>1
      <4>2. performed'[j] = <<x>>
        BY <2>2, <3>1
      <4>3. ledger'[j].digest = x.digest
        BY <1>3, <1>6, <2>1, <3>1
      <4> QED
        BY <4>1, <4>2, <4>3 DEF RowOK, Did
    <3>2. CASE j # k
      BY <1>3, <2>2, <3>2 DEF IInv, RowOK, Did
    <3> QED
      BY <3>1, <3>2
  <2>8. ASSUME NEW r \in results'
        PROVE  ResultOK(r)'
    <3>1. \A j \in Key : performed[j] # << >> => performed'[j] = performed[j]
      BY <2>2
    <3> QED
      BY <1>1, <1>3, <2>8, <3>1, ResultsKept DEF IInv
  <2>9. ASSUME NEW j \in Key
        PROVE  \A i \in DOMAIN performed'[j] : \E a \in allowed' :
                   asked'[a] = [call   |-> j.call,
                                tool   |-> performed'[j][i].tool,
                                digest |-> performed'[j][i].digest]
    <3>1. CASE j = k
      <4>1. TAKE i \in DOMAIN performed'[j]
      <4>2. performed'[j][i] = x
        BY <2>2, <3>1, <4>1
      <4>3. asked[decider[d].approval] =
                [call |-> j.call, tool |-> x.tool, digest |-> x.digest]
        BY <1>1, <1>2, <2>1, <3>1, WorkType, AskedParts
        DEF WorkDigest, WorkAction
      <4> QED
        BY <1>3, <1>6, <4>2, <4>3
    <3>2. CASE j # k
      BY <1>1, <1>3, <2>2, <3>2, AllowedKept DEF IInv
    <3> QED
      BY <3>1, <3>2
  <2>10. PerformedMeansAllowed'
    BY <2>9 DEF PerformedMeansAllowed
  <2> QED
    BY <2>4, <2>5, <2>6, <2>7, <2>8, <2>10 DEF IInv
<1> QED
  BY <1>7, <1>8 DEF Execute

-----------------------------------------------------------------------------
(***************************************************************************)
(* The theorems.                                                           *)
(***************************************************************************)
LEMMA InitIInv ==
    ASSUME Init
    PROVE  IInv
<1>1. TypeOK
  <2>1. /\ status \in RunStatus /\ generation \in Generation
        /\ upsets \in 0 .. MaxUpsets /\ withdrawn \in BOOLEAN
    <3>1. /\ status = "RUNNING" /\ generation = 1 /\ upsets = 0
          /\ withdrawn = FALSE
      BY DEF Init
    <3>2. 1 \in Generation /\ 0 \in 0 .. MaxUpsets
      BY ToolCallAssumption DEF Generation
    <3> QED
      BY <3>1, <3>2 DEF RunStatus
  <2>2. asked = << >> /\ asked \in Seq(Asked) /\ Len(asked) <= MaxAsks
    BY ToolCallAssumption DEF Init
  <2>3. results \subseteq ResultType /\ allowed \subseteq DOMAIN asked
    BY DEF Init
  <2>4. caller \in [Caller -> {NoCall} \cup
            [status : {"RUNNING", "CANCELLING"}, call : Call, tool : Tool,
             digest : Digest]]
    BY DEF Init
  <2>5. DeciderOK
    BY DEF Init, DeciderOK, Place, Idle
  <2>6. /\ ledger \in [Key -> {NoRow} \cup Row]
        /\ performed \in [Key -> Seq(Action)]
    BY DEF Init
  <2> QED
    BY <2>1, <2>2, <2>3, <2>4, <2>5, <2>6, Assemble
<1>2. \A d \in Decider : decider[d].pc = "idle"
  BY DEF Init, NoWork
<1>3. (\A d \in Decider : WorkOK(d)) /\ OneBroker
  BY <1>2 DEF WorkOK, OneBroker, At, Working, BackendPc
<1>4. ASSUME NEW k \in Key
      PROVE  RowOK(k) /\ performed[k] = << >>
  BY DEF Init, RowOK, NoRow
<1>5. \A r \in results : ResultOK(r)
  BY DEF Init
<1>6. PerformedMeansAllowed
  BY <1>4 DEF PerformedMeansAllowed
<1> QED
  BY <1>1, <1>3, <1>4, <1>5, <1>6 DEF IInv

LEMMA StepIInv ==
    ASSUME IInv, [Next]_vars
    PROVE  IInv'
<1>1. TypeOK'
  BY StepType DEF IInv
<1>2. CASE \E c \in Caller : CallerNext(c)
  <2>1. PICK c \in Caller : CallerNext(c)
    BY <1>2
  <2>2. UNCHANGED <<decider, ledger, performed, allowed, results>>
    BY <2>1 DEF CallerNext, CallRead, CallAsks, CallFails, eventVars, actionVars
  <2>3. asked' = asked \/ CallAsks(c)
    BY <2>1 DEF CallerNext, CallRead, CallFails, eventVars
  <2>4. CASE CallAsks(c)
    <3>1. PICK x : asked' = Append(asked, x)
      BY <2>4 DEF CallAsks
    <3>2. asked \in Seq(Asked)
      BY Parts DEF IInv
    <3>3. AskedKept
      BY <3>1, <3>2 DEF AskedKept
    <3> QED
      BY <1>1, <2>2, <3>3, OutsideStep
  <2>5. CASE asked' = asked
    BY <1>1, <2>2, <2>5, OutsideStep DEF AskedKept
  <2> QED
    BY <2>3, <2>4, <2>5
<1>3. CASE \E d \in Decider : DeciderStep(d)
  <2>1. PICK d \in Decider : DeciderStep(d)
    BY <1>3
  <2>2. CASE DenyWrite(d) \/ AllowWrite(d)
    BY <1>1, <2>2, WriteStep
  <2>3. CASE BackendRefuses(d)
    BY <1>1, <2>3, RefusesStep
  <2>4. CASE Find(d)
    BY <1>1, <2>4, LookStep
    DEF Find, At, Working, BackendPc, actionVars, eventVars
  <2>5. CASE Insert(d)
    BY <1>1, <2>5, InsertStep
  <2>6. CASE MarkUnknown(d)
    BY <1>1, <2>6, MarkStep
  <2>7. CASE \E outcome \in ProviderSays : Execute(d, outcome)
    BY <1>1, <2>7, ExecuteStep
  <2>8. CASE FinishReads(d)
    BY <1>1, <2>8, FinishReadsStep
  <2>9. CASE FinishWrites(d)
    BY <1>1, <2>9, FinishWritesStep
  <2> QED
    BY <2>1, <2>2, <2>3, <2>4, <2>5, <2>6, <2>7, <2>8, <2>9 DEF DeciderStep
<1>4. CASE \E d \in Decider : Decide(d)
  BY <1>1, <1>4, DecideStep
<1>5. CASE \E d \in Decider : AgentGivesUp(d)
  BY <1>1, <1>5, GivesUpStep
<1>6. CASE \E d \in Decider : BackendCrashes(d)
  BY <1>1, <1>6, CrashStep
<1>7. CASE NextAttempt \/ RunMoves \/ Withdraw \/ UNCHANGED vars
  <2>1. UNCHANGED <<decider, ledger, performed, allowed, results, asked>>
    BY <1>7 DEF NextAttempt, RunMoves, Withdraw, vars, eventVars, actionVars
  <2> QED
    BY <1>1, <2>1, OutsideStep DEF AskedKept
<1> QED
  BY <1>2, <1>3, <1>4, <1>5, <1>6, <1>7 DEF Next

\* The inductive invariant.
THEOREM Invariance == Spec => []IInv
  BY InitIInv, StepIInv, PTL DEF Spec

\* The tables, calls and decisions keep their types.
THEOREM TypeCorrect == Spec => []TypeOK
<1>1. IInv => TypeOK
  BY DEF IInv
<1> QED
  BY <1>1, Invariance, PTL

\* An "ok" in the run's events was carried out under its call id, with its
\* arguments, by a tool the user had allowed for them
\* (complete_connector_approval records what the ledger replays).
THEOREM OkCorrect == Spec => []OkMeansPerformed
<1>1. ASSUME IInv, NEW r \in results, r.outcome = "ok"
      PROVE  \E a \in allowed :
                 /\ asked[a].call = asked[r.approval].call
                 /\ asked[a].digest = asked[r.approval].digest
                 /\ \E g \in Generation :
                       LET k == [generation |-> g, call |-> asked[a].call]
                       IN  \E i \in DOMAIN performed[k] :
                               /\ performed[k][i].tool = asked[a].tool
                               /\ performed[k][i].digest = asked[a].digest
  <2>1. PICK g \in Generation :
            Did([generation |-> g, call |-> asked[r.approval].call],
                asked[r.approval].digest)
    BY <1>1 DEF IInv, ResultOK
  <2>2. r.approval \in DOMAIN asked
    BY <1>1, Parts DEF IInv, ResultType
  <2>3. asked[r.approval].call \in Call
    BY <1>1, <2>2, AskedType, AskedParts DEF IInv
  <2>4. PICK k \in Key : k = [generation |-> g,
                              call |-> asked[r.approval].call]
    BY <2>3 DEF Key
  <2>5. PICK x \in Action :
            performed[k] = <<x>> /\ x.digest = asked[r.approval].digest
    BY <2>1, <2>4 DEF Did
  <2>6. 1 \in DOMAIN performed[k] /\ performed[k][1] = x
    BY <2>5
  <2>7. PICK a \in allowed :
            asked[a] = [call |-> k.call, tool |-> x.tool, digest |-> x.digest]
    BY <1>1, <2>6 DEF IInv, PerformedMeansAllowed
  <2>8. /\ asked[a].call = asked[r.approval].call
        /\ asked[a].tool = x.tool /\ asked[a].digest = x.digest
    BY <2>4, <2>7
  <2>9. k = [generation |-> g, call |-> asked[a].call]
    BY <2>4, <2>8
  <2> QED
    BY <2>5, <2>6, <2>8, <2>9
<1>2. IInv => OkMeansPerformed
  BY <1>1 DEF OkMeansPerformed
<1> QED
  BY <1>2, Invariance, PTL

\* The provider acts on allowed calls only, with the arguments shown.
THEOREM PerformedCorrect == Spec => []PerformedMeansAllowed
<1>1. IInv => PerformedMeansAllowed
  BY DEF IInv
<1> QED
  BY <1>1, Invariance, PTL

-----------------------------------------------------------------------------
(***************************************************************************)
(* A run is put to WAITING_APPROVAL together with a new approval, and an   *)
(* approval is decided together with the run's return to RUNNING.          *)
(***************************************************************************)
LEMMA Waiting ==
    ASSUME TypeOK, WaitingMeansOpen, [Next]_vars
    PROVE  WaitingMeansOpen'
<1> DEFINE Kept == /\ UNCHANGED <<asked, results>>
                   /\ status' = "WAITING_APPROVAL" =>
                          status = "WAITING_APPROVAL"
<1>1. CASE \E c \in Caller : CallAsks(c)
  <2>1. PICK c \in Caller : CallAsks(c)
    BY <1>1
  <2>2. PICK x : asked' = Append(asked, x)
    BY <2>1 DEF CallAsks
  <2>3. /\ asked \in Seq(Asked) /\ results \subseteq ResultType
        /\ results' = results
    BY <2>1, Parts DEF CallAsks
  <2>4. Len(asked) + 1 \in DOMAIN asked' /\ Len(asked) + 1 \notin DOMAIN asked
    BY <2>2, <2>3
  <2>5. Decided' \subseteq DOMAIN asked
    BY <2>3 DEF Decided, ResultType
  <2> QED
    BY <2>4, <2>5 DEF WaitingMeansOpen, Open
<1>2. ASSUME NEW d \in Decider, NEW outcome, Record(d, outcome), asked' = asked
      PROVE  WaitingMeansOpen'
  <2>1. status' # "WAITING_APPROVAL"
    BY <1>2 DEF Record
  <2> QED
    BY <2>1 DEF WaitingMeansOpen
<1>3. ASSUME Kept
      PROVE  WaitingMeansOpen'
  BY <1>3 DEF WaitingMeansOpen, Open, Decided
<1>4. ASSUME NEW c \in Caller, CallerNext(c), ~CallAsks(c)
      PROVE  Kept
  BY <1>4 DEF CallerNext, CallRead, CallFails, runVars, eventVars
<1>5. ASSUME NEW d \in Decider, DenyWrite(d) \/ AllowWrite(d)
      PROVE  WaitingMeansOpen'
  <2>1. asked' = asked
    BY <1>5 DEF DenyWrite, AllowWrite
  <2>2. Record(d, "denied") \/ Record(d, decider[d].outcome) \/ Kept
    BY <1>5, <2>1 DEF DenyWrite, AllowWrite
  <2> QED
    BY <1>2, <1>3, <2>1, <2>2
<1>6. ASSUME NEW d \in Decider,
             \/ DeciderStep(d) \/ Decide(d)
             \/ AgentGivesUp(d) \/ BackendCrashes(d),
             ~DenyWrite(d), ~AllowWrite(d)
      PROVE  Kept
  <2>1. UNCHANGED <<runVars, eventVars>>
    BY <1>6
    DEF DeciderStep, Decide, Deny, Allow, BackendRefuses, Find, Insert,
        MarkUnknown, Execute, FinishReads, FinishWrites, AgentGivesUp,
        BackendCrashes
  <2> QED
    BY <2>1 DEF runVars, eventVars
<1>7. CASE NextAttempt \/ RunMoves \/ Withdraw \/ UNCHANGED vars
  BY <1>3, <1>7
  DEF NextAttempt, RunMoves, Withdraw, vars, runVars, eventVars
<1> QED
  BY <1>1, <1>3, <1>4, <1>5, <1>6, <1>7 DEF Next

(***************************************************************************)
(* Whatever calls and decisions overlap, a run in WAITING_APPROVAL has an  *)
(* approval that complete_connector_approval takes a decision about.       *)
(***************************************************************************)
THEOREM WaitingCorrect == Spec => []WaitingMeansOpen
<1>1. Init => WaitingMeansOpen
  BY DEF Init, WaitingMeansOpen
<1>2. TypeOK /\ WaitingMeansOpen /\ [Next]_vars => WaitingMeansOpen'
  BY Waiting
<1> QED
  BY <1>1, <1>2, TypeCorrect, PTL DEF Spec

-----------------------------------------------------------------------------
(***************************************************************************)
(* The refinement.  Two lemmas say what a written row and an action of the *)
(* provider are to ActionLedger; every other step changes nothing there.   *)
(***************************************************************************)
LEMMA Unchanged ==
    ASSUME UNCHANGED <<ledger, performed>>
    PROVE  UNCHANGED Promise!vars
  BY DEF Promise!vars, Verdict

LEMMA Written ==
    ASSUME IInv, NEW k \in Key, UNCHANGED performed,
           \A j \in Key \ {k} : ledger'[j] = ledger[j],
           ledger'[k] # NoRow,
           \/ ledger[k] = NoRow /\ ledger'[k].state = "EXECUTING"
           \/ ledger[k] # NoRow /\ ledger'[k].state \in
                  {"SUCCEEDED", "OUTCOME_UNKNOWN", "FAILED"},
           RowOK(k)'
    PROVE  Promise!Next
<1>1. \A j \in Key \ {k} : Verdict(j)' = Verdict(j)
  BY DEF Verdict
<1>2. [j \in Key |-> Verdict(j)]' =
          [[j \in Key |-> Verdict(j)] EXCEPT ![k] = Verdict(k)']
  BY <1>1
<1>3. UNCHANGED [j \in Key |-> Len(performed[j])]
  OBVIOUS
<1>4. CASE ledger[k] = NoRow /\ ledger'[k].state = "EXECUTING"
  <2>1. Verdict(k) = "none" /\ Verdict(k)' = "open"
    BY <1>4 DEF Verdict, NoRow
  <2>2. Promise!Open(k)
    BY <1>2, <1>3, <2>1 DEF Promise!Open
  <2> QED
    BY <2>2 DEF Promise!Next
<1>5. CASE ledger[k] # NoRow /\ ledger'[k].state \in
                {"SUCCEEDED", "OUTCOME_UNKNOWN", "FAILED"}
  <2>1. Verdict(k) # "none"
    BY <1>5 DEF Verdict
  <2>2. PICK v \in {"ok", "unknown", "error"} : v = Verdict(k)'
    BY <1>5 DEF Verdict
  <2>3. v = "ok" => ledger'[k].state = "SUCCEEDED"
    BY <1>5, <2>2 DEF Verdict
  <2>4. v = "ok" => Len(performed[k]) = 1
    <3>1. \A x : Len(<<x>>) = 1
      OBVIOUS
    <3> QED
      BY <2>3, <3>1 DEF RowOK, Did
  <2>5. Promise!Settle(k)
    BY <1>2, <1>3, <2>1, <2>2, <2>4 DEF Promise!Settle, Promise!Over
  <2> QED
    BY <2>5 DEF Promise!Next
<1> QED
  BY <1>4, <1>5

LEMMA Performed ==
    ASSUME NEW k \in Key, NEW x, UNCHANGED ledger, ledger[k] # NoRow,
           performed[k] = << >>, performed'[k] = <<x>>,
           ledger[k].state # "none",
           \A j \in Key \ {k} : performed'[j] = performed[j]
    PROVE  Promise!Next
<1>1. UNCHANGED [j \in Key |-> Verdict(j)]
  BY DEF Verdict
<1>2. Verdict(k) # "none"
  BY DEF Verdict
<1>3. Len(<< >>) = 0 /\ Len(<<x>>) = 1
  OBVIOUS
<1>4. [j \in Key |-> Len(performed[j])]' =
          [[j \in Key |-> Len(performed[j])] EXCEPT ![k] = 1]
  BY <1>3
<1>5. Promise!Act(k)
  BY <1>1, <1>2, <1>3, <1>4 DEF Promise!Act
<1> QED
  BY <1>5 DEF Promise!Next

LEMMA DeciderRefines ==
    ASSUME IInv, IInv', NEW d \in Decider, DeciderStep(d)
    PROVE  Promise!Next \/ UNCHANGED Promise!vars
<1>1. TypeOK /\ WorkOK(d)
  BY DEF IInv
<1>2. \A k \in Key : RowOK(k)'
  BY DEF IInv
<1>3. CASE Insert(d)
  <2>1. PICK k \in Key : k = WorkKey(d)
    BY <1>1, <1>3, WorkType DEF Insert, At, Working, BackendPc
  <2>2. UNCHANGED performed
    BY <1>3 DEF Insert
  <2>3. CASE Admits(k)
    <3>1. /\ ledger' = [ledger EXCEPT ![k] =
                 [state |-> "EXECUTING", digest |-> WorkDigest(d)]]
          /\ ledger[k] = NoRow
      BY <1>3, <2>1, <2>3 DEF Insert, Admits
    <3>2. /\ ledger'[k].state = "EXECUTING"
          /\ \A j \in Key \ {k} : ledger'[j] = ledger[j]
      BY <1>1, <3>1, Parts
    <3>3. ledger'[k] # NoRow
      BY <3>2 DEF NoRow
    <3> QED
      BY <1>2, <2>2, <3>1, <3>2, <3>3, Written
  <2>4. CASE ~Admits(k)
    BY <1>3, <2>1, <2>2, <2>4, Unchanged DEF Insert
  <2> QED
    BY <2>3, <2>4
<1>4. CASE MarkUnknown(d) \/ FinishWrites(d)
  <2>1. decider[d].pc \in {"mark", "settle"} /\ decider[d].pc \in Working
    BY <1>4 DEF MarkUnknown, FinishWrites, At, Working, BackendPc
  <2>2. PICK k \in Key : k = WorkKey(d)
    BY <1>1, <2>1, WorkType
  <2>3. ledger[k] # NoRow
    BY <1>1, <2>1, <2>2 DEF WorkOK
  <2>4. PICK state \in {"SUCCEEDED", "OUTCOME_UNKNOWN", "FAILED"} :
            SetState(k, state)
    BY <1>4, <2>2, OutcomeType DEF MarkUnknown, FinishWrites
  <2>5. /\ ledger'[k].state = state
        /\ \A j \in Key \ {k} : ledger'[j] = ledger[j]
    BY <1>1, <2>3, <2>4, SetStateFacts
  <2>6. ledger'[k] # NoRow
    BY <2>5 DEF NoRow
  <2>7. UNCHANGED performed
    BY <1>4 DEF MarkUnknown, FinishWrites
  <2> QED
    BY <1>2, <2>3, <2>5, <2>6, <2>7, Written
<1>5. CASE \E outcome \in ProviderSays : Execute(d, outcome)
  <2>1. PICK outcome \in ProviderSays : Execute(d, outcome)
    BY <1>5
  <2>2. decider[d].pc = "broker" /\ decider[d].pc \in Working
    BY <2>1 DEF Execute, At, Working, BackendPc
  <2>3. PICK k \in Key : k = WorkKey(d)
    BY <1>1, <2>2, WorkType
  <2>4. ledger[k] # NoRow /\ UNCHANGED ledger
    BY <1>1, <2>1, <2>2, <2>3 DEF WorkOK, Execute
  <2>5. ledger[k].state # "none"
    BY <1>1, <2>4, Parts DEF Row
  <2>6. CASE Act(d)
    BY <1>1, <2>2, <2>3, <2>4, <2>5, <2>6, ActFacts, Performed
  <2>7. CASE UNCHANGED performed
    BY <2>4, <2>7, Unchanged
  <2> QED
    BY <2>1, <2>6, <2>7 DEF Execute
<1>6. CASE \/ DenyWrite(d) \/ AllowWrite(d) \/ BackendRefuses(d)
           \/ Find(d) \/ FinishReads(d)
  BY <1>6, Unchanged
  DEF DenyWrite, AllowWrite, BackendRefuses, Find, FinishReads, actionVars
<1> QED
  BY <1>3, <1>4, <1>5, <1>6 DEF DeciderStep

LEMMA StepRefines ==
    ASSUME IInv, IInv', [Next]_vars
    PROVE  Promise!Next \/ UNCHANGED Promise!vars
<1>1. CASE \E d \in Decider : DeciderStep(d)
  BY <1>1, DeciderRefines
<1>2. CASE \E d \in Decider :
              Decide(d) \/ AgentGivesUp(d) \/ BackendCrashes(d)
  <2>1. UNCHANGED <<ledger, performed>>
    BY <1>2
    DEF Decide, Deny, Allow, AgentGivesUp, BackendCrashes, actionVars
  <2> QED
    BY <2>1, Unchanged
<1>3. CASE \E c \in Caller : CallerNext(c)
  <2>1. UNCHANGED <<ledger, performed>>
    BY <1>3 DEF CallerNext, CallRead, CallAsks, CallFails, actionVars
  <2> QED
    BY <2>1, Unchanged
<1>4. CASE NextAttempt \/ RunMoves \/ Withdraw \/ UNCHANGED vars
  <2>1. UNCHANGED <<ledger, performed>>
    BY <1>4 DEF NextAttempt, RunMoves, Withdraw, vars, actionVars
  <2> QED
    BY <2>1, Unchanged
<1> QED
  BY <1>1, <1>2, <1>3, <1>4 DEF Next

LEMMA InitRefines == Init => Promise!Init
<1> SUFFICES ASSUME Init PROVE Promise!Init
  OBVIOUS
<1>1. \A k \in Key : Verdict(k) = "none" /\ Len(performed[k]) = 0
  BY DEF Init, Verdict, NoRow
<1> QED
  BY <1>1 DEF Promise!Init

(***************************************************************************)
(* reserve, finish and the broker behave as ActionLedger says: whichever   *)
(* decisions are repeated, race or crash, the provider acts at most once   *)
(* for an identity, after its row was opened, and "ok" is no guess.        *)
(***************************************************************************)
THEOREM Implements == Spec => ImplementsLedger
<1>1. IInv /\ IInv' /\ [Next]_vars => [Promise!Next]_(Promise!vars)
  BY StepRefines
<1> QED
  BY <1>1, InitRefines, Invariance, PTL
  DEF Spec, ImplementsLedger, Promise!Spec
=============================================================================
