------------------------------ MODULE ToolCall ------------------------------
(***************************************************************************)
(* The external tool calls of one remote-agent run: the runtime calls a    *)
(* tool at the agent's MCP endpoint (agent_tools_mcp._call_tool), which    *)
(* puts the run to approval; the user's decision reaches                   *)
(* complete_connector_approval, which on "allow" posts the call to the     *)
(* backend; the backend reserves the call in its execution ledger, asks    *)
(* the provider to carry it out and writes the outcome into the ledger.    *)
(*                                                                         *)
(* Handlers read in one transaction and write after further requests: an   *)
(* MCP call between its reads and its write is a caller, a decision with   *)
(* the backend request it has caused is a decider.  Requests the code      *)
(* answers without a write (replays, conflicts the events show, unlisted   *)
(* tools, calls while an approval is open, decisions about an approval     *)
(* that is not the pending one, which go to the runtime) have no action.   *)
(***************************************************************************)
EXTENDS Naturals, Sequences, FiniteSets

CONSTANTS
    Caller,        \* MCP calls that may be in progress at once
    Decider,       \* decisions that may be in progress at once
    Rpc,           \* the JSON-RPC ids the runtime uses
    Tool,          \* the tools it may name
    Digest,        \* digests of the arguments it may send
    Sends(_),      \* the ids, tools and digests that a caller may carry
    MaxGeneration, \* bound on the run's generations
    ProviderSays,  \* the outcomes the provider's answers have
    MaxAsks,       \* bound on the approvals that are asked for
    MaxUpsets      \* bound on upsets, see below

ASSUME ToolCallAssumption ==
    /\ \A c \in Caller :
           Sends(c) \subseteq [rpc : Rpc, tool : Tool, digest : Digest]
    /\ ProviderSays \subseteq {"ok", "unknown", "error"}
    /\ MaxGeneration \in Nat \ {0} /\ MaxAsks \in Nat /\ MaxUpsets \in Nat

VARIABLES
    status,     \* runs.status
    generation, \* runs.generation; an attempt has one generation
    asked,      \* connector.approval.requested events, in event order
    results,    \* connector.tool.result events: approval and outcome
    caller,     \* what an MCP call has read
    decider,    \* where a decision is, and the backend request it waits for
    ledger,     \* external_action_executions
    performed,  \* the actions the provider has carried out, in order
    allowed,    \* the approvals the user has said "allow" to
    withdrawn,  \* the account or the tool's approval policy is gone
    upsets      \* how many upsets have happened

runVars    == <<status, generation>>
eventVars  == <<asked, results>>
actionVars == <<ledger, performed>>
worldVars  == <<withdrawn, upsets>>
vars == <<runVars, eventVars, caller, decider, actionVars, allowed, worldVars>>

Generation == 1 .. MaxGeneration

\* stable_tool_call_id.
Call == [generation : Generation, rpc : Rpc]

\* uq_external_action_execution_identity.
Key == [generation : Generation, call : Call]

\* A tool, and the arguments it is called with.
Action == [tool : Tool, digest : Digest]

RunStatus == {"RUNNING", "WAITING_APPROVAL", "CANCELLING", "ENDED"}
Outcome   == {"ok", "unknown", "error", "conflict", "stale"}

NoRow  == [state |-> "none", digest |-> "none"]
Row    == [state  : {"EXECUTING", "SUCCEEDED", "OUTCOME_UNKNOWN", "FAILED"},
           digest : Digest]
NoCall == [status |-> "none"]
NoWork == [pc |-> "idle"]

Init ==
    /\ status = "RUNNING" /\ generation = 1
    /\ asked = << >> /\ results = {}
    /\ caller = [c \in Caller |-> NoCall]
    /\ decider = [d \in Decider |-> NoWork]
    /\ ledger = [k \in Key |-> NoRow]
    /\ performed = [k \in Key |-> << >>]
    /\ allowed = {} /\ withdrawn = FALSE /\ upsets = 0

-----------------------------------------------------------------------------
(***************************************************************************)
(* The run's events.  An approval's id is its place among the approvals.   *)
(***************************************************************************)
Decided == {r.approval : r \in results}
Open    == DOMAIN asked \ Decided

\* find_pending_approval: the latest one without a result.
IsPending(a) == a \in Open /\ \A b \in Open : b <= a

\* find_argument_conflict
Conflicts(call, digest) ==
    \E a \in DOMAIN asked : asked[a].call = call /\ asked[a].digest # digest

\* find_tool_result: neither compares the tool.
Stored(call, digest) ==
    \E a \in Decided : asked[a].call = call /\ asked[a].digest = digest

-----------------------------------------------------------------------------
(***************************************************************************)
(* tools/call.  Reading the run and its events, with the answer            *)
(* "wait_approval" of decide_tool_call; a CANCELLING run is not terminal.  *)
(***************************************************************************)
CallRead(c, params) ==
    LET call   == [generation |-> generation, rpc |-> params.rpc]
        digest == params.digest
    IN  /\ caller[c] = NoCall /\ Len(asked) < MaxAsks
        /\ status \in {"RUNNING", "CANCELLING"}
        /\ ~withdrawn
        /\ ~Conflicts(call, digest) /\ ~Stored(call, digest)
        /\ Open = {}
        /\ caller' = [caller EXCEPT ![c] =
               [status |-> status, call |-> call, tool |-> params.tool,
                digest |-> digest]]
        /\ UNCHANGED <<runVars, eventVars, decider, actionVars, allowed,
                       worldVars>>

(***************************************************************************)
(* Once the catalog has answered: set_status with the status that was read *)
(* as the expected one, its result ignored, and the approval event, which  *)
(* append_event refuses only for a terminal run.                           *)
(***************************************************************************)
CallAsks(c) ==
    /\ caller[c] # NoCall /\ status # "ENDED" /\ Len(asked) < MaxAsks
    /\ status' = IF status = caller[c].status THEN "WAITING_APPROVAL"
                 ELSE status
    /\ asked' = Append(asked, [call   |-> caller[c].call,
                               tool   |-> caller[c].tool,
                               digest |-> caller[c].digest])
    /\ caller' = [caller EXCEPT ![c] = NoCall]
    /\ UNCHANGED <<generation, results, decider, actionVars, allowed,
                   worldVars>>

\* The event is refused, or the agent or the catalog does not answer.
CallFails(c) ==
    /\ caller[c] # NoCall
    /\ caller' = [caller EXCEPT ![c] = NoCall]
    /\ UNCHANGED <<runVars, eventVars, decider, actionVars, allowed, worldVars>>

-----------------------------------------------------------------------------
(***************************************************************************)
(* A decision at the agent.  Neither the run's status nor its generation   *)
(* is compared with those at the time of the call.                         *)
(***************************************************************************)

\* Seeded fault: whatever approval is pending is taken for the decided one.
SelectsAny(a, p) == IsPending(p)

\* complete_connector_approval handles approval a as the pending one, p.
Selects(a, p) == a = p /\ IsPending(p)

Idle(d) == decider[d] = NoWork

\* A decision takes any free place: they are all alike.
Free(d) == Idle(d) /\ d = CHOOSE e \in Decider : Idle(e)

At(d, pc) == decider[d].pc = pc

Goto(d, pc) == decider' = [decider EXCEPT ![d].pc = pc]

Return(d) == decider' = [decider EXCEPT ![d] = NoWork]

Deny(d, a) ==
    \E p \in DOMAIN asked :
        /\ Free(d) /\ Selects(a, p)
        /\ decider' = [decider EXCEPT ![d] = [pc |-> "deny", approval |-> p]]
        /\ UNCHANGED <<runVars, eventVars, caller, actionVars, allowed,
                       worldVars>>

\* The catalog lists the tool, or not any more.
Allow(d, a) ==
    \E p \in DOMAIN asked :
        /\ Free(d) /\ Selects(a, p)
        /\ decider' = [decider EXCEPT ![d] =
               [pc |-> IF withdrawn THEN "answered" ELSE "find",
                approval |-> p, generation |-> generation,
                outcome |-> IF withdrawn THEN "stale" ELSE "none",
                waits |-> TRUE]]
        /\ allowed' = allowed \cup {a}
        /\ UNCHANGED <<runVars, eventVars, caller, actionVars, worldVars>>

\* Seeded fault: the result is recorded, and the run left waiting.
RecordOnly(d, outcome) ==
    IF status = "ENDED" THEN UNCHANGED <<status, results>>
    ELSE /\ results' = results \cup
                {[approval |-> decider[d].approval, outcome |-> outcome]}
         /\ UNCHANGED status

(***************************************************************************)
(* One transaction: RUNNING if the run still waits, and the result event,  *)
(* refused, and everything with it, when the run is terminal.              *)
(***************************************************************************)
Record(d, outcome) ==
    IF status = "ENDED" THEN UNCHANGED <<status, results>>
    ELSE /\ status' = IF status = "WAITING_APPROVAL" THEN "RUNNING" ELSE status
         /\ results' = results \cup
                {[approval |-> decider[d].approval, outcome |-> outcome]}

DenyWrite(d) ==
    /\ At(d, "deny")
    /\ Record(d, "denied")
    /\ Return(d)
    /\ UNCHANGED <<generation, asked, caller, actionVars, allowed, worldVars>>

\* Seeded fault: an unknown outcome is left to be asked again.
RecordedKnown ==
    {"ok", "error", "conflict"}
        \cup (IF status = "WAITING_APPROVAL" THEN {} ELSE {"stale"})

(***************************************************************************)
(* The outcomes that leave a result event.  A tool that is gone fails a    *)
(* run that waits for it: the agent writes FAILED, has the event refused   *)
(* by the terminal run, and rolls both back.                               *)
(***************************************************************************)
Recorded ==
    IF status = "WAITING_APPROVAL" THEN Outcome \ {"stale"} ELSE Outcome

\* The answer of the backend reaches the agent, or one that has given up.
AllowWrite(d) ==
    /\ At(d, "answered")
    /\ IF decider[d].waits /\ decider[d].outcome \in Recorded
       THEN Record(d, decider[d].outcome) ELSE UNCHANGED <<status, results>>
    /\ Return(d)
    /\ UNCHANGED <<generation, asked, caller, actionVars, allowed, worldVars>>

-----------------------------------------------------------------------------
(***************************************************************************)
(* The backend: _execute_external_tool with the ledger's reserve and       *)
(* finish.  Rows are read and written in statements of their own, and a    *)
(* write does not compare the state that was read.                         *)
(***************************************************************************)
WorkKey(d) == [generation |-> decider[d].generation,
               call       |-> asked[decider[d].approval].call]
WorkDigest(d) == asked[decider[d].approval].digest
WorkAction(d) == [tool   |-> asked[decider[d].approval].tool,
                  digest |-> WorkDigest(d)]

Answer(d, outcome) ==
    decider' = [decider EXCEPT ![d].pc = "answered", ![d].outcome = outcome]

\* The account or the policy is gone: "fail_run".
BackendRefuses(d) ==
    /\ At(d, "find") /\ withdrawn
    /\ Answer(d, "stale")
    /\ UNCHANGED <<runVars, eventVars, caller, actionVars, allowed, worldVars>>

\* Seeded fault: the digest of the row is not compared.
LedgerGateAnyDigest(row, digest) ==
    IF row = NoRow THEN "start"
    ELSE IF row.state = "EXECUTING" THEN "unknown"
    ELSE "replay"

\* The row's tool_name is not compared.
LedgerGate(row, digest) ==
    IF row = NoRow THEN "start"
    ELSE IF row.digest # digest THEN "conflict"
    ELSE IF row.state = "EXECUTING" THEN "unknown"
    ELSE "replay"

\* _replay
ReplayOf(row) ==
    CASE row.state = "SUCCEEDED"       -> "ok"
      [] row.state = "OUTCOME_UNKNOWN" -> "unknown"
      [] OTHER                         -> "error"

\* reserve: _find and ledger_gate.
Look(d) ==
    LET row  == ledger[WorkKey(d)]
        gate == LedgerGate(row, WorkDigest(d))
    IN  CASE gate = "start"    -> Goto(d, "insert")
          [] gate = "unknown"  -> Goto(d, "mark")
          [] gate = "conflict" -> Answer(d, "conflict")
          [] gate = "replay"   -> Answer(d, ReplayOf(row))

Find(d) ==
    /\ At(d, "find") /\ ~withdrawn
    /\ Look(d)
    /\ UNCHANGED <<runVars, eventVars, caller, actionVars, allowed, worldVars>>

\* Seeded fault: the identity has no unique index.
AdmitsAlways(k) == TRUE

\* The unique index admits one row of an identity.
Admits(k) == ledger[k] = NoRow

\* The insertion, or its IntegrityError and another look at the row.
Insert(d) ==
    LET k == WorkKey(d)
    IN  /\ At(d, "insert")
        /\ IF Admits(k)
           THEN /\ ledger' = [ledger EXCEPT ![k] =
                       [state |-> "EXECUTING", digest |-> WorkDigest(d)]]
                /\ Goto(d, "broker")
           ELSE Look(d) /\ UNCHANGED ledger
        /\ UNCHANGED <<runVars, eventVars, caller, performed, allowed,
                       worldVars>>

SetState(k, state) == ledger' = [ledger EXCEPT ![k].state = state]

\* A row found EXECUTING is given up, whoever may still be executing it.
MarkUnknown(d) ==
    /\ At(d, "mark")
    /\ SetState(WorkKey(d), "OUTCOME_UNKNOWN")
    /\ Answer(d, "unknown")
    /\ UNCHANGED <<runVars, eventVars, caller, performed, allowed, worldVars>>

(***************************************************************************)
(* The broker's request.  The provider has acted when it says so; it may   *)
(* have acted when it answers with an error status or not at all.          *)
(***************************************************************************)
Act(d) ==
    performed' = [performed EXCEPT ![WorkKey(d)] = Append(@, WorkAction(d))]

Execute(d, outcome) ==
    /\ At(d, "broker")
    /\ \/ Act(d)
       \/ outcome # "ok" /\ UNCHANGED performed
    /\ decider' = [decider EXCEPT ![d].pc = "finish", ![d].outcome = outcome]
    /\ UNCHANGED <<runVars, eventVars, caller, ledger, allowed, worldVars>>

\* finish: _find; a row that is not EXECUTING is left alone.
FinishReads(d) ==
    /\ At(d, "finish")
    /\ Goto(d, IF ledger[WorkKey(d)].state = "EXECUTING" THEN "settle"
               ELSE "answered")
    /\ UNCHANGED <<runVars, eventVars, caller, actionVars, allowed, worldVars>>

\* Seeded fault: the outcome itself is stored as the row's state.
FinalStateRaw(outcome) == outcome

FinalState(outcome) ==
    CASE outcome = "ok"      -> "SUCCEEDED"
      [] outcome = "unknown" -> "OUTCOME_UNKNOWN"
      [] OTHER               -> "FAILED"

FinishWrites(d) ==
    /\ At(d, "settle")
    /\ SetState(WorkKey(d), FinalState(decider[d].outcome))
    /\ Goto(d, "answered")
    /\ UNCHANGED <<runVars, eventVars, caller, performed, allowed, worldVars>>

BackendPc == {"find", "insert", "mark", "broker", "finish", "settle"}

-----------------------------------------------------------------------------
(***************************************************************************)
(* Upsets: faults, and what the rest of the system does to the run while   *)
(* calls and decisions are in progress.                                    *)
(***************************************************************************)
Upset == upsets < MaxUpsets /\ upsets' = upsets + 1

\* The agent's 30 s are over, or it dies: its transaction is rolled back
\* and the backend's request goes on.
AgentGivesUp(d) ==
    /\ decider[d].pc \in BackendPc \cup {"answered"} /\ decider[d].waits
    /\ Upset
    /\ decider' = [decider EXCEPT ![d].waits = FALSE]
    /\ UNCHANGED <<runVars, eventVars, caller, actionVars, allowed, withdrawn>>

\* The backend dies, and the agent's request with it.
BackendCrashes(d) ==
    /\ decider[d].pc \in BackendPc
    /\ Upset
    /\ Return(d)
    /\ UNCHANGED <<runVars, eventVars, caller, actionVars, allowed, withdrawn>>

\* The worker's lease runs out and the run is claimed again.
NextAttempt ==
    /\ status = "RUNNING" /\ generation < MaxGeneration
    /\ Upset
    /\ generation' = generation + 1
    /\ UNCHANGED <<status, eventVars, caller, decider, actionVars, allowed,
                   withdrawn>>

\* cancel_run, the runtime's last event, or an aggregation.
RunMoves ==
    /\ \/ status \in {"RUNNING", "WAITING_APPROVAL"} /\ status' = "CANCELLING"
       \/ status # "ENDED" /\ status' = "ENDED"
    /\ Upset
    /\ UNCHANGED <<generation, eventVars, caller, decider, actionVars, allowed,
                   withdrawn>>

Withdraw ==
    /\ ~withdrawn /\ withdrawn' = TRUE
    /\ Upset
    /\ UNCHANGED <<runVars, eventVars, caller, decider, actionVars, allowed>>

-----------------------------------------------------------------------------
DeciderStep(d) ==
    \/ DenyWrite(d)
    \/ AllowWrite(d)
    \/ BackendRefuses(d)
    \/ Find(d)
    \/ Insert(d)
    \/ MarkUnknown(d)
    \/ \E outcome \in ProviderSays : Execute(d, outcome)
    \/ FinishReads(d)
    \/ FinishWrites(d)

Decide(d) == \E a \in DOMAIN asked : Deny(d, a) \/ Allow(d, a)

CallerNext(c) ==
    \/ \E params \in Sends(c) : CallRead(c, params)
    \/ CallAsks(c)
    \/ CallFails(c)

Next ==
    \/ \E c \in Caller : CallerNext(c)
    \/ \E d \in Decider :
          \/ DeciderStep(d)
          \/ Decide(d)
          \/ AgentGivesUp(d)
          \/ BackendCrashes(d)
    \/ NextAttempt
    \/ RunMoves
    \/ Withdraw

(***************************************************************************)
(* Every request a decision waits for has a timeout, and the user decides  *)
(* the pending approval sooner or later, again if a decision has failed.   *)
(***************************************************************************)
Fairness ==
    /\ \A d \in Decider : WF_vars(DeciderStep(d))
    /\ WF_vars(\E d \in Decider : Decide(d))

Spec     == Init /\ [][Next]_vars
FairSpec == Spec /\ Fairness

-----------------------------------------------------------------------------
(***************************************************************************)
(* The types of the variables, with the decision each position implies.    *)
(***************************************************************************)
Work == [pc : BackendPc \cup {"answered"}, approval : 1 .. MaxAsks,
         generation : Generation, outcome : Outcome \cup {"none"},
         waits : BOOLEAN]

TypeOK ==
    /\ status \in RunStatus /\ generation \in Generation
    /\ asked \in Seq([call : Call, tool : Tool, digest : Digest])
    /\ Len(asked) <= MaxAsks
    /\ results \subseteq [approval : DOMAIN asked,
                          outcome : Outcome \cup {"denied"}]
    /\ caller \in [Caller -> {NoCall} \cup
           [status : {"RUNNING", "CANCELLING"}, call : Call, tool : Tool,
            digest : Digest]]
    /\ decider \in [Decider -> {NoWork} \cup Work \cup
           [pc : {"deny"}, approval : 1 .. MaxAsks]]
    /\ \A d \in Decider : ~Idle(d) => decider[d].approval \in DOMAIN asked
    /\ ledger \in [Key -> {NoRow} \cup Row]
    /\ performed \in [Key -> Seq(Action)]
    /\ allowed \subseteq DOMAIN asked
    /\ withdrawn \in BOOLEAN /\ upsets \in 0 .. MaxUpsets

(***************************************************************************)
(* A result "ok" in the run's events is never a guess: under this call id  *)
(* the provider has carried out, with exactly these arguments, what the    *)
(* user has allowed.  It is this very tool unless the runtime has used the *)
(* id with the same arguments for another one: nothing compares the tools, *)
(* and the result may then be the replay of the other tool's.              *)
(***************************************************************************)
OkMeansPerformed ==
    \A r \in results : r.outcome = "ok" =>
        \E a \in allowed :
            /\ asked[a].call = asked[r.approval].call
            /\ asked[a].digest = asked[r.approval].digest
            /\ \E g \in Generation :
                  LET k == [generation |-> g, call |-> asked[a].call]
                  IN  \E i \in DOMAIN performed[k] :
                          /\ performed[k][i].tool = asked[a].tool
                          /\ performed[k][i].digest = asked[a].digest

(***************************************************************************)
(* The provider never acts on anything but a call whose own approval the   *)
(* user has allowed, with the tool and the arguments that approval showed: *)
(* two calls may put two approvals to the user, and only the later one is  *)
(* pending.                                                                *)
(***************************************************************************)
PerformedMeansAllowed ==
    \A k \in Key : \A i \in DOMAIN performed[k] :
        \E a \in allowed :
            asked[a] = [call   |-> k.call,
                        tool   |-> performed[k][i].tool,
                        digest |-> performed[k][i].digest]

(***************************************************************************)
(* A run that waits for an approval has one that can be decided, and so    *)
(* does not wait for ever: whichever calls have put their approvals and    *)
(* whichever decisions, one of them repeated or late, have been written.   *)
(***************************************************************************)
WaitingMeansOpen == status = "WAITING_APPROVAL" => Open # {}

(***************************************************************************)
(* The ledger's promise, ActionLedger: for one identity the provider acts  *)
(* at most once, whichever decisions are repeated, race or crash.          *)
(***************************************************************************)
Verdict(k) ==
    CASE ledger[k] = NoRow                   -> "none"
      [] ledger[k].state = "EXECUTING"       -> "open"
      [] ledger[k].state = "SUCCEEDED"       -> "ok"
      [] ledger[k].state = "OUTCOME_UNKNOWN" -> "unknown"
      [] OTHER                               -> "error"

Promise == INSTANCE ActionLedger WITH
    verdict <- [k \in Key |-> Verdict(k)],
    actions <- [k \in Key |-> Len(performed[k])]

ImplementsLedger == Promise!Spec

(***************************************************************************)
(* Every approval that was asked for is decided, also when answers are     *)
(* lost or the backend dies and the decision has to be repeated, so that   *)
(* the run's next tool calls are not refused for ever.  Excepted are a run *)
(* that ends, and a tool that is withdrawn: a handler that finds the run   *)
(* waiting then writes FAILED and loses it with the refused event.         *)
(***************************************************************************)
ApprovalsAreDecided ==
    Open # {} ~> (Open = {} \/ status = "ENDED" \/ withdrawn)
=============================================================================
