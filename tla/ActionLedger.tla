---------------------------- MODULE ActionLedger ----------------------------
(***************************************************************************)
(* What the execution ledger of external actions promises of an identity,  *)
(* that is a run's generation and a tool call: the provider carries the    *)
(* action out at most once, and only after its row was opened; a row says  *)
(* "ok" only of an action that was carried out, and is never open again.   *)
(* Requests, approvals and crashes do not appear; ToolCall implements it.  *)
(***************************************************************************)
EXTENDS Naturals

CONSTANT Key

VARIABLES verdict, \* what the ledger says of an identity
          actions  \* how often the provider has carried it out

vars == <<verdict, actions>>

Over == {"ok", "unknown", "error"}

Init ==
    /\ verdict = [k \in Key |-> "none"]
    /\ actions = [k \in Key |-> 0]

Open(k) ==
    /\ verdict[k] = "none"
    /\ verdict' = [verdict EXCEPT ![k] = "open"]
    /\ UNCHANGED actions

\* Also when a second request has given the open row up.
Act(k) ==
    /\ verdict[k] # "none" /\ actions[k] = 0
    /\ actions' = [actions EXCEPT ![k] = 1]
    /\ UNCHANGED verdict

\* Two requests that both found the row open may overwrite each other.
Settle(k) ==
    /\ verdict[k] # "none"
    /\ \E v \in Over :
          /\ v = "ok" => actions[k] = 1
          /\ verdict' = [verdict EXCEPT ![k] = v]
    /\ UNCHANGED actions

Next == \E k \in Key : Open(k) \/ Act(k) \/ Settle(k)

Spec == Init /\ [][Next]_vars
=============================================================================
