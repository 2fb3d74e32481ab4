---------------------------- MODULE JobDelivery ----------------------------
(***************************************************************************)
(* What the edge transport promises of a job, whoever crashes: it is       *)
(* handed out until it is settled and never again, every time under the    *)
(* next number; and it is settled with an outcome only after the run has   *)
(* been told that outcome, or has ended for another reason.  EdgeJob       *)
(* implements this module.                                                 *)
(***************************************************************************)
EXTENDS Naturals

CONSTANT Job

VARIABLES
    state,   \* of each job
    number,  \* of its last delivery
    told,    \* the outcomes its run has been told
    ended    \* the jobs whose run has ended

vars == <<state, number, told, ended>>

Outcome == {"COMPLETED", "FAILED"}

Init ==
    /\ state = [j \in Job |-> "waiting"]
    /\ number = [j \in Job |-> 0]
    /\ told = [j \in Job |-> {}]
    /\ ended = {}

Deliver(j) ==
    /\ state[j] \in {"waiting", "delivered"}
    /\ state' = [state EXCEPT ![j] = "delivered"]
    /\ number' = [number EXCEPT ![j] = @ + 1]
    /\ UNCHANGED <<told, ended>>

\* Being told may be what ends the run.
Tell(j, o) ==
    /\ number[j] > 0
    /\ told' = [told EXCEPT ![j] = @ \cup {o}]
    /\ ended' \in {ended, ended \cup {j}}
    /\ UNCHANGED <<state, number>>

EndRun(j) ==
    /\ ended' = ended \cup {j}
    /\ UNCHANGED <<state, number, told>>

Settle(j, o) ==
    /\ state[j] # "waiting"
    /\ o \in told[j] \/ j \in ended
    /\ state' = [state EXCEPT ![j] = o]
    /\ UNCHANGED <<number, told, ended>>

Next ==
    \E j \in Job :
        \/ Deliver(j)
        \/ EndRun(j)
        \/ \E o \in Outcome : Tell(j, o) \/ Settle(j, o)

Spec == Init /\ [][Next]_vars
=============================================================================
