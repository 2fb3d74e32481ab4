---------------------------- MODULE RunHandover ----------------------------
(***************************************************************************)
(* What the hand-over of a run promises, whoever carries it out: the entry *)
(* of the outbox, the run at the agent and what the task reports of it.    *)
(* Neither dispatchers, leases, retries, requests on their way nor stale   *)
(* reads appear here; RunDispatch implements this module.                  *)
(***************************************************************************)
EXTENDS Naturals

CONSTANT Run

VARIABLES
    entry,  \* the entry of the outbox
    epoch,  \* how often it has been claimed
    run,    \* the run at the agent
    report  \* the status of the task

vars == <<entry, epoch, run, report>>

Init ==
    /\ entry = [r \in Run |-> "PENDING"]
    /\ epoch = [r \in Run |-> 0]
    /\ run = [r \in Run |-> "none"]
    /\ report = [r \in Run |-> "queued"]

Open == {"PENDING", "DELIVERING"}

Stay(r) == UNCHANGED <<entry[r], epoch[r], run[r], report[r]>>

\* Only an open entry is claimed, and each claim is counted.
Claim(r) ==
    /\ entry[r] \in Open /\ entry'[r] = "DELIVERING"
    /\ epoch'[r] = epoch[r] + 1
    /\ UNCHANGED <<run[r], report[r]>>

\* An entry is delivered only when its run exists.
Deliver(r) ==
    /\ run[r] # "none" /\ entry'[r] = "DELIVERED"
    /\ UNCHANGED <<epoch[r], run[r], report[r]>>

\* Only an entry that has been claimed is queued again or given up.
Requeue(r) ==
    /\ epoch[r] > 0 /\ entry'[r] = "PENDING"
    /\ UNCHANGED <<epoch[r], run[r], report[r]>>

GiveUp(r) ==
    /\ epoch[r] > 0 /\ entry'[r] = "DEAD_LETTER"
    /\ \/ report'[r] = report[r]
       \/ report[r] \in {"queued", "running"} /\ report'[r] = "failed"
    /\ UNCHANGED <<epoch[r], run[r]>>

\* A user cancels the entry, the task or both.
Withdraw(r) ==
    /\ entry'[r] \in {entry[r], "CANCELLED"}
    /\ report'[r] \in {report[r], "cancelled"}
    /\ UNCHANGED <<epoch[r], run[r]>>

\* A run is created once, for an entry that has been claimed, and ends once.
Create(r) ==
    /\ epoch[r] > 0
    /\ run[r] = "none" /\ run'[r] = "RUNNING"
    /\ UNCHANGED <<entry[r], epoch[r], report[r]>>

End(r) ==
    /\ run[r] = "RUNNING" /\ run'[r] = "COMPLETED"
    /\ UNCHANGED <<entry[r], epoch[r], report[r]>>

CancelRun(r) ==
    /\ run[r] = "RUNNING" /\ run'[r] = "CANCELLED"
    /\ report'[r] \in {report[r], "cancelled"}
    /\ UNCHANGED <<entry[r], epoch[r]>>

\* The task is told what the run was, late perhaps, and never more.
Report(r) ==
    /\ \/ run[r] # "none" /\ report'[r] = "running"
       \/ run[r] = "COMPLETED" /\ report'[r] = "completed"
       \/ run[r] = "CANCELLED" /\ report'[r] = "cancelled"
    /\ UNCHANGED <<entry[r], epoch[r], run[r]>>

\* The run is reported missing only when nobody will deliver its entry.
ReportMissing(r) ==
    /\ entry[r] \notin Open /\ report'[r] = "missing"
    /\ UNCHANGED <<entry[r], epoch[r], run[r]>>

Advance(r) ==
    \/ Claim(r)
    \/ Deliver(r)
    \/ Requeue(r)
    \/ GiveUp(r)
    \/ Withdraw(r)
    \/ Create(r)
    \/ End(r)
    \/ CancelRun(r)
    \/ Report(r)
    \/ ReportMissing(r)

(***************************************************************************)
(* A dispatcher claims a batch: several runs may advance in one step.      *)
(***************************************************************************)
Next ==
    /\ entry' \in [Run -> Open \cup {"DELIVERED", "DEAD_LETTER", "CANCELLED"}]
    /\ epoch' \in [Run -> Nat]
    /\ run' \in [Run -> {"none", "RUNNING", "COMPLETED", "CANCELLED"}]
    /\ report' \in [Run -> {"queued", "running", "completed", "failed",
                            "cancelled", "missing"}]
    /\ \A r \in Run : Advance(r) \/ Stay(r)

Spec == Init /\ [][Next]_vars
=============================================================================
