---------------------------- MODULE RunLifecycle ----------------------------
(***************************************************************************)
(* What the agent promises of a run, whoever acts on it: the life cycle    *)
(* through which runs.status passes, and an execution number that only a   *)
(* claim advances, by one.  Neither workers, leases, steps nor edge jobs   *)
(* appear here; SkillRun implements this module.                           *)
(***************************************************************************)
EXTENDS Naturals

CONSTANTS Run, HybridRun, GatedRun

VARIABLES phase, epoch

vars == <<phase, epoch>>

Ended == {"COMPLETED", "FAILED", "CANCELLED"}

Phase == Ended \cup {"QUEUED", "PREPARING", "RUNNING", "WAITING_APPROVAL",
                     "WAITING_EDGE", "CANCELLING"}

Init ==
    /\ phase = [r \in Run |->
                   IF r \in GatedRun THEN "WAITING_APPROVAL" ELSE "QUEUED"]
    /\ epoch = [r \in Run |-> 0]

Claim(r) ==
    /\ phase[r] = "QUEUED" /\ phase'[r] = "PREPARING"
    /\ epoch'[r] = epoch[r] + 1

Move(r, from, to) ==
    /\ phase[r] \in from /\ phase'[r] \in to
    /\ epoch'[r] = epoch[r]

Executed == {"PREPARING", "RUNNING"}

Start(r)         == Move(r, {"PREPARING"}, {"RUNNING"})
Requeue(r)       == Move(r, Executed, {"QUEUED"})
AskApproval(r)   == Move(r, Executed, {"WAITING_APPROVAL"})
Approve(r)       == Move(r, {"WAITING_APPROVAL"}, {"QUEUED"})
WaitForEdge(r)   == Move(r, {"RUNNING"}, {"WAITING_EDGE"})
RequestCancel(r) ==
    Move(r, Executed \cup {"WAITING_APPROVAL", "WAITING_EDGE"}, {"CANCELLING"})

(***************************************************************************)
(* A run in execution is cancelled by way of CANCELLING.  Excepted is a    *)
(* gated run, which may wait for approval when the request is made and be  *)
(* in execution when it is carried out.                                    *)
(***************************************************************************)
Cancel(r) ==
    Move(r, {"QUEUED", "WAITING_APPROVAL", "WAITING_EDGE", "CANCELLING"}
                \cup (IF r \in GatedRun THEN Executed ELSE {}), {"CANCELLED"})

(***************************************************************************)
(* A queued run is not completed or failed.  Excepted are the runs of R    *)
(* that are queued once more: an earlier execution may still end them.     *)
(***************************************************************************)
QueuedAgain(r, R) == IF r \in R /\ epoch[r] > 0 THEN {"QUEUED"} ELSE {}

Complete(r) ==
    Move(r, {"RUNNING", "WAITING_APPROVAL", "WAITING_EDGE"}
                \cup QueuedAgain(r, GatedRun), {"COMPLETED"})

Fail(r) ==
    Move(r, (Phase \ (Ended \cup {"QUEUED"}))
                \cup QueuedAgain(r, GatedRun \cup HybridRun), {"FAILED"})

Advance(r) ==
    \/ Claim(r)
    \/ Start(r)
    \/ Requeue(r)
    \/ AskApproval(r)
    \/ Approve(r)
    \/ WaitForEdge(r)
    \/ RequestCancel(r)
    \/ Complete(r)
    \/ Fail(r)
    \/ Cancel(r)

Stay(r) == phase'[r] = phase[r] /\ epoch'[r] = epoch[r]

(***************************************************************************)
(* One transaction may advance several runs, each along the life cycle.    *)
(***************************************************************************)
Next ==
    /\ phase' \in [Run -> Phase]
    /\ epoch' \in [Run -> Nat]
    /\ \A r \in Run : Advance(r) \/ Stay(r)

Spec == Init /\ [][Next]_vars
=============================================================================
