------------------------- MODULE VersionPublishing -------------------------
(***************************************************************************)
(* What the ingestion of a source file promises: the version the file      *)
(* publishes changes only to one whose document was parsed into chunks,    *)
(* by a member or by the worker that holds the lease of a job of that      *)
(* version; a worker that has lost its lease records nothing.  Statuses,   *)
(* polls and crashes do not appear; Ingestion implements it.               *)
(***************************************************************************)
CONSTANTS Version, Job, Worker, Nobody, NoJob, NoVersion

VARIABLES published, \* the version members search
          parsed,    \* versions whose document was parsed into chunks
          target,    \* the version of a job
          lease,     \* who holds a job's lease
          at         \* the job a worker is at

vars == <<published, parsed, target, lease, at>>

Init ==
    /\ parsed \subseteq Version /\ published \in {NoVersion} \cup parsed
    /\ target \in [Job -> {NoVersion} \cup Version]
    /\ lease = [j \in Job |-> Nobody]
    /\ at = [w \in Worker |-> NoJob]

Parse(v) ==
    /\ parsed' = parsed \cup {v}
    /\ UNCHANGED <<published, target, lease, at>>

AddJob(j, v) ==
    /\ target[j] = NoVersion
    /\ target' = [target EXCEPT ![j] = v]
    /\ lease' = [lease EXCEPT ![j] = Nobody]
    /\ UNCHANGED <<published, parsed, at>>

Claim(w, j) ==
    /\ at[w] = NoJob
    /\ at' = [at EXCEPT ![w] = j]
    /\ lease' = [lease EXCEPT ![j] = w]
    /\ UNCHANGED <<published, parsed, target>>

\* The lease may be kept, for the next poll of an unfinished document.
Finish(w, j) ==
    /\ at[w] = j /\ lease[j] = w
    /\ at' = [at EXCEPT ![w] = NoJob]
    /\ lease' \in {lease, [lease EXCEPT ![j] = Nobody]}
    /\ published' \in {published} \cup ({target[j]} \cap parsed)
    /\ UNCHANGED <<parsed, target>>

Discard(w) ==
    /\ at' = [at EXCEPT ![w] = NoJob]
    /\ UNCHANGED <<published, parsed, target, lease>>

Withdraw(j) ==
    /\ lease' = [lease EXCEPT ![j] = Nobody]
    /\ UNCHANGED <<published, parsed, target, at>>

Activate(v) ==
    /\ v \in parsed
    /\ published' = v
    /\ UNCHANGED <<parsed, target, lease, at>>

Next ==
    \/ \E v \in Version : Parse(v) \/ Activate(v)
    \/ \E j \in Job :
          \/ Withdraw(j)
          \/ \E v \in Version : AddJob(j, v)
          \/ \E w \in Worker : Claim(w, j) \/ Finish(w, j)
    \/ \E w \in Worker : Discard(w)

Spec == Init /\ [][Next]_vars
=============================================================================
