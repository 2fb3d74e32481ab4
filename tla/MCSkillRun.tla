----------------------------- MODULE MCSkillRun -----------------------------
(* Small instances of SkillRun for TLC. *)
EXTENDS SkillRun, TLC

\* Workers are alike, and so are the edge steps of a plan.
Symmetry == Permutations(Worker) \cup Permutations(EdgeStep)
=============================================================================
