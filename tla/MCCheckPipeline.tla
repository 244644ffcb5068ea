-------------------------- MODULE MCCheckPipeline --------------------------
(* CheckPipeline on small instances. *)
EXTENDS CheckPipeline, TLC

TwoResults == {r \in ProbeResults : r.status \in {"slow", "timeout"}}

\* Sound for safety only; the liveness run does not use it.
Symmetry == Permutations(Workers) \cup Permutations(Incidents)
=============================================================================
