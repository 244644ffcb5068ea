-------------------------- MODULE MCIncidentAlerts --------------------------
(* IncidentAlerts on a short horizon. *)
EXTENDS IncidentAlerts, TLC

Symmetry == Permutations(Notifiers) \cup Permutations(Incidents)
=============================================================================
