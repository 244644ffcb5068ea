--------------------------- MODULE MCExpiryAlerts ---------------------------
(* ExpiryAlerts with two thresholds and a short calendar. *)
EXTENDS ExpiryAlerts, TLC

Symmetry == Permutations(Tasks)
=============================================================================
