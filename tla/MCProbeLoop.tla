---------------------------- MODULE MCProbeLoop ----------------------------
(* ProbeLoop with at most four attempts. *)
EXTENDS ProbeLoop
=============================================================================
