------------------------- MODULE MCRunCheckPolling -------------------------
(* RunCheckPolling with a few clicks, requests and checks. *)
EXTENDS RunCheckPolling
=============================================================================
