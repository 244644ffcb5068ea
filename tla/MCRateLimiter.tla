--------------------------- MODULE MCRateLimiter ---------------------------
(* RateLimiter with a clock that ticks twice in a second. *)
EXTENDS RateLimiter
=============================================================================
