-------------------------- MODULE MCBrowserSession --------------------------
(* BrowserSession with calls that may be exchanged for each other. *)
EXTENDS BrowserSession, TLC

Symmetry == Permutations(Calls)
=============================================================================
