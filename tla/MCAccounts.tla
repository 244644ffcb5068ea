----------------------------- MODULE MCAccounts -----------------------------
(* Accounts with two addresses and two Google accounts, one of which changes its
   address to that of the other. *)
EXTENDS Accounts, TLC

CONSTANTS e1, e2, g1, g2

MCProfiles == {[sub |-> g1, email |-> e1], [sub |-> g1, email |-> e2], [sub |-> g2, email |-> e1]}

Symmetry == Permutations(Requests)
=============================================================================
