--------------------------- MODULE MCStatusPages ---------------------------
(* StatusPages with two monitors and two slugs.  A PATCH names its monitor twice: *)
(* NewLinks makes one link of it, so that the list of one name is covered too.   *)
EXTENDS StatusPages, TLC

CONSTANTS m1, m2

Lists == {<<m1, m1>>, <<m2, m2>>}

NoFields == [slug |-> Unset, is_public |-> Unset, monitor_ids |-> Unset]

NewPages == {[slug |-> s, is_public |-> TRUE, monitor_ids |-> l] :
               s \in Slugs, l \in {<<m1>>, <<m2>>}}

Changes == {[NoFields EXCEPT !.slug = s] : s \in Slugs}
           \cup {[NoFields EXCEPT !.is_public = FALSE]}
           \cup {[NoFields EXCEPT !.monitor_ids = l] : l \in Lists}

MCBodies == NewPages \cup Changes

Symmetry == Permutations(Requests) \cup Permutations(Pages) \cup Permutations(Slugs)
            \cup Permutations(Monitors)
=============================================================================
