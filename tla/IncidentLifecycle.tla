------------------------- MODULE IncidentLifecycle -------------------------
(***************************************************************************)
(* What the incidents of MONI promise, without processes, transactions or   *)
(* messages: a monitor has at most one open incident; an incident is opened  *)
(* once, closed at most once, and stays with its monitor.                   *)
(***************************************************************************)
CONSTANTS Monitors, Incidents

VARIABLES
  open,    \* the open incident of each monitor, as a set
  closed   \* the incidents that are over

LifecycleVars == <<open, closed>>

LifecycleInit == open = [m \in Monitors |-> {}] /\ closed = {}

OpenFor(m, i) ==
  /\ open[m] = {}
  /\ i \notin closed
  /\ \A n \in Monitors : i \notin open[n]
  /\ open' = [open EXCEPT ![m] = {i}]
  /\ closed' = closed

CloseFor(m, i) ==
  /\ open[m] = {i}
  /\ open' = [open EXCEPT ![m] = {}]
  /\ closed' = closed \cup {i}

LifecycleNext ==
  \E m \in Monitors, i \in Incidents : OpenFor(m, i) \/ CloseFor(m, i)

Spec == LifecycleInit /\ [][LifecycleNext]_LifecycleVars
=============================================================================
