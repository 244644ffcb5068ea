----------------------------- MODULE CheckTurns -----------------------------
(***************************************************************************)
(* What the checks of a monitor are to each other: they take turns.  From    *)
(* the moment a check has read the incidents of its monitor until it commits *)
(* or gives up, no other check of that monitor decides anything, and what it *)
(* commits is what it has decided.  CheckPipeline implements this with a row *)
(* lock.                                                                    *)
(***************************************************************************)
CONSTANTS Monitors, Incidents, Checks, NoIncident

VARIABLES
  open,    \* the open incident of each monitor, as a set
  closed,  \* the incidents that are over
  turn     \* the decision about each monitor that is not committed yet, as a set

TurnVars == <<open, closed, turn>>

TurnInit ==
  /\ open = [m \in Monitors |-> {}]
  /\ closed = {}
  /\ turn = [m \in Monitors |-> {}]

Takes(m, c, write, i) ==
  /\ turn[m] = {}
  /\ turn' = [turn EXCEPT ![m] = {[by |-> c, write |-> write, incident |-> i]}]
  /\ UNCHANGED <<open, closed>>

\* A new incident: not open, not closed, and nobody is about to open it.
Fresh(i) ==
  /\ i \notin closed
  /\ \A n \in Monitors : /\ i \notin open[n]
                         /\ \A d \in turn[n] : d.write = "open" => d.incident # i

TakeToOpen(m, c, i) == open[m] = {} /\ Fresh(i) /\ Takes(m, c, "open", i)

TakeToClose(m, c, i) == open[m] = {i} /\ Takes(m, c, "close", i)

TakeToStay(m, c) ==
  \/ \E i \in open[m] : Takes(m, c, "none", i)
  \/ open[m] = {} /\ Takes(m, c, "none", NoIncident)

\* The decision is carried out, on the incidents it was made of.
Carry(m) ==
  \E d \in turn[m] :
    /\ turn' = [turn EXCEPT ![m] = {}]
    /\ open' = [open EXCEPT ![m] = CASE d.write = "open"  -> {d.incident}
                                     [] d.write = "close" -> {}
                                     [] OTHER             -> open[m]]
    /\ closed' = IF d.write = "close" THEN closed \cup {d.incident} ELSE closed

GiveUp(m) ==
  /\ turn[m] # {}
  /\ turn' = [turn EXCEPT ![m] = {}]
  /\ UNCHANGED <<open, closed>>

TurnNext ==
  \E m \in Monitors :
    \/ \E c \in Checks : \/ TakeToStay(m, c)
                         \/ \E i \in Incidents : TakeToOpen(m, c, i) \/ TakeToClose(m, c, i)
    \/ Carry(m)
    \/ GiveUp(m)

Spec == TurnInit /\ [][TurnNext]_TurnVars
=============================================================================
