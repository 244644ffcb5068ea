------------------------ MODULE CheckPipelineProofs ------------------------
(***************************************************************************)
(* Machine-checked proofs about CheckPipeline, for any sets of monitors,    *)
(* workers, requests and incident identifiers and any bounds.               *)
(***************************************************************************)
EXTENDS CheckPipeline, TLAPS

\* The records of a process with nothing to do are well typed.
LEMMA IdleType == Idle \in TaskType
BY DEF Idle, TaskType, NoResult, Codes, Errors

LEMMA NoRequestType == NoRequest \in RequestType
BY DEF NoRequest, RequestType, MonitorStatus

\* What a commit copies from a probe result into the monitor row.
LEMMA ResultFields ==
  ASSUME NEW result \in ProbeResults \cup {NoResult}
  PROVE  /\ StatusAfter(result) \in MonitorStatus
         /\ result.code \in Codes
         /\ result.error \in Errors
<1>1. result.status \in {"up", "slow", "http_error", "timeout", "none"}
  BY DEF ProbeResults, NoResult
<1>2. StatusAfter(result) \in MonitorStatus
  BY <1>1 DEF StatusAfter, IsProbeFailure, MonitorStatus
<1>3. result.code \in Codes
  BY DEF ProbeResults, NoResult, Codes
<1>4. result.error \in Errors
  BY DEF ProbeResults, NoResult, Errors
<1> QED
  BY <1>2, <1>3, <1>4

\* Changing one row to a row keeps the table of rows, whatever its key is.
LEMMA RowChanged ==
  ASSUME NEW before \in [Monitors -> RowType], NEW m, NEW r, m \in Monitors => r \in RowType
  PROVE  [before EXCEPT ![m] = r] \in [Monitors -> RowType]
<1>1. CASE m \in Monitors
  BY <1>1
<1>2. CASE m \notin Monitors
  BY <1>2
<1> QED
  BY <1>1, <1>2

\* What a commit makes of the table of incidents is such a table.
LEMMA IncidentsTyped ==
  ASSUME NEW t, t.monitor \in Monitors \cup {NoMonitor}, incident \in [Incidents -> IncidentType]
  PROVE  IncidentsAfter(t) \in [Incidents -> IncidentType]
<1>1. CASE t.write = "open"
  BY <1>1 DEF IncidentsAfter, IncidentType
<1>2. CASE t.write = "close"
  BY <1>2 DEF IncidentsAfter, IncidentType
<1>3. CASE t.write \notin {"open", "close"}
  BY <1>3 DEF IncidentsAfter
<1> QED
  BY <1>1, <1>2, <1>3

\* A task that notes the result of its probe, or its decision, is a task.
LEMMA ProbedTask ==
  ASSUME NEW t \in TaskType, NEW result \in ProbeResults \cup {NoResult}
  PROVE  [t EXCEPT !.pc = "probed", !.result = result] \in TaskType
BY DEF TaskType

LEMMA DecidedTask ==
  ASSUME NEW t \in TaskType, NEW i \in Incidents \cup {NoIncident},
         NEW write \in {"none", "open", "close"}
  PROVE  [t EXCEPT !.pc = "decided", !.incident = i, !.write = write] \in TaskType
BY DEF TaskType

\* Every step of the specification keeps every variable in its type.
LEMMA TypeStep == TypeOK /\ [Next]_vars => TypeOK'
<1> SUFFICES ASSUME TypeOK, [Next]_vars PROVE TypeOK'
  OBVIOUS
<1> USE DEF TypeOK
<1>1. CASE BeatSelect
  BY <1>1 DEF BeatSelect
<1>2. CASE BeatDies
  BY <1>2, BoundAssumption DEF BeatDies
<1>3. ASSUME NEW m \in Monitors, BeatSend(m) PROVE TypeOK'
  BY <1>3, BoundAssumption DEF BeatSend
<1>4. ASSUME NEW m \in Monitors, Delete(m) PROVE TypeOK'
  BY <1>4 DEF Delete, RowType
<1>5. ASSUME NEW r \in Requests, RequestEnqueue(r) PROVE TypeOK'
  <2>1. queue' \in [Monitors -> 0 .. MaxQueue]
    <3> DEFINE m == request[r].monitor
    <3>1. queue[m] < MaxQueue /\ queue' = [queue EXCEPT ![m] = @ + 1]
      BY <1>5 DEF RequestEnqueue
    <3> HIDE DEF m
    <3>2. CASE m \in Monitors
      BY <3>1, <3>2, BoundAssumption
    <3>3. CASE m \notin Monitors
      BY <3>1, <3>3
    <3> QED
      BY <3>2, <3>3
  <2>2. request' \in [Requests -> RequestType]
    BY <1>5, NoRequestType DEF RequestEnqueue
  <2> QED
    BY <1>5, <2>1, <2>2 DEF RequestEnqueue
<1>6. ASSUME NEW r \in Requests, PatchCommit(r) PROVE TypeOK'
  <2>1. row' \in [Monitors -> RowType]
    <3> DEFINE m == request[r].monitor
               paused == Written(row[m].is_paused, request[r].is_paused, request[r].pause)
               new == IF request[r].pause THEN "paused" ELSE "pending"
               status == Written(row[m].current_status, request[r].current_status, new)
    <3>1. row' = [row EXCEPT ![m] = [@ EXCEPT !.is_paused = paused, !.current_status = status]]
      BY <1>6 DEF PatchCommit
    <3>2. request[r].pause \in BOOLEAN /\ new \in MonitorStatus
      BY DEF RequestType, MonitorStatus
    <3>3. m \in Monitors => paused \in BOOLEAN /\ status \in MonitorStatus
      BY <3>2 DEF RowType, Written
    <3> HIDE DEF m, paused, status
    <3> DEFINE updated == [row[m] EXCEPT !.is_paused = paused, !.current_status = status]
    <3>4. ASSUME m \in Monitors PROVE updated \in RowType
      <4>1. row[m] \in RowType
        BY <3>4
      <4>2. paused \in BOOLEAN /\ status \in MonitorStatus
        BY <3>3, <3>4
      <4> QED
        BY ONLY <4>1, <4>2 DEF RowType
    <3>5. row' = [row EXCEPT ![m] = updated]
      BY <3>1
    <3>6. row \in [Monitors -> RowType]
      OBVIOUS
    <3> HIDE DEF updated
    <3> QED
      BY ONLY <3>4, <3>5, <3>6, RowChanged
  <2>2. request' \in [Requests -> RequestType]
    BY <1>6, NoRequestType DEF PatchCommit
  <2> QED
    BY <1>6, <2>1, <2>2 DEF PatchCommit
<1>7. ASSUME NEW r \in Requests, RequestDies(r) PROVE TypeOK'
  <2>1. request' \in [Requests -> RequestType]
    BY <1>7, NoRequestType DEF RequestDies
  <2> QED
    BY <1>7, <2>1, BoundAssumption DEF RequestDies
<1>8. ASSUME NEW r \in Requests, NEW m \in Monitors, Create(r, m) PROVE TypeOK'
  <2>1. row' \in [Monitors -> RowType]
    BY <1>8 DEF Create, RowType
  <2>2. request' \in [Requests -> RequestType]
    BY <1>8, NoRequestType DEF Create, RequestType
  <2> QED
    BY <1>8, <2>1, <2>2 DEF Create
<1>9. ASSUME NEW r \in Requests, NEW m \in Monitors, RunCheckAdmit(r, m) PROVE TypeOK'
  <2>1. request' \in [Requests -> RequestType]
    BY <1>9, NoRequestType DEF RunCheckAdmit, RequestType
  <2> QED
    BY <1>9, <2>1 DEF RunCheckAdmit
<1>10. ASSUME NEW r \in Requests, NEW m \in Monitors, PatchLoad(r, m) PROVE TypeOK'
  <2>1. request' \in [Requests -> RequestType]
    BY <1>10 DEF PatchLoad, RequestType, RowType
  <2> QED
    BY <1>10, <2>1 DEF PatchLoad
<1>11. ASSUME NEW w \in Workers, NEW m \in Monitors, Skip(w, m) PROVE TypeOK'
  BY <1>11, BoundAssumption DEF Skip, Receive
<1>12. ASSUME NEW w \in Workers, NEW m \in Monitors, Select(w, m) PROVE TypeOK'
  <2>1. queue' \in [Monitors -> 0 .. MaxQueue]
    BY <1>12, BoundAssumption DEF Select, Receive
  <2>2. task' \in [Workers -> TaskType]
    BY <1>12, IdleType DEF Select, TaskType, RowType
  <2> QED
    BY <1>12, <2>1, <2>2 DEF Select
<1>13. ASSUME NEW w \in Workers, FlushChecking(w) PROVE TypeOK'
  <2>1. task' \in [Workers -> TaskType]
    BY SMTT(60), <1>13 DEF FlushChecking, TaskType
  <2> QED
    BY <1>13, <2>1 DEF FlushChecking
<1>14. ASSUME NEW w \in Workers, Probe(w) PROVE TypeOK'
  <2>1. task' \in [Workers -> TaskType]
    <3>1. PICK result \in Results :
                 task' = [task EXCEPT ![w] = [@ EXCEPT !.pc = "probed", !.result = result]]
      BY <1>14 DEF Probe
    <3>2. result \in ProbeResults \cup {NoResult}
      BY <3>1, ResultAssumption
    <3>3. [task[w] EXCEPT !.pc = "probed", !.result = result] \in TaskType
      BY <3>2, ProbedTask
    <3> QED
      BY <3>1, <3>3
  <2> QED
    BY <1>14, <2>1 DEF Probe
<1>15. ASSUME NEW w \in Workers, Decide(w) PROVE TypeOK'
  <2>1. ASSUME NEW i \in Incidents \cup {NoIncident}, NEW write \in {"none", "open", "close"},
               Decided(w, i, write)
        PROVE  task' \in [Workers -> TaskType]
    <3>1. [task[w] EXCEPT !.pc = "decided", !.incident = i, !.write = write] \in TaskType
      BY DecidedTask
    <3> QED
      BY SMTT(60), <2>1, <3>1 DEF Decided
  <2>2. CASE StayUp(w)
    BY <2>1, <2>2 DEF StayUp
  <2>3. CASE Recover(w)
    BY <2>1, <2>3 DEF Recover, OpenIncidents, Events
  <2>4. CASE OpenIncident(w)
    BY <2>1, <2>4 DEF OpenIncident, Events
  <2>5. CASE StayDown(w)
    BY <2>1, <2>5 DEF StayDown, OpenIncidents
  <2> QED
    BY SMTT(60), <1>15, <2>2, <2>3, <2>4, <2>5 DEF Decide
<1>16. ASSUME NEW w \in Workers, Commit(w) PROVE TypeOK'
  <2> DEFINE t == task[w]
  <2>1. t \in TaskType /\ task' \in [Workers -> TaskType]
    BY <1>16, IdleType DEF Commit
  <2>2. /\ t.monitor \in Monitors \cup {NoMonitor}
        /\ t.result \in ProbeResults \cup {NoResult}
        /\ t.code \in Codes /\ t.error \in Errors
    BY <2>1 DEF TaskType
  <2>3. /\ StatusAfter(t.result) \in MonitorStatus
        /\ t.result.code \in Codes /\ t.result.error \in Errors
    BY <2>2, ResultFields
  <2>4. row' \in [Monitors -> RowType]
    <3> DEFINE m == t.monitor
               status == StatusAfter(t.result)
               code == Written(row[m].code, t.code, t.result.code)
               error == Written(row[m].error, t.error, t.result.error)
    <3>1. row' = [row EXCEPT ![m] = [@ EXCEPT !.current_status = status, !.age = "fresh",
                                              !.code = code, !.error = error]]
      BY <1>16 DEF Commit
    <3>2. m \in Monitors => /\ status \in MonitorStatus
                            /\ code \in Codes /\ error \in Errors
      BY <2>3 DEF RowType, Written
    <3> HIDE DEF m, status, code, error
    <3> DEFINE new == [row[m] EXCEPT !.current_status = status, !.age = "fresh",
                                     !.code = code, !.error = error]
    <3>3. ASSUME m \in Monitors PROVE new \in RowType
      <4>1. row[m] \in RowType
        BY <3>3
      <4>2. status \in MonitorStatus /\ code \in Codes /\ error \in Errors /\ "fresh" \in Ages
        BY <3>2, <3>3 DEF Ages
      <4> QED
        BY ONLY <4>1, <4>2 DEF RowType
    <3>4. row' = [row EXCEPT ![m] = new]
      BY <3>1
    <3>5. row \in [Monitors -> RowType]
      OBVIOUS
    <3> HIDE DEF new
    <3> QED
      BY ONLY <3>3, <3>4, <3>5, RowChanged
  <2>5. incident' \in [Incidents -> IncidentType]
    <3>1. incident' = IncidentsAfter(t)
      BY <1>16 DEF Commit
    <3> QED
      BY <2>2, <3>1, IncidentsTyped
  <2>6. last_run' \in [Monitors -> ProbeResults \cup {NoResult}]
    BY <1>16, <2>2 DEF Commit
  <2>7. lock' \in [Monitors -> Workers \cup {NoTx}]
    BY <1>16 DEF Commit
  <2> QED
    BY <1>16, <2>1, <2>4, <2>5, <2>6, <2>7 DEF Commit
<1>17. ASSUME NEW w \in Workers, Abort(w) \/ Raises(w) PROVE TypeOK'
  <2>1. Rollback(w)
    BY <1>17 DEF Abort, Raises
  <2>2. task' \in [Workers -> TaskType]
    BY <2>1, IdleType DEF Rollback
  <2>3. lock' \in [Monitors -> Workers \cup {NoTx}]
    BY <2>1 DEF Rollback
  <2>4. aborts' \in 0 .. MaxAborts
    BY <1>17, BoundAssumption DEF Abort, Raises
  <2> QED
    BY <2>1, <2>2, <2>3, <2>4 DEF Rollback
<1>18. ASSUME NEW m \in Monitors, Tick(m) PROVE TypeOK'
  BY SMTT(60), <1>18 DEF Tick, RowType, Ages
<1>19. CASE UNCHANGED vars
  BY <1>19 DEF vars
<1> QED
  BY <1>1, <1>2, <1>3, <1>4, <1>5, <1>6, <1>7, <1>8, <1>9, <1>10, <1>11, <1>12, <1>13,
     <1>14, <1>15, <1>16, <1>17, <1>18, <1>19 DEF Next, Scheduler, Api, Worker

LEMMA TypeInit == Init => TypeOK
BY BoundAssumption
   DEF Init, TypeOK, RowType, IncidentType, TaskType, RequestType, Idle, NoRequest,
       NoResult, MonitorStatus, Codes, Errors, Ages

\* Every variable keeps its type in every behaviour of the check pipeline.
THEOREM TypeCorrect == Spec => []TypeOK
<1>1. Init => TypeOK
  BY TypeInit
<1>2. TypeOK /\ [Next]_vars => TypeOK'
  BY TypeStep
<1> QED
  BY <1>1, <1>2, PTL DEF Spec

-----------------------------------------------------------------------------
(* The inductive invariant.  A check that has flushed its CHECKING mark holds *)
(* the row lock of its monitor until it ends; so the incident it has decided  *)
(* about cannot change under it, and the identifier it has drawn is its own.  *)

LockInv ==
  \A w \in Workers :
    /\ task[w].pc # "idle" => task[w].monitor \in Monitors
    /\ task[w].pc \in {"locked", "probed", "decided"} => lock[task[w].monitor] = w

ReservedInv ==
  /\ \A w \in Workers :
       task[w].pc = "decided" =>
         /\ task[w].write = "open" =>
              task[w].incident \in Incidents /\ "incident_opened" \in mail[task[w].incident]
         /\ task[w].write = "close" => "incident_recovered" \in mail[task[w].incident]
  /\ \A v, w \in Workers :
       /\ task[v].pc = "decided" /\ task[v].write = "open"
       /\ task[w].pc = "decided" /\ task[w].write = "open"
       /\ task[v].incident = task[w].incident
       => v = w

PipelineInv ==
  /\ LockInv
  /\ DecisionsStayValid
  /\ ReservedInv
  /\ IncidentsAnnounced
  /\ AtMostOneOpenIncident
  /\ StatusMatchesIncidents

\* A step that leaves locks, incidents, messages and tasks alone, and moves the
\* status of a monitor at most to PENDING or PAUSED, keeps the invariant.
LEMMA QuietStep ==
  ASSUME TypeOK, PipelineInv,
         UNCHANGED <<lock, incident, mail, task>>,
         \A m \in Monitors :
           row'[m].current_status \in {row[m].current_status, "pending", "paused"}
  PROVE  PipelineInv'
<1>1. \A m \in Monitors : OpenIncidents(m)' = OpenIncidents(m)
  BY DEF OpenIncidents
<1>2. LockInv' /\ ReservedInv'
  BY DEF PipelineInv, LockInv, ReservedInv
<1>3. DecisionsStayValid'
  BY <1>1 DEF PipelineInv, DecisionsStayValid, LockInv
<1>4. IncidentsAnnounced' /\ AtMostOneOpenIncident'
  BY <1>1 DEF PipelineInv, IncidentsAnnounced, AtMostOneOpenIncident
<1>5. StatusMatchesIncidents'
  BY <1>1 DEF PipelineInv, StatusMatchesIncidents
<1> QED
  BY <1>2, <1>3, <1>4, <1>5 DEF PipelineInv

\* A task that moves to a stage before its decision, keeping the lock it had or
\* taking one that is free, keeps the invariant; so does a task that ends and
\* gives its lock back without committing.
LEMMA UndecidedStep ==
  ASSUME TypeOK, PipelineInv, NEW w \in Workers,
         UNCHANGED <<row, incident, mail>>,
         \A v \in Workers \ {w} : task'[v] = task[v],
         task'[w].pc # "decided",
         task'[w].pc # "idle" => task'[w].monitor \in Monitors,
         task'[w].pc \in {"locked", "probed"} => lock'[task'[w].monitor] = w,
         \A m \in Monitors : lock[m] \in Workers \ {w} => lock'[m] = lock[m]
  PROVE  PipelineInv'
<1>1. \A m \in Monitors : OpenIncidents(m)' = OpenIncidents(m)
  BY DEF OpenIncidents
<1>2. LockInv'
  BY DEF PipelineInv, LockInv
<1>3. ReservedInv'
  BY DEF PipelineInv, ReservedInv
<1>4. DecisionsStayValid'
  BY SMTT(60), <1>1 DEF PipelineInv, DecisionsStayValid, LockInv
<1>5. IncidentsAnnounced' /\ AtMostOneOpenIncident'
  BY <1>1 DEF PipelineInv, IncidentsAnnounced, AtMostOneOpenIncident
<1>6. StatusMatchesIncidents'
  BY <1>1 DEF PipelineInv, StatusMatchesIncidents
<1> QED
  BY <1>2, <1>3, <1>4, <1>5, <1>6 DEF PipelineInv

\* Reading the open incident, under the row lock, makes a valid decision; the
\* e-mail is out before the commit, and a new identifier is nobody else's.
LEMMA DecideStep ==
  ASSUME TypeOK, PipelineInv, NEW w \in Workers, Decide(w)
  PROVE  PipelineInv'
<1>1. /\ task[w].pc = "probed"
      /\ UNCHANGED <<row, incident, lock>>
  BY DEF Decide, StayUp, Recover, OpenIncident, StayDown
<1>2. \A m \in Monitors : OpenIncidents(m)' = OpenIncidents(m)
  BY <1>1 DEF OpenIncidents
<1>3. PICK i \in Incidents \cup {NoIncident}, write \in {"none", "open", "close"} :
        task' = [task EXCEPT ![w] =
                   [@ EXCEPT !.pc = "decided", !.incident = i, !.write = write]]
  BY Zenon DEF Decide, StayUp, Recover, OpenIncident, StayDown, Decided, OpenIncidents
<1>4. /\ \A v \in Workers \ {w} : task'[v] = task[v]
      /\ task'[w].pc = "decided" /\ task'[w].incident = i /\ task'[w].write = write
      /\ task'[w].monitor = task[w].monitor /\ task'[w].result = task[w].result
  BY <1>3 DEF TypeOK, TaskType
<1>5. LockInv'
  BY <1>1, <1>4 DEF PipelineInv, LockInv
<1>6. \A j \in Incidents : mail[j] \subseteq mail'[j]
  BY DEF TypeOK, Decide, StayUp, Recover, OpenIncident, StayDown, Unused, OpenIncidents
<1>7. IncidentsAnnounced'
  BY <1>1, <1>6 DEF PipelineInv, IncidentsAnnounced
<1>8. AtMostOneOpenIncident' /\ StatusMatchesIncidents'
  BY <1>1, <1>2 DEF PipelineInv, AtMostOneOpenIncident, StatusMatchesIncidents
<1>9. /\ write = "open" => /\ IsProbeFailure(task[w].result.status)
                           /\ OpenIncidents(task[w].monitor) = {}
                           /\ i \in Incidents /\ Unused(i)
                           /\ "incident_opened" \in mail'[i]
      /\ write = "close" => /\ ~IsProbeFailure(task[w].result.status)
                            /\ i \in OpenIncidents(task[w].monitor)
                            /\ "incident_recovered" \in mail'[i]
      /\ write = "none" => (IsProbeFailure(task[w].result.status)
                              <=> OpenIncidents(task[w].monitor) # {})
  <2>1. CASE StayUp(w)
    BY <2>1, <1>4 DEF StayUp, Decided, TypeOK, TaskType
  <2>2. CASE Recover(w)
    BY <2>2, <1>4 DEF Recover, Decided, TypeOK, TaskType, OpenIncidents
  <2>3. CASE OpenIncident(w)
    BY <2>3, <1>4 DEF OpenIncident, Decided, TypeOK, TaskType
  <2>4. CASE StayDown(w)
    BY <2>4, <1>4 DEF StayDown, Decided, TypeOK, TaskType
  <2> QED
    BY <2>1, <2>2, <2>3, <2>4 DEF Decide
<1>10. write = "open" => incident[i].status = "absent"
  BY <1>9 DEF PipelineInv, IncidentsAnnounced, Unused
<1>11. DecisionsStayValid'
  BY <1>1, <1>2, <1>4, <1>9, <1>10 DEF PipelineInv, DecisionsStayValid, LockInv
<1>12. ReservedInv'
  <2>1. \A v \in Workers \ {w} :
          task[v].pc = "decided" /\ task[v].write = "open" /\ write = "open"
            => task[v].incident # i
    BY <1>9 DEF PipelineInv, ReservedInv, Unused
  <2>2. \A v \in Workers \ {w} :
          task[v].pc = "decided" =>
            /\ task[v].write = "open" => "incident_opened" \in mail'[task[v].incident]
            /\ task[v].write = "close" =>
                 /\ task[v].incident \in Incidents
                 /\ "incident_recovered" \in mail'[task[v].incident]
    BY <1>6 DEF PipelineInv, ReservedInv, DecisionsStayValid, OpenIncidents
  <2> QED
    BY <1>4, <1>9, <2>1, <2>2 DEF PipelineInv, ReservedInv
<1> QED
  BY <1>5, <1>7, <1>8, <1>11, <1>12 DEF PipelineInv

\* A commit makes true what its valid decision announced, for its own monitor,
\* and touches nothing another open transaction relies on.
LEMMA CommitStep ==
  ASSUME TypeOK, PipelineInv, NEW w \in Workers, Commit(w)
  PROVE  PipelineInv'
<1> DEFINE t == task[w]
<1>0. PICK m \in Monitors : m = t.monitor
  BY DEF Commit, PipelineInv, LockInv
<1>1. /\ lock[m] = w /\ t.pc = "decided"
      /\ t.write \in {"none", "open", "close"}
  BY <1>0 DEF Commit, PipelineInv, LockInv, TypeOK, TaskType
<1>2. /\ incident' = IncidentsAfter(t)
      /\ task' = [task EXCEPT ![w] = Idle]
      /\ lock' = [lock EXCEPT ![m] = NoTx]
      /\ mail' = mail
  BY <1>0 DEF Commit
<1>3. row'[m].current_status = StatusAfter(t.result)
      /\ \A n \in Monitors \ {m} : row'[n] = row[n]
  BY <1>0, <1>1 DEF Commit, TypeOK, RowType
<1>4. task'[w].pc = "idle" /\ \A v \in Workers \ {w} : task'[v] = task[v]
  BY <1>2 DEF TypeOK, Idle
<1>5. \A v \in Workers \ {w} :
        task[v].pc \in {"locked", "probed", "decided"} => task[v].monitor # m
  BY <1>0, <1>1 DEF PipelineInv, LockInv
<1>6. LockInv'
  BY <1>2, <1>4, <1>5 DEF PipelineInv, LockInv, TypeOK
<1>7. ReservedInv'
  BY <1>2, <1>4 DEF PipelineInv, ReservedInv
<1>8. /\ t.write = "open" =>
           /\ t.incident \in Incidents /\ OpenIncidents(m) = {}
           /\ incident[t.incident].status = "absent"
           /\ incident' = [incident EXCEPT ![t.incident] = [status |-> "open", monitor |-> m]]
      /\ t.write = "close" =>
           /\ t.incident \in OpenIncidents(m)
           /\ incident' = [incident EXCEPT ![t.incident].status = "closed"]
      /\ t.write = "none" => incident' = incident
  BY <1>0, <1>1, <1>2 DEF PipelineInv, DecisionsStayValid, ReservedInv, IncidentsAfter
<1>9. /\ OpenIncidents(m)' = IF t.write = "open" THEN {t.incident}
                             ELSE IF t.write = "close" THEN OpenIncidents(m) \ {t.incident}
                             ELSE OpenIncidents(m)
      /\ \A n \in Monitors \ {m} : OpenIncidents(n)' = OpenIncidents(n)
  BY <1>1, <1>8 DEF OpenIncidents, TypeOK, IncidentType
<1>10. AtMostOneOpenIncident'
  BY <1>9 DEF PipelineInv, AtMostOneOpenIncident
<1>11. IncidentsAnnounced'
  <2>1. CASE t.write = "open"
    BY <2>1, <1>1, <1>2, <1>8 DEF PipelineInv, IncidentsAnnounced, ReservedInv, TypeOK
  <2>2. CASE t.write = "close"
    <3>1. "incident_recovered" \in mail[t.incident] /\ incident[t.incident].status = "open"
      BY <2>2, <1>1, <1>8 DEF PipelineInv, ReservedInv, OpenIncidents
    <3>2. \A i \in Incidents \ {t.incident} : incident'[i] = incident[i]
      BY <2>2, <1>8 DEF TypeOK
    <3> QED
      BY <3>1, <3>2, <1>2 DEF PipelineInv, IncidentsAnnounced
  <2>3. CASE t.write = "none"
    BY <2>3, <1>2, <1>8 DEF PipelineInv, IncidentsAnnounced
  <2> QED
    BY <1>1, <2>1, <2>2, <2>3
<1>12. IsProbeFailure(t.result.status) <=> OpenIncidents(m)' # {}
  BY <1>0, <1>1, <1>8, <1>9 DEF PipelineInv, DecisionsStayValid, AtMostOneOpenIncident
<1>13. StatusMatchesIncidents'
  <2>1. \A n \in Monitors \ {m} : row'[n] = row[n] /\ OpenIncidents(n)' = OpenIncidents(n)
    BY <1>3, <1>9
  <2>2. /\ row'[m].current_status = "down" => OpenIncidents(m)' # {}
        /\ row'[m].current_status \in {"up", "slow"} => OpenIncidents(m)' = {}
    BY <1>3, <1>12 DEF StatusAfter, IsProbeFailure
  <2> QED
    BY <2>1, <2>2 DEF PipelineInv, StatusMatchesIncidents
<1>14. DecisionsStayValid'
  <2>1. ASSUME NEW v \in Workers \ {w}, task[v].pc = "decided", task[v].write = "open"
        PROVE  incident'[task[v].incident].status = "absent"
    BY <2>1, <1>1, <1>8 DEF PipelineInv, DecisionsStayValid, ReservedInv, OpenIncidents, TypeOK
  <2> QED
    BY <1>4, <1>5, <1>9, <2>1 DEF PipelineInv, DecisionsStayValid, LockInv
<1> QED
  BY <1>6, <1>7, <1>10, <1>11, <1>13, <1>14 DEF PipelineInv

LEMMA InvInit == Init => PipelineInv
BY DEF Init, PipelineInv, LockInv, ReservedInv, DecisionsStayValid, IncidentsAnnounced,
       AtMostOneOpenIncident, StatusMatchesIncidents, OpenIncidents, Idle

\* Every step keeps the inductive invariant.
LEMMA InvStep == TypeOK /\ PipelineInv /\ [Next]_vars => PipelineInv'
<1> SUFFICES ASSUME TypeOK, PipelineInv, [Next]_vars PROVE PipelineInv'
  OBVIOUS
<1>1. CASE Scheduler
  BY <1>1, QuietStep DEF Scheduler, BeatSelect, BeatDies, BeatSend
<1>2. CASE Api
  <2>1. \A m \in Monitors :
          row'[m].current_status \in {row[m].current_status, "pending", "paused"}
    <3>1. ASSUME NEW r \in Requests, PatchCommit(r)
          PROVE  \A m \in Monitors :
                   row'[m].current_status \in {row[m].current_status, "pending", "paused"}
      BY <3>1 DEF PatchCommit, Written, TypeOK, RowType
    <3>2. ASSUME NEW n \in Monitors, Delete(n) \/ \E r \in Requests : Create(r, n)
          PROVE  \A m \in Monitors : row'[m].current_status = row[m].current_status
      BY SMTT(60), <3>2 DEF Delete, Create, TypeOK, RowType
    <3> QED
      BY <1>2, <3>1, <3>2 DEF Api, RequestEnqueue, RequestDies, RunCheckAdmit, PatchLoad
  <2>2. UNCHANGED <<lock, incident, mail, task>>
    BY <1>2 DEF Api, Delete, RequestEnqueue, PatchCommit, RequestDies, Create,
                RunCheckAdmit, PatchLoad
  <2> QED
    BY <2>1, <2>2, QuietStep
<1>3. ASSUME NEW w \in Workers, NEW m \in Monitors, Skip(w, m) PROVE PipelineInv'
  BY <1>3, QuietStep DEF Skip
<1>4. ASSUME NEW w \in Workers, NEW m \in Monitors, Select(w, m) PROVE PipelineInv'
  <2>1. task'[w].pc = "loaded" /\ task'[w].monitor = m
    BY <1>4 DEF Select, TypeOK, Idle
  <2>2. UNCHANGED <<row, lock, incident, mail>> /\ \A v \in Workers \ {w} : task'[v] = task[v]
    BY <1>4 DEF Select, TypeOK
  <2> QED
    BY <2>1, <2>2, UndecidedStep
<1>5. ASSUME NEW w \in Workers, FlushChecking(w) PROVE PipelineInv'
  <2>1. /\ task'[w].pc = "locked" /\ task'[w].monitor = task[w].monitor
        /\ task[w].monitor \in Monitors
        /\ lock' = [lock EXCEPT ![task[w].monitor] = w] /\ lock[task[w].monitor] = NoTx
    BY <1>5 DEF FlushChecking, TypeOK, TaskType, PipelineInv, LockInv
  <2>2. UNCHANGED <<row, incident, mail>> /\ \A v \in Workers \ {w} : task'[v] = task[v]
    BY <1>5 DEF FlushChecking, TypeOK
  <2>3. \A m \in Monitors : lock[m] \in Workers \ {w} => lock'[m] = lock[m]
    BY <2>1, NullAssumption DEF TypeOK
  <2>4. lock'[task'[w].monitor] = w
    BY <2>1 DEF TypeOK
  <2> QED
    BY <2>1, <2>2, <2>3, <2>4, UndecidedStep
<1>6. ASSUME NEW w \in Workers, Probe(w) PROVE PipelineInv'
  <2>1. /\ task'[w].pc = "probed" /\ task'[w].monitor = task[w].monitor
        /\ task[w].monitor \in Monitors /\ lock[task[w].monitor] = w
    BY <1>6 DEF Probe, TypeOK, TaskType, PipelineInv, LockInv
  <2>2. UNCHANGED <<row, lock, incident, mail>> /\ \A v \in Workers \ {w} : task'[v] = task[v]
    BY <1>6 DEF Probe, TypeOK
  <2> QED
    BY <2>1, <2>2, UndecidedStep
<1>7. ASSUME NEW w \in Workers, Decide(w) PROVE PipelineInv'
  BY <1>7, DecideStep
<1>8. ASSUME NEW w \in Workers, Commit(w) PROVE PipelineInv'
  BY <1>8, CommitStep
<1>9. ASSUME NEW w \in Workers, Abort(w) \/ Raises(w) PROVE PipelineInv'
  <2>r. Rollback(w)
    BY <1>9 DEF Abort, Raises
  <2>1. task'[w].pc = "idle" /\ \A v \in Workers \ {w} : task'[v] = task[v]
    BY <2>r DEF Rollback, TypeOK, Idle
  <2>2. UNCHANGED <<row, incident, mail>>
        /\ \A m \in Monitors : lock[m] \in Workers \ {w} => lock'[m] = lock[m]
    BY <2>r DEF Rollback, TypeOK
  <2> QED
    BY <2>1, <2>2, UndecidedStep
<1>10. ASSUME NEW m \in Monitors, Tick(m) PROVE PipelineInv'
  <2>1. \A n \in Monitors : row'[n].current_status = row[n].current_status
    BY <1>10 DEF Tick, TypeOK, RowType
  <2> QED
    BY <1>10, <2>1, QuietStep DEF Tick
<1>11. CASE UNCHANGED vars
  BY <1>11, QuietStep DEF vars
<1> QED
  BY <1>1, <1>2, <1>3, <1>4, <1>5, <1>6, <1>7, <1>8, <1>9, <1>10, <1>11 DEF Next, Worker

LEMMA Invariance == Spec => [](TypeOK /\ PipelineInv)
<1>1. Init => TypeOK /\ PipelineInv
  BY TypeInit, InvInit
<1>2. (TypeOK /\ PipelineInv) /\ [Next]_vars => (TypeOK /\ PipelineInv)'
  BY TypeStep, InvStep
<1> QED
  BY <1>1, <1>2, PTL DEF Spec

\* No interleaving of checks, requests and crashes gives a monitor two open
\* incidents.
THEOREM OneOpenIncident == Spec => []AtMostOneOpenIncident
<1>1. PipelineInv => AtMostOneOpenIncident
  BY DEF PipelineInv
<1> QED
  BY <1>1, Invariance, PTL

\* A monitor row that shows DOWN has an open incident, one that shows UP or SLOW
\* has none.
THEOREM StatusTellsIncidents == Spec => []StatusMatchesIncidents
<1>1. PipelineInv => StatusMatchesIncidents
  BY DEF PipelineInv
<1> QED
  BY <1>1, Invariance, PTL

\* No committed opening or closing of an incident lacks its e-mail message.
THEOREM TransitionsAnnounced == Spec => []IncidentsAnnounced
<1>1. PipelineInv => IncidentsAnnounced
  BY DEF PipelineInv
<1> QED
  BY <1>1, Invariance, PTL

\* What a check read about the incidents of its monitor is still so when it
\* commits.
THEOREM ReadsHoldUntilCommit == Spec => []DecisionsStayValid
<1>1. PipelineInv => DecisionsStayValid
  BY DEF PipelineInv
<1> QED
  BY <1>1, Invariance, PTL

-----------------------------------------------------------------------------
(* Refinement: an incident moves only when a check commits.                  *)

LEMMA OnlyCommitMovesIncidents ==
  ASSUME Next, \A w \in Workers : ~Commit(w)
  PROVE  incident' = incident
<1>1. CASE Scheduler
  BY <1>1 DEF Scheduler, BeatSelect, BeatDies, BeatSend
<1>2. CASE Api
  BY <1>2 DEF Api, Delete, RequestEnqueue, PatchCommit, RequestDies, Create, RunCheckAdmit,
              PatchLoad
<1>3. ASSUME NEW w \in Workers, Worker(w) PROVE incident' = incident
  <2>1. CASE Decide(w)
    BY <2>1 DEF Decide, StayUp, Recover, OpenIncident, StayDown
  <2>2. CASE ~Decide(w)
    BY <1>3, <2>2 DEF Worker, Skip, Select, FlushChecking, Probe, Abort, Raises,
                        Rollback
  <2> QED
    BY <2>1, <2>2
<1>4. CASE \E m \in Monitors : Tick(m)
  BY <1>4 DEF Tick
<1> QED
  BY <1>1, <1>2, <1>3, <1>4 DEF Next

LEMMA CommitRefines ==
  ASSUME TypeOK, PipelineInv, NEW w \in Workers, Commit(w)
  PROVE  Lifecycle!LifecycleNext \/ UNCHANGED Lifecycle!LifecycleVars
<1> DEFINE t == task[w]
           closed == {i \in Incidents : incident[i].status = "closed"}
<1>1. PICK m \in Monitors : m = t.monitor
  BY DEF Commit, PipelineInv, LockInv
<1>2. t.pc = "decided" /\ t.write \in {"none", "open", "close"} /\ incident' = IncidentsAfter(t)
  BY DEF Commit, TypeOK, TaskType
<1>3. CASE t.write = "open"
  <2>1. PICK i \in Incidents : i = t.incident
    BY <1>2, <1>3 DEF PipelineInv, ReservedInv
  <2>2. /\ OpenIncidents(m) = {} /\ incident[i].status = "absent"
        /\ incident' = [incident EXCEPT ![i] = [status |-> "open", monitor |-> m]]
    BY <1>1, <1>2, <1>3, <2>1 DEF PipelineInv, DecisionsStayValid, IncidentsAfter
  <2>3. /\ OpenIncidents(m)' = {i} /\ closed' = closed /\ i \notin closed
        /\ \A n \in Monitors : i \notin OpenIncidents(n)
        /\ \A n \in Monitors \ {m} : OpenIncidents(n)' = OpenIncidents(n)
    BY <2>2 DEF OpenIncidents, TypeOK, IncidentType
  <2>4. Lifecycle!OpenFor(m, i)
    BY <2>2, <2>3 DEF Lifecycle!OpenFor
  <2> QED
    BY <2>4 DEF Lifecycle!LifecycleNext
<1>4. CASE t.write = "close"
  <2>1. PICK i \in Incidents : i = t.incident /\ i \in OpenIncidents(m)
    BY <1>1, <1>2, <1>4 DEF PipelineInv, DecisionsStayValid, OpenIncidents
  <2>2. incident' = [incident EXCEPT ![i].status = "closed"] /\ OpenIncidents(m) = {i}
    BY <1>2, <1>4, <2>1 DEF PipelineInv, AtMostOneOpenIncident, IncidentsAfter
  <2>3. /\ OpenIncidents(m)' = {} /\ closed' = closed \cup {i}
        /\ \A n \in Monitors \ {m} : OpenIncidents(n)' = OpenIncidents(n)
    BY <2>1, <2>2 DEF OpenIncidents, TypeOK, IncidentType
  <2>4. Lifecycle!CloseFor(m, i)
    BY <2>2, <2>3 DEF Lifecycle!CloseFor
  <2> QED
    BY <2>4 DEF Lifecycle!LifecycleNext
<1>5. CASE t.write = "none"
  BY <1>2, <1>5 DEF IncidentsAfter, Lifecycle!LifecycleVars, OpenIncidents
<1> QED
  BY <1>2, <1>3, <1>4, <1>5

\* The check pipeline implements the abstract life cycle of incidents: every
\* step opens one incident of a monitor that has none, closes one for good, or
\* leaves them all alone.
THEOREM PipelineRefinesLifecycle == Spec => RefinesLifecycle
<1>1. Init => Lifecycle!LifecycleInit
  BY DEF Init, Lifecycle!LifecycleInit, OpenIncidents
<1>2. TypeOK /\ PipelineInv /\ [Next]_vars => [Lifecycle!LifecycleNext]_(Lifecycle!LifecycleVars)
  <2> SUFFICES ASSUME TypeOK, PipelineInv, [Next]_vars
               PROVE  Lifecycle!LifecycleNext \/ UNCHANGED Lifecycle!LifecycleVars
    OBVIOUS
  <2>1. CASE \E w \in Workers : Commit(w)
    BY <2>1, CommitRefines
  <2>2. CASE incident' = incident
    BY <2>2 DEF Lifecycle!LifecycleVars, OpenIncidents
  <2> QED
    BY <2>1, <2>2, OnlyCommitMovesIncidents DEF vars
<1> QED
  BY <1>1, <1>2, Invariance, PTL DEF Spec, RefinesLifecycle, Lifecycle!Spec

-----------------------------------------------------------------------------
(* Refinement: the checks of a monitor take turns.                           *)

Decision(w, write, i) == [by |-> w, write |-> write, incident |-> i]

\* The row lock lets one check of a monitor hold a decision.
LEMMA HolderDecides ==
  ASSUME LockInv, NEW w \in Workers, task[w].pc \in {"locked", "probed", "decided"},
         NEW v \in Workers, task[v].pc = "decided", task[v].monitor = task[w].monitor
  PROVE  v = w
BY DEF LockInv

LEMMA UndecidedTask ==
  ASSUME NEW w \in Workers, \A v \in Workers \ {w} : task'[v] = task[v],
         task[w].pc # "decided", task'[w].pc # "decided"
  PROVE  \A n \in Monitors : Decisions(n)' = Decisions(n)
<1> SUFFICES ASSUME NEW n \in Monitors PROVE Decisions(n)' = Decisions(n)
  OBVIOUS
<1> DEFINE S == {v \in Workers : task[v].pc = "decided" /\ task[v].monitor = n}
           T == {v \in Workers : task'[v].pc = "decided" /\ task'[v].monitor = n}
<1>1. S = T /\ \A v \in S : task'[v] = task[v]
  OBVIOUS
<1>2. /\ Decisions(n) = {[by |-> v, write |-> task[v].write, incident |-> task[v].incident] : v \in S}
      /\ Decisions(n)' = {[by |-> v, write |-> task'[v].write, incident |-> task'[v].incident] : v \in T}
  BY DEF Decisions
<1> HIDE DEF S, T
<1> QED
  BY <1>1, <1>2

\* The check that has read the incidents is the only one to hold a decision.
LEMMA TaskDecides ==
  ASSUME LockInv, NEW w \in Workers, \A v \in Workers \ {w} : task'[v] = task[v],
         task[w].pc = "probed", task'[w].pc = "decided", task'[w].monitor = task[w].monitor,
         NEW m \in Monitors, m = task[w].monitor
  PROVE  /\ Decisions(m) = {}
         /\ Decisions(m)' = {Decision(w, task'[w].write, task'[w].incident)}
         /\ \A n \in Monitors \ {m} : Decisions(n)' = Decisions(n)
<1>1. {v \in Workers : task[v].pc = "decided" /\ task[v].monitor = m} = {}
  BY HolderDecides
<1>2. {v \in Workers : task'[v].pc = "decided" /\ task'[v].monitor = m} = {w}
  BY <1>1
<1>3. Decisions(m) = {}
  BY <1>1 DEF Decisions
<1>4. Decisions(m)' = {Decision(w, task'[w].write, task'[w].incident)}
  <2>1. Decisions(m)' = {[by |-> v, write |-> task'[v].write, incident |-> task'[v].incident] :
                           v \in {w}}
    BY <1>2 DEF Decisions
  <2> QED
    BY <2>1 DEF Decision
<1>5. ASSUME NEW n \in Monitors \ {m} PROVE Decisions(n)' = Decisions(n)
  <2> DEFINE S == {v \in Workers : task[v].pc = "decided" /\ task[v].monitor = n}
             T == {v \in Workers : task'[v].pc = "decided" /\ task'[v].monitor = n}
  <2>1. S = T /\ \A v \in S : task'[v] = task[v]
    OBVIOUS
  <2>2. /\ Decisions(n) = {[by |-> v, write |-> task[v].write, incident |-> task[v].incident] : v \in S}
        /\ Decisions(n)' = {[by |-> v, write |-> task'[v].write, incident |-> task'[v].incident] : v \in T}
    BY DEF Decisions
  <2> HIDE DEF S, T
  <2> QED
    BY <2>1, <2>2
<1> QED
  BY <1>3, <1>4, <1>5

LEMMA TaskEnds ==
  ASSUME LockInv, NEW w \in Workers, \A v \in Workers \ {w} : task'[v] = task[v],
         task[w].pc = "decided", task'[w].pc = "idle",
         NEW m \in Monitors, m = task[w].monitor
  PROVE  /\ Decisions(m) = {Decision(w, task[w].write, task[w].incident)}
         /\ Decisions(m)' = {}
         /\ \A n \in Monitors \ {m} : Decisions(n)' = Decisions(n)
<1>1. {v \in Workers : task[v].pc = "decided" /\ task[v].monitor = m} = {w}
  BY HolderDecides
<1>2. {v \in Workers : task'[v].pc = "decided" /\ task'[v].monitor = m} = {}
  BY <1>1
<1>3. Decisions(m)' = {}
  BY <1>2 DEF Decisions
<1>4. Decisions(m) = {Decision(w, task[w].write, task[w].incident)}
  <2>1. Decisions(m) = {[by |-> v, write |-> task[v].write, incident |-> task[v].incident] :
                          v \in {w}}
    BY <1>1 DEF Decisions
  <2> QED
    BY <2>1 DEF Decision
<1>5. ASSUME NEW n \in Monitors \ {m} PROVE Decisions(n)' = Decisions(n)
  <2> DEFINE S == {v \in Workers : task[v].pc = "decided" /\ task[v].monitor = n}
             T == {v \in Workers : task'[v].pc = "decided" /\ task'[v].monitor = n}
  <2>1. S = T /\ \A v \in S : task'[v] = task[v]
    OBVIOUS
  <2>2. /\ Decisions(n) = {[by |-> v, write |-> task[v].write, incident |-> task[v].incident] : v \in S}
        /\ Decisions(n)' = {[by |-> v, write |-> task'[v].write, incident |-> task'[v].incident] : v \in T}
    BY DEF Decisions
  <2> HIDE DEF S, T
  <2> QED
    BY <2>1, <2>2
<1> QED
  BY <1>3, <1>4, <1>5

\* Reading the incidents, with the row locked, is taking the turn.
LEMMA DecideTakesTurn ==
  ASSUME TypeOK, PipelineInv, NEW w \in Workers, Decide(w)
  PROVE  Turns!TurnNext
<1> DEFINE open == [n \in Monitors |-> OpenIncidents(n)]
           closed == {i \in Incidents : incident[i].status = "closed"}
           turn == [n \in Monitors |-> Decisions(n)]
<1>0. /\ task[w].pc = "probed" /\ incident' = incident
  BY DEF Decide, StayUp, Recover, OpenIncident, StayDown
<1>m. PICK m \in Monitors : m = task[w].monitor
  BY <1>0 DEF PipelineInv, LockInv
<1>1. open' = open /\ closed' = closed /\ OpenIncidents(m) = open[m]
  BY <1>0 DEF OpenIncidents
<1>2. \A i, write :
        Decided(w, i, write) =>
          /\ turn[m] = {}
          /\ turn' = [turn EXCEPT ![m] = {Decision(w, write, i)}]
  <2> SUFFICES ASSUME NEW i, NEW write, Decided(w, i, write)
               PROVE  /\ turn[m] = {}
                      /\ turn' = [turn EXCEPT ![m] = {Decision(w, write, i)}]
    OBVIOUS
  <2>1. /\ \A v \in Workers \ {w} : task'[v] = task[v]
        /\ task'[w].pc = "decided" /\ task'[w].incident = i /\ task'[w].write = write
        /\ task'[w].monitor = task[w].monitor
    BY DEF Decided, TypeOK, TaskType
  <2>2. LockInv
    BY DEF PipelineInv
  <2>3. /\ Decisions(m) = {}
        /\ Decisions(m)' = {Decision(w, write, i)}
        /\ \A n \in Monitors \ {m} : Decisions(n)' = Decisions(n)
    BY <1>0, <1>m, <2>1, <2>2, TaskDecides
  <2> QED
    BY <2>3
<1> HIDE DEF open, closed, turn
<1>3. \A i, write : Decided(w, i, write) => Turns!Takes(m, w, write, i)
  BY <1>1, <1>2 DEF Turns!Takes, Decision, open, closed, turn
<1>4. CASE StayUp(w)
  <2>1. open[m] = {} /\ Turns!Takes(m, w, "none", NoIncident)
    BY <1>m, <1>1, <1>3, <1>4 DEF StayUp
  <2>2. Turns!TakeToStay(m, w)
    BY <2>1 DEF Turns!TakeToStay, open
  <2> QED
    BY <2>2 DEF Turns!TurnNext
<1>5. CASE StayDown(w)
  <2>1. PICK i \in OpenIncidents(m) : Decided(w, i, "none")
    BY <1>m, <1>5 DEF StayDown
  <2>2. i \in open[m] /\ Turns!Takes(m, w, "none", i)
    BY <1>1, <1>3, <2>1
  <2>3. Turns!TakeToStay(m, w)
    BY <2>2 DEF Turns!TakeToStay, open
  <2> QED
    BY <2>3 DEF Turns!TurnNext
<1>6. CASE Recover(w)
  <2>1. PICK i \in OpenIncidents(m) : Decided(w, i, "close")
    BY <1>m, <1>6 DEF Recover
  <2>2. i \in Incidents /\ open[m] = {i}
    BY <1>1, <2>1 DEF PipelineInv, AtMostOneOpenIncident, OpenIncidents
  <2>3. Turns!TakeToClose(m, w, i)
    BY <1>3, <2>1, <2>2 DEF Turns!TakeToClose, open
  <2> QED
    BY <2>2, <2>3 DEF Turns!TurnNext
<1>7. CASE OpenIncident(w)
  <2>1. PICK i \in Incidents : Unused(i) /\ Decided(w, i, "open") /\ OpenIncidents(m) = {}
    BY <1>m, <1>7 DEF OpenIncident
  <2>2. incident[i].status = "absent"
    BY <2>1 DEF Unused, PipelineInv, IncidentsAnnounced
  <2>3. i \notin closed /\ \A n \in Monitors : i \notin open[n]
    BY <2>2 DEF OpenIncidents, open, closed
  <2>4. ASSUME NEW n \in Monitors, NEW d \in turn[n], d.write = "open" PROVE d.incident # i
    <3>1. PICK v \in Workers : /\ task[v].pc = "decided"
                               /\ d = [by |-> v, write |-> task[v].write, incident |-> task[v].incident]
      BY <2>4 DEF turn, Decisions
    <3>2. task[v].write = "open" /\ d.incident = task[v].incident
      BY <2>4, <3>1
    <3>3. mail[task[v].incident] # {}
      BY <3>1, <3>2 DEF PipelineInv, ReservedInv
    <3> QED
      BY <2>1, <3>2, <3>3 DEF Unused
  <2>5. Turns!Fresh(i)
    BY <2>3, <2>4 DEF Turns!Fresh, open, closed, turn
  <2>6. Turns!Takes(m, w, "open", i) /\ open[m] = {}
    BY <1>1, <1>3, <2>1
  <2>7. Turns!TakeToOpen(m, w, i)
    BY <2>5, <2>6 DEF Turns!TakeToOpen, open
  <2> QED
    BY <2>7 DEF Turns!TurnNext
<1> QED
  BY <1>4, <1>5, <1>6, <1>7 DEF Decide

\* The commit carries out the decision of the turn, on the incidents it read.
LEMMA CommitCarries ==
  ASSUME TypeOK, PipelineInv, NEW w \in Workers, Commit(w)
  PROVE  Turns!TurnNext
<1> DEFINE t == task[w]
           open == [n \in Monitors |-> OpenIncidents(n)]
           closed == {i \in Incidents : incident[i].status = "closed"}
           turn == [n \in Monitors |-> Decisions(n)]
           d == Decision(w, t.write, t.incident)
<1>m. PICK m \in Monitors : m = t.monitor
  BY DEF Commit, PipelineInv, LockInv
<1>1. /\ t.pc = "decided" /\ t.write \in {"none", "open", "close"}
      /\ incident' = IncidentsAfter(t)
      /\ task'[w].pc = "idle" /\ \A v \in Workers \ {w} : task'[v] = task[v]
  BY DEF Commit, TypeOK, TaskType, Idle
<1>2. d \in turn[m] /\ turn' = [turn EXCEPT ![m] = {}]
  <2>1. LockInv
    BY DEF PipelineInv
  <2>2. /\ Decisions(m) = {d}
        /\ Decisions(m)' = {}
        /\ \A n \in Monitors \ {m} : Decisions(n)' = Decisions(n)
    BY <1>m, <1>1, <2>1, TaskEnds
  <2> QED
    BY <2>2
<1>3. d.write = t.write /\ d.incident = t.incident
  BY DEF Decision
<1>4. /\ OpenIncidents(m)' = CASE t.write = "open"  -> {t.incident}
                               [] t.write = "close" -> {}
                               [] OTHER             -> OpenIncidents(m)
      /\ \A n \in Monitors \ {m} : OpenIncidents(n)' = OpenIncidents(n)
      /\ closed' = IF t.write = "close" THEN closed \cup {t.incident} ELSE closed
  <2>1. CASE t.write = "open"
    <3>1. PICK i \in Incidents : i = t.incident
      BY <1>1, <2>1 DEF PipelineInv, ReservedInv
    <3>2. /\ OpenIncidents(m) = {} /\ incident[i].status = "absent"
          /\ incident' = [incident EXCEPT ![i] = [status |-> "open", monitor |-> m]]
      BY <1>m, <1>1, <2>1, <3>1 DEF PipelineInv, DecisionsStayValid, IncidentsAfter
    <3>3. /\ OpenIncidents(m)' = {i} /\ closed' = closed
          /\ \A n \in Monitors \ {m} : OpenIncidents(n)' = OpenIncidents(n)
      BY <3>2 DEF OpenIncidents, TypeOK, IncidentType
    <3> HIDE DEF closed
    <3> QED
      BY <2>1, <3>1, <3>3
  <2>2. CASE t.write = "close"
    <3>1. PICK i \in Incidents : i = t.incident /\ i \in OpenIncidents(m)
      BY <1>m, <1>1, <2>2 DEF PipelineInv, DecisionsStayValid, OpenIncidents
    <3>2. incident' = [incident EXCEPT ![i].status = "closed"] /\ OpenIncidents(m) = {i}
      BY <1>1, <2>2, <3>1 DEF PipelineInv, AtMostOneOpenIncident, IncidentsAfter
    <3>3. /\ OpenIncidents(m)' = {} /\ closed' = closed \cup {i}
          /\ \A n \in Monitors \ {m} : OpenIncidents(n)' = OpenIncidents(n)
      BY <3>1, <3>2 DEF OpenIncidents, TypeOK, IncidentType
    <3> HIDE DEF closed
    <3> QED
      BY <2>2, <3>1, <3>3
  <2>3. CASE t.write = "none"
    <3>1. incident' = incident
      BY <1>1, <2>3 DEF IncidentsAfter
    <3>2. closed' = closed /\ \A n \in Monitors : OpenIncidents(n)' = OpenIncidents(n)
      BY <3>1 DEF OpenIncidents
    <3> HIDE DEF closed
    <3> QED
      BY <2>3, <3>2
  <2> QED
    BY <1>1, <2>1, <2>2, <2>3
<1> HIDE DEF closed, d
<1>5. open' = [open EXCEPT ![m] = CASE d.write = "open"  -> {d.incident}
                                    [] d.write = "close" -> {}
                                    [] OTHER             -> open[m]]
  BY <1>3, <1>4
<1>6. closed' = IF d.write = "close" THEN closed \cup {d.incident} ELSE closed
  BY <1>3, <1>4
<1> HIDE DEF open, turn
<1>7. Turns!Carry(m)
  BY <1>2, <1>5, <1>6 DEF Turns!Carry, open, closed, turn
<1> QED
  BY <1>7 DEF Turns!TurnNext

\* A check that ends before its commit gives up the turn it has, or has none.
LEMMA RollbackGivesUp ==
  ASSUME TypeOK, PipelineInv, NEW w \in Workers, Rollback(w)
  PROVE  Turns!TurnNext \/ UNCHANGED Turns!TurnVars
<1> DEFINE open == [n \in Monitors |-> OpenIncidents(n)]
           closed == {i \in Incidents : incident[i].status = "closed"}
           turn == [n \in Monitors |-> Decisions(n)]
<1>1. /\ task'[w].pc = "idle" /\ \A v \in Workers \ {w} : task'[v] = task[v]
      /\ incident' = incident
  BY DEF Rollback, TypeOK, Idle
<1>2. open' = open /\ closed' = closed
  BY <1>1 DEF OpenIncidents
<1>3. CASE task[w].pc = "decided"
  <2>m. PICK m \in Monitors : m = task[w].monitor
    BY <1>3 DEF PipelineInv, LockInv
  <2>1. LockInv
    BY DEF PipelineInv
  <2>2. /\ Decisions(m) = {Decision(w, task[w].write, task[w].incident)}
        /\ Decisions(m)' = {}
        /\ \A n \in Monitors \ {m} : Decisions(n)' = Decisions(n)
    BY <1>1, <1>3, <2>m, <2>1, TaskEnds
  <2>3. turn[m] # {} /\ turn' = [turn EXCEPT ![m] = {}]
    BY <2>2
  <2> HIDE DEF open, closed, turn
  <2>4. Turns!GiveUp(m)
    BY <1>2, <2>3 DEF Turns!GiveUp, open, closed, turn
  <2> QED
    BY <2>4 DEF Turns!TurnNext
<1>4. CASE task[w].pc # "decided"
  <2>1. \A n \in Monitors : Decisions(n)' = Decisions(n)
    BY <1>1, <1>4, UndecidedTask
  <2> QED
    BY <1>2, <2>1 DEF Turns!TurnVars
<1> QED
  BY <1>3, <1>4

\* A check before its decision has no turn yet.
LEMMA UndecidedStutters ==
  ASSUME TypeOK, NEW w \in Workers,
         FlushChecking(w) \/ Probe(w) \/ \E m \in Monitors : Select(w, m)
  PROVE  UNCHANGED Turns!TurnVars
<1>1. incident' = incident /\ \A v \in Workers \ {w} : task'[v] = task[v]
  BY DEF FlushChecking, Probe, Select, TypeOK
<1>2. task[w].pc # "decided" /\ task'[w].pc # "decided"
  <2>1. CASE FlushChecking(w)
    BY <2>1 DEF FlushChecking, TypeOK, TaskType
  <2>2. CASE Probe(w)
    <3>1. PICK result \in Results :
            task' = [task EXCEPT ![w] = [@ EXCEPT !.pc = "probed", !.result = result]]
      BY <2>2 DEF Probe
    <3>2. task'[w].pc = "probed"
      BY <3>1 DEF TypeOK, TaskType
    <3> QED
      BY <2>2, <3>2 DEF Probe
  <2>3. ASSUME NEW m \in Monitors, Select(w, m)
        PROVE  task[w].pc # "decided" /\ task'[w].pc # "decided"
    BY <2>3 DEF Select, Receive, Idle, TypeOK
  <2> QED
    BY <2>1, <2>2, <2>3
<1>3. \A n \in Monitors : Decisions(n)' = Decisions(n)
  BY <1>1, <1>2, UndecidedTask
<1> QED
  BY <1>1, <1>3 DEF Turns!TurnVars, OpenIncidents

LEMMA PipelineTurnStep ==
  ASSUME TypeOK, PipelineInv, [Next]_vars
  PROVE  Turns!TurnNext \/ UNCHANGED Turns!TurnVars
<1>1. CASE task' = task /\ incident' = incident
  BY <1>1 DEF Turns!TurnVars, OpenIncidents, Decisions
<1>2. CASE Scheduler
  BY <1>1, <1>2 DEF Scheduler, BeatSelect, BeatDies, BeatSend
<1>3. CASE Api
  BY <1>1, <1>3 DEF Api, Delete, RequestEnqueue, PatchCommit, RequestDies, Create, RunCheckAdmit,
                    PatchLoad
<1>4. ASSUME NEW w \in Workers, Worker(w) PROVE Turns!TurnNext \/ UNCHANGED Turns!TurnVars
  <2>1. CASE \E m \in Monitors : Skip(w, m)
    BY <1>1, <2>1 DEF Skip
  <2> QED
    BY <1>4, <2>1, DecideTakesTurn, CommitCarries, RollbackGivesUp, UndecidedStutters
    DEF Worker, Abort, Raises
<1>5. CASE (\E m \in Monitors : Tick(m)) \/ UNCHANGED vars
  BY <1>1, <1>5 DEF Tick, vars
<1> QED
  BY <1>2, <1>3, <1>4, <1>5 DEF Next

\* The checks of a monitor take turns, whatever requests, crashes and checks of
\* other monitors do: what one of them has decided about the incidents it read,
\* it commits, or gives up, before another one of that monitor decides.
THEOREM ChecksTakeTurns == Spec => RefinesTurns
<1>1. Init => Turns!TurnInit
  BY DEF Init, Turns!TurnInit, OpenIncidents, Decisions, Idle
<1>2. (TypeOK /\ PipelineInv) /\ [Next]_vars => [Turns!TurnNext]_(Turns!TurnVars)
  BY PipelineTurnStep
<1> QED
  BY <1>1, <1>2, Invariance, PTL DEF Spec, RefinesTurns, Turns!Spec

-----------------------------------------------------------------------------
(* Taking turns is all that the life cycle of the incidents rests on: what   *)
(* follows uses nothing of the pipeline but RefinesTurns.                    *)

\* What an open turn says of the incidents, whoever has it.
TurnsHeld ==
  \A m \in Monitors : \A d \in Decisions(m) :
    /\ Decisions(m) = {d}
    /\ d.write = "open" =>
         /\ OpenIncidents(m) = {}
         /\ d.incident \in Incidents /\ incident[d.incident].status # "closed"
         /\ \A n \in Monitors : d.incident \notin OpenIncidents(n)
         /\ \A n \in Monitors \ {m} : \A e \in Decisions(n) :
              e.write = "open" => e.incident # d.incident
    /\ d.write = "close" => d.incident \in Incidents /\ OpenIncidents(m) = {d.incident}

\* The same, of sets of incidents and decisions by themselves.
Held(open, closed, turn) ==
  \A m \in Monitors : \A d \in turn[m] :
    /\ turn[m] = {d}
    /\ d.write = "open" =>
         /\ open[m] = {}
         /\ d.incident \in Incidents /\ d.incident \notin closed
         /\ \A n \in Monitors : d.incident \notin open[n]
         /\ \A n \in Monitors \ {m} : \A e \in turn[n] :
              e.write = "open" => e.incident # d.incident
    /\ d.write = "close" => d.incident \in Incidents /\ open[m] = {d.incident}

LEMMA TakenTurn ==
  ASSUME NEW open, NEW closed, NEW turn, Held(open, closed, turn),
         NEW m \in Monitors, turn[m] = {}, NEW d,
         d.write = "open" =>
           /\ open[m] = {}
           /\ d.incident \in Incidents /\ d.incident \notin closed
           /\ \A n \in Monitors : d.incident \notin open[n]
           /\ \A n \in Monitors : \A e \in turn[n] :
                e.write = "open" => e.incident # d.incident,
         d.write = "close" => d.incident \in Incidents /\ open[m] = {d.incident},
         NEW after, after[m] = {d}, \A n \in Monitors \ {m} : after[n] = turn[n]
  PROVE  Held(open, closed, after)
BY DEF Held

LEMMA CarriedTurn ==
  ASSUME NEW open, NEW closed, NEW turn, Held(open, closed, turn),
         NEW m \in Monitors, NEW d \in turn[m],
         NEW after, after[m] = {}, \A n \in Monitors \ {m} : after[n] = turn[n],
         NEW opened, \A n \in Monitors \ {m} : opened[n] = open[n],
         d.write = "open" => opened[m] = {d.incident},
         d.write = "close" => opened[m] = {},
         d.write \notin {"open", "close"} => opened[m] = open[m],
         NEW over, over = IF d.write = "close" THEN closed \cup {d.incident} ELSE closed
  PROVE  Held(opened, over, after)
<1>1. CASE d.write = "open"
  BY <1>1 DEF Held
<1>2. CASE d.write = "close"
  BY <1>2 DEF Held
<1>3. CASE d.write \notin {"open", "close"}
  BY <1>3 DEF Held
<1> QED
  BY <1>1, <1>2, <1>3

LEMMA TurnsHeldStep ==
  ASSUME TurnsHeld, [Turns!TurnNext]_(Turns!TurnVars)
  PROVE  TurnsHeld' /\ [Lifecycle!LifecycleNext]_(Lifecycle!LifecycleVars)
<1> DEFINE open == [n \in Monitors |-> OpenIncidents(n)]
           closed == {i \in Incidents : incident[i].status = "closed"}
           turn == [n \in Monitors |-> Decisions(n)]
<1>1. TurnsHeld => Held(open, closed, turn)
  BY DEF TurnsHeld, Held
<1>2. Held(open', closed', turn') => TurnsHeld'
  BY DEF TurnsHeld, Held
<1>3. /\ DOMAIN open = Monitors /\ DOMAIN turn = Monitors
  OBVIOUS
<1> HIDE DEF open, closed, turn
<1>4. Held(open, closed, turn)
  BY <1>1
<1>5. ASSUME NEW m \in Monitors, NEW c, NEW write, NEW i, Turns!Takes(m, c, write, i),
             write = "open" => i \in Incidents /\ open[m] = {} /\ Turns!Fresh(i),
             write = "close" => i \in Incidents /\ open[m] = {i}
      PROVE  Held(open', closed', turn') /\ open' = open /\ closed' = closed
  <2> DEFINE d == Decision(c, write, i)
  <2>1. /\ turn[m] = {} /\ turn' = [turn EXCEPT ![m] = {d}]
        /\ open' = open /\ closed' = closed
    BY <1>5 DEF Turns!Takes, Decision, open, closed, turn
  <2>2. turn'[m] = {d} /\ \A n \in Monitors \ {m} : turn'[n] = turn[n]
    BY <1>3, <2>1
  <2>3. d.write = write /\ d.incident = i
    BY DEF Decision
  <2>4. write = "open" => /\ i \notin closed
                          /\ \A n \in Monitors : i \notin open[n]
                          /\ \A n \in Monitors : \A e \in turn[n] :
                               e.write = "open" => e.incident # i
    BY <1>5 DEF Turns!Fresh, open, closed, turn
  <2> HIDE DEF d
  <2>5. Held(open, closed, turn')
    <3>1. PICK o, x, before, after :
            o = open /\ x = closed /\ before = turn /\ after = turn'
      OBVIOUS
    <3>2. Held(o, x, before) /\ before[m] = {}
      BY <1>4, <2>1, <3>1
    <3>3. after[m] = {d} /\ \A n \in Monitors \ {m} : after[n] = before[n]
      BY <2>2, <3>1
    <3>4. d.write = "open" =>
            /\ o[m] = {}
            /\ d.incident \in Incidents /\ d.incident \notin x
            /\ \A n \in Monitors : d.incident \notin o[n]
            /\ \A n \in Monitors : \A e \in before[n] : e.write = "open" => e.incident # d.incident
      BY <1>5, <2>3, <2>4, <3>1
    <3>5. d.write = "close" => d.incident \in Incidents /\ o[m] = {d.incident}
      BY <1>5, <2>3, <3>1
    <3>6. Held(o, x, after)
      BY <3>2, <3>3, <3>4, <3>5, TakenTurn
    <3> QED
      BY <3>1, <3>6
  <2> QED
    BY <2>1, <2>5
<1>6. ASSUME NEW m \in Monitors, NEW c \in Workers, Turns!TakeToStay(m, c)
      PROVE  Held(open', closed', turn') /\ open' = open /\ closed' = closed
  BY <1>5, <1>6 DEF Turns!TakeToStay
<1>7. ASSUME NEW m \in Monitors, NEW c \in Workers, NEW i \in Incidents, Turns!TakeToOpen(m, c, i)
      PROVE  Held(open', closed', turn') /\ open' = open /\ closed' = closed
  BY <1>5, <1>7 DEF Turns!TakeToOpen, open
<1>8. ASSUME NEW m \in Monitors, NEW c \in Workers, NEW i \in Incidents, Turns!TakeToClose(m, c, i)
      PROVE  Held(open', closed', turn') /\ open' = open /\ closed' = closed
  BY <1>5, <1>8 DEF Turns!TakeToClose, open
<1>9. ASSUME NEW m \in Monitors, Turns!Carry(m)
      PROVE  /\ Held(open', closed', turn')
             /\ Lifecycle!LifecycleNext \/ (open' = open /\ closed' = closed)
  <2>1. PICK d \in turn[m] :
          /\ turn' = [turn EXCEPT ![m] = {}]
          /\ open' = [open EXCEPT ![m] = CASE d.write = "open"  -> {d.incident}
                                           [] d.write = "close" -> {}
                                           [] OTHER             -> open[m]]
          /\ closed' = IF d.write = "close" THEN closed \cup {d.incident} ELSE closed
    BY <1>9 DEF Turns!Carry, open, closed, turn
  <2>2. /\ turn'[m] = {} /\ \A n \in Monitors \ {m} : turn'[n] = turn[n]
        /\ \A n \in Monitors \ {m} : open'[n] = open[n]
        /\ d.write = "open" => open'[m] = {d.incident}
        /\ d.write = "close" => open'[m] = {}
        /\ d.write \notin {"open", "close"} => open'[m] = open[m]
    BY <1>3, <2>1
  <2>3. Held(open', closed', turn')
    <3>1. PICK o, opened, x, over, before, after :
            /\ o = open /\ x = closed /\ before = turn
            /\ opened = open' /\ over = closed' /\ after = turn'
      OBVIOUS
    <3>2. Held(o, x, before) /\ d \in before[m]
      BY <1>4, <3>1
    <3>3. /\ after[m] = {} /\ \A n \in Monitors \ {m} : after[n] = before[n]
          /\ \A n \in Monitors \ {m} : opened[n] = o[n]
          /\ d.write = "open" => opened[m] = {d.incident}
          /\ d.write = "close" => opened[m] = {}
          /\ d.write \notin {"open", "close"} => opened[m] = o[m]
      BY <2>2, <3>1
    <3>4. over = IF d.write = "close" THEN x \cup {d.incident} ELSE x
      BY <2>1, <3>1
    <3>5. Held(opened, over, after)
      BY <3>2, <3>3, <3>4, CarriedTurn
    <3> QED
      BY <3>1, <3>5
  <2>4. CASE d.write = "open"
    <3>1. PICK i \in Incidents : i = d.incident
      BY <1>4, <2>4 DEF Held
    <3>2. /\ open[m] = {} /\ i \notin closed /\ \A n \in Monitors : i \notin open[n]
          /\ open' = [open EXCEPT ![m] = {i}] /\ closed' = closed
      BY <1>4, <2>1, <2>4, <3>1 DEF Held
    <3>3. Lifecycle!OpenFor(m, i)
      BY <3>2 DEF Lifecycle!OpenFor, open, closed
    <3>4. Lifecycle!LifecycleNext
      BY <3>3 DEF Lifecycle!LifecycleNext
    <3> QED
      BY <2>3, <3>4
  <2>5. CASE d.write = "close"
    <3>1. PICK i \in Incidents : i = d.incident
      BY <1>4, <2>5 DEF Held
    <3>2. /\ open[m] = {i}
          /\ open' = [open EXCEPT ![m] = {}] /\ closed' = closed \cup {i}
      BY <1>4, <2>1, <2>5, <3>1 DEF Held
    <3>3. Lifecycle!CloseFor(m, i)
      BY <3>2 DEF Lifecycle!CloseFor, open, closed
    <3>4. Lifecycle!LifecycleNext
      BY <3>3 DEF Lifecycle!LifecycleNext
    <3> QED
      BY <2>3, <3>4
  <2>6. CASE d.write \notin {"open", "close"}
    <3>1. closed' = closed /\ open' = [open EXCEPT ![m] = open[m]]
      BY <2>1, <2>6
    <3>2. open' = open
      BY <3>1 DEF open
    <3> QED
      BY <2>3, <3>1, <3>2
  <2> QED
    BY <2>4, <2>5, <2>6
<1>10. ASSUME NEW m \in Monitors, Turns!GiveUp(m)
       PROVE  Held(open', closed', turn') /\ open' = open /\ closed' = closed
  <2>1. /\ turn' = [turn EXCEPT ![m] = {}] /\ open' = open /\ closed' = closed
    BY <1>10 DEF Turns!GiveUp, open, closed, turn
  <2>2. turn'[m] = {} /\ \A n \in Monitors \ {m} : turn'[n] = turn[n]
    BY <1>3, <2>1
  <2>3. Held(open, closed, turn')
    BY <1>4, <2>2 DEF Held
  <2> QED
    BY <2>1, <2>3
<1>11. CASE UNCHANGED Turns!TurnVars
  <2>1. turn' = turn /\ open' = open /\ closed' = closed
    BY <1>11 DEF Turns!TurnVars, open, closed, turn
  <2> QED
    BY <1>2, <1>4, <2>1 DEF Lifecycle!LifecycleVars, open, closed
<1>12. CASE Turns!TurnNext
  <2>1. /\ Held(open', closed', turn')
        /\ Lifecycle!LifecycleNext \/ (open' = open /\ closed' = closed)
    BY <1>12, <1>6, <1>7, <1>8, <1>9, <1>10 DEF Turns!TurnNext
  <2> QED
    BY <1>2, <2>1 DEF Lifecycle!LifecycleVars, open, closed
<1> QED
  BY <1>11, <1>12

\* Checks that take turns leave incidents that are opened once, one at a time,
\* and closed for good: what CheckTurns promises is enough for IncidentLifecycle.
THEOREM TurnsMakeLifecycle == RefinesTurns => RefinesLifecycle
<1>1. Turns!TurnInit => TurnsHeld /\ Lifecycle!LifecycleInit
  <2> SUFFICES ASSUME Turns!TurnInit PROVE TurnsHeld /\ Lifecycle!LifecycleInit
    OBVIOUS
  <2>1. \A m \in Monitors : Decisions(m) = {}
    <3>1. [m \in Monitors |-> Decisions(m)] = [m \in Monitors |-> {}]
      BY DEF Turns!TurnInit
    <3> SUFFICES ASSUME NEW m \in Monitors PROVE Decisions(m) = {}
      OBVIOUS
    <3>2. [n \in Monitors |-> Decisions(n)][m] = {}
      BY <3>1
    <3> QED
      BY <3>2
  <2> QED
    BY <2>1 DEF Turns!TurnInit, TurnsHeld, Lifecycle!LifecycleInit
<1>2. TurnsHeld /\ [Turns!TurnNext]_(Turns!TurnVars) => TurnsHeld'
  BY TurnsHeldStep
<1>3. TurnsHeld /\ [Turns!TurnNext]_(Turns!TurnVars)
        => [Lifecycle!LifecycleNext]_(Lifecycle!LifecycleVars)
  BY TurnsHeldStep
<1> QED
  BY <1>1, <1>2, <1>3, PTL DEF RefinesTurns, Turns!Spec, RefinesLifecycle, Lifecycle!Spec

\* A check never undoes what a request that finished meanwhile did to is_paused
\* or deleted_at: only a finishing PATCH moves is_paused, and to what it asked.
THEOREM ConfigurationKept == Spec => ChecksKeepConfiguration
<1> DEFINE Moved(m) ==
      /\ row'[m].is_paused # row[m].is_paused =>
           \E r \in Requests : /\ request[r].pc = "patch"
                               /\ request[r].monitor = m
                               /\ request[r].pause = row'[m].is_paused
                               /\ request'[r] = NoRequest
      /\ row[m].life = "deleted" => row'[m].life = "deleted"
<1>1. TypeOK /\ [Next]_vars => \A m \in Monitors : Moved(m)
  <2> SUFFICES ASSUME TypeOK, [Next]_vars, NEW m \in Monitors PROVE Moved(m)
    OBVIOUS
  <2>1. CASE row' = row
    BY <2>1
  <2>2. ASSUME NEW r \in Requests, PatchCommit(r) PROVE Moved(m)
    <3>1. \A n \in Monitors : row'[n].life = row[n].life
      BY <2>2 DEF PatchCommit, TypeOK, RowType
    <3>2. \A n \in Monitors :
            row'[n].is_paused # row[n].is_paused
              => n = request[r].monitor /\ row'[n].is_paused = request[r].pause
      BY <2>2 DEF PatchCommit, TypeOK, RowType, Written
    <3>3. request[r].pc = "patch" /\ request'[r] = NoRequest
      BY <2>2 DEF PatchCommit, TypeOK
    <3> QED
      BY <3>1, <3>2, <3>3
  <2>3. ASSUME NEW n \in Monitors, Delete(n) \/ \E r \in Requests : Create(r, n) PROVE Moved(m)
    BY <2>3 DEF Delete, Create, Live, TypeOK, RowType
  <2>4. ASSUME NEW w \in Workers, Commit(w) PROVE Moved(m)
    <3>1. row'[m].is_paused = row[m].is_paused /\ row'[m].life = row[m].life
      BY <2>4 DEF Commit, TypeOK, RowType
    <3> QED
      BY <3>1
  <2>5. ASSUME NEW n \in Monitors, Tick(n) PROVE Moved(m)
    BY <2>5 DEF Tick, TypeOK, RowType
  <2> QED
    BY <2>1, <2>2, <2>3, <2>4, <2>5
    DEF Next, Scheduler, Api, Worker, Decide, BeatSelect, BeatDies, BeatSend,
        RequestEnqueue, RequestDies, RunCheckAdmit, PatchLoad, Skip, Select,
        FlushChecking, Probe, StayUp, Recover, OpenIncident, StayDown, Abort, Raises,
        Rollback, vars
<1> QED
  BY <1>1, TypeCorrect, PTL DEF Spec, ChecksKeepConfiguration
=============================================================================
