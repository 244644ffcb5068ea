---------------------------- MODULE CheckPipeline ----------------------------
(***************************************************************************)
(* The check pipeline of MONI: a monitor becomes due, the scheduler or an   *)
(* API request enqueues a check, a Celery process runs it inside ONE        *)
(* database transaction, and the incident of the monitor is opened or       *)
(* closed by what the probe found.                                          *)
(*                                                                         *)
(* PostgreSQL runs the transactions at READ COMMITTED.  Variables row,      *)
(* incident and last_run hold what is committed; what an open transaction   *)
(* has read or flushed is in the record of the process that runs it.  An    *)
(* UPDATE takes the row lock of its monitor until COMMIT or ROLLBACK, and   *)
(* the ORM writes only the columns whose value differs from the loaded one. *)
(***************************************************************************)
EXTENDS Naturals, FiniteSets

CONSTANTS
  Monitors,     \* rows of table monitors
  Workers,      \* Celery prefork processes that may run a check
  Requests,     \* API requests that may be in flight at once
  Incidents,    \* identifiers (uuid4) that rows of table incidents may get
  NoMonitor, NoIncident, NoTx,
  Results,      \* bound: the probe results that occur
  MaxQueue,     \* bound: check messages waiting for one monitor
  MaxAborts     \* bound: crashes and escaping exceptions in one behaviour

ASSUME NullAssumption == /\ NoMonitor \notin Monitors
                         /\ NoIncident \notin Incidents
                         /\ NoTx \notin Workers
ASSUME BoundAssumption == MaxQueue \in Nat /\ MaxAborts \in Nat

VARIABLES
  row,       \* monitors: committed rows
  lock,      \* the worker whose open transaction has updated the row
  incident,  \* incidents: committed rows
  last_run,  \* check_runs: the newest committed row of each monitor
  mail,      \* incident transitions whose e-mail was handed to the broker
  queue,     \* check_http_monitor messages waiting in the broker
  batch,     \* monitors the running scheduler task has still to enqueue
  task,      \* what each worker is doing
  request,   \* what each API request is doing
  aborts     \* failures so far, for the bound only

vars == <<row, lock, incident, last_run, mail, queue, batch, task, request, aborts>>

-----------------------------------------------------------------------------
(* Data                                                                     *)

MonitorStatus == {"pending", "checking", "up", "down", "slow", "paused"}

\* The status codes and messages are abstracted to what a reader of the row
\* can tell apart: a code the monitor accepts, one it rejects, or none.
Codes == {"none", "accepted", "rejected"}
Errors == {"none", "exception"}

\* How long ago last_checked_at is: "fresh" is within the run-check minimum
\* interval, "due" is past interval_seconds, "cool" is in between.
Ages == {"never", "fresh", "cool", "due"}

\* What _perform_probe may return.  "timeout" stands for every failing status
\* that comes from an exception: no status code, an error message.
ProbeResults ==
  { [status |-> "up",         code |-> "accepted", error |-> "none"],
    [status |-> "slow",       code |-> "accepted", error |-> "none"],
    [status |-> "http_error", code |-> "rejected", error |-> "none"],
    [status |-> "timeout",    code |-> "none",     error |-> "exception"] }

ASSUME ResultAssumption == Results \subseteq ProbeResults

NoResult == [status |-> "none", code |-> "none", error |-> "none"]

IsProbeFailure(status) == status \notin {"up", "slow"}

StatusAfter(result) == IF IsProbeFailure(result.status) THEN "down" ELSE result.status

Events == {"incident_opened", "incident_recovered"}

RowType == [life : {"absent", "live", "deleted"}, is_paused : BOOLEAN,
            current_status : MonitorStatus, age : Ages, code : Codes, error : Errors]

IncidentType == [status : {"absent", "open", "closed"}, monitor : Monitors \cup {NoMonitor}]

\* code and error: the snapshot columns as the task loaded them.
\* write: what the open transaction has flushed to table incidents.
TaskType == [pc : {"idle", "loaded", "locked", "probed", "decided"},
             monitor : Monitors \cup {NoMonitor},
             code : Codes, error : Errors,
             result : ProbeResults \cup {NoResult},
             incident : Incidents \cup {NoIncident},
             write : {"none", "open", "close"}]

\* pause: the requested value; is_paused and current_status: as loaded.
RequestType == [pc : {"idle", "patch", "enqueue"}, monitor : Monitors \cup {NoMonitor},
                pause : BOOLEAN, is_paused : BOOLEAN, current_status : MonitorStatus]

Idle == [pc |-> "idle", monitor |-> NoMonitor, code |-> "none", error |-> "none",
         result |-> NoResult, incident |-> NoIncident, write |-> "none"]

NoRequest == [pc |-> "idle", monitor |-> NoMonitor, pause |-> FALSE,
              is_paused |-> FALSE, current_status |-> "pending"]

TypeOK ==
  /\ row \in [Monitors -> RowType]
  /\ lock \in [Monitors -> Workers \cup {NoTx}]
  /\ incident \in [Incidents -> IncidentType]
  /\ last_run \in [Monitors -> ProbeResults \cup {NoResult}]
  /\ mail \in [Incidents -> SUBSET Events]
  /\ queue \in [Monitors -> 0 .. MaxQueue]
  /\ batch \subseteq Monitors
  /\ task \in [Workers -> TaskType]
  /\ request \in [Requests -> RequestType]
  /\ aborts \in 0 .. MaxAborts

-----------------------------------------------------------------------------
(* What the code reads                                                      *)

Live(m) == row[m].life = "live"

OpenIncidents(m) == {i \in Incidents : /\ incident[i].status = "open"
                                       /\ incident[i].monitor = m}

\* A uuid4 nobody has used: every incident announces itself when it is created.
Unused(i) == mail[i] = {}

\* The column an ORM flush leaves in the row: only a change is written.
Written(stored, loaded, new) == IF new = loaded THEN stored ELSE new

\* The filter of the scheduler and its due_at test.
Due(m) == /\ Live(m)
          /\ ~row[m].is_paused
          /\ row[m].current_status # "checking"
          /\ row[m].age \in {"never", "due"}

\* enforce_run_check_rate_limit lets the request through.
RunCheckAllowed(m) == /\ row[m].current_status # "checking"
                      /\ row[m].age # "fresh"

-----------------------------------------------------------------------------
(* The scheduler: a Celery task that beat starts every 30 seconds           *)

BeatSelect ==
  /\ batch = {}
  /\ batch' = {m \in Monitors : Due(m)}
  /\ UNCHANGED <<row, lock, incident, last_run, mail, queue, task, request, aborts>>

BeatSend(m) ==
  /\ m \in batch
  /\ queue[m] < MaxQueue
  /\ batch' = batch \ {m}
  /\ queue' = [queue EXCEPT ![m] = @ + 1]
  /\ UNCHANGED <<row, lock, incident, last_run, mail, task, request, aborts>>

BeatDies ==
  /\ batch # {}
  /\ aborts < MaxAborts
  /\ batch' = {}
  /\ aborts' = aborts + 1
  /\ UNCHANGED <<row, lock, incident, last_run, mail, queue, task, request>>

-----------------------------------------------------------------------------
(* The API requests that touch the check pipeline                           *)

\* create_monitor commits the row, and enqueues the first check afterwards.
Create(r, m) ==
  /\ request[r].pc = "idle"
  /\ row[m].life = "absent"
  /\ row' = [row EXCEPT ![m].life = "live"]
  /\ request' = [request EXCEPT ![r] = [NoRequest EXCEPT !.pc = "enqueue", !.monitor = m]]
  /\ UNCHANGED <<lock, incident, last_run, mail, queue, batch, task, aborts>>

RunCheckAdmit(r, m) ==
  /\ request[r].pc = "idle"
  /\ Live(m)
  /\ RunCheckAllowed(m)
  /\ request' = [request EXCEPT ![r] = [NoRequest EXCEPT !.pc = "enqueue", !.monitor = m]]
  /\ UNCHANGED <<row, lock, incident, last_run, mail, queue, batch, task, aborts>>

\* check_http_monitor.delay, the last call of create_monitor and of run-check.
RequestEnqueue(r) ==
  /\ request[r].pc = "enqueue"
  /\ queue[request[r].monitor] < MaxQueue
  /\ queue' = [queue EXCEPT ![request[r].monitor] = @ + 1]
  /\ request' = [request EXCEPT ![r] = NoRequest]
  /\ UNCHANGED <<row, lock, incident, last_run, mail, batch, task, aborts>>

PatchLoad(r, m) ==
  /\ request[r].pc = "idle"
  /\ Live(m)
  /\ \E pause \in BOOLEAN :
       request' = [request EXCEPT ![r] =
                     [pc |-> "patch", monitor |-> m, pause |-> pause,
                      is_paused |-> row[m].is_paused,
                      current_status |-> row[m].current_status]]
  /\ UNCHANGED <<row, lock, incident, last_run, mail, queue, batch, task, aborts>>

\* The UPDATE waits for the row lock, unless no column has changed.
PatchCommit(r) ==
  LET q == request[r]
      m == q.monitor
      new_status == IF q.pause THEN "paused" ELSE "pending"
  IN
  /\ q.pc = "patch"
  /\ \/ lock[m] = NoTx
     \/ q.pause = q.is_paused /\ new_status = q.current_status
  /\ row' = [row EXCEPT ![m] = [@ EXCEPT
       !.is_paused = Written(row[m].is_paused, q.is_paused, q.pause),
       !.current_status = Written(row[m].current_status, q.current_status, new_status)]]
  /\ request' = [request EXCEPT ![r] = NoRequest]
  /\ UNCHANGED <<lock, incident, last_run, mail, queue, batch, task, aborts>>

\* deleted_at is always a changed column, and nothing else of the row is used:
\* loading and committing may be taken as one step.
Delete(m) ==
  /\ Live(m)
  /\ lock[m] = NoTx
  /\ row' = [row EXCEPT ![m].life = "deleted"]
  /\ UNCHANGED <<lock, incident, last_run, mail, queue, batch, task, request, aborts>>

RequestDies(r) ==
  /\ request[r].pc # "idle"
  /\ aborts < MaxAborts
  /\ request' = [request EXCEPT ![r] = NoRequest]
  /\ aborts' = aborts + 1
  /\ UNCHANGED <<row, lock, incident, last_run, mail, queue, batch, task>>

-----------------------------------------------------------------------------
(* _check_http_monitor_async                                                *)

\* The message is acknowledged when the task starts.
Receive(w, m) ==
  /\ task[w].pc = "idle"
  /\ queue[m] > 0
  /\ queue' = [queue EXCEPT ![m] = @ - 1]

Skip(w, m) ==
  /\ Receive(w, m)
  /\ ~Live(m) \/ row[m].is_paused
  /\ UNCHANGED <<row, lock, incident, last_run, mail, batch, task, request, aborts>>

Select(w, m) ==
  /\ Receive(w, m)
  /\ Live(m) /\ ~row[m].is_paused
  /\ task' = [task EXCEPT ![w] = [Idle EXCEPT !.pc = "loaded", !.monitor = m,
                                  !.code = row[m].code, !.error = row[m].error]]
  /\ UNCHANGED <<row, lock, incident, last_run, mail, batch, request, aborts>>

\* Mutation: the flush of the CHECKING mark is left out, and no lock is taken.
NoFlush(w) ==
  /\ task[w].pc = "loaded"
  /\ task' = [task EXCEPT ![w].pc = "locked"]
  /\ UNCHANGED <<row, lock, incident, last_run, mail, queue, batch, request, aborts>>

\* Mutation: the CHECKING mark is committed in a transaction of its own.
CommitChecking(w) ==
  LET m == task[w].monitor IN
  /\ task[w].pc = "loaded"
  /\ lock[m] = NoTx
  /\ lock' = [lock EXCEPT ![m] = w]
  /\ row' = [row EXCEPT ![m].current_status = "checking"]
  /\ task' = [task EXCEPT ![w].pc = "locked"]
  /\ UNCHANGED <<incident, last_run, mail, queue, batch, request, aborts>>

\* UPDATE monitors SET current_status = 'checking', flushed and not committed:
\* nobody else sees it, but the row is locked from here to the commit.
FlushChecking(w) ==
  LET m == task[w].monitor IN
  /\ task[w].pc = "loaded"
  /\ lock[m] = NoTx
  /\ lock' = [lock EXCEPT ![m] = w]
  /\ task' = [task EXCEPT ![w].pc = "locked"]
  /\ UNCHANGED <<row, incident, last_run, mail, queue, batch, request, aborts>>

\* A failure needs an identifier left for the incident it may open (bound).
Probe(w) ==
  /\ task[w].pc = "locked"
  /\ \E result \in Results :
       /\ IsProbeFailure(result.status) =>
            \/ OpenIncidents(task[w].monitor) # {}
            \/ \E i \in Incidents : Unused(i)
       /\ task' = [task EXCEPT ![w] = [@ EXCEPT !.pc = "probed", !.result = result]]
  /\ UNCHANGED <<row, lock, incident, last_run, mail, queue, batch, request, aborts>>

\* The four outcomes of reading the open incident.  What is done to it is
\* flushed; the e-mail goes to the broker at once, before the commit.
Decided(w, i, write) ==
  task' = [task EXCEPT ![w] =
             [@ EXCEPT !.pc = "decided", !.incident = i, !.write = write]]

StayUp(w) ==
  /\ task[w].pc = "probed"
  /\ ~IsProbeFailure(task[w].result.status)
  /\ OpenIncidents(task[w].monitor) = {}
  /\ Decided(w, NoIncident, "none")
  /\ UNCHANGED <<row, lock, incident, last_run, mail, queue, batch, request, aborts>>

\* Mutation: the e-mail is left for after the commit, and a crash loses it.
RecoverSilently(w) ==
  /\ task[w].pc = "probed"
  /\ ~IsProbeFailure(task[w].result.status)
  /\ \E i \in OpenIncidents(task[w].monitor) : Decided(w, i, "close")
  /\ UNCHANGED <<row, lock, incident, last_run, mail, queue, batch, request, aborts>>

Recover(w) ==
  /\ task[w].pc = "probed"
  /\ ~IsProbeFailure(task[w].result.status)
  /\ \E i \in OpenIncidents(task[w].monitor) :
       /\ Decided(w, i, "close")
       /\ mail' = [mail EXCEPT ![i] = @ \cup {"incident_recovered"}]
  /\ UNCHANGED <<row, lock, incident, last_run, queue, batch, request, aborts>>

OpenIncident(w) ==
  /\ task[w].pc = "probed"
  /\ IsProbeFailure(task[w].result.status)
  /\ OpenIncidents(task[w].monitor) = {}
  /\ \E i \in Incidents :
       /\ Unused(i)
       /\ Decided(w, i, "open")
       /\ mail' = [mail EXCEPT ![i] = {"incident_opened"}]
  /\ UNCHANGED <<row, lock, incident, last_run, queue, batch, request, aborts>>

\* A reminder that may be sent here moves no incident: see IncidentAlerts.
StayDown(w) ==
  /\ task[w].pc = "probed"
  /\ IsProbeFailure(task[w].result.status)
  /\ \E i \in OpenIncidents(task[w].monitor) :
       Decided(w, i, "none")
  /\ UNCHANGED <<row, lock, incident, last_run, mail, queue, batch, request, aborts>>

\* Mutation: only UP, not SLOW, counts as recovered.
OnlyUpCloses(t) ==
  CASE t.write = "open"  -> [incident EXCEPT ![t.incident] = [status |-> "open", monitor |-> t.monitor]]
    [] t.write = "close" /\ t.result.status = "up" -> [incident EXCEPT ![t.incident].status = "closed"]
    [] OTHER             -> incident

IncidentsAfter(t) ==
  CASE t.write = "open"  -> [incident EXCEPT ![t.incident] = [status |-> "open", monitor |-> t.monitor]]
    [] t.write = "close" -> [incident EXCEPT ![t.incident].status = "closed"]
    [] OTHER             -> incident

\* Mutation: the UPDATE writes every column, those the check only loaded too.
CommitWholeRow(w) ==
  LET t == task[w]
      m == t.monitor
  IN
  /\ t.pc = "decided"
  /\ row' = [row EXCEPT ![m] = [life |-> "live", is_paused |-> FALSE,
       current_status |-> StatusAfter(t.result), age |-> "fresh",
       code |-> t.result.code, error |-> t.result.error]]
  /\ incident' = IncidentsAfter(t)
  /\ last_run' = [last_run EXCEPT ![m] = t.result]
  /\ lock' = [lock EXCEPT ![m] = NoTx]
  /\ task' = [task EXCEPT ![w] = Idle]
  /\ UNCHANGED <<mail, queue, batch, request, aborts>>

Commit(w) ==
  LET t == task[w]
      m == t.monitor
  IN
  /\ t.pc = "decided"
  /\ row' = [row EXCEPT ![m] = [@ EXCEPT
       !.current_status = StatusAfter(t.result),
       !.age = "fresh",
       !.code = Written(row[m].code, t.code, t.result.code),
       !.error = Written(row[m].error, t.error, t.result.error)]]
  /\ incident' = IncidentsAfter(t)
  /\ last_run' = [last_run EXCEPT ![m] = t.result]
  /\ lock' = [lock EXCEPT ![m] = NoTx]
  /\ task' = [task EXCEPT ![w] = Idle]
  /\ UNCHANGED <<mail, queue, batch, request, aborts>>

\* ROLLBACK, and the message is gone.
Rollback(w) ==
  LET m == task[w].monitor IN
  /\ lock' = IF lock[m] = w THEN [lock EXCEPT ![m] = NoTx] ELSE lock
  /\ task' = [task EXCEPT ![w] = Idle]
  /\ UNCHANGED <<row, incident, last_run, mail, queue, batch, request>>

\* The process is killed, or a broker or database error leaves the task.
Abort(w) ==
  /\ task[w].pc # "idle"
  /\ aborts < MaxAborts
  /\ aborts' = aborts + 1
  /\ Rollback(w)

\* An exception of the probe that no handler takes: a name that does not resolve,
\* a target that is internal, no active_region.  It is a matter of the monitor,
\* not of luck, and may end every check of it: no bound counts it.
Raises(w) ==
  /\ task[w].pc = "locked"
  /\ aborts' = aborts
  /\ Rollback(w)

-----------------------------------------------------------------------------
(* Time                                                                     *)

Tick(m) ==
  /\ row[m].age \in {"fresh", "cool"}
  /\ row' = [row EXCEPT ![m].age = IF @ = "fresh" THEN "cool" ELSE "due"]
  /\ UNCHANGED <<lock, incident, last_run, mail, queue, batch, task, request, aborts>>

-----------------------------------------------------------------------------
Init ==
  /\ row = [m \in Monitors |-> [life |-> "absent", is_paused |-> FALSE,
              current_status |-> "pending", age |-> "never", code |-> "none", error |-> "none"]]
  /\ lock = [m \in Monitors |-> NoTx]
  /\ incident = [i \in Incidents |-> [status |-> "absent", monitor |-> NoMonitor]]
  /\ last_run = [m \in Monitors |-> NoResult]
  /\ mail = [i \in Incidents |-> {}]
  /\ queue = [m \in Monitors |-> 0]
  /\ batch = {}
  /\ task = [w \in Workers |-> Idle]
  /\ request = [r \in Requests |-> NoRequest]
  /\ aborts = 0

Scheduler == BeatSelect \/ BeatDies \/ \E m \in Monitors : BeatSend(m)

Api ==
  \/ \E m \in Monitors : Delete(m)
  \/ \E r \in Requests : RequestEnqueue(r) \/ PatchCommit(r) \/ RequestDies(r)
  \/ \E r \in Requests, m \in Monitors :
       Create(r, m) \/ RunCheckAdmit(r, m) \/ PatchLoad(r, m)

Decide(w) == StayUp(w) \/ Recover(w) \/ OpenIncident(w) \/ StayDown(w)

Worker(w) ==
  \/ \E m \in Monitors : Skip(w, m) \/ Select(w, m)
  \/ FlushChecking(w) \/ Probe(w) \/ Decide(w) \/ Commit(w) \/ Abort(w) \/ Raises(w)

Next ==
  \/ Scheduler
  \/ Api
  \/ \E w \in Workers : Worker(w)
  \/ \E m \in Monitors : Tick(m)

Spec == Init /\ [][Next]_vars

\* Beat keeps firing; Redis lists and PostgreSQL lock queues are FIFO, so a
\* message or a lock request that is offered again and again is served; a
\* running task goes on.
Fairness ==
  /\ WF_vars(BeatSelect)
  /\ \A m \in Monitors : WF_vars(BeatSend(m))
  /\ \A m \in Monitors : SF_vars(\E w \in Workers : Skip(w, m) \/ Select(w, m))
  /\ \A w \in Workers : /\ SF_vars(FlushChecking(w))
                        /\ WF_vars(Probe(w))
                        /\ WF_vars(Decide(w))
                        /\ WF_vars(Commit(w))

FairSpec == Spec /\ Fairness

-----------------------------------------------------------------------------
(* Safety                                                                   *)

\* No monitor ever has two OPEN incidents.  No unique index says so, and the
\* check reads the open incident long before it commits a new one: only the
\* row lock taken by the early flush keeps two checks of a monitor apart.
AtMostOneOpenIncident ==
  \A m \in Monitors : \A i, j \in OpenIncidents(m) : i = j

\* The status a check left in the monitor row and the incidents table tell the
\* same story: DOWN has an open incident, UP and SLOW have none.
StatusMatchesIncidents ==
  \A m \in Monitors :
    /\ row[m].current_status = "down" => OpenIncidents(m) # {}
    /\ row[m].current_status \in {"up", "slow"} => OpenIncidents(m) = {}

\* Every committed transition of an incident has had its e-mail handed to the
\* broker: no crash falls between the commit and the message.
IncidentsAnnounced ==
  \A i \in Incidents :
    /\ incident[i].status # "absent" => "incident_opened" \in mail[i]
    /\ incident[i].status = "closed" => "incident_recovered" \in mail[i]

\* What a check decided when it read the incidents is still true whenever it
\* commits: nobody opens, closes or takes the identifier of an incident between
\* the SELECT and the COMMIT of another check.
DecisionsStayValid ==
  \A w \in Workers :
    LET t == task[w] IN
    t.pc = "decided" =>
      /\ t.write = "open"  => /\ IsProbeFailure(t.result.status)
                              /\ OpenIncidents(t.monitor) = {}
                              /\ incident[t.incident].status = "absent"
      /\ t.write = "close" => /\ ~IsProbeFailure(t.result.status)
                              /\ t.incident \in OpenIncidents(t.monitor)
      /\ t.write = "none"  =>
           (IsProbeFailure(t.result.status) <=> OpenIncidents(t.monitor) # {})

\* A check never undoes the pause, resume or delete of a request that finished
\* while it ran, although it loaded the row before: is_paused moves only to what
\* a finishing PATCH of that monitor asked for, and life only on a request.
ChecksKeepConfiguration ==
  [][\A m \in Monitors :
       /\ row'[m].is_paused # row[m].is_paused =>
            \E r \in Requests : /\ request[r].pc = "patch"
                                /\ request[r].monitor = m
                                /\ request[r].pause = row'[m].is_paused
                                /\ request'[r] = NoRequest
       /\ row[m].life = "deleted" => row'[m].life = "deleted"]_vars

(* Refinement: what the incidents table promises                            *)

Lifecycle == INSTANCE IncidentLifecycle WITH
  open <- [m \in Monitors |-> OpenIncidents(m)],
  closed <- {i \in Incidents : incident[i].status = "closed"}

\* However checks interleave and crash, the incidents of a monitor are opened
\* one at a time, each is closed at most once, and none is ever reopened.
RefinesLifecycle == Lifecycle!Spec

\* What the checks of a monitor have decided and not committed.
Decisions(m) ==
  {[by |-> w, write |-> task[w].write, incident |-> task[w].incident] :
     w \in {v \in Workers : task[v].pc = "decided" /\ task[v].monitor = m}}

Turns == INSTANCE CheckTurns WITH
  Checks <- Workers,
  open <- [m \in Monitors |-> OpenIncidents(m)],
  closed <- {i \in Incidents : incident[i].status = "closed"},
  turn <- [m \in Monitors |-> Decisions(m)]

\* The row lock makes the checks of a monitor take turns, although it is taken
\* for the CHECKING mark: what one has decided, it commits before another decides.
RefinesTurns == Turns!Spec

(* Liveness                                                                 *)

\* From some time on no check of m ends in an exception of its probe.
ProbesReturn(m) == <>[][\A w \in Workers : task[w].monitor = m => ~Raises(w)]_vars

\* A monitor that is due gets a new last_checked_at, unless it is paused or
\* deleted first, even when processes die: the CHECKING mark of a dead check is
\* rolled back with its transaction and cannot keep the scheduler away.  Without
\* the premise it is false: a name that never resolves is never checked.
DueMonitorIsChecked ==
  \A m \in Monitors :
    ProbesReturn(m) =>
      (Live(m) /\ ~row[m].is_paused /\ row[m].age \in {"never", "due"}
         ~> ~Live(m) \/ row[m].is_paused \/ row[m].age \in {"fresh", "cool"})
=============================================================================
