---------------------------- MODULE ExpiryAlerts ----------------------------
(***************************************************************************)
(* The expiry warnings of one monitor.  A task fetches when the certificate  *)
(* and the domain registration expire, compares that with the row of table   *)
(* monitor_expiry_status, hands at most one warning of each kind to the      *)
(* broker, remembers which thresholds it has warned of, and commits.  The    *)
(* sweep of every half hour, the button of the browser and the first read of *)
(* the API may run the task at the same time.  The clock counts days.        *)
(***************************************************************************)
EXTENDS Integers, FiniteSets

CONSTANTS
  Tasks,        \* processes that may run the task
  Kinds,        \* "ssl" and "domain": the two are handled alike
  Thresholds,   \* EXPIRY_ALERT_THRESHOLDS
  NoDate,       \* None
  Horizon,      \* bound: the last day
  LastExpiry,   \* bound: the latest expiry date
  MaxFailures,  \* bound: fetches that fail
  MaxCrashes,   \* bound: processes that die
  MaxMoves      \* bound: edits of the URL that lead to an earlier date

ASSUME KindsAssumption == IsFiniteSet(Kinds)
ASSUME ThresholdAssumption == Thresholds \subseteq Nat /\ IsFiniteSet(Thresholds)
ASSUME ExpiryBoundAssumption == /\ Horizon \in Nat /\ LastExpiry \in Nat
                                /\ MaxFailures \in Nat /\ MaxCrashes \in Nat
                                /\ MaxMoves \in Nat
                                /\ NoDate \notin 0 .. LastExpiry

VARIABLES
  today,
  expiry,    \* the world: when the certificate or the domain expires
  status,    \* the committed row of monitor_expiry_status
  task,      \* what each process is doing
  overlapped,  \* history: two tasks were under way at once
  moved,     \* history: how often an edit of the URL led to an earlier date
  warnings,  \* how many warnings of a threshold were sent, by kind and date
  failures,
  crashes

vars == <<today, expiry, status, task, overlapped, moved, warnings, failures, crashes>>

Dates == 0 .. LastExpiry

\* Bound: warnings of one threshold are counted up to here.
Repeated == MaxMoves + MaxCrashes + 2

RowType == [exists : BOOLEAN, last_checked_at : 0 .. Horizon,
            expires_at : [Kinds -> Dates \cup {NoDate}],
            alerted_thresholds : [Kinds -> SUBSET Thresholds]]

\* found: what was fetched; loaded: the row before; alerted_thresholds: after.
TaskType == [pc : {"idle", "fetched", "decided"}, now : 0 .. Horizon,
             found : [Kinds -> Dates \cup {NoDate}], loaded : RowType,
             alerted_thresholds : [Kinds -> SUBSET Thresholds]]

TypeOK ==
  /\ today \in 0 .. Horizon
  /\ expiry \in [Kinds -> Dates]
  /\ status \in RowType
  /\ task \in [Tasks -> TaskType]
  /\ overlapped \in BOOLEAN
  /\ moved \in 0 .. MaxMoves
  /\ warnings \in [Kinds -> [Dates -> [Thresholds -> 0 .. Repeated]]]
  /\ failures \in 0 .. MaxFailures
  /\ crashes \in 0 .. MaxCrashes

NoRow == [exists |-> FALSE, last_checked_at |-> 0, expires_at |-> [k \in Kinds |-> NoDate],
          alerted_thresholds |-> [k \in Kinds |-> {}]]

IdleTask == [pc |-> "idle", now |-> 0, found |-> [k \in Kinds |-> NoDate], loaded |-> NoRow,
             alerted_thresholds |-> [k \in Kinds |-> {}]]

-----------------------------------------------------------------------------
(* Which threshold is due                                                   *)

\* Mutation: what was sent before is not looked at.
AnyThresholdReached(date, now, sent) ==
  IF date = NoDate \/ date < now THEN {} ELSE {t \in Thresholds : date - now <= t}

\* The thresholds that are reached and have not been warned of.
Pending(date, now, sent) ==
  IF date = NoDate \/ date < now THEN {} ELSE {t \in Thresholds \ sent : date - now <= t}

\* _next_threshold_to_alert: the closest one, in a set of at most one.
NextThreshold(date, now, sent) ==
  LET pending == Pending(date, now, sent)
  IN {t \in pending : \A u \in pending : t <= u}

\* Mutation: a renewed date does not start the thresholds again.
NeverReset(row, kind, date) == row.alerted_thresholds[kind]

Renewed(before, date) == before # NoDate /\ date # NoDate /\ date > before

\* Thresholds that still count as warned of when the date found is looked at.
StillSent(row, kind, date) ==
  IF Renewed(row.expires_at[kind], date) THEN {} ELSE row.alerted_thresholds[kind]

-----------------------------------------------------------------------------
(* The task                                                                 *)

\* A fetch that raises leaves the date None.
Fetch(p) ==
  /\ task[p].pc = "idle"
  /\ \E failed \in SUBSET Kinds :
       /\ failures + Cardinality(failed) <= MaxFailures
       /\ failures' = failures + Cardinality(failed)
       /\ task' = [task EXCEPT ![p] =
            [pc |-> "fetched", now |-> today, loaded |-> NoRow,
             found |-> [k \in Kinds |-> IF k \in failed THEN NoDate ELSE expiry[k]],
             alerted_thresholds |-> [k \in Kinds |-> {}]]]
  /\ overlapped' = (overlapped \/ \E q \in Tasks : task[q].pc # "idle")
  /\ UNCHANGED <<moved, today, expiry, status, warnings, crashes>>

\* The warning goes to the broker at once, the row is written at the commit.
Warned(kind, date, due) ==
  [d \in Dates |-> [t \in Thresholds |->
     IF d = date /\ t \in due /\ warnings[kind][d][t] < Repeated
     THEN warnings[kind][d][t] + 1 ELSE warnings[kind][d][t]]]

\* Mutation: the thresholds are recorded and the message is left for later.
DecideSilently(p) ==
  LET Due(k) == NextThreshold(task[p].found[k], task[p].now, StillSent(status, k, task[p].found[k]))
  IN
  /\ task[p].pc = "fetched"
  /\ task' = [task EXCEPT ![p].pc = "decided", ![p].loaded = status,
       ![p].alerted_thresholds =
         [k \in Kinds |-> StillSent(status, k, task[p].found[k]) \cup Due(k)]]
  /\ UNCHANGED <<overlapped, moved, today, expiry, status, warnings, failures, crashes>>

Decide(p) ==
  LET Due(k) == NextThreshold(task[p].found[k], task[p].now, StillSent(status, k, task[p].found[k]))
  IN
  /\ task[p].pc = "fetched"
  /\ warnings' = [k \in Kinds |-> Warned(k, task[p].found[k], Due(k))]
  /\ task' = [task EXCEPT ![p].pc = "decided", ![p].loaded = status,
       ![p].alerted_thresholds =
         [k \in Kinds |-> StillSent(status, k, task[p].found[k]) \cup Due(k)]]
  /\ UNCHANGED <<overlapped, moved, today, expiry, status, failures, crashes>>

\* The column an ORM flush leaves in the row: only a change is written.
Written(stored, loaded, new) == IF new = loaded THEN stored ELSE new

Commit(p) ==
  LET t == task[p] IN
  /\ t.pc = "decided"
  /\ t.loaded.exists \/ ~status.exists
  /\ status' = [exists |-> TRUE, last_checked_at |-> t.now,
       expires_at |-> [k \in Kinds |->
         Written(status.expires_at[k], t.loaded.expires_at[k], t.found[k])],
       alerted_thresholds |-> [k \in Kinds |->
         Written(status.alerted_thresholds[k], t.loaded.alerted_thresholds[k],
                 t.alerted_thresholds[k])]]
  /\ task' = [task EXCEPT ![p] = IdleTask]
  /\ UNCHANGED <<overlapped, moved, today, expiry, warnings, failures, crashes>>

\* Two first checks: the second INSERT violates the primary key, ROLLBACK.
Conflict(p) ==
  /\ task[p].pc = "decided"
  /\ ~task[p].loaded.exists /\ status.exists
  /\ task' = [task EXCEPT ![p] = IdleTask]
  /\ UNCHANGED <<overlapped, moved, today, expiry, status, warnings, failures, crashes>>

Dies(p) ==
  /\ task[p].pc # "idle"
  /\ crashes < MaxCrashes
  /\ task' = [task EXCEPT ![p] = IdleTask]
  /\ crashes' = crashes + 1
  /\ UNCHANGED <<overlapped, moved, today, expiry, status, warnings, failures>>

-----------------------------------------------------------------------------
(* The world                                                                *)

\* The certificate or the registration is renewed.
Renew(k) ==
  /\ \E d \in Dates : d > expiry[k] /\ expiry' = [expiry EXCEPT ![k] = d]
  /\ UNCHANGED <<overlapped, moved, today, status, task, warnings, failures, crashes>>

\* A PATCH points the monitor to another host and keeps the row: every date is
\* another one, earlier or later.
EditUrl ==
  /\ expiry' \in [Kinds -> Dates] /\ expiry' # expiry
  /\ moved' = IF \E k \in Kinds : expiry'[k] < expiry[k] THEN moved + 1 ELSE moved
  /\ moved' <= MaxMoves
  /\ UNCHANGED <<overlapped, today, status, task, warnings, failures, crashes>>

NextDay ==
  /\ today < Horizon
  /\ today' = today + 1
  /\ UNCHANGED <<overlapped, moved, expiry, status, task, warnings, failures, crashes>>

Init ==
  /\ today = 0
  /\ expiry \in [Kinds -> Dates]
  /\ status = NoRow
  /\ task = [p \in Tasks |-> IdleTask]
  /\ warnings = [k \in Kinds |-> [d \in Dates |-> [t \in Thresholds |-> 0]]]
  /\ overlapped = FALSE
  /\ moved = 0
  /\ failures = 0
  /\ crashes = 0

Next ==
  \/ \E p \in Tasks : Fetch(p) \/ Decide(p) \/ Commit(p) \/ Conflict(p) \/ Dies(p)
  \/ \E k \in Kinds : Renew(k)
  \/ EditUrl
  \/ NextDay

Spec == Init /\ [][Next]_vars

-----------------------------------------------------------------------------
Sent(k, t) == \E d \in Dates : warnings[k][d][t] > 0

\* A threshold that the row remembers has been warned of, for some date of its
\* kind: no crash, conflict or overlap of two tasks records a warning that nobody
\* was sent.
RecordedThresholdsWereSent ==
  \A k \in Kinds : \A t \in status.alerted_thresholds[k] : Sent(k, t)

\* One expiry date is warned of once per threshold, also when fetches fail and
\* dates are renewed; each process that dies between its warning and its commit,
\* and each edit of the URL that leads to an earlier date, is good for one warning
\* more, as long as no two tasks overlap.  upgrade_planning_docs_1:251.
WarnedOncePerThreshold ==
  ~overlapped =>
    \A k \in Kinds, d \in Dates, t \in Thresholds : warnings[k][d][t] <= 1 + moved + crashes

\* A date that is close and that a committed check has seen was warned of, and
\* at the tightest threshold the check had reached, while no fetch has failed, no
\* edit of the URL led to an earlier date and no two tasks overlap: the row starts
\* its thresholds again only for a date later than the one it stores, which after
\* a failed fetch is none.  upgrade_planning_docs_1:231.
ExpiringDateIsWarned ==
  ~overlapped /\ failures = 0 /\ moved = 0 =>
    \A k \in Kinds :
      LET left == status.expires_at[k] - status.last_checked_at IN
      status.expires_at[k] # NoDate =>
        \A t \in Thresholds :
          0 <= left /\ left <= t /\ (\A u \in Thresholds : u < t => u < left)
            => warnings[k][status.expires_at[k]][t] > 0
=============================================================================
