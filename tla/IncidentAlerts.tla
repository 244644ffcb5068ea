---------------------------- MODULE IncidentAlerts ----------------------------
(***************************************************************************)
(* The alerts of one monitor's incidents.  A check decides, inside its       *)
(* transaction, that an incident opens, is still down or has recovered, and  *)
(* hands a send_incident_email message to the broker BEFORE it commits.      *)
(* Notify tasks run in parallel with the checks and with each other: each    *)
(* loads the incident, talks to the SMTP server, and commits an AlertEvent   *)
(* together with the incident's last_alert_sent_at and reminder_count, which *)
(* the next check reads to decide about a reminder.                          *)
(*                                                                         *)
(* Checks of one monitor exclude each other from their decision to their     *)
(* commit: CheckPipeline shows it of the row lock.  The clock counts minutes. *)
(***************************************************************************)
EXTENDS Integers, Sequences, FiniteSets

CONSTANTS
  Notifiers,      \* Celery processes that may run a notify task
  Incidents,      \* identifiers of incidents
  NoIncident,
  Cooldown,       \* alert_cooldown_minutes
  Reminder,       \* alert_still_down_reminder_minutes
  MaxReminders,   \* alert_max_reminders_per_incident
  Horizon,        \* bound: the last minute
  MaxOutbox,      \* bound: messages waiting in the broker
  MaxCrashes      \* bound: processes that die

ASSUME PolicyAssumption ==
  /\ Cooldown \in Nat /\ Reminder \in Nat /\ MaxReminders \in Nat
  /\ NoIncident \notin Incidents
ASSUME ProcessAssumption == IsFiniteSet(Notifiers)
ASSUME IdentifierAssumption == IsFiniteSet(Incidents)   \* a uuid4 has 122 random bits
ASSUME AlertBoundAssumption == Horizon \in Nat /\ MaxOutbox \in Nat /\ MaxCrashes \in Nat

VARIABLES
  now,
  incident,   \* table incidents, and the identifiers an open transaction holds
  check,      \* the check transaction of the monitor
  outbox,     \* send_incident_email messages in the broker, oldest first
  notifier,   \* what each notify process is doing
  alerts,     \* alert_events: how many of each type, by incident
  undone,     \* history: checks rolled back after they sent the recovery, by incident
  crashes

vars == <<now, incident, check, outbox, notifier, alerts, undone, crashes>>

Events == {"incident_opened", "still_down", "incident_recovered"}

NoTime == -1
Times == 0 .. Horizon

\* "flushed": inserted by a transaction that has not committed;
\* "lost": inserted by a transaction that was rolled back.
IncidentType == [status : {"unused", "flushed", "lost", "open", "closed"},
                 opened_at : Times \cup {NoTime},
                 last_alert_sent_at : Times \cup {NoTime},
                 reminder_count : Nat]

CheckType == [pc : {"idle", "decided"}, step : {"none", "open", "still", "close"},
              incident : Incidents \cup {NoIncident}]

\* found and reminder_count: what session.get(Incident) returned.
NotifierType == [pc : {"idle", "sending"}, event : Events, incident : Incidents \cup {NoIncident},
                 found : BOOLEAN, reminder_count : Nat, sent_at : Times \cup {NoTime}]

TypeOK ==
  /\ now \in Times
  /\ incident \in [Incidents -> IncidentType]
  /\ check \in CheckType
  /\ outbox \in Seq([event : Events, incident : Incidents]) /\ Len(outbox) <= MaxOutbox
  /\ notifier \in [Notifiers -> NotifierType]
  /\ alerts \in [Incidents -> [Events -> Nat]]
  /\ undone \in [Incidents -> Nat]
  /\ crashes \in 0 .. MaxCrashes

IdleCheck == [pc |-> "idle", step |-> "none", incident |-> NoIncident]

IdleNotifier == [pc |-> "idle", event |-> "incident_opened", incident |-> NoIncident,
                 found |-> FALSE, reminder_count |-> 0, sent_at |-> NoTime]

-----------------------------------------------------------------------------
(* The check's side                                                         *)

OpenIncidents == {i \in Incidents : incident[i].status = "open"}

\* Mutation: the reminder is not held back until the cooldown is over.
RemindInCooldown(i) ==
  /\ Reminder > 0 /\ MaxReminders > 0
  /\ incident[i].reminder_count < MaxReminders
  /\ incident[i].last_alert_sent_at # NoTime
  /\ now >= incident[i].last_alert_sent_at + Reminder

\* Mutation: an incident whose first alert is not recorded counts as alerted.
RemindUnalerted(i) ==
  /\ Reminder > 0 /\ MaxReminders > 0
  /\ incident[i].reminder_count < MaxReminders
  /\ now >= incident[i].opened_at + Cooldown
  /\ now >= incident[i].last_alert_sent_at + Reminder

ShouldSendStillDown(i) ==
  /\ Reminder > 0 /\ MaxReminders > 0
  /\ incident[i].reminder_count < MaxReminders
  /\ now >= incident[i].opened_at + Cooldown
  /\ incident[i].last_alert_sent_at # NoTime
  /\ now >= incident[i].last_alert_sent_at + Reminder

Deliver(event, i) ==
  /\ Len(outbox) < MaxOutbox
  /\ outbox' = Append(outbox, [event |-> event, incident |-> i])

\* Mutation: the open incident is not looked for.
OpenBesideAnother(i) ==
  /\ check.pc = "idle"
  /\ incident[i].status = "unused"
  /\ incident' = [incident EXCEPT ![i].status = "flushed", ![i].opened_at = now]
  /\ check' = [pc |-> "decided", step |-> "open", incident |-> i]
  /\ Deliver("incident_opened", i)
  /\ UNCHANGED <<now, notifier, alerts, undone, crashes>>

DecideOpen(i) ==
  /\ check.pc = "idle"
  /\ OpenIncidents = {}
  /\ incident[i].status = "unused"
  /\ incident' = [incident EXCEPT ![i].status = "flushed", ![i].opened_at = now]
  /\ check' = [pc |-> "decided", step |-> "open", incident |-> i]
  /\ Deliver("incident_opened", i)
  /\ UNCHANGED <<now, notifier, alerts, undone, crashes>>

\* A failing check that sends no reminder changes nothing here.
DecideStillDown(i) ==
  /\ check.pc = "idle"
  /\ i \in OpenIncidents
  /\ ShouldSendStillDown(i)
  /\ check' = [pc |-> "decided", step |-> "still", incident |-> i]
  /\ Deliver("still_down", i)
  /\ UNCHANGED <<now, incident, notifier, alerts, undone, crashes>>

DecideRecovered(i) ==
  /\ check.pc = "idle"
  /\ i \in OpenIncidents
  /\ check' = [pc |-> "decided", step |-> "close", incident |-> i]
  /\ Deliver("incident_recovered", i)
  /\ UNCHANGED <<now, incident, notifier, alerts, undone, crashes>>

\* Mutation: the incident is reported as closed and stays open.
CommitWithoutClosing ==
  /\ check.pc = "decided"
  /\ incident' = IF check.step = "open"
                   THEN [incident EXCEPT ![check.incident].status = "open"] ELSE incident
  /\ check' = IdleCheck
  /\ UNCHANGED <<now, outbox, notifier, alerts, undone, crashes>>

CheckCommit ==
  /\ check.pc = "decided"
  /\ incident' = CASE check.step = "open"  -> [incident EXCEPT ![check.incident].status = "open"]
                   [] check.step = "close" -> [incident EXCEPT ![check.incident].status = "closed"]
                   [] OTHER                -> incident
  /\ check' = IdleCheck
  /\ UNCHANGED <<now, outbox, notifier, alerts, undone, crashes>>

\* The transaction is rolled back; the message it has sent is not.
CheckAbort ==
  /\ check.pc = "decided"
  /\ crashes < MaxCrashes
  /\ incident' = IF check.step = "open"
                   THEN [incident EXCEPT ![check.incident].status = "lost"] ELSE incident
  /\ undone' = IF check.step = "close" THEN [undone EXCEPT ![check.incident] = @ + 1] ELSE undone
  /\ check' = IdleCheck
  /\ crashes' = crashes + 1
  /\ UNCHANGED <<now, outbox, notifier, alerts>>

-----------------------------------------------------------------------------
(* The notify task                                                          *)

NotifyLoad(n) ==
  /\ notifier[n].pc = "idle"
  /\ outbox # <<>>
  /\ LET msg == Head(outbox)
         i == msg.incident
     IN notifier' = [notifier EXCEPT ![n] =
          [pc |-> "sending", event |-> msg.event, incident |-> i,
           found |-> incident[i].status \in {"open", "closed"},
           reminder_count |-> incident[i].reminder_count, sent_at |-> now]]
  /\ outbox' = Tail(outbox)
  /\ UNCHANGED <<now, incident, check, alerts, undone, crashes>>

\* Mutation: the counter is incremented before the reminder is known to be one.
CountEveryAlert(i, t) ==
  [i EXCEPT !.last_alert_sent_at = t.sent_at, !.reminder_count = t.reminder_count + 1]

\* The columns the task writes: reminder_count = 0 and last_alert_sent_at are
\* assigned, and an assigned column is written when it differs from the loaded.
AfterAlert(i, t) ==
  CASE t.event = "incident_opened" ->
         [i EXCEPT !.last_alert_sent_at = t.sent_at,
                   !.reminder_count = IF t.reminder_count = 0 THEN i.reminder_count ELSE 0]
    [] t.event = "still_down" ->
         [i EXCEPT !.last_alert_sent_at = t.sent_at, !.reminder_count = t.reminder_count + 1]
    [] OTHER -> i

\* Sent or failed, the alert is recorded and counted.  The UPDATE of the incident
\* waits for a check that has flushed its closing; incident_recovered has none.
NotifyCommit(n) ==
  LET t == notifier[n] IN
  /\ t.pc = "sending"
  /\ t.found /\ t.event # "incident_recovered" =>
       ~(check.step = "close" /\ check.incident = t.incident)
  /\ alerts' = [alerts EXCEPT ![t.incident][t.event] = @ + 1]
  /\ incident' = IF t.found
                   THEN [incident EXCEPT ![t.incident] = AfterAlert(incident[t.incident], t)]
                   ELSE incident
  /\ notifier' = [notifier EXCEPT ![n] = IdleNotifier]
  /\ UNCHANGED <<now, check, outbox, undone, crashes>>

\* The message was acknowledged when the task started: the alert is lost.
NotifyDies(n) ==
  /\ notifier[n].pc = "sending"
  /\ crashes < MaxCrashes
  /\ notifier' = [notifier EXCEPT ![n] = IdleNotifier]
  /\ crashes' = crashes + 1
  /\ UNCHANGED <<now, incident, check, outbox, alerts, undone>>

-----------------------------------------------------------------------------
Tick ==
  /\ now < Horizon
  /\ now' = now + 1
  /\ UNCHANGED <<incident, check, outbox, notifier, alerts, undone, crashes>>

Init ==
  /\ now = 0
  /\ incident = [i \in Incidents |-> [status |-> "unused", opened_at |-> NoTime,
                                      last_alert_sent_at |-> NoTime, reminder_count |-> 0]]
  /\ check = IdleCheck
  /\ outbox = <<>>
  /\ notifier = [n \in Notifiers |-> IdleNotifier]
  /\ alerts = [i \in Incidents |-> [e \in Events |-> 0]]
  /\ undone = [i \in Incidents |-> 0]
  /\ crashes = 0

Next ==
  \/ \E i \in Incidents : DecideOpen(i) \/ DecideStillDown(i) \/ DecideRecovered(i)
  \/ CheckCommit
  \/ CheckAbort
  \/ \E n \in Notifiers : NotifyLoad(n) \/ NotifyCommit(n) \/ NotifyDies(n)
  \/ Tick

Spec == Init /\ [][Next]_vars

-----------------------------------------------------------------------------
(* Safety                                                                   *)

\* However late the broker delivers, a reminder never leaves before the cooldown
\* of its incident is over.
NoReminderInCooldown ==
  \A n \in Notifiers :
    notifier[n].pc = "sending" /\ notifier[n].event = "still_down"
      => notifier[n].sent_at >= incident[notifier[n].incident].opened_at + Cooldown

\* The user hears "still down" only of an outage that was reported as "down":
\* the first alert is recorded before any reminder, although both are sent by
\* tasks that run in parallel and may die.
ReminderFollowsOpenedAlert ==
  \A i \in Incidents : alerts[i]["still_down"] > 0 => alerts[i]["incident_opened"] > 0

InStatus(s) == {i \in Incidents : incident[i].status = s}
Reported(event) == {i \in Incidents : alerts[i][event] > 0}

\* The user hears of an outage once: beside the outages that are over and the
\* one that may go on, an opening was reported only by a check that died after
\* its message, and each such check reported one, never the same one twice.
OutageReportedOnce ==
  /\ \A i \in Incidents : alerts[i]["incident_opened"] <= 1
  /\ Cardinality(Reported("incident_opened"))
       <= Cardinality(InStatus("closed")) + 1 + Cardinality(InStatus("lost"))

\* reminder_count never runs ahead of the reminders recorded: no incident loses
\* reminders it is entitled to through a miscount.
ReminderCountBacked ==
  \A i \in Incidents : incident[i].reminder_count <= alerts[i]["still_down"]

\* The recovery is reported once the incident is closed or being closed, and
\* once for each check that died after it had sent the message: the death of a
\* notify task, a reminder or a race never adds one.
\* upgrade_planning_docs_1:125 allows no exception.
RecoveredAlertOnce ==
  \A i \in Incidents :
    alerts[i]["incident_recovered"]
      <= undone[i] + (IF \/ incident[i].status = "closed"
                         \/ check.step = "close" /\ check.incident = i THEN 1 ELSE 0)

-----------------------------------------------------------------------------
(* Refinement: the incidents of the one monitor                             *)

Watched == {"the monitor"}

Lifecycle == INSTANCE IncidentLifecycle WITH
  Monitors <- Watched,
  open <- [m \in Watched |-> OpenIncidents],
  closed <- InStatus("closed")

\* The incidents that are alerted live as those of CheckPipeline do: one at a
\* time, closed at most once, none reopened, whatever a notify task writes over
\* their rows.
RefinesLifecycle == Lifecycle!Spec
=============================================================================
