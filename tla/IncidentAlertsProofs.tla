------------------------ MODULE IncidentAlertsProofs ------------------------
(***************************************************************************)
(* Machine-checked proofs about IncidentAlerts, for any sets of incidents    *)
(* and notify processes, any alert policy and any bounds.                    *)
(***************************************************************************)
EXTENDS IncidentAlerts, FiniteSetTheorems, TLAPS

Message == [event : Events, incident : Incidents]

\* What the task leaves in the row of its incident is a row.
LEMMA AfterAlertType ==
  ASSUME NEW i \in IncidentType, NEW t \in NotifierType
  PROVE  /\ AfterAlert(i, t) \in IncidentType
         /\ AfterAlert(i, t).status = i.status
         /\ AfterAlert(i, t).opened_at = i.opened_at
<1>1. CASE t.event = "incident_opened"
  BY <1>1 DEF AfterAlert, IncidentType, NotifierType
<1>2. CASE t.event = "still_down"
  <2>1. AfterAlert(i, t) = [i EXCEPT !.last_alert_sent_at = t.sent_at,
                                     !.reminder_count = t.reminder_count + 1]
    BY <1>2 DEF AfterAlert
  <2>2. t.sent_at \in Times \cup {NoTime} /\ t.reminder_count + 1 \in Nat
    BY DEF NotifierType
  <2> QED
    BY <2>1, <2>2 DEF IncidentType
<1>3. CASE t.event \notin {"incident_opened", "still_down"}
  BY <1>3 DEF AfterAlert
<1> QED
  BY <1>1, <1>2, <1>3

\* What it leaves in the counter.
LEMMA AfterAlertCount ==
  ASSUME NEW i \in IncidentType, NEW t \in NotifierType
  PROVE  /\ t.event = "incident_opened" =>
              AfterAlert(i, t).reminder_count <= i.reminder_count
         /\ t.event = "still_down" => AfterAlert(i, t).reminder_count = t.reminder_count + 1
         /\ t.event = "incident_recovered" => AfterAlert(i, t) = i
<1>1. ASSUME t.event = "incident_opened" PROVE AfterAlert(i, t).reminder_count <= i.reminder_count
  <2> DEFINE count == IF t.reminder_count = 0 THEN i.reminder_count ELSE 0
  <2>1. AfterAlert(i, t) = [i EXCEPT !.last_alert_sent_at = t.sent_at, !.reminder_count = count]
    BY <1>1 DEF AfterAlert
  <2>2. count <= i.reminder_count /\ i.reminder_count \in Nat
    BY DEF IncidentType
  <2> HIDE DEF count
  <2>3. AfterAlert(i, t).reminder_count = count
    BY <2>1 DEF IncidentType
  <2> QED
    BY <2>2, <2>3
<1>2. ASSUME t.event = "still_down"
      PROVE  AfterAlert(i, t).reminder_count = t.reminder_count + 1
  <2>1. AfterAlert(i, t) = [i EXCEPT !.last_alert_sent_at = t.sent_at,
                                     !.reminder_count = t.reminder_count + 1]
    BY <1>2 DEF AfterAlert
  <2> QED
    BY <2>1 DEF IncidentType
<1>3. ASSUME t.event = "incident_recovered" PROVE AfterAlert(i, t) = i
  BY <1>3 DEF AfterAlert
<1> QED
  BY <1>1, <1>2, <1>3

\* A notify task that has loaded an incident is well typed.
LEMMA LoadedType ==
  ASSUME NEW e \in Events, NEW i \in Incidents, NEW found, found \in BOOLEAN, NEW count \in Nat,
         NEW t \in Times
  PROVE  [pc |-> "sending", event |-> e, incident |-> i, found |-> found,
          reminder_count |-> count, sent_at |-> t] \in NotifierType
BY DEF NotifierType

\* Counting one more alert keeps the table of counters.
LEMMA CountedType ==
  ASSUME NEW a \in [Incidents -> [Events -> Nat]], NEW i, NEW e \in Events
  PROVE  [a EXCEPT ![i][e] = @ + 1] \in [Incidents -> [Events -> Nat]]
<1>1. CASE i \in Incidents
  <2>1. [a[i] EXCEPT ![e] = @ + 1] \in [Events -> Nat]
    BY <1>1
  <2> QED
    BY <1>1, <2>1
<1>2. CASE i \notin Incidents
  BY <1>2
<1> QED
  BY <1>1, <1>2

LEMMA IdleTypes == IdleCheck \in CheckType /\ IdleNotifier \in NotifierType
BY DEF IdleCheck, CheckType, IdleNotifier, NotifierType, Events

\* A message at the end of the queue, and a queue without its first message.
LEMMA QueueTypes ==
  ASSUME NEW q \in Seq(Message)
  PROVE  /\ \A m \in Message : Append(q, m) \in Seq(Message) /\ Len(Append(q, m)) = Len(q) + 1
         /\ q # <<>> => /\ Head(q) \in Message
                        /\ Tail(q) \in Seq(Message) /\ Len(Tail(q)) = Len(q) - 1
OBVIOUS

-----------------------------------------------------------------------------
(* Types                                                                    *)

\* Sending a message keeps the broker's queue a bounded sequence of messages.
LEMMA DeliverType ==
  ASSUME TypeOK, NEW event \in Events, NEW i \in Incidents, Deliver(event, i)
  PROVE  outbox' \in Seq(Message) /\ Len(outbox') <= MaxOutbox
<1>1. [event |-> event, incident |-> i] \in Message
  BY DEF Message
<1>2. outbox \in Seq(Message)
  BY DEF TypeOK, Message
<1>3. outbox' = Append(outbox, [event |-> event, incident |-> i]) /\ Len(outbox) < MaxOutbox
  BY DEF Deliver
<1> QED
  BY <1>1, <1>2, <1>3, QueueTypes, AlertBoundAssumption

\* Every step keeps every variable in its type.
LEMMA TypeStep == TypeOK /\ [Next]_vars => TypeOK'
<1> SUFFICES ASSUME TypeOK, [Next]_vars PROVE TypeOK'
  OBVIOUS
<1> USE DEF TypeOK
<1>a. Events = {"incident_opened", "still_down", "incident_recovered"}
  BY DEF Events
<1>1. ASSUME NEW i \in Incidents, DecideOpen(i) PROVE TypeOK'
  <2>1. incident' \in [Incidents -> IncidentType]
    BY <1>1 DEF DecideOpen, IncidentType
  <2>2. check' \in CheckType
    BY <1>1 DEF DecideOpen, CheckType
  <2>3. outbox' \in Seq(Message) /\ Len(outbox') <= MaxOutbox
    BY <1>1, <1>a, DeliverType DEF DecideOpen
  <2> QED
    BY <1>1, <2>1, <2>2, <2>3 DEF DecideOpen, Message
<1>2. ASSUME NEW i \in Incidents, DecideStillDown(i) PROVE TypeOK'
  <2>1. check' \in CheckType
    BY <1>2 DEF DecideStillDown, CheckType
  <2>2. outbox' \in Seq(Message) /\ Len(outbox') <= MaxOutbox
    BY <1>2, <1>a, DeliverType DEF DecideStillDown
  <2> QED
    BY <1>2, <2>1, <2>2 DEF DecideStillDown, Message
<1>3. ASSUME NEW i \in Incidents, DecideRecovered(i) PROVE TypeOK'
  <2>1. check' \in CheckType
    BY <1>3 DEF DecideRecovered, CheckType
  <2>2. outbox' \in Seq(Message) /\ Len(outbox') <= MaxOutbox
    BY <1>3, <1>a, DeliverType DEF DecideRecovered
  <2> QED
    BY <1>3, <2>1, <2>2 DEF DecideRecovered, Message
<1>4. CASE CheckCommit
  <2>1. incident' \in [Incidents -> IncidentType]
    <3>1. CASE check.step = "open"
      BY <1>4, <3>1 DEF CheckCommit, IncidentType
    <3>2. CASE check.step = "close"
      BY <1>4, <3>2 DEF CheckCommit, IncidentType
    <3>3. CASE check.step \notin {"open", "close"}
      BY <1>4, <3>3 DEF CheckCommit
    <3> QED
      BY <3>1, <3>2, <3>3
  <2> QED
    BY <1>4, <2>1, IdleTypes DEF CheckCommit
<1>5. CASE CheckAbort
  <2>1. incident' \in [Incidents -> IncidentType]
    BY <1>5 DEF CheckAbort, IncidentType
  <2>2. undone' \in [Incidents -> Nat]
    <3>1. undone' = undone \/ undone' = [undone EXCEPT ![check.incident] = @ + 1]
      BY <1>5 DEF CheckAbort
    <3>2. undone \in [Incidents -> Nat]
      OBVIOUS
    <3> QED
      BY ONLY <3>1, <3>2
  <2> QED
    BY <1>5, <2>1, <2>2, IdleTypes, AlertBoundAssumption DEF CheckAbort
<1>6. ASSUME NEW n \in Notifiers, NotifyLoad(n) PROVE TypeOK'
  <2> DEFINE i == Head(outbox).incident
  <2>1. outbox \in Seq(Message)
    BY DEF Message
  <2>2. /\ Head(outbox) \in Message
        /\ Tail(outbox) \in Seq(Message) /\ Len(Tail(outbox)) = Len(outbox) - 1
    BY <1>6, <2>1, QueueTypes DEF NotifyLoad
  <2>3. i \in Incidents /\ Head(outbox).event \in Events
    BY <2>2 DEF Message
  <2>4. incident[i] \in IncidentType
    BY <2>3
  <2>5. [pc |-> "sending", event |-> Head(outbox).event, incident |-> i,
         found |-> incident[i].status \in {"open", "closed"},
         reminder_count |-> incident[i].reminder_count, sent_at |-> now] \in NotifierType
    <3>1. incident[i].reminder_count \in Nat
      BY <2>4 DEF IncidentType
    <3> DEFINE found == incident[i].status \in {"open", "closed"}
    <3>2. found \in BOOLEAN
      OBVIOUS
    <3>3. now \in Times
      OBVIOUS
    <3> HIDE DEF found
    <3>4. [pc |-> "sending", event |-> Head(outbox).event, incident |-> i, found |-> found,
           reminder_count |-> incident[i].reminder_count, sent_at |-> now] \in NotifierType
      BY <2>3, <3>1, <3>2, <3>3, LoadedType
    <3> QED
      BY <3>4 DEF found
  <2>6. notifier' \in [Notifiers -> NotifierType]
    BY <1>6, <2>5 DEF NotifyLoad
  <2>7. outbox' = Tail(outbox)
    BY <1>6 DEF NotifyLoad
  <2>8. outbox' \in Seq(Message) /\ Len(outbox') <= MaxOutbox
    BY <2>1, <2>2, <2>7, AlertBoundAssumption
  <2> QED
    BY <1>6, <2>6, <2>8 DEF NotifyLoad, Message
<1>7. ASSUME NEW n \in Notifiers, NotifyCommit(n) PROVE TypeOK'
  <2> DEFINE t == notifier[n]
  <2>1. t \in NotifierType
    OBVIOUS
  <2>2. alerts' \in [Incidents -> [Events -> Nat]]
    BY <1>7, <2>1, CountedType DEF NotifyCommit, NotifierType
  <2>3. incident' \in [Incidents -> IncidentType]
    <3>1. CASE t.incident \in Incidents
      <4>1. AfterAlert(incident[t.incident], t) \in IncidentType
        BY <2>1, <3>1, AfterAlertType
      <4> QED
        BY <1>7, <4>1 DEF NotifyCommit
    <3>2. CASE t.incident \notin Incidents
      BY <1>7, <3>2 DEF NotifyCommit
    <3> QED
      BY <3>1, <3>2
  <2>4. notifier' \in [Notifiers -> NotifierType]
    BY <1>7, IdleTypes DEF NotifyCommit
  <2> QED
    BY <1>7, <2>2, <2>3, <2>4 DEF NotifyCommit
<1>8. ASSUME NEW n \in Notifiers, NotifyDies(n) PROVE TypeOK'
  <2>1. notifier' \in [Notifiers -> NotifierType]
    BY <1>8, IdleTypes DEF NotifyDies
  <2> QED
    BY <1>8, <2>1, AlertBoundAssumption DEF NotifyDies
<1>9. CASE Tick
  BY <1>9, AlertBoundAssumption DEF Tick, Times
<1>10. CASE UNCHANGED vars
  BY <1>10 DEF vars
<1> QED
  BY <1>1, <1>2, <1>3, <1>4, <1>5, <1>6, <1>7, <1>8, <1>9, <1>10 DEF Next

LEMMA TypeInit == Init => TypeOK
<1> SUFFICES ASSUME Init PROVE TypeOK
  OBVIOUS
<1>1. incident \in [Incidents -> IncidentType]
  BY DEF Init, IncidentType
<1>2. alerts \in [Incidents -> [Events -> Nat]]
  BY DEF Init
<1>3. outbox \in Seq(Message) /\ Len(outbox) <= MaxOutbox
  BY AlertBoundAssumption DEF Init
<1> QED
  BY <1>1, <1>2, <1>3, IdleTypes, AlertBoundAssumption DEF Init, TypeOK, Times, Message

\* Every variable keeps its type: the rows of incidents, the messages in the
\* broker, the notify tasks and the counters of alert_events.
THEOREM TypeCorrect == Spec => []TypeOK
BY TypeInit, TypeStep, PTL DEF Spec

-----------------------------------------------------------------------------
(* How rows and messages evolve                                             *)

Known(row) == row.status \in {"open", "closed"}

\* What the open transaction of the check has done to its incident.
CheckShape ==
  check.pc = "decided" =>
    /\ check.incident \in Incidents
    /\ check.step \in {"open", "still", "close"}
    /\ check.step = "open" => incident[check.incident].status = "flushed"
    /\ check.step # "open" => incident[check.incident].status = "open"

SendingShape ==
  \A n \in Notifiers : notifier[n].pc = "sending" =>
    notifier[n].incident \in Incidents /\ notifier[n].sent_at \in Times

Base == TypeOK /\ CheckShape /\ SendingShape

LEMMA QueueEnds ==
  ASSUME NEW q \in Seq(Message)
  PROVE  /\ \A m \in Message : \A k \in 1 .. Len(q) + 1 :
              Append(q, m)[k] = IF k = Len(q) + 1 THEN m ELSE q[k]
         /\ q # <<>> => /\ Head(q) = q[1] /\ 1 \in 1 .. Len(q)
                        /\ \A k \in 1 .. Len(q) - 1 : Tail(q)[k] = q[k + 1]
OBVIOUS

LEMMA QueueEntry ==
  ASSUME TypeOK, NEW k \in 1 .. Len(outbox)
  PROVE  outbox[k].event \in Events /\ outbox[k].incident \in Incidents
<1>1. outbox \in Seq(Message)
  BY DEF TypeOK, Message
<1>2. outbox[k] \in Message
  BY <1>1
<1> QED
  BY <1>2 DEF Message

\* A message of the queue after a delivery was there before, or is the new one.
LEMMA Delivered ==
  ASSUME TypeOK, NEW event \in Events, NEW i \in Incidents, Deliver(event, i)
  PROVE  /\ Len(outbox') = Len(outbox) + 1
         /\ \A k \in 1 .. Len(outbox') :
              \/ k \in 1 .. Len(outbox) /\ outbox'[k] = outbox[k]
              \/ k = Len(outbox) + 1 /\ outbox'[k].event = event /\ outbox'[k].incident = i
<1> DEFINE m == [event |-> event, incident |-> i]
<1>1. m \in Message /\ outbox \in Seq(Message) /\ Len(outbox) \in Nat
  BY DEF Message, TypeOK
<1>2. outbox' = Append(outbox, m)
  BY DEF Deliver
<1>3. m.event = event /\ m.incident = i
  OBVIOUS
<1> HIDE DEF m
<1>4. Len(outbox') = Len(outbox) + 1
  BY <1>1, <1>2, QueueTypes
<1>5. ASSUME NEW k \in 1 .. Len(outbox')
      PROVE  outbox'[k] = IF k = Len(outbox) + 1 THEN m ELSE outbox[k]
  BY <1>1, <1>2, <1>4, QueueEnds
<1> QED
  BY <1>1, <1>3, <1>4, <1>5

\* A notify task takes the first message; the others move up.
LEMMA Taken ==
  ASSUME TypeOK, NEW n \in Notifiers, NotifyLoad(n)
  PROVE  /\ 1 \in 1 .. Len(outbox) /\ outbox[1] \in Message
         /\ Len(outbox') = Len(outbox) - 1
         /\ \A k \in 1 .. Len(outbox) - 1 : outbox'[k] = outbox[k + 1]
         /\ notifier' = [notifier EXCEPT ![n] =
              [pc |-> "sending", event |-> outbox[1].event, incident |-> outbox[1].incident,
               found |-> Known(incident[outbox[1].incident]),
               reminder_count |-> incident[outbox[1].incident].reminder_count,
               sent_at |-> now]]
<1>1. outbox \in Seq(Message) /\ outbox # <<>> /\ outbox' = Tail(outbox)
  BY DEF Message, TypeOK, NotifyLoad
<1>2. Head(outbox) = outbox[1] /\ 1 \in 1 .. Len(outbox) /\ Head(outbox) \in Message
  BY <1>1, QueueTypes, QueueEnds
<1>3. Len(outbox') = Len(outbox) - 1 /\ \A k \in 1 .. Len(outbox) - 1 : outbox'[k] = outbox[k + 1]
  BY <1>1, QueueTypes, QueueEnds
<1> QED
  BY <1>2, <1>3 DEF NotifyLoad, Known

\* The row of an incident that a notify task commits.
LEMMA AlertedRow ==
  ASSUME Base, NEW n \in Notifiers, NotifyCommit(n)
  PROVE  \A i \in Incidents :
           /\ incident'[i].status = incident[i].status
           /\ incident'[i].opened_at = incident[i].opened_at
           /\ i # notifier[n].incident => incident'[i] = incident[i]
<1> DEFINE t == notifier[n]
<1>1. t \in NotifierType /\ t.incident \in Incidents /\ incident[t.incident] \in IncidentType
  BY DEF Base, SendingShape, TypeOK, NotifyCommit
<1>2. CASE t.found
  <2>1. incident' = [incident EXCEPT ![t.incident] = AfterAlert(incident[t.incident], t)]
    BY <1>2 DEF NotifyCommit
  <2>2. incident \in [Incidents -> IncidentType]
    BY DEF Base, TypeOK
  <2> QED
    BY <1>1, <2>1, <2>2, AfterAlertType
<1>3. CASE ~t.found
  BY <1>3 DEF NotifyCommit
<1> QED
  BY <1>2, <1>3

\* No step takes an incident that is open or closed out of these, moves the time
\* an incident was opened at, or gives an identifier back.
LEMMA RowsEvolve ==
  ASSUME Base, [Next]_vars
  PROVE  \A i \in Incidents :
           /\ Known(incident[i]) => Known(incident'[i]) /\ incident'[i].opened_at = incident[i].opened_at
           /\ incident[i].status # "unused" => incident'[i].status # "unused"
<1> USE DEF Known, Base
<1>0. incident \in [Incidents -> IncidentType]
  BY DEF TypeOK
<1>1. ASSUME NEW j \in Incidents, DecideOpen(j)
      PROVE  incident' = [incident EXCEPT ![j].status = "flushed", ![j].opened_at = now]
             /\ incident[j].status = "unused"
  BY <1>1 DEF DecideOpen
<1>2. CASE \E j \in Incidents : DecideOpen(j)
  BY <1>0, <1>1, <1>2 DEF IncidentType
<1>3. CASE CheckCommit
  <2>1. CASE check.step = "open"
    BY <1>0, <1>3, <2>1 DEF CheckCommit, CheckShape, IncidentType
  <2>2. CASE check.step = "close"
    BY <1>0, <1>3, <2>2 DEF CheckCommit, CheckShape, IncidentType
  <2>3. CASE check.step \notin {"open", "close"}
    BY <1>3, <2>3 DEF CheckCommit
  <2> QED
    BY <2>1, <2>2, <2>3
<1>4. CASE CheckAbort
  BY <1>0, <1>4 DEF CheckAbort, CheckShape, IncidentType
<1>5. CASE \E n \in Notifiers : NotifyCommit(n)
  BY <1>5, AlertedRow
<1>6. CASE incident' = incident
  BY <1>6
<1>7. \/ \E j \in Incidents : DecideOpen(j)
      \/ CheckCommit \/ CheckAbort
      \/ \E n \in Notifiers : NotifyCommit(n)
      \/ incident' = incident
  BY DEF Next, vars, DecideStillDown, DecideRecovered, NotifyLoad, NotifyDies, Tick
<1> QED
  BY <1>2, <1>3, <1>4, <1>5, <1>6, <1>7

LEMMA BaseStep == Base /\ [Next]_vars => Base'
<1> SUFFICES ASSUME Base, [Next]_vars PROVE Base'
  OBVIOUS
<1>0. TypeOK /\ TypeOK' /\ incident \in [Incidents -> IncidentType]
  BY TypeStep DEF Base, TypeOK
<1>1. CheckShape'
  <2>1. CASE \E i \in Incidents : DecideOpen(i) \/ DecideStillDown(i) \/ DecideRecovered(i)
    <3>1. PICK i \in Incidents : DecideOpen(i) \/ DecideStillDown(i) \/ DecideRecovered(i)
      BY <2>1
    <3>2. CASE DecideOpen(i)
      BY <1>0, <3>2 DEF DecideOpen, CheckShape, IncidentType
    <3>3. CASE DecideStillDown(i)
      BY <1>0, <3>3 DEF DecideStillDown, CheckShape, OpenIncidents
    <3>4. CASE DecideRecovered(i)
      BY <1>0, <3>4 DEF DecideRecovered, CheckShape, OpenIncidents
    <3> QED
      BY <3>1, <3>2, <3>3, <3>4
  <2>2. CASE CheckCommit \/ CheckAbort
    BY <2>2 DEF CheckCommit, CheckAbort, CheckShape, IdleCheck
  <2>3. CASE \E n \in Notifiers : NotifyCommit(n)
    <3>1. check' = check
      BY <2>3 DEF NotifyCommit
    <3>2. \A i \in Incidents : incident'[i].status = incident[i].status
      BY <2>3, AlertedRow
    <3> QED
      BY <3>1, <3>2 DEF CheckShape, Base
  <2>4. CASE (\E n \in Notifiers : NotifyLoad(n) \/ NotifyDies(n)) \/ Tick \/ UNCHANGED vars
    <3>1. check' = check /\ incident' = incident
      BY <2>4 DEF NotifyLoad, NotifyDies, Tick, vars
    <3> QED
      BY <3>1 DEF CheckShape, Base
  <2> QED
    BY <2>1, <2>2, <2>3, <2>4 DEF Next
<1>2. SendingShape'
  <2> SUFFICES ASSUME NEW m \in Notifiers, notifier'[m].pc = "sending"
               PROVE  notifier'[m].incident \in Incidents /\ notifier'[m].sent_at \in Times
    BY DEF SendingShape
  <2>0. notifier \in [Notifiers -> NotifierType] /\ now \in Times
    BY <1>0 DEF TypeOK
  <2>1. CASE \E n \in Notifiers : NotifyLoad(n)
    BY <1>0, <2>0, <2>1, Taken DEF Base, SendingShape, Message
  <2>2. CASE \E n \in Notifiers : NotifyCommit(n) \/ NotifyDies(n)
    BY <2>0, <2>2 DEF NotifyCommit, NotifyDies, IdleNotifier, Base, SendingShape
  <2>3. CASE notifier' = notifier
    BY <2>3 DEF Base, SendingShape
  <2>4. \/ \E n \in Notifiers : NotifyLoad(n) \/ NotifyCommit(n) \/ NotifyDies(n)
        \/ notifier' = notifier
    BY DEF Next, vars, DecideOpen, DecideStillDown, DecideRecovered, CheckCommit, CheckAbort, Tick
  <2> QED
    BY <2>1, <2>2, <2>3, <2>4
<1> QED
  BY <1>0, <1>1, <1>2 DEF Base

LEMMA BaseInit == Init => Base
BY TypeInit DEF Init, Base, CheckShape, SendingShape, IdleCheck, IdleNotifier

-----------------------------------------------------------------------------
(* No reminder during the cooldown                                          *)

\* The cooldown of the incident of a reminder was over when its check sent it.
Cooled(row, t) == Known(row) /\ t >= row.opened_at + Cooldown

CooledMessages ==
  \A k \in 1 .. Len(outbox) : outbox[k].event = "still_down" => Cooled(incident[outbox[k].incident], now)

CooledNotifiers ==
  \A n \in Notifiers : notifier[n].pc = "sending" /\ notifier[n].event = "still_down" =>
    Cooled(incident[notifier[n].incident], notifier[n].sent_at)

CooldownInv == CooledMessages /\ CooledNotifiers

\* What has cooled stays so: the row keeps its opened_at.
LEMMA CooledStays ==
  ASSUME Base, [Next]_vars, NEW i \in Incidents, NEW t \in Times, NEW u \in Times, u >= t,
         Cooled(incident[i], t)
  PROVE  Cooled(incident'[i], u)
<1>1. Known(incident'[i]) /\ incident'[i].opened_at = incident[i].opened_at
  BY RowsEvolve DEF Cooled
<1>2. incident[i].opened_at \in Int /\ t \in Int /\ u \in Int
  BY DEF Base, TypeOK, IncidentType, Times, NoTime
<1> QED
  BY <1>1, <1>2, PolicyAssumption DEF Cooled

LEMMA CooldownStep == Base /\ CooldownInv /\ [Next]_vars => CooldownInv'
<1> SUFFICES ASSUME Base, CooldownInv, [Next]_vars PROVE CooldownInv'
  OBVIOUS
<1>0. /\ TypeOK /\ now \in Times /\ now' \in Times /\ now' >= now /\ Len(outbox) \in Nat
      /\ Events = {"incident_opened", "still_down", "incident_recovered"}
  <2>1. TypeOK /\ TypeOK'
    BY BaseStep DEF Base
  <2>2. now' = now \/ now' = now + 1
    BY DEF Next, vars, DecideOpen, DecideStillDown, DecideRecovered, CheckCommit, CheckAbort,
       NotifyLoad, NotifyCommit, NotifyDies, Tick
  <2>3. outbox \in Seq(Message)
    BY <2>1 DEF TypeOK, Message
  <2> QED
    BY <2>1, <2>2, <2>3 DEF TypeOK, Times, Events
<1>1. ASSUME NEW k \in 1 .. Len(outbox), outbox[k].event = "still_down"
      PROVE  Cooled(incident'[outbox[k].incident], now')
  <2>1. outbox[k].incident \in Incidents
    BY QueueEntry DEF Base
  <2> QED
    BY <1>0, <1>1, <2>1, CooledStays DEF CooldownInv, CooledMessages
<1>2. ASSUME NEW n \in Notifiers, notifier[n].pc = "sending", notifier[n].event = "still_down"
      PROVE  Cooled(incident'[notifier[n].incident], notifier[n].sent_at)
  <2>1. /\ notifier[n].incident \in Incidents /\ notifier[n].sent_at \in Times
        /\ notifier[n].sent_at >= notifier[n].sent_at
    BY <1>2 DEF Base, SendingShape, Times
  <2> QED
    BY <1>2, <2>1, CooledStays DEF CooldownInv, CooledNotifiers
<1>3. CooledMessages'
  <2> SUFFICES ASSUME NEW k \in 1 .. Len(outbox'), outbox'[k].event = "still_down"
               PROVE  Cooled(incident'[outbox'[k].incident], now')
    BY DEF CooledMessages
  <2>1. CASE \E i \in Incidents : DecideOpen(i) \/ DecideRecovered(i)
    <3>1. PICK i \in Incidents : Deliver("incident_opened", i) \/ Deliver("incident_recovered", i)
      BY <2>1 DEF DecideOpen, DecideRecovered
    <3>2. CASE Deliver("incident_opened", i)
      BY <1>0, <1>1, <3>2, Delivered
    <3>3. CASE Deliver("incident_recovered", i)
      BY <1>0, <1>1, <3>3, Delivered
    <3> QED
      BY <3>1, <3>2, <3>3
  <2>2. ASSUME NEW i \in Incidents, DecideStillDown(i)
        PROVE  Cooled(incident'[outbox'[k].incident], now')
    <3>1. Deliver("still_down", i) /\ Cooled(incident[i], now)
      BY <2>2 DEF DecideStillDown, ShouldSendStillDown, OpenIncidents, Cooled, Known
    <3>2. \/ k = Len(outbox) + 1 /\ outbox'[k].incident = i
          \/ k \in 1 .. Len(outbox) /\ outbox'[k] = outbox[k]
      BY <1>0, <3>1, Delivered
    <3> QED
      BY <1>0, <1>1, <3>1, <3>2, CooledStays
  <2>3. CASE \E n \in Notifiers : NotifyLoad(n)
    <3>1. k + 1 \in 1 .. Len(outbox) /\ outbox'[k] = outbox[k + 1]
      BY <1>0, <2>3, Taken
    <3> QED
      BY <1>1, <3>1
  <2>4. CASE outbox' = outbox
    BY <1>1, <2>4
  <2> QED
    BY <2>1, <2>2, <2>3, <2>4
    DEF Next, vars, CheckCommit, CheckAbort, NotifyCommit, NotifyDies, Tick
<1>4. CooledNotifiers'
  <2> SUFFICES ASSUME NEW n \in Notifiers, notifier'[n].pc = "sending",
                      notifier'[n].event = "still_down"
               PROVE  Cooled(incident'[notifier'[n].incident], notifier'[n].sent_at)
    BY DEF CooledNotifiers
  <2>0. notifier \in [Notifiers -> NotifierType]
    BY <1>0 DEF TypeOK
  <2>1. ASSUME NEW m \in Notifiers, NotifyLoad(m)
        PROVE  Cooled(incident'[notifier'[n].incident], notifier'[n].sent_at)
    <3>1. now' = now
      BY <2>1 DEF NotifyLoad
    <3>2. CASE m = n
      BY <1>0, <1>1, <2>0, <2>1, <3>1, <3>2, Taken
    <3>3. CASE m # n
      BY <1>0, <1>2, <2>0, <2>1, <3>3, Taken
    <3> QED
      BY <3>2, <3>3
  <2>2. CASE \E m \in Notifiers : NotifyCommit(m) \/ NotifyDies(m)
    BY <1>2, <2>0, <2>2 DEF NotifyCommit, NotifyDies, IdleNotifier
  <2>3. CASE notifier' = notifier
    BY <1>2, <2>3
  <2> QED
    BY <2>1, <2>2, <2>3
    DEF Next, vars, DecideOpen, DecideStillDown, DecideRecovered, CheckCommit, CheckAbort, Tick
<1> QED
  BY <1>3, <1>4 DEF CooldownInv

\* However late the broker delivers it, a reminder leaves after the cooldown of
\* its incident: the check that sent it has measured the cooldown against an
\* opened_at that no later step of any task moves.
THEOREM RemindersWaitForCooldown == Spec => []NoReminderInCooldown
<1>1. Init => CooldownInv
  BY DEF Init, CooldownInv, CooledMessages, CooledNotifiers, IdleNotifier
<1>2. Base /\ CooldownInv => NoReminderInCooldown
  BY DEF CooldownInv, CooledNotifiers, Cooled, NoReminderInCooldown
<1> QED
  BY <1>1, <1>2, BaseInit, BaseStep, CooldownStep, PTL DEF Spec

-----------------------------------------------------------------------------
(* Reminders and the alerts recorded                                        *)

Counted(count) == count["incident_opened"] > 0

\* Whatever leads to a reminder or counts one rests on an alert in alert_events.
AlertedRows ==
  \A i \in Incidents : incident[i].last_alert_sent_at # NoTime => Counted(alerts[i])

AlertedMessages ==
  \A k \in 1 .. Len(outbox) :
    outbox[k].event = "still_down" => Counted(alerts[outbox[k].incident])

AlertedNotifiers ==
  \A n \in Notifiers : notifier[n].pc = "sending" /\ notifier[n].event = "still_down" =>
    Counted(alerts[notifier[n].incident])

CountedNotifiers ==
  \A n \in Notifiers : notifier[n].pc = "sending" =>
    notifier[n].reminder_count <= alerts[notifier[n].incident]["still_down"]

RecordInv == /\ AlertedRows /\ AlertedMessages /\ AlertedNotifiers
             /\ ReminderFollowsOpenedAlert
             /\ ReminderCountBacked /\ CountedNotifiers

\* The row and the counters that a notify task commits.
LEMMA AlertedFields ==
  ASSUME Base, NEW n \in Notifiers, NotifyCommit(n)
  PROVE  LET t == notifier[n]
             i == notifier[n].incident
         IN /\ i \in Incidents /\ t \in NotifierType
            /\ \A j \in Incidents, e \in Events :
                 alerts'[j][e] = IF j = i /\ e = t.event THEN alerts[j][e] + 1 ELSE alerts[j][e]
            /\ \/ t.event = "incident_recovered" /\ incident'[i] = incident[i]
               \/ /\ t.event = "incident_opened"
                  /\ incident'[i].reminder_count <= incident[i].reminder_count
               \/ /\ t.event = "still_down"
                  /\ \/ incident'[i] = incident[i]
                     \/ incident'[i].reminder_count = t.reminder_count + 1
<1> DEFINE t == notifier[n]
           i == notifier[n].incident
<1>1. t \in NotifierType /\ i \in Incidents /\ incident[i] \in IncidentType
  BY DEF Base, SendingShape, TypeOK, NotifyCommit
<1>2. t.event \in {"incident_opened", "still_down", "incident_recovered"}
  BY <1>1 DEF NotifierType, Events
<1>3. ASSUME NEW j \in Incidents, NEW e \in Events
      PROVE  alerts'[j][e] = IF j = i /\ e = t.event THEN alerts[j][e] + 1 ELSE alerts[j][e]
  BY DEF NotifyCommit, Base, TypeOK
<1>4. incident'[i] = IF t.found THEN AfterAlert(incident[i], t) ELSE incident[i]
  <2>1. incident \in [Incidents -> IncidentType]
    BY DEF Base, TypeOK
  <2> QED
    BY <1>1, <2>1 DEF NotifyCommit
<1>5. incident[i].reminder_count \in Nat
  BY <1>1 DEF IncidentType
<1>8. \/ t.event = "incident_recovered" /\ incident'[i] = incident[i]
      \/ t.event = "incident_opened" /\ incident'[i].reminder_count <= incident[i].reminder_count
      \/ /\ t.event = "still_down"
         /\ \/ incident'[i] = incident[i]
            \/ incident'[i].reminder_count = t.reminder_count + 1
  BY <1>1, <1>2, <1>4, <1>5, AfterAlertCount
<1> QED
  BY <1>1, <1>3, <1>8

\* Nobody else touches the counters, or these two columns.
LEMMA OnlyNotifyRecords ==
  ASSUME Base, [Next]_vars, ~\E n \in Notifiers : NotifyCommit(n)
  PROVE  /\ alerts' = alerts
         /\ \A i \in Incidents :
              /\ incident'[i].last_alert_sent_at = incident[i].last_alert_sent_at
              /\ incident'[i].reminder_count = incident[i].reminder_count
<1>0. incident \in [Incidents -> IncidentType]
  BY DEF Base, TypeOK
<1>1. CASE \E j \in Incidents : DecideOpen(j)
  BY <1>0, <1>1 DEF DecideOpen, IncidentType
<1>2. CASE CheckCommit
  <2>1. CASE check.step = "open"
    BY <1>0, <1>2, <2>1 DEF CheckCommit, IncidentType
  <2>2. CASE check.step = "close"
    BY <1>0, <1>2, <2>2 DEF CheckCommit, IncidentType
  <2>3. CASE check.step \notin {"open", "close"}
    BY <1>2, <2>3 DEF CheckCommit
  <2> QED
    BY <2>1, <2>2, <2>3
<1>3. CASE CheckAbort
  BY <1>0, <1>3 DEF CheckAbort, IncidentType
<1>4. CASE incident' = incident /\ alerts' = alerts
  BY <1>4
<1>5. \/ \E j \in Incidents : DecideOpen(j)
      \/ CheckCommit \/ CheckAbort
      \/ incident' = incident /\ alerts' = alerts
  BY DEF Next, vars, DecideStillDown, DecideRecovered, NotifyLoad, NotifyDies, Tick
<1> QED
  BY <1>1, <1>2, <1>3, <1>4, <1>5

LEMMA CountersGrow ==
  ASSUME Base, [Next]_vars
  PROVE  /\ alerts \in [Incidents -> [Events -> Nat]] /\ alerts' \in [Incidents -> [Events -> Nat]]
         /\ \A i \in Incidents, e \in Events : alerts'[i][e] >= alerts[i][e]
         /\ {"incident_opened", "still_down", "incident_recovered"} = Events
         /\ \A i \in Incidents : Counted(alerts[i]) => Counted(alerts'[i])
<1>1. alerts \in [Incidents -> [Events -> Nat]] /\ alerts' \in [Incidents -> [Events -> Nat]]
  BY BaseStep DEF Base, TypeOK
<1>2. {"incident_opened", "still_down", "incident_recovered"} = Events
  BY DEF Events
<1>3. ASSUME NEW i \in Incidents, NEW e \in Events PROVE alerts'[i][e] >= alerts[i][e]
  <2>0. alerts[i][e] \in Nat
    BY <1>1
  <2>1. CASE \E n \in Notifiers : NotifyCommit(n)
    <3>1. PICK n \in Notifiers : NotifyCommit(n)
      BY <2>1
    <3> QED
      BY <2>0, <3>1, AlertedFields
  <2>2. CASE ~\E n \in Notifiers : NotifyCommit(n)
    BY <2>0, <2>2, OnlyNotifyRecords
  <2> QED
    BY <2>1, <2>2
<1>4. ASSUME NEW i \in Incidents, Counted(alerts[i]) PROVE Counted(alerts'[i])
  <2>1. alerts[i]["incident_opened"] \in Nat /\ alerts'[i]["incident_opened"] \in Nat
    BY <1>1, <1>2
  <2>2. alerts'[i]["incident_opened"] >= alerts[i]["incident_opened"]
    BY <1>2, <1>3
  <2> QED
    BY <1>4, <2>1, <2>2 DEF Counted
<1> QED
  BY <1>1, <1>2, <1>3, <1>4

\* The messages and tasks of a step are those of the state before it, but for
\* the message that is sent and the task that begins.
LEMMA MessagesEvolve ==
  ASSUME Base, [Next]_vars, NEW k \in 1 .. Len(outbox')
  PROVE  \/ \E j \in 1 .. Len(outbox) : outbox'[k] = outbox[j]
         \/ \E i \in Incidents : /\ outbox'[k].incident = i
                                 /\ \/ DecideOpen(i) /\ outbox'[k].event = "incident_opened"
                                    \/ DecideStillDown(i) /\ outbox'[k].event = "still_down"
                                    \/ DecideRecovered(i) /\ outbox'[k].event = "incident_recovered"
<1>0. TypeOK /\ Len(outbox) \in Nat /\ {"incident_opened", "still_down", "incident_recovered"} = Events
  BY DEF Base, TypeOK, Events
<1>1. ASSUME NEW i \in Incidents, DecideOpen(i)
      PROVE  \/ \E j \in 1 .. Len(outbox) : outbox'[k] = outbox[j]
             \/ outbox'[k].incident = i /\ outbox'[k].event = "incident_opened"
  BY <1>0, <1>1, Delivered DEF DecideOpen
<1>2. ASSUME NEW i \in Incidents, DecideStillDown(i)
      PROVE  \/ \E j \in 1 .. Len(outbox) : outbox'[k] = outbox[j]
             \/ outbox'[k].incident = i /\ outbox'[k].event = "still_down"
  BY <1>0, <1>2, Delivered DEF DecideStillDown
<1>3. ASSUME NEW i \in Incidents, DecideRecovered(i)
      PROVE  \/ \E j \in 1 .. Len(outbox) : outbox'[k] = outbox[j]
             \/ outbox'[k].incident = i /\ outbox'[k].event = "incident_recovered"
  BY <1>0, <1>3, Delivered DEF DecideRecovered
<1>4. CASE \E n \in Notifiers : NotifyLoad(n)
  <2>1. k + 1 \in 1 .. Len(outbox) /\ outbox'[k] = outbox[k + 1]
    BY <1>0, <1>4, Taken
  <2> QED
    BY <2>1
<1>5. CASE outbox' = outbox
  BY <1>5
<1>6. \/ \E i \in Incidents : DecideOpen(i) \/ DecideStillDown(i) \/ DecideRecovered(i)
      \/ \E n \in Notifiers : NotifyLoad(n)
      \/ outbox' = outbox
  BY DEF Next, vars, CheckCommit, CheckAbort, NotifyCommit, NotifyDies, Tick
<1> QED
  BY <1>1, <1>2, <1>3, <1>4, <1>5, <1>6

LEMMA NotifiersEvolve ==
  ASSUME Base, [Next]_vars, NEW n \in Notifiers, notifier'[n].pc = "sending"
  PROVE  \/ notifier'[n] = notifier[n] /\ ~NotifyCommit(n)
         \/ /\ NotifyLoad(n)
            /\ 1 \in 1 .. Len(outbox)
            /\ notifier'[n].event = outbox[1].event /\ notifier'[n].incident = outbox[1].incident
            /\ notifier'[n].reminder_count = incident[outbox[1].incident].reminder_count
<1>0. TypeOK /\ notifier \in [Notifiers -> NotifierType]
  BY DEF Base, TypeOK
<1>1. ASSUME NEW m \in Notifiers, NotifyLoad(m), m = n
      PROVE  /\ 1 \in 1 .. Len(outbox)
             /\ notifier'[n].event = outbox[1].event /\ notifier'[n].incident = outbox[1].incident
             /\ notifier'[n].reminder_count = incident[outbox[1].incident].reminder_count
  BY <1>0, <1>1, Taken
<1>2. ASSUME NEW m \in Notifiers, NotifyLoad(m), m # n PROVE notifier'[n] = notifier[n]
  BY <1>0, <1>2, Taken
<1>3. ASSUME NEW m \in Notifiers, NotifyCommit(m) \/ NotifyDies(m)
      PROVE  m # n /\ notifier'[n] = notifier[n]
  BY <1>0, <1>3 DEF NotifyCommit, NotifyDies, IdleNotifier
<1>4. NotifyCommit(n) => notifier'[n].pc = "idle"
  BY <1>0 DEF NotifyCommit, IdleNotifier
<1>5. \/ \E m \in Notifiers : NotifyLoad(m) \/ NotifyCommit(m) \/ NotifyDies(m)
      \/ notifier' = notifier
  BY DEF Next, vars, DecideOpen, DecideStillDown, DecideRecovered, CheckCommit, CheckAbort, Tick
<1> QED
  BY <1>1, <1>2, <1>3, <1>4, <1>5

LEMMA RecordStep == Base /\ RecordInv /\ [Next]_vars => RecordInv'
<1> SUFFICES ASSUME Base, RecordInv, [Next]_vars PROVE RecordInv'
  OBVIOUS
<1>0. /\ TypeOK
      /\ \A i \in Incidents : /\ incident[i].reminder_count \in Nat
                              /\ alerts[i]["still_down"] \in Nat /\ alerts'[i]["still_down"] \in Nat
                              /\ alerts[i]["still_down"] <= alerts'[i]["still_down"]
  <2>1. {"incident_opened", "still_down", "incident_recovered"} = Events
    BY DEF Events
  <2>2. /\ incident \in [Incidents -> IncidentType]
        /\ \A i \in Incidents : alerts[i] \in [Events -> Nat] /\ alerts'[i] \in [Events -> Nat]
    BY CountersGrow DEF Base, TypeOK
  <2>3. \A i \in Incidents : incident[i].reminder_count \in Nat
    BY <2>2 DEF IncidentType
  <2> QED
    BY <2>1, <2>2, <2>3, CountersGrow DEF Base
<1>1. AlertedRows'
  <2> SUFFICES ASSUME NEW i \in Incidents, incident'[i].last_alert_sent_at # NoTime
               PROVE  Counted(alerts'[i])
    BY DEF AlertedRows
  <2>1. ASSUME NEW n \in Notifiers, NotifyCommit(n), i = notifier[n].incident
        PROVE  Counted(alerts'[i])
    <3> DEFINE t == notifier[n]
    <3>1. CASE t.event = "incident_opened"
      <4>1. alerts'[i]["incident_opened"] = alerts[i]["incident_opened"] + 1
        BY <2>1, <3>1, AlertedFields, CountersGrow
      <4>2. alerts[i]["incident_opened"] \in Nat
        BY CountersGrow
      <4> QED
        BY <4>1, <4>2 DEF Counted
    <3>2. CASE t.event = "still_down"
      <4>1. t.pc = "sending"
        BY <2>1 DEF NotifyCommit
      <4>2. Counted(alerts[i])
        BY <2>1, <3>2, <4>1 DEF RecordInv, AlertedNotifiers
      <4> QED
        BY <4>2, CountersGrow
    <3>3. CASE t.event = "incident_recovered" /\ incident'[i] = incident[i]
      BY <3>3, CountersGrow DEF RecordInv, AlertedRows
    <3> QED
      BY <2>1, <3>1, <3>2, <3>3, AlertedFields
  <2>2. ASSUME NEW n \in Notifiers, NotifyCommit(n), i # notifier[n].incident
        PROVE  Counted(alerts'[i])
    BY <2>2, AlertedRow, CountersGrow DEF RecordInv, AlertedRows
  <2>3. CASE ~\E n \in Notifiers : NotifyCommit(n)
    BY <2>3, OnlyNotifyRecords, CountersGrow DEF RecordInv, AlertedRows
  <2> QED
    BY <2>1, <2>2, <2>3
<1>2. AlertedMessages'
  <2> SUFFICES ASSUME NEW k \in 1 .. Len(outbox'), outbox'[k].event = "still_down"
               PROVE  Counted(alerts'[outbox'[k].incident])
    BY DEF AlertedMessages
  <2>1. ASSUME NEW j \in 1 .. Len(outbox), outbox'[k] = outbox[j]
        PROVE  Counted(alerts'[outbox'[k].incident])
    BY <1>0, <2>1, QueueEntry, CountersGrow DEF RecordInv, AlertedMessages
  <2>2. ASSUME NEW i \in Incidents, DecideStillDown(i)
        PROVE  Counted(alerts'[i])
    BY <2>2, CountersGrow DEF RecordInv, AlertedRows, DecideStillDown, ShouldSendStillDown
  <2> QED
    BY <2>1, <2>2, MessagesEvolve
<1>3. AlertedNotifiers'
  <2> SUFFICES ASSUME NEW n \in Notifiers, notifier'[n].pc = "sending",
                      notifier'[n].event = "still_down"
               PROVE  Counted(alerts'[notifier'[n].incident])
    BY DEF AlertedNotifiers
  <2>1. CASE notifier'[n] = notifier[n]
    BY <2>1, CountersGrow DEF RecordInv, AlertedNotifiers, Base, SendingShape
  <2>2. CASE /\ 1 \in 1 .. Len(outbox)
             /\ notifier'[n].event = outbox[1].event /\ notifier'[n].incident = outbox[1].incident
    BY <1>0, <2>2, QueueEntry, CountersGrow DEF RecordInv, AlertedMessages
  <2> QED
    BY <2>1, <2>2, NotifiersEvolve
<1>4. ReminderFollowsOpenedAlert'
  <2> SUFFICES ASSUME NEW i \in Incidents, alerts'[i]["still_down"] > 0 PROVE Counted(alerts'[i])
    BY DEF ReminderFollowsOpenedAlert, Counted
  <2>1. CASE alerts[i]["still_down"] > 0
    BY <2>1, CountersGrow DEF RecordInv, ReminderFollowsOpenedAlert, Counted
  <2>2. ASSUME alerts'[i]["still_down"] # alerts[i]["still_down"] PROVE Counted(alerts'[i])
    <3>1. PICK n \in Notifiers : NotifyCommit(n)
      BY <2>2, OnlyNotifyRecords
    <3>2. i = notifier[n].incident /\ notifier[n].event = "still_down" /\ notifier[n].pc = "sending"
      <4>1. "still_down" \in Events
        BY DEF Events
      <4>2. alerts'[i]["still_down"] =
              IF i = notifier[n].incident /\ "still_down" = notifier[n].event
              THEN alerts[i]["still_down"] + 1 ELSE alerts[i]["still_down"]
        BY <3>1, <4>1, AlertedFields
      <4>3. i = notifier[n].incident /\ notifier[n].event = "still_down"
        BY <2>2, <4>2
      <4> QED
        BY <3>1, <4>3 DEF NotifyCommit
    <3> QED
      BY <3>2, CountersGrow DEF RecordInv, AlertedNotifiers
  <2> QED
    BY <2>1, <2>2
<1>5. ReminderCountBacked'
  <2> SUFFICES ASSUME NEW i \in Incidents
               PROVE  incident'[i].reminder_count <= alerts'[i]["still_down"]
    BY DEF ReminderCountBacked
  <2>0. incident[i].reminder_count <= alerts[i]["still_down"]
    BY DEF RecordInv, ReminderCountBacked
  <2>1. ASSUME NEW n \in Notifiers, NotifyCommit(n), i = notifier[n].incident
        PROVE  incident'[i].reminder_count <= alerts'[i]["still_down"]
    <3> DEFINE t == notifier[n]
    <3>0. incident'[i].reminder_count \in Nat /\ t.reminder_count \in Nat
      <4>1. t \in NotifierType /\ incident'[i] \in IncidentType
        BY BaseStep DEF Base, TypeOK
      <4> QED
        BY <4>1 DEF NotifierType, IncidentType
    <3>1. CASE incident'[i].reminder_count <= incident[i].reminder_count
      BY <1>0, <2>0, <3>0, <3>1
    <3>2. CASE t.event = "still_down" /\ incident'[i].reminder_count = t.reminder_count + 1
      <4>1. t.reminder_count <= alerts[i]["still_down"]
        BY <2>1 DEF NotifyCommit, RecordInv, CountedNotifiers
      <4>2. alerts'[i]["still_down"] = alerts[i]["still_down"] + 1
        BY <2>1, <3>2, AlertedFields, CountersGrow
      <4> QED
        BY <1>0, <3>0, <3>2, <4>1, <4>2
    <3>3. CASE incident'[i] = incident[i]
      BY <1>0, <2>0, <3>3
    <3> QED
      BY <2>1, <3>1, <3>2, <3>3, AlertedFields
  <2>2. ASSUME NEW n \in Notifiers, NotifyCommit(n), i # notifier[n].incident
        PROVE  incident'[i].reminder_count <= alerts'[i]["still_down"]
    BY <1>0, <2>0, <2>2, AlertedRow
  <2>3. CASE ~\E n \in Notifiers : NotifyCommit(n)
    BY <1>0, <2>0, <2>3, OnlyNotifyRecords
  <2> QED
    BY <2>1, <2>2, <2>3
<1>6. CountedNotifiers'
  <2> SUFFICES ASSUME NEW n \in Notifiers, notifier'[n].pc = "sending"
               PROVE  notifier'[n].reminder_count <= alerts'[notifier'[n].incident]["still_down"]
    BY DEF CountedNotifiers
  <2>1. CASE notifier'[n] = notifier[n]
    <3>1. /\ notifier[n].incident \in Incidents
          /\ notifier[n].reminder_count <= alerts[notifier[n].incident]["still_down"]
      BY <2>1 DEF Base, SendingShape, RecordInv, CountedNotifiers
    <3>2. notifier[n].reminder_count \in Nat
      <4>1. notifier[n] \in NotifierType
        BY <1>0 DEF TypeOK
      <4> QED
        BY <4>1 DEF NotifierType
    <3> QED
      BY <1>0, <2>1, <3>1, <3>2
  <2>2. CASE /\ 1 \in 1 .. Len(outbox) /\ notifier'[n].incident = outbox[1].incident
             /\ notifier'[n].reminder_count = incident[outbox[1].incident].reminder_count
    <3> DEFINE i == outbox[1].incident
    <3>1. i \in Incidents
      BY <1>0, <2>2, QueueEntry
    <3>2. incident[i].reminder_count <= alerts[i]["still_down"]
      BY <3>1 DEF RecordInv, ReminderCountBacked
    <3> HIDE DEF i
    <3>3. incident[i].reminder_count <= alerts'[i]["still_down"]
      BY <1>0, <3>1, <3>2
    <3> QED
      BY <2>2, <3>3 DEF i
  <2> QED
    BY <2>1, <2>2, NotifiersEvolve
<1> QED
  BY <1>1, <1>2, <1>3, <1>4, <1>5, <1>6 DEF RecordInv

LEMMA RecordInit == Init => RecordInv
<1> SUFFICES ASSUME Init PROVE RecordInv
  OBVIOUS
<1>1. \A i \in Incidents, e \in Events : alerts[i][e] = 0
  BY DEF Init
<1>2. {"incident_opened", "still_down", "incident_recovered"} = Events
  BY DEF Events
<1> QED
  BY <1>1, <1>2 DEF Init, RecordInv, AlertedRows, AlertedMessages, AlertedNotifiers,
     ReminderFollowsOpenedAlert, ReminderCountBacked, CountedNotifiers, IdleNotifier

\* "Still down" is reported only of an outage whose opening was reported: a
\* reminder is decided on the row, and a row has a time of its last alert only
\* when alert_events has the first one.
THEOREM RemindersFollowFirstAlert == Spec => []ReminderFollowsOpenedAlert
<1>1. RecordInv => ReminderFollowsOpenedAlert
  BY DEF RecordInv
<1> QED
  BY <1>1, BaseInit, BaseStep, RecordInit, RecordStep, PTL DEF Spec

\* Two notify tasks of one incident may overwrite each other's count, but never
\* beyond the reminders that alert_events has.
THEOREM CountNeverAhead == Spec => []ReminderCountBacked
<1>1. RecordInv => ReminderCountBacked
  BY DEF RecordInv
<1> QED
  BY <1>1, BaseInit, BaseStep, RecordInit, RecordStep, PTL DEF Spec

-----------------------------------------------------------------------------
(* The opening of an incident is reported once                              *)

\* The one report of an opening is a message, a task or a row of alert_events:
\* none for an identifier that is free, and never two.
NoneForUnused ==
  \A i \in Incidents : incident[i].status = "unused" =>
    /\ \A k \in 1 .. Len(outbox) : outbox[k].event = "incident_opened" => outbox[k].incident # i
    /\ \A n \in Notifiers : notifier[n].pc = "sending" /\ notifier[n].event = "incident_opened" =>
         notifier[n].incident # i
    /\ alerts[i]["incident_opened"] = 0

OneMessage ==
  \A k \in 1 .. Len(outbox) : outbox[k].event = "incident_opened" =>
    /\ alerts[outbox[k].incident]["incident_opened"] = 0
    /\ \A j \in 1 .. Len(outbox) :
         outbox[j].event = "incident_opened" /\ outbox[j].incident = outbox[k].incident => j = k

OneTask ==
  \A n \in Notifiers : notifier[n].pc = "sending" /\ notifier[n].event = "incident_opened" =>
    /\ alerts[notifier[n].incident]["incident_opened"] = 0
    /\ \A m \in Notifiers :
         notifier[m].pc = "sending" /\ notifier[m].event = "incident_opened"
           /\ notifier[m].incident = notifier[n].incident => m = n
    /\ \A k \in 1 .. Len(outbox) :
         outbox[k].event = "incident_opened" => outbox[k].incident # notifier[n].incident

OneAlert == \A i \in Incidents : alerts[i]["incident_opened"] <= 1

OpeningInv == NoneForUnused /\ OneMessage /\ OneTask /\ OneAlert

LEMMA OpeningStep == Base /\ OpeningInv /\ [Next]_vars => OpeningInv'
<1> SUFFICES ASSUME Base, OpeningInv, [Next]_vars PROVE OpeningInv'
  OBVIOUS
<1>0. /\ TypeOK /\ Len(outbox) \in Nat
      /\ "incident_opened" \in Events /\ "still_down" \in Events /\ "incident_recovered" \in Events
      /\ notifier \in [Notifiers -> NotifierType]
      /\ \A i \in Incidents : alerts[i]["incident_opened"] \in Nat
      /\ \A k \in 1 .. Len(outbox) : outbox[k].incident \in Incidents
  <2>1. TypeOK
    BY DEF Base
  <2>2. "incident_opened" \in Events /\ "still_down" \in Events /\ "incident_recovered" \in Events
    BY DEF Events
  <2>3. outbox \in Seq(Message) /\ notifier \in [Notifiers -> NotifierType]
        /\ alerts \in [Incidents -> [Events -> Nat]]
    BY <2>1 DEF TypeOK, Message
  <2>4. \A i \in Incidents : alerts[i]["incident_opened"] \in Nat
    BY <2>2, <2>3
  <2>5. \A k \in 1 .. Len(outbox) : outbox[k].incident \in Incidents
    BY <2>1, QueueEntry
  <2> QED
    BY <2>1, <2>2, <2>3, <2>4, <2>5
<1>1. \A i \in Incidents : incident'[i].status = "unused" => incident[i].status = "unused"
  BY RowsEvolve
<1> USE DEF OpeningInv, NoneForUnused, OneMessage, OneTask, OneAlert
<1>2. ASSUME NEW i \in Incidents, NEW e \in Events, Deliver(e, i), notifier' = notifier,
             alerts' = alerts,
             e = "incident_opened" => incident[i].status = "unused" /\ incident'[i].status # "unused"
      PROVE  OpeningInv'
  <2>0. /\ Len(outbox') = Len(outbox) + 1
        /\ \A k \in 1 .. Len(outbox') :
             \/ k \in 1 .. Len(outbox) /\ outbox'[k] = outbox[k]
             \/ k = Len(outbox) + 1 /\ outbox'[k].event = e /\ outbox'[k].incident = i
    BY <1>0, <1>2, Delivered
  <2>1. NoneForUnused'
    BY <1>1, <1>2, <2>0
  <2>2. OneMessage'
    BY <1>0, <1>2, <2>0
  <2>3. OneTask'
    BY <1>0, <1>2, <2>0
  <2> QED
    BY <1>2, <2>1, <2>2, <2>3
<1>3. ASSUME NEW n \in Notifiers, NotifyLoad(n)
      PROVE  OpeningInv'
  <2>0. /\ 1 \in 1 .. Len(outbox) /\ Len(outbox') = Len(outbox) - 1
        /\ \A k \in 1 .. Len(outbox') : k + 1 \in 1 .. Len(outbox) /\ outbox'[k] = outbox[k + 1]
    BY <1>0, <1>3, Taken
  <2>1. /\ \A m \in Notifiers \ {n} : notifier'[m] = notifier[m]
        /\ notifier'[n].event = outbox[1].event /\ notifier'[n].incident = outbox[1].incident
    BY <1>0, <1>3, Taken
  <2>2. alerts' = alerts /\ incident' = incident
    BY <1>3 DEF NotifyLoad
  <2>3. NoneForUnused'
    BY <2>0, <2>1, <2>2
  <2>4. OneMessage'
    <3> SUFFICES ASSUME NEW k \in 1 .. Len(outbox'), NEW j \in 1 .. Len(outbox'),
                        outbox'[k].event = "incident_opened"
                 PROVE  /\ alerts'[outbox'[k].incident]["incident_opened"] = 0
                        /\ outbox'[j].event = "incident_opened"
                             /\ outbox'[j].incident = outbox'[k].incident => j = k
      OBVIOUS
    <3>1. /\ k + 1 \in 1 .. Len(outbox) /\ outbox'[k] = outbox[k + 1]
          /\ j + 1 \in 1 .. Len(outbox) /\ outbox'[j] = outbox[j + 1]
          /\ j + 1 = k + 1 => j = k
      BY <1>0, <2>0
    <3> QED
      BY <2>2, <3>1
  <2>5. OneTask'
    <3> SUFFICES ASSUME NEW m \in Notifiers, notifier'[m].pc = "sending",
                        notifier'[m].event = "incident_opened"
                 PROVE  /\ alerts'[notifier'[m].incident]["incident_opened"] = 0
                        /\ \A p \in Notifiers :
                             notifier'[p].pc = "sending" /\ notifier'[p].event = "incident_opened"
                               /\ notifier'[p].incident = notifier'[m].incident => p = m
                        /\ \A k \in 1 .. Len(outbox') :
                             outbox'[k].event = "incident_opened"
                               => outbox'[k].incident # notifier'[m].incident
      OBVIOUS
    <3>1. \A k \in 1 .. Len(outbox') : k + 1 # 1
      BY <1>0, <2>0
    <3>2. CASE m = n
      BY <2>0, <2>1, <2>2, <3>1, <3>2
    <3>3. CASE m # n
      BY <2>0, <2>1, <2>2, <3>3
    <3> QED
      BY <3>2, <3>3
  <2> QED
    BY <2>2, <2>3, <2>4, <2>5
<1>4. ASSUME NEW n \in Notifiers, NotifyCommit(n)
      PROVE  OpeningInv'
  <2>1. /\ notifier' = [notifier EXCEPT ![n] = IdleNotifier] /\ outbox' = outbox
        /\ notifier[n].pc = "sending" /\ IdleNotifier.pc # "sending"
    BY <1>4 DEF NotifyCommit, IdleNotifier
  <2>2. \A i \in Incidents :
          alerts'[i]["incident_opened"] =
            IF i = notifier[n].incident /\ "incident_opened" = notifier[n].event
            THEN alerts[i]["incident_opened"] + 1 ELSE alerts[i]["incident_opened"]
    BY <1>0, <1>4, AlertedFields
  <2>3. \A m \in Notifiers : notifier[m].pc = "sending" => notifier[m].incident \in Incidents
    BY DEF Base, SendingShape
  <2>4. NoneForUnused'
    BY <1>0, <1>1, <2>1, <2>2
  <2>5. OneMessage'
    BY <1>0, <2>1, <2>2
  <2>6. OneTask'
    BY <1>0, <2>1, <2>2, <2>3
  <2>7. OneAlert'
    BY <1>0, <2>1, <2>2
  <2> QED
    BY <2>4, <2>5, <2>6, <2>7
<1>5. ASSUME NEW n \in Notifiers, NotifyDies(n)
      PROVE  OpeningInv'
  <2>1. /\ \A m \in Notifiers : notifier'[m].pc = "sending" => notifier'[m] = notifier[m]
        /\ outbox' = outbox /\ alerts' = alerts /\ incident' = incident
    BY <1>0, <1>5 DEF NotifyDies, IdleNotifier
  <2> QED
    BY <2>1
<1>6. CASE outbox' = outbox /\ notifier' = notifier /\ alerts' = alerts
  BY <1>1, <1>6
<1>7. ASSUME NEW i \in Incidents, DecideOpen(i)
      PROVE  OpeningInv'
  <2>1. incident[i].status = "unused" /\ incident'[i].status # "unused"
    BY <1>7 DEF DecideOpen, Base, TypeOK, IncidentType
  <2> QED
    BY <1>0, <1>2, <1>7, <2>1 DEF DecideOpen
<1>8. ASSUME NEW i \in Incidents, DecideStillDown(i) \/ DecideRecovered(i)
      PROVE  OpeningInv'
  BY <1>0, <1>2, <1>8 DEF DecideStillDown, DecideRecovered
<1> QED
  BY <1>3, <1>4, <1>5, <1>6, <1>7, <1>8 DEF Next, vars, CheckCommit, CheckAbort, Tick

LEMMA OpeningInit == Init => OpeningInv
<1> SUFFICES ASSUME Init PROVE OpeningInv
  OBVIOUS
<1>1. \A i \in Incidents : alerts[i]["incident_opened"] = 0
  BY DEF Init, Events
<1>2. Len(outbox) = 0 /\ \A n \in Notifiers : notifier[n].pc = "idle"
  BY DEF Init, IdleNotifier
<1> QED
  BY <1>1, <1>2 DEF OpeningInv, NoneForUnused, OneMessage, OneTask, OneAlert

-----------------------------------------------------------------------------
(* The recovery of an incident is reported once                             *)

Recovery == "incident_recovered"

\* The reports of the recovery of an incident: messages, tasks, and rows of
\* alert_events.
QueuedRecoveries(i) == {k \in 1 .. Len(outbox) : outbox[k].event = Recovery /\ outbox[k].incident = i}
SendingRecoveries(i) ==
  {n \in Notifiers : notifier[n].pc = "sending" /\ notifier[n].event = Recovery
                       /\ notifier[n].incident = i}
Recoveries(i) ==
  Cardinality(QueuedRecoveries(i)) + Cardinality(SendingRecoveries(i)) + alerts[i][Recovery]

\* A check has decided that the incident is over, and may have committed it.
Ending(i) == check.pc = "decided" /\ check.step = "close" /\ check.incident = i
Ended(i) == incident[i].status = "closed" \/ Ending(i)

RecoveryInv == \A i \in Incidents : Recoveries(i) <= (IF Ended(i) THEN 1 ELSE 0) + undone[i]

LEMMA RecoveryCounts ==
  ASSUME TypeOK, NEW i \in Incidents
  PROVE  /\ IsFiniteSet(QueuedRecoveries(i)) /\ Cardinality(QueuedRecoveries(i)) \in Nat
         /\ IsFiniteSet(SendingRecoveries(i)) /\ Cardinality(SendingRecoveries(i)) \in Nat
         /\ alerts[i][Recovery] \in Nat /\ undone[i] \in Nat /\ Len(outbox) \in Nat
<1>1. Len(outbox) \in Nat
  BY DEF TypeOK
<1>2. QueuedRecoveries(i) \in SUBSET (1 .. Len(outbox)) /\ SendingRecoveries(i) \in SUBSET Notifiers
  BY DEF QueuedRecoveries, SendingRecoveries
<1>3. IsFiniteSet(1 .. Len(outbox))
  BY <1>1, FS_Interval
<1>4. IsFiniteSet(QueuedRecoveries(i)) /\ IsFiniteSet(SendingRecoveries(i))
  BY <1>2, <1>3, FS_Subset, ProcessAssumption
<1>5. alerts[i][Recovery] \in Nat
  BY DEF TypeOK, Events, Recovery
<1>6. undone[i] \in Nat
  BY DEF TypeOK
<1> QED
  BY <1>1, <1>4, <1>5, <1>6, FS_CardinalityType

\* A delivery adds a report to the queue when it is one of the recovery.
LEMMA RecoveryDelivered ==
  ASSUME TypeOK, NEW e \in Events, NEW j \in Incidents, Deliver(e, j), NEW i \in Incidents
  PROVE  Cardinality(QueuedRecoveries(i)') =
           Cardinality(QueuedRecoveries(i)) + (IF e = Recovery /\ j = i THEN 1 ELSE 0)
<1>1. /\ Len(outbox') = Len(outbox) + 1 /\ Len(outbox) \in Nat
      /\ \A k \in 1 .. Len(outbox') :
           \/ k \in 1 .. Len(outbox) /\ outbox'[k] = outbox[k]
           \/ k = Len(outbox) + 1 /\ outbox'[k].event = e /\ outbox'[k].incident = j
  BY Delivered, RecoveryCounts
<1>2. \A k : k \in 1 .. Len(outbox') <=> k \in 1 .. Len(outbox) \/ k = Len(outbox) + 1
  BY <1>1
<1>3. Len(outbox) + 1 \notin QueuedRecoveries(i) /\ Len(outbox) + 1 \notin 1 .. Len(outbox)
  BY <1>1 DEF QueuedRecoveries
<1>4. QueuedRecoveries(i)' =
        {k \in 1 .. Len(outbox') : outbox'[k].event = Recovery /\ outbox'[k].incident = i}
  BY DEF QueuedRecoveries
<1>5. CASE e = Recovery /\ j = i
  <2>1. QueuedRecoveries(i)' = QueuedRecoveries(i) \cup {Len(outbox) + 1}
    BY <1>1, <1>2, <1>3, <1>4, <1>5 DEF QueuedRecoveries
  <2> QED
    BY <1>3, <1>5, <2>1, FS_AddElement, RecoveryCounts
<1>6. CASE ~(e = Recovery /\ j = i)
  <2>1. QueuedRecoveries(i)' = QueuedRecoveries(i)
    BY <1>1, <1>2, <1>3, <1>4, <1>6 DEF QueuedRecoveries
  <2> QED
    BY <1>6, <2>1, RecoveryCounts
<1> QED
  BY <1>5, <1>6

\* The queue loses the report a notify task takes: the others move up.
LEMMA RecoveryTaken ==
  ASSUME TypeOK, NEW n \in Notifiers, NotifyLoad(n), NEW i \in Incidents
  PROVE  Cardinality(QueuedRecoveries(i)') =
           Cardinality(QueuedRecoveries(i))
             - (IF outbox[1].event = Recovery /\ outbox[1].incident = i THEN 1 ELSE 0)
<1>1. /\ 1 \in 1 .. Len(outbox) /\ Len(outbox) \in Nat
      /\ Len(outbox') = Len(outbox) - 1
      /\ \A k \in 1 .. Len(outbox) - 1 : outbox'[k] = outbox[k + 1]
  BY Taken, RecoveryCounts
<1> DEFINE Rest == QueuedRecoveries(i) \ {1}
           After == {k \in 1 .. Len(outbox') : outbox'[k].event = Recovery /\ outbox'[k].incident = i}
           up == [k \in Rest |-> k - 1]
<1>2. QueuedRecoveries(i)' = After
  BY DEF QueuedRecoveries
<1>3. \A k \in Rest : /\ k \in 1 .. Len(outbox) /\ k # 1 /\ k - 1 \in 1 .. Len(outbox) - 1
                      /\ (k - 1) + 1 = k
                      /\ outbox[k].event = Recovery /\ outbox[k].incident = i
  BY <1>1 DEF QueuedRecoveries
<1>4. \A k \in Rest : k - 1 \in After
  BY <1>1, <1>3
<1>5. \A k \in After : k + 1 \in Rest /\ (k + 1) - 1 = k
  BY <1>1 DEF QueuedRecoveries
<1>6. \A k, l \in Rest : k - 1 = l - 1 => k = l
  BY <1>3
<1> HIDE DEF Rest, After
<1>7. up \in [Rest -> After]
  BY <1>4
<1>8. up \in Injection(Rest, After)
  BY <1>6, <1>7 DEF Injection, IsInjective
<1>9. up \in Surjection(Rest, After)
  BY <1>5, <1>7 DEF Surjection
<1>10. ExistsBijection(Rest, After)
  BY <1>8, <1>9 DEF ExistsBijection, Bijection
<1>11. IsFiniteSet(QueuedRecoveries(i)) /\ Cardinality(QueuedRecoveries(i)) \in Nat
  BY RecoveryCounts
<1>12. IsFiniteSet(Rest) /\ Cardinality(Rest) = IF 1 \in QueuedRecoveries(i)
                                                  THEN Cardinality(QueuedRecoveries(i)) - 1
                                                  ELSE Cardinality(QueuedRecoveries(i))
  BY <1>11, FS_RemoveElement DEF Rest
<1>13. Cardinality(After) = Cardinality(Rest)
  BY <1>10, <1>12, FS_Bijection
<1>14. 1 \in QueuedRecoveries(i) <=> outbox[1].event = Recovery /\ outbox[1].incident = i
  BY <1>1 DEF QueuedRecoveries
<1> QED
  BY <1>2, <1>11, <1>12, <1>13, <1>14

\* A task that takes a report of the recovery counts as one.
LEMMA RecoverySending ==
  ASSUME TypeOK, NEW n \in Notifiers, NotifyLoad(n), NEW i \in Incidents
  PROVE  Cardinality(SendingRecoveries(i)') =
           Cardinality(SendingRecoveries(i))
             + (IF outbox[1].event = Recovery /\ outbox[1].incident = i THEN 1 ELSE 0)
<1>1. /\ notifier'[n].pc = "sending" /\ notifier'[n].event = outbox[1].event
      /\ notifier'[n].incident = outbox[1].incident
      /\ \A m \in Notifiers \ {n} : notifier'[m] = notifier[m]
  <2>1. notifier \in [Notifiers -> NotifierType]
    BY DEF TypeOK
  <2> QED
    BY <2>1, Taken
<1>2. notifier[n].pc = "idle"
  BY DEF NotifyLoad
<1>3. n \notin SendingRecoveries(i)
  BY <1>2 DEF SendingRecoveries
<1>4. IsFiniteSet(SendingRecoveries(i)) /\ Cardinality(SendingRecoveries(i)) \in Nat
  BY RecoveryCounts
<1>5. CASE outbox[1].event = Recovery /\ outbox[1].incident = i
  <2>1. SendingRecoveries(i)' = SendingRecoveries(i) \cup {n}
    BY <1>1, <1>3, <1>5 DEF SendingRecoveries, Recovery
  <2> QED
    BY <1>3, <1>4, <1>5, <2>1, FS_AddElement
<1>6. CASE ~(outbox[1].event = Recovery /\ outbox[1].incident = i)
  <2>1. SendingRecoveries(i)' = SendingRecoveries(i)
    BY <1>1, <1>3, <1>6 DEF SendingRecoveries, Recovery
  <2> QED
    BY <1>4, <1>6, <2>1
<1> QED
  BY <1>5, <1>6

\* A task that ends, sent or dead, no longer does.
LEMMA RecoverySent ==
  ASSUME TypeOK, NEW n \in Notifiers, notifier[n].pc = "sending",
         notifier' = [notifier EXCEPT ![n] = IdleNotifier], NEW i \in Incidents
  PROVE  Cardinality(SendingRecoveries(i)') =
           Cardinality(SendingRecoveries(i))
             - (IF notifier[n].event = Recovery /\ notifier[n].incident = i THEN 1 ELSE 0)
<1>1. notifier'[n].pc = "idle" /\ \A m \in Notifiers \ {n} : notifier'[m] = notifier[m]
  <2>1. notifier \in [Notifiers -> NotifierType]
    BY DEF TypeOK
  <2> QED
    BY <2>1 DEF IdleNotifier
<1>2. SendingRecoveries(i)' = SendingRecoveries(i) \ {n}
  <2>1. \A m \in Notifiers : m \in SendingRecoveries(i)' <=> m # n /\ m \in SendingRecoveries(i)
    BY <1>1 DEF SendingRecoveries
  <2>2. SendingRecoveries(i)' \in SUBSET Notifiers /\ SendingRecoveries(i) \in SUBSET Notifiers
    BY DEF SendingRecoveries
  <2> QED
    BY <2>1, <2>2
<1>3. n \in SendingRecoveries(i) <=> notifier[n].event = Recovery /\ notifier[n].incident = i
  BY DEF SendingRecoveries
<1>4. IsFiniteSet(SendingRecoveries(i)) /\ Cardinality(SendingRecoveries(i)) \in Nat
  BY RecoveryCounts
<1>5. Cardinality(SendingRecoveries(i) \ {n}) =
        IF n \in SendingRecoveries(i) THEN Cardinality(SendingRecoveries(i)) - 1
                                      ELSE Cardinality(SendingRecoveries(i))
  BY <1>4, FS_RemoveElement
<1> QED
  BY <1>2, <1>3, <1>4, <1>5

\* What has ended stays so, but for a check that dies.
LEMMA EndedStays ==
  ASSUME Base, [Next]_vars, NEW i \in Incidents, Ended(i),
         undone' = undone \/ ~Ending(i)
  PROVE  Ended(i)'
<1>1. incident \in [Incidents -> IncidentType] /\ check \in CheckType
  BY DEF Base, TypeOK
<1>2. CheckShape
  BY DEF Base
<1>3. ASSUME NEW j \in Incidents, DecideOpen(j) PROVE Ended(i)'
  BY <1>1, <1>3 DEF DecideOpen, Ended, Ending, IncidentType
<1>4. ASSUME NEW j \in Incidents, DecideStillDown(j) \/ DecideRecovered(j) PROVE Ended(i)'
  BY <1>4 DEF DecideStillDown, DecideRecovered, Ended, Ending
<1>5. CASE CheckCommit
  <2>1. CASE check.step = "open"
    BY <1>1, <1>2, <1>5, <2>1 DEF CheckCommit, CheckShape, Ended, Ending, IncidentType
  <2>2. CASE check.step = "close"
    BY <1>1, <1>2, <1>5, <2>2 DEF CheckCommit, CheckShape, Ended, Ending, IncidentType
  <2>3. CASE check.step \notin {"open", "close"}
    BY <1>1, <1>5, <2>3 DEF CheckCommit, Ended, Ending
  <2> QED
    BY <2>1, <2>2, <2>3
<1>6. ASSUME NEW n \in Notifiers, NotifyCommit(n) PROVE Ended(i)'
  <2>1. check' = check /\ incident'[i].status = incident[i].status
    BY <1>6, AlertedRow DEF NotifyCommit
  <2> QED
    BY <2>1 DEF Ended, Ending
<1>7. CASE check' = check /\ incident' = incident
  BY <1>7 DEF Ended, Ending
<1>8. CASE CheckAbort
  <2>1. ~Ending(i)
    <3>1. undone \in [Incidents -> Nat]
      BY DEF Base, TypeOK
    <3>2. ASSUME Ending(i) PROVE undone' = [undone EXCEPT ![i] = @ + 1]
      BY <1>8, <3>2 DEF CheckAbort, Ending
    <3> QED
      BY <3>1, <3>2
  <2> QED
    BY <1>1, <1>2, <1>8, <2>1 DEF CheckAbort, CheckShape, Ended, IncidentType
<1> QED
  BY <1>3, <1>4, <1>5, <1>6, <1>7, <1>8 DEF Next, vars, NotifyLoad, NotifyDies, Tick

\* A step that leaves the messages and the tasks alone leaves their counts.
LEMMA RecoveriesStay ==
  ASSUME outbox' = outbox, NEW i
  PROVE  QueuedRecoveries(i)' = QueuedRecoveries(i)
BY DEF QueuedRecoveries

LEMMA TasksStay ==
  ASSUME notifier' = notifier, NEW i
  PROVE  SendingRecoveries(i)' = SendingRecoveries(i)
BY DEF SendingRecoveries

LEMMA RecoveryStep == Base /\ RecoveryInv /\ [Next]_vars => RecoveryInv'
<1> SUFFICES ASSUME Base, RecoveryInv, [Next]_vars, NEW i \in Incidents
             PROVE  Recoveries(i)' <= (IF Ended(i)' THEN 1 ELSE 0) + undone'[i]
  BY DEF RecoveryInv
<1> DEFINE q == Cardinality(QueuedRecoveries(i))
           s == Cardinality(SendingRecoveries(i))
           a == alerts[i][Recovery]
           u == undone[i]
<1>0. TypeOK /\ TypeOK'
  BY BaseStep DEF Base
<1>1. /\ q \in Nat /\ s \in Nat /\ a \in Nat /\ u \in Nat
      /\ Recoveries(i) = q + s + a
      /\ q + s + a <= (IF Ended(i) THEN 1 ELSE 0) + u
  BY <1>0, RecoveryCounts DEF Recoveries, RecoveryInv
<1>2. Recoveries(i)' = q' + s' + a'
  BY DEF Recoveries
<1>3. Ended(i) /\ (undone' = undone \/ ~Ending(i)) => Ended(i)'
  BY EndedStays
<1>e. "incident_opened" \in Events /\ "still_down" \in Events /\ Recovery \in Events
      /\ Recovery # "incident_opened" /\ Recovery # "still_down"
  BY DEF Events, Recovery
<1> SUFFICES Recoveries(i)' <= (IF Ended(i)' THEN 1 ELSE 0) + u'
  OBVIOUS
<1> HIDE DEF q, s, a, u
<1>4. ASSUME NEW j \in Incidents, DecideOpen(j)
      PROVE  Recoveries(i)' <= (IF Ended(i)' THEN 1 ELSE 0) + u'
  <2>1. Deliver("incident_opened", j) /\ notifier' = notifier /\ alerts' = alerts /\ undone' = undone
        /\ u' = u
    BY <1>4 DEF DecideOpen, u
  <2>2. q' = q + 0
    BY <1>0, <1>e, <2>1, RecoveryDelivered DEF q
  <2>3. s' = s /\ a' = a
    BY <2>1, TasksStay DEF s, a
  <2> QED
    BY <1>1, <1>2, <1>3, <2>1, <2>2, <2>3
<1>5. ASSUME NEW j \in Incidents, DecideStillDown(j)
      PROVE  Recoveries(i)' <= (IF Ended(i)' THEN 1 ELSE 0) + u'
  <2>1. Deliver("still_down", j) /\ notifier' = notifier /\ alerts' = alerts /\ undone' = undone
        /\ u' = u
    BY <1>5 DEF DecideStillDown, u
  <2>2. q' = q + 0
    BY <1>0, <1>e, <2>1, RecoveryDelivered DEF q
  <2>3. s' = s /\ a' = a
    BY <2>1, TasksStay DEF s, a
  <2> QED
    BY <1>1, <1>2, <1>3, <2>1, <2>2, <2>3
<1>6. ASSUME NEW j \in Incidents, DecideRecovered(j)
      PROVE  Recoveries(i)' <= (IF Ended(i)' THEN 1 ELSE 0) + u'
  <2>1. Deliver(Recovery, j) /\ notifier' = notifier /\ alerts' = alerts /\ undone' = undone
        /\ u' = u
    BY <1>6 DEF DecideRecovered, Recovery, u
  <2>2. q' = q + (IF Recovery = Recovery /\ j = i THEN 1 ELSE 0)
    BY <1>0, <1>e, <2>1, RecoveryDelivered DEF q
  <2>3. s' = s /\ a' = a
    BY <2>1, TasksStay DEF s, a
  <2>4. ASSUME j = i PROVE ~Ended(i) /\ Ended(i)'
    BY <1>6, <2>4 DEF DecideRecovered, OpenIncidents, Ended, Ending
  <2>5. CASE j = i
    BY <1>1, <1>2, <2>1, <2>2, <2>3, <2>4, <2>5
  <2>6. CASE j # i
    BY <1>1, <1>2, <1>3, <2>1, <2>2, <2>3, <2>6
  <2> QED
    BY <2>5, <2>6
<1>7. CASE CheckAbort
  <2>1. q' = q /\ s' = s /\ a' = a
    BY <1>7, RecoveriesStay, TasksStay DEF CheckAbort, q, s, a
  <2>2. CASE Ending(i)
    <3>1. u' = u + 1
      <4>1. undone \in [Incidents -> Nat]
        BY <1>0 DEF TypeOK
      <4>2. undone' = [undone EXCEPT ![i] = @ + 1]
        BY <1>7, <2>2 DEF CheckAbort, Ending
      <4> QED
        BY ONLY <4>1, <4>2, i \in Incidents DEF u
    <3>2. q + s + a <= 1 + u
      BY <1>1
    <3> QED
      BY <1>1, <1>2, <2>1, <3>1, <3>2
  <2>3. CASE ~Ending(i)
    <3>1. u' = u
      <4>1. undone \in [Incidents -> Nat]
        BY <1>0 DEF TypeOK
      <4>2. \/ undone' = undone
            \/ check.incident # i /\ undone' = [undone EXCEPT ![check.incident] = @ + 1]
        BY <1>7, <2>3 DEF CheckAbort, Ending
      <4> QED
        BY ONLY <4>1, <4>2, i \in Incidents DEF u
    <3> QED
      BY <1>1, <1>2, <1>3, <2>1, <2>3, <3>1
  <2> QED
    BY <2>2, <2>3
<1>8. ASSUME NEW n \in Notifiers, NotifyLoad(n)
      PROVE  Recoveries(i)' <= (IF Ended(i)' THEN 1 ELSE 0) + u'
  <2> DEFINE d == IF outbox[1].event = Recovery /\ outbox[1].incident = i THEN 1 ELSE 0
  <2>1. q' = q - d /\ s' = s + d
    BY <1>0, <1>8, RecoveryTaken, RecoverySending DEF q, s
  <2>2. a' = a /\ u' = u /\ undone' = undone
    BY <1>8 DEF NotifyLoad, a, u
  <2>3. d \in {0, 1}
    OBVIOUS
  <2> HIDE DEF d
  <2> QED
    BY <1>1, <1>2, <1>3, <2>1, <2>2, <2>3
<1>9. ASSUME NEW n \in Notifiers, NotifyCommit(n)
      PROVE  Recoveries(i)' <= (IF Ended(i)' THEN 1 ELSE 0) + u'
  <2> DEFINE d == IF notifier[n].event = Recovery /\ notifier[n].incident = i THEN 1 ELSE 0
  <2>1. /\ notifier[n].pc = "sending" /\ notifier' = [notifier EXCEPT ![n] = IdleNotifier]
        /\ outbox' = outbox /\ undone' = undone /\ u' = u
    BY <1>9 DEF NotifyCommit, u
  <2>2. check' = check
    BY <1>9 DEF NotifyCommit
  <2>3. q' = q /\ s' = s - d
    BY <1>0, <2>1, RecoverySent, RecoveriesStay DEF q, s
  <2>4. a' = IF i = notifier[n].incident /\ Recovery = notifier[n].event THEN a + 1 ELSE a
    BY <1>9, <1>e, AlertedFields DEF a
  <2>5. a' = a + d
    BY <1>1, <2>4
  <2>6. d \in {0, 1}
    OBVIOUS
  <2> HIDE DEF d
  <2> QED
    BY <1>1, <1>2, <1>3, <2>1, <2>3, <2>5, <2>6
<1>10. ASSUME NEW n \in Notifiers, NotifyDies(n)
       PROVE  Recoveries(i)' <= (IF Ended(i)' THEN 1 ELSE 0) + u'
  <2> DEFINE d == IF notifier[n].event = Recovery /\ notifier[n].incident = i THEN 1 ELSE 0
  <2>1. /\ notifier[n].pc = "sending" /\ notifier' = [notifier EXCEPT ![n] = IdleNotifier]
        /\ outbox' = outbox /\ alerts' = alerts /\ incident' = incident /\ check' = check
        /\ u' = u
    BY <1>10 DEF NotifyDies, u
  <2>2. q' = q /\ s' = s - d /\ a' = a
    BY <1>0, <2>1, RecoverySent, RecoveriesStay DEF q, s, a
  <2>3. d \in {0, 1}
    OBVIOUS
  <2>4. Ended(i)' = Ended(i)
    BY <2>1 DEF Ended, Ending
  <2> HIDE DEF d
  <2> QED
    BY <1>1, <1>2, <2>1, <2>2, <2>3, <2>4
<1>11. ASSUME outbox' = outbox, notifier' = notifier, alerts' = alerts, undone' = undone
       PROVE  Recoveries(i)' <= (IF Ended(i)' THEN 1 ELSE 0) + u'
  <2>1. q' = q /\ s' = s /\ a' = a /\ u' = u
    BY <1>11, RecoveriesStay, TasksStay DEF q, s, a, u
  <2> QED
    BY <1>1, <1>2, <1>3, <1>11, <2>1
<1> QED
  BY <1>4, <1>5, <1>6, <1>7, <1>8, <1>9, <1>10, <1>11 DEF Next, vars, CheckCommit, Tick

\* The recovery of an incident is recorded once, and once more only for a check
\* that died after it had sent the message: each report is a message, a task or
\* a row, and the three are counted together.
THEOREM RecoveryReportedOnce == Spec => []RecoveredAlertOnce
<1>1. Init => RecoveryInv
  <2> SUFFICES ASSUME Init, NEW i \in Incidents
               PROVE  Recoveries(i) <= (IF Ended(i) THEN 1 ELSE 0) + undone[i]
    BY DEF RecoveryInv
  <2>1. QueuedRecoveries(i) = {} /\ SendingRecoveries(i) = {}
    BY DEF Init, QueuedRecoveries, SendingRecoveries, IdleNotifier
  <2>2. alerts[i][Recovery] = 0 /\ undone[i] = 0
    BY DEF Init, Events, Recovery
  <2> QED
    BY <2>1, <2>2, FS_EmptySet DEF Recoveries
<1>2. Base /\ RecoveryInv => RecoveredAlertOnce
  <2> SUFFICES ASSUME Base, RecoveryInv, NEW i \in Incidents
               PROVE  alerts[i]["incident_recovered"]
                        <= undone[i] + (IF \/ incident[i].status = "closed"
                                           \/ check.step = "close" /\ check.incident = i
                                        THEN 1 ELSE 0)
    BY DEF RecoveredAlertOnce
  <2>1. /\ Cardinality(QueuedRecoveries(i)) \in Nat /\ Cardinality(SendingRecoveries(i)) \in Nat
        /\ alerts[i][Recovery] \in Nat /\ undone[i] \in Nat
    BY RecoveryCounts DEF Base
  <2>2. alerts[i][Recovery] <= (IF Ended(i) THEN 1 ELSE 0) + undone[i]
    BY <2>1 DEF RecoveryInv, Recoveries
  <2>3. Ended(i) => \/ incident[i].status = "closed"
                    \/ check.step = "close" /\ check.incident = i
    BY DEF Ended, Ending
  <2> QED
    BY <2>1, <2>2, <2>3 DEF Recovery
<1> QED
  BY <1>1, <1>2, BaseInit, BaseStep, RecoveryStep, PTL DEF Spec

-----------------------------------------------------------------------------
(* The incidents live as IncidentLifecycle says                             *)

\* One incident is open at most, and none while a check opens another.
LoneOpen ==
  /\ \A i, j \in Incidents : incident[i].status = "open" /\ incident[j].status = "open" => i = j
  /\ check.pc = "decided" /\ check.step = "open" =>
       \A i \in Incidents : incident[i].status # "open"

\* Nothing but the commit of a check opens or closes an incident.
StatusesStay ==
  \A i \in Incidents : /\ incident'[i].status = "open" <=> incident[i].status = "open"
                       /\ incident'[i].status = "closed" <=> incident[i].status = "closed"

LEMMA OnlyCommitsOpenOrClose ==
  ASSUME Base, [Next]_vars, ~CheckCommit
  PROVE  StatusesStay
<1>0. incident \in [Incidents -> IncidentType] /\ CheckShape
  BY DEF Base, TypeOK
<1>1. ASSUME NEW j \in Incidents, DecideOpen(j) PROVE StatusesStay
  BY <1>0, <1>1 DEF DecideOpen, StatusesStay, IncidentType
<1>2. CASE CheckAbort
  BY <1>0, <1>2 DEF CheckAbort, CheckShape, StatusesStay, IncidentType
<1>3. ASSUME NEW n \in Notifiers, NotifyCommit(n) PROVE StatusesStay
  BY <1>3, AlertedRow DEF StatusesStay
<1>4. CASE incident' = incident
  BY <1>4 DEF StatusesStay
<1> QED
  BY <1>1, <1>2, <1>3, <1>4 DEF Next, vars, DecideStillDown, DecideRecovered, NotifyLoad, NotifyDies, Tick

\* A commit opens the incident of its check, closes it, or leaves it open.
LEMMA CommitMoves ==
  ASSUME Base, CheckCommit
  PROVE  /\ check.incident \in Incidents
         /\ \A i \in Incidents \ {check.incident} : incident'[i].status = incident[i].status
         /\ \/ /\ check.step = "open" /\ incident[check.incident].status = "flushed"
               /\ incident'[check.incident].status = "open"
            \/ /\ check.step = "close" /\ incident[check.incident].status = "open"
               /\ incident'[check.incident].status = "closed"
            \/ check.step = "still" /\ incident' = incident
<1>0. incident \in [Incidents -> IncidentType] /\ CheckShape /\ check.pc = "decided"
  BY DEF Base, TypeOK, CheckCommit
<1>1. check.incident \in Incidents /\ check.step \in {"open", "still", "close"}
  BY <1>0 DEF CheckShape
<1>2. CASE check.step = "open"
  BY <1>0, <1>1, <1>2 DEF CheckCommit, CheckShape, IncidentType
<1>3. CASE check.step = "close"
  BY <1>0, <1>1, <1>3 DEF CheckCommit, CheckShape, IncidentType
<1>4. CASE check.step = "still"
  BY <1>1, <1>4 DEF CheckCommit
<1> QED
  BY <1>1, <1>2, <1>3, <1>4

LEMMA LoneOpenStep == Base /\ LoneOpen /\ [Next]_vars => LoneOpen'
<1> SUFFICES ASSUME Base, LoneOpen, [Next]_vars PROVE LoneOpen'
  OBVIOUS
<1>1. CASE CheckCommit
  <2>1. check'.pc = "idle" /\ check.pc = "decided"
    BY <1>1 DEF CheckCommit, IdleCheck
  <2>2. \A i, j \in Incidents : incident'[i].status = "open" /\ incident'[j].status = "open" => i = j
    BY <1>1, <2>1, CommitMoves DEF LoneOpen
  <2> QED
    BY <2>1, <2>2 DEF LoneOpen
<1>2. CASE ~CheckCommit
  <2>1. StatusesStay
    BY <1>2, OnlyCommitsOpenOrClose
  <2>2. \A i, j \in Incidents : incident'[i].status = "open" /\ incident'[j].status = "open" => i = j
    BY <2>1 DEF LoneOpen, StatusesStay
  <2>3. ASSUME check'.pc = "decided", check'.step = "open", NEW i \in Incidents
        PROVE  incident[i].status # "open"
    <3>1. CASE \E j \in Incidents : DecideOpen(j)
      BY <3>1 DEF DecideOpen, OpenIncidents
    <3>2. CASE \E j \in Incidents : DecideStillDown(j) \/ DecideRecovered(j)
      BY <2>3, <3>2 DEF DecideStillDown, DecideRecovered
    <3>3. CASE CheckAbort
      BY <2>3, <3>3 DEF CheckAbort, IdleCheck
    <3>4. CASE check' = check
      BY <2>3, <3>4 DEF LoneOpen
    <3> QED
      BY <1>2, <3>1, <3>2, <3>3, <3>4 DEF Next, vars, NotifyLoad, NotifyCommit, NotifyDies, Tick
  <2>4. check'.pc = "decided" /\ check'.step = "open" =>
          \A i \in Incidents : incident'[i].status # "open"
    BY <2>1, <2>3 DEF StatusesStay
  <2> QED
    BY <2>2, <2>4 DEF LoneOpen
<1> QED
  BY <1>1, <1>2

LEMMA LifecycleStep ==
  ASSUME Base, LoneOpen, [Next]_vars
  PROVE  Lifecycle!LifecycleNext \/ UNCHANGED Lifecycle!LifecycleVars
<1> DEFINE closed == {i \in Incidents : incident[i].status = "closed"}
           open == [n \in Watched |-> OpenIncidents]
<1>m. PICK m \in Watched : \A n \in Watched : n = m
  BY DEF Watched
<1>0. /\ open' = [n \in Watched |-> OpenIncidents']
      /\ closed' = {i \in Incidents : incident'[i].status = "closed"}
      /\ OpenIncidents' = {i \in Incidents : incident'[i].status = "open"}
  BY DEF OpenIncidents
<1>1. ASSUME StatusesStay PROVE UNCHANGED Lifecycle!LifecycleVars
  <2>1. OpenIncidents' = OpenIncidents /\ closed' = closed
    BY <1>0, <1>1 DEF StatusesStay, OpenIncidents
  <2> QED
    BY <2>1 DEF Lifecycle!LifecycleVars, InStatus
<1>2. CASE CheckCommit
  <2>0. PICK i \in Incidents : i = check.incident
    BY <1>2, CommitMoves
  <2>a. check.pc = "decided"
    BY <1>2 DEF CheckCommit
  <2>1. CASE check.step = "open"
    <3>1. /\ OpenIncidents = {} /\ OpenIncidents' = {i} /\ closed' = closed /\ i \notin closed
      <4>1. /\ incident[i].status = "flushed" /\ incident'[i].status = "open"
            /\ \A j \in Incidents \ {i} : incident'[j].status = incident[j].status
            /\ \A j \in Incidents : incident[j].status # "open"
        BY <1>2, <2>0, <2>a, <2>1, CommitMoves DEF LoneOpen
      <4> QED
        BY <1>0, <2>0, <4>1 DEF OpenIncidents
    <3> HIDE DEF closed
    <3>2. open' = [open EXCEPT ![m] = {i}] /\ open[m] = {}
      BY <1>m, <1>0, <3>1
    <3>3. \A n \in Watched : i \notin open[n]
      BY <3>2
    <3>4. Lifecycle!OpenFor(m, i)
      BY <3>1, <3>2, <3>3 DEF Lifecycle!OpenFor, closed, InStatus
    <3> QED
      BY <3>4 DEF Lifecycle!LifecycleNext
  <2>2. CASE check.step = "close"
    <3>1. /\ OpenIncidents = {i} /\ OpenIncidents' = {} /\ closed' = closed \cup {i}
      <4>1. /\ incident[i].status = "open" /\ incident'[i].status = "closed"
            /\ \A j \in Incidents \ {i} : incident'[j].status = incident[j].status
            /\ \A j \in Incidents : incident[j].status = "open" => j = i
        BY <1>2, <2>0, <2>2, CommitMoves DEF LoneOpen
      <4> QED
        BY <1>0, <2>0, <4>1 DEF OpenIncidents
    <3> HIDE DEF closed
    <3>2. open' = [open EXCEPT ![m] = {}] /\ open[m] = {i}
      BY <1>m, <1>0, <3>1
    <3>3. Lifecycle!CloseFor(m, i)
      BY <3>1, <3>2 DEF Lifecycle!CloseFor, closed, InStatus
    <3> QED
      BY <3>3 DEF Lifecycle!LifecycleNext
  <2>3. CASE incident' = incident
    BY <1>1, <2>3 DEF StatusesStay
  <2> QED
    BY <1>2, <2>1, <2>2, <2>3, CommitMoves
<1>3. CASE ~CheckCommit
  BY <1>1, <1>3, OnlyCommitsOpenOrClose
<1> QED
  BY <1>2, <1>3

\* Alerts do not disturb the incidents they are about: these live as
\* IncidentLifecycle says, which CheckPipeline implements as well.
THEOREM AlertedIncidentsLive == Spec => RefinesLifecycle
<1>1. Init => Lifecycle!LifecycleInit
  BY DEF Init, Lifecycle!LifecycleInit, OpenIncidents, InStatus
<1>2. Init => LoneOpen
  BY DEF Init, LoneOpen, IdleCheck
<1> QED
  BY <1>1, <1>2, BaseInit, BaseStep, LoneOpenStep, LifecycleStep, PTL
     DEF Spec, RefinesLifecycle, Lifecycle!Spec

-----------------------------------------------------------------------------
(* An outage is reported once                                               *)

\* An identifier that a transaction holds without having committed it is that of
\* the open transaction.
Flushed ==
  \A i \in Incidents : incident[i].status = "flushed" =>
    check.pc = "decided" /\ check.step = "open" /\ check.incident = i

LEMMA FlushedStep == Base /\ Flushed /\ [Next]_vars => Flushed'
<1> SUFFICES ASSUME Base, Flushed, [Next]_vars PROVE Flushed'
  OBVIOUS
<1>0. incident \in [Incidents -> IncidentType] /\ CheckShape
  BY DEF Base, TypeOK
<1>1. ASSUME NEW j \in Incidents, DecideOpen(j) PROVE Flushed'
  BY <1>0, <1>1 DEF DecideOpen, Flushed, IncidentType
<1>2. ASSUME NEW j \in Incidents, DecideStillDown(j) \/ DecideRecovered(j) PROVE Flushed'
  BY <1>2 DEF DecideStillDown, DecideRecovered, Flushed
<1>3. CASE CheckCommit
  <2>1. \A i \in Incidents : incident'[i].status # "flushed"
    <3>1. check.incident \in Incidents /\ check.pc = "decided"
      BY <1>3, CommitMoves DEF CheckCommit
    <3>2. \A i \in Incidents \ {check.incident} : incident'[i].status = incident[i].status
      BY <1>3, CommitMoves
    <3>3. incident'[check.incident].status # "flushed"
      BY <1>3, <3>1, CommitMoves DEF Flushed
    <3> QED
      BY <3>2, <3>3 DEF Flushed
  <2> QED
    BY <2>1 DEF Flushed
<1>4. CASE CheckAbort
  BY <1>0, <1>4 DEF CheckAbort, CheckShape, Flushed, IncidentType
<1>5. ASSUME NEW n \in Notifiers, NotifyCommit(n) PROVE Flushed'
  <2>1. check' = check /\ \A i \in Incidents : incident'[i].status = incident[i].status
    BY <1>5, AlertedRow DEF NotifyCommit
  <2> QED
    BY <2>1 DEF Flushed
<1>6. CASE check' = check /\ incident' = incident
  BY <1>6 DEF Flushed
<1> QED
  BY <1>1, <1>2, <1>3, <1>4, <1>5, <1>6 DEF Next, vars, NotifyLoad, NotifyDies, Tick

\* The incidents that are open, or flushed by the check that opens one, are one.
LEMMA OneGoesOn ==
  ASSUME LoneOpen, Flushed
  PROVE  \A i, j \in InStatus("open") \cup InStatus("flushed") : i = j
BY DEF LoneOpen, Flushed, InStatus

LEMMA AtMostOne ==
  ASSUME NEW S, IsFiniteSet(S), \A i, j \in S : i = j
  PROVE  Cardinality(S) \in Nat /\ Cardinality(S) <= 1
<1>1. CASE S = {}
  BY <1>1, FS_EmptySet
<1>2. CASE S # {}
  <2>1. PICK x \in S : S = {x}
    BY <1>2
  <2>2. Cardinality({x}) = 1
    BY FS_Singleton
  <2> QED
    BY <2>1, <2>2
<1> QED
  BY <1>1, <1>2

\* Nothing is reported of an identifier that is free, so what is reported is
\* over, was rolled back, or is the outage that goes on.
LEMMA ReportedAreKnown ==
  ASSUME Base, OpeningInv, LoneOpen, Flushed
  PROVE  OutageReportedOnce
<1> DEFINE R == Reported("incident_opened")
           O == InStatus("open") \cup InStatus("flushed")
           C == InStatus("closed")
           L == InStatus("lost")
<1>1. R \subseteq (C \cup L) \cup O
  <2> SUFFICES ASSUME NEW i \in Incidents, alerts[i]["incident_opened"] > 0
               PROVE  i \in (C \cup L) \cup O
    BY DEF Reported
  <2>1. incident[i].status # "unused"
    <3>1. incident[i].status = "unused" => alerts[i]["incident_opened"] = 0
      BY DEF OpeningInv, NoneForUnused
    <3> QED
      BY <3>1
  <2>2. incident[i].status \in {"unused", "flushed", "lost", "open", "closed"}
    BY DEF Base, TypeOK, IncidentType
  <2> QED
    BY <2>1, <2>2 DEF InStatus
<1>2. IsFiniteSet(C) /\ IsFiniteSet(L) /\ IsFiniteSet(O)
  <2>1. C \in SUBSET Incidents /\ L \in SUBSET Incidents /\ O \in SUBSET Incidents
    BY DEF InStatus
  <2> QED
    BY <2>1, FS_Subset, IdentifierAssumption
<1>3. \A i, j \in O : i = j
  BY OneGoesOn
<1> HIDE DEF R, O, C, L
<1>4. Cardinality(O) \in Nat /\ Cardinality(O) <= 1
  BY <1>2, <1>3, AtMostOne
<1>5. /\ IsFiniteSet(C \cup L) /\ Cardinality(C \cup L) \in Nat
      /\ Cardinality(C) \in Nat /\ Cardinality(L) \in Nat
      /\ Cardinality(C \cup L) <= Cardinality(C) + Cardinality(L)
  <2>1. IsFiniteSet(C \cup L) /\ IsFiniteSet(C \cap L)
        /\ Cardinality(C \cup L) = Cardinality(C) + Cardinality(L) - Cardinality(C \cap L)
    BY <1>2, FS_Union, FS_Intersection
  <2>2. /\ Cardinality(C) \in Nat /\ Cardinality(L) \in Nat
        /\ Cardinality(C \cup L) \in Nat /\ Cardinality(C \cap L) \in Nat
    BY <1>2, <2>1, FS_CardinalityType
  <2> QED
    BY <2>1, <2>2
<1>6. /\ IsFiniteSet((C \cup L) \cup O) /\ Cardinality((C \cup L) \cup O) \in Nat
      /\ Cardinality((C \cup L) \cup O) <= Cardinality(C \cup L) + Cardinality(O)
  <2>1. IsFiniteSet((C \cup L) \cup O) /\ IsFiniteSet((C \cup L) \cap O)
        /\ Cardinality((C \cup L) \cup O)
             = Cardinality(C \cup L) + Cardinality(O) - Cardinality((C \cup L) \cap O)
    BY <1>2, <1>5, FS_Union, FS_Intersection
  <2>2. Cardinality((C \cup L) \cup O) \in Nat /\ Cardinality((C \cup L) \cap O) \in Nat
    BY <2>1, FS_CardinalityType
  <2> QED
    BY <1>4, <1>5, <2>1, <2>2
<1>7. Cardinality(R) \in Nat /\ Cardinality(R) <= Cardinality((C \cup L) \cup O)
  <2>1. IsFiniteSet(R) /\ Cardinality(R) <= Cardinality((C \cup L) \cup O)
    BY <1>1, <1>6, FS_Subset
  <2> QED
    BY <2>1, FS_CardinalityType
<1>8. Cardinality(R) <= Cardinality(C) + 1 + Cardinality(L)
  BY <1>4, <1>5, <1>6, <1>7
<1>9. \A i \in Incidents : alerts[i]["incident_opened"] <= 1
  BY DEF OpeningInv, OneAlert
<1> QED
  BY <1>8, <1>9 DEF OutageReportedOnce, R, C, L

\* An outage is reported again only after the death of a check that had reported
\* it: the checks take one incident at a time, and the identifier of the one
\* that was rolled back stays apart from the one that stands for the outage.
THEOREM OutagesReportedOnce == Spec => []OutageReportedOnce
<1>1. Init => LoneOpen /\ Flushed
  BY DEF Init, LoneOpen, Flushed, IdleCheck
<1> QED
  BY <1>1, BaseInit, BaseStep, OpeningInit, OpeningStep, LoneOpenStep, FlushedStep,
     ReportedAreKnown, PTL DEF Spec
=============================================================================
