------------------------- MODULE ExpiryAlertsProofs -------------------------
(***************************************************************************)
(* Machine-checked proofs about ExpiryAlerts, for any number of tasks, any   *)
(* set of thresholds and any bounds.                                         *)
(***************************************************************************)
EXTENDS ExpiryAlerts, FiniteSetTheorems, TLAPS

DatesFound == [Kinds -> Dates \cup {NoDate}]
ThresholdSets == [Kinds -> SUBSET Thresholds]
Warnings == [Kinds -> [Dates -> [Thresholds -> 0 .. Repeated]]]

LEMMA RepeatedType == Repeated \in Nat /\ Repeated > 0
BY ExpiryBoundAssumption DEF Repeated

\* A task that has fetched, and a row that is committed, are well typed.
LEMMA FetchedType ==
  ASSUME NEW now \in 0 .. Horizon, NEW found \in DatesFound
  PROVE  [pc |-> "fetched", now |-> now, loaded |-> NoRow, found |-> found,
          alerted_thresholds |-> [k \in Kinds |-> {}]] \in TaskType
<1>1. NoRow \in RowType
  BY ExpiryBoundAssumption DEF NoRow, RowType
<1>2. [k \in Kinds |-> {}] \in ThresholdSets
  BY DEF ThresholdSets
<1> QED
  BY <1>1, <1>2 DEF TaskType, DatesFound, ThresholdSets

LEMMA IdleTypes == NoRow \in RowType /\ IdleTask \in TaskType
<1>1. NoRow \in RowType
  BY ExpiryBoundAssumption DEF NoRow, RowType
<1> QED
  BY <1>1, ExpiryBoundAssumption DEF IdleTask, TaskType

LEMMA RowTypeOfFields ==
  ASSUME NEW now \in 0 .. Horizon, NEW dates \in DatesFound, NEW sent \in ThresholdSets
  PROVE  [exists |-> TRUE, last_checked_at |-> now, expires_at |-> dates,
          alerted_thresholds |-> sent] \in RowType
BY DEF RowType, DatesFound, ThresholdSets

\* Which threshold is due is a threshold, and what still counts as sent was sent.
LEMMA DueType ==
  ASSUME NEW row \in RowType, NEW k \in Kinds, NEW date, NEW now, NEW sent
  PROVE  /\ NextThreshold(date, now, sent) \subseteq Thresholds
         /\ StillSent(row, k, date) \subseteq row.alerted_thresholds[k]
         /\ row.alerted_thresholds[k] \subseteq Thresholds
<1>1. NextThreshold(date, now, sent) \subseteq Thresholds
  BY DEF NextThreshold, Pending
<1>2. StillSent(row, k, date) \subseteq row.alerted_thresholds[k]
  BY DEF StillSent
<1>3. row.alerted_thresholds[k] \subseteq Thresholds
  BY DEF RowType
<1> QED
  BY <1>1, <1>2, <1>3

LEMMA WarnedType ==
  ASSUME warnings \in Warnings, NEW k \in Kinds, NEW date, NEW due
  PROVE  /\ Warned(k, date, due) \in [Dates -> [Thresholds -> 0 .. Repeated]]
         /\ \A d \in Dates, t \in Thresholds :
              Warned(k, date, due)[d][t] =
                IF d = date /\ t \in due /\ warnings[k][d][t] < Repeated
                THEN warnings[k][d][t] + 1 ELSE warnings[k][d][t]
<1>1. ASSUME NEW d \in Dates, NEW t \in Thresholds
      PROVE  (IF d = date /\ t \in due /\ warnings[k][d][t] < Repeated
              THEN warnings[k][d][t] + 1 ELSE warnings[k][d][t]) \in 0 .. Repeated
  <2>1. warnings[k][d][t] \in 0 .. Repeated
    BY DEF Warnings
  <2> QED
    BY <2>1, RepeatedType
<1> QED
  BY <1>1 DEF Warned

-----------------------------------------------------------------------------
(* Types                                                                    *)

\* The two dictionaries that a check writes back.
SentAfter(p) ==
  [k \in Kinds |-> StillSent(status, k, task[p].found[k])
     \cup NextThreshold(task[p].found[k], task[p].now, StillSent(status, k, task[p].found[k]))]

LEMMA DecideStep ==
  ASSUME TypeOK, NEW p \in Tasks, Decide(p)
  PROVE  /\ SentAfter(p) \in ThresholdSets
         /\ task' = [task EXCEPT ![p] = [@ EXCEPT !.pc = "decided", !.loaded = status,
                                                  !.alerted_thresholds = SentAfter(p)]]
         /\ warnings' = [k \in Kinds |-> Warned(k, task[p].found[k],
              NextThreshold(task[p].found[k], task[p].now, StillSent(status, k, task[p].found[k])))]
<1>1. \A k \in Kinds : SentAfter(p)[k] \subseteq Thresholds
  BY DueType DEF SentAfter, TypeOK
<1>2. SentAfter(p) \in ThresholdSets
  BY <1>1 DEF SentAfter, ThresholdSets
<1> QED
  BY <1>2 DEF Decide, SentAfter

\* The task that has decided.
LEMMA DecidedTask ==
  ASSUME TypeOK, NEW p \in Tasks, Decide(p)
  PROVE  /\ task'[p] \in TaskType /\ task' = [task EXCEPT ![p] = task'[p]]
         /\ task'[p].pc = "decided" /\ task'[p].loaded = status
         /\ task'[p].alerted_thresholds = SentAfter(p) /\ task'[p].found = task[p].found
         /\ task'[p].now = task[p].now
<1> DEFINE new == [task[p] EXCEPT !.pc = "decided", !.loaded = status,
                                  !.alerted_thresholds = SentAfter(p)]
<1>1. task \in [Tasks -> TaskType] /\ task[p] \in TaskType /\ status \in RowType
  BY DEF TypeOK
<1>0. SentAfter(p) \in ThresholdSets
  BY DecideStep
<1>2. /\ new \in TaskType /\ new.pc = "decided" /\ new.loaded = status
      /\ new.alerted_thresholds = SentAfter(p) /\ new.found = task[p].found /\ new.now = task[p].now
  BY <1>0, <1>1 DEF TaskType, ThresholdSets
<1>3. task' = [task EXCEPT ![p] = new]
  BY DecideStep
<1> HIDE DEF new
<1>4. task'[p] = new
  BY <1>1, <1>3
<1> QED
  BY <1>2, <1>3, <1>4

\* The task that has fetched: a date of its day, or none.
LEMMA FetchStep ==
  ASSUME TypeOK, NEW p \in Tasks, Fetch(p)
  PROVE  /\ task[p].pc = "idle" /\ task'[p] \in TaskType /\ task'[p].pc = "fetched"
         /\ task' = [task EXCEPT ![p] = task'[p]]
         /\ \A q \in Tasks \ {p} : task'[q] = task[q]
         /\ \A k \in Kinds : task'[p].found[k] \in {NoDate, expiry[k]}
         /\ failures' \in 0 .. MaxFailures
         /\ UNCHANGED <<today, expiry, status, warnings, crashes, moved>>
<1>1. PICK failed \in SUBSET Kinds :
        /\ failures + Cardinality(failed) <= MaxFailures
        /\ failures' = failures + Cardinality(failed)
        /\ task' = [task EXCEPT ![p] =
             [pc |-> "fetched", now |-> today, loaded |-> NoRow,
              found |-> [k \in Kinds |-> IF k \in failed THEN NoDate ELSE expiry[k]],
              alerted_thresholds |-> [k \in Kinds |-> {}]]]
  BY DEF Fetch
<1> DEFINE found == [k \in Kinds |-> IF k \in failed THEN NoDate ELSE expiry[k]]
           new == [pc |-> "fetched", now |-> today, loaded |-> NoRow, found |-> found,
                   alerted_thresholds |-> [k \in Kinds |-> {}]]
<1>2. found \in DatesFound /\ \A k \in Kinds : found[k] \in {NoDate, expiry[k]}
  BY DEF DatesFound, TypeOK
<1>3. today \in 0 .. Horizon /\ task \in [Tasks -> TaskType]
  BY DEF TypeOK
<1> HIDE DEF found
<1>4. new \in TaskType /\ new.pc = "fetched" /\ new.found = found
  BY <1>2, <1>3, FetchedType
<1>5. task' = [task EXCEPT ![p] = new]
  BY <1>1 DEF found
<1> HIDE DEF new
<1>6. task'[p] = new /\ \A q \in Tasks \ {p} : task'[q] = task[q]
  BY <1>3, <1>5
<1>7. failures' \in 0 .. MaxFailures
  <2>1. IsFiniteSet(failed)
    BY KindsAssumption, FS_Subset
  <2>2. Cardinality(failed) \in Nat
    BY <2>1, FS_CardinalityType
  <2> QED
    BY <1>1, <2>2, ExpiryBoundAssumption DEF TypeOK
<1>8. task[p].pc = "idle" /\ UNCHANGED <<today, expiry, status, warnings, crashes, moved>>
  BY DEF Fetch
<1> QED
  BY <1>2, <1>4, <1>5, <1>6, <1>7, <1>8

LEMMA TypeStep == TypeOK /\ [Next]_vars => TypeOK'
<1> SUFFICES ASSUME TypeOK, [Next]_vars PROVE TypeOK'
  OBVIOUS
<1> USE DEF TypeOK
<1>1. ASSUME NEW p \in Tasks, Fetch(p) PROVE TypeOK'
  <2>1. overlapped' \in BOOLEAN
    BY <1>1 DEF Fetch
  <2>2. task' \in [Tasks -> TaskType]
    <3>1. task'[p] \in TaskType /\ task' = [task EXCEPT ![p] = task'[p]]
      BY <1>1, FetchStep
    <3> QED
      BY <3>1
  <2> QED
    BY <1>1, <2>1, <2>2, FetchStep
<1>2. ASSUME NEW p \in Tasks, Decide(p) PROVE TypeOK'
  <2>1. task' \in [Tasks -> TaskType]
    <3>1. task'[p] \in TaskType /\ task' = [task EXCEPT ![p] = task'[p]]
      BY <1>2, DecidedTask
    <3> QED
      BY <3>1
  <2>2. warnings' \in Warnings
    <3>1. warnings \in Warnings
      BY DEF Warnings
    <3> DEFINE W(k) == Warned(k, task[p].found[k],
              NextThreshold(task[p].found[k], task[p].now, StillSent(status, k, task[p].found[k])))
    <3>2. \A k \in Kinds : W(k) \in [Dates -> [Thresholds -> 0 .. Repeated]]
      BY <3>1, WarnedType
    <3>3. warnings' = [k \in Kinds |-> W(k)]
      BY <1>2, DecideStep
    <3> HIDE DEF W
    <3> QED
      BY <3>2, <3>3 DEF Warnings
  <2> QED
    BY <1>2, <2>1, <2>2 DEF Decide, Warnings
<1>3. ASSUME NEW p \in Tasks, Commit(p) PROVE TypeOK'
  <2> DEFINE t == task[p]
             dates == [k \in Kinds |->
               Written(status.expires_at[k], t.loaded.expires_at[k], t.found[k])]
             sent == [k \in Kinds |->
               Written(status.alerted_thresholds[k], t.loaded.alerted_thresholds[k],
                       t.alerted_thresholds[k])]
  <2>1. dates \in DatesFound /\ sent \in ThresholdSets /\ t.now \in 0 .. Horizon
    BY DEF DatesFound, ThresholdSets, Written, RowType, TaskType
  <2>2. status' = [exists |-> TRUE, last_checked_at |-> t.now, expires_at |-> dates,
                   alerted_thresholds |-> sent]
    BY <1>3 DEF Commit
  <2> HIDE DEF t, dates, sent
  <2>3. status' \in RowType
    BY <2>1, <2>2, RowTypeOfFields
  <2>4. task' \in [Tasks -> TaskType]
    BY <1>3, IdleTypes DEF Commit
  <2> QED
    BY <1>3, <2>3, <2>4 DEF Commit
<1>4. ASSUME NEW p \in Tasks, Conflict(p) PROVE TypeOK'
  BY <1>4, IdleTypes DEF Conflict
<1>5. ASSUME NEW p \in Tasks, Dies(p) PROVE TypeOK'
  BY <1>5, IdleTypes, ExpiryBoundAssumption DEF Dies
<1>6. ASSUME NEW k \in Kinds, Renew(k) PROVE TypeOK'
  BY <1>6 DEF Renew
<1>7. CASE NextDay
  BY <1>7, ExpiryBoundAssumption DEF NextDay
<1>8. CASE UNCHANGED vars
  BY <1>8 DEF vars
<1>9. CASE EditUrl
  <2>1. moved' \in 0 .. MaxMoves
    BY <1>9, ExpiryBoundAssumption DEF EditUrl
  <2> QED
    BY <1>9, <2>1 DEF EditUrl
<1> QED
  BY <1>1, <1>2, <1>3, <1>4, <1>5, <1>6, <1>7, <1>8, <1>9 DEF Next

LEMMA TypeInit == Init => TypeOK
<1> SUFFICES ASSUME Init PROVE TypeOK
  OBVIOUS
<1>1. warnings \in Warnings
  BY RepeatedType DEF Init, Warnings
<1>2. task \in [Tasks -> TaskType] /\ status \in RowType
  BY IdleTypes DEF Init
<1>3. today \in 0 .. Horizon /\ failures \in 0 .. MaxFailures /\ crashes \in 0 .. MaxCrashes
      /\ moved \in 0 .. MaxMoves
  BY ExpiryBoundAssumption DEF Init
<1>4. expiry \in [Kinds -> Dates] /\ overlapped \in BOOLEAN
  BY DEF Init
<1> QED
  BY <1>1, <1>2, <1>3, <1>4 DEF TypeOK, Warnings

\* Every variable keeps its type: the row of monitor_expiry_status, the tasks
\* and the counters of warnings.
THEOREM TypeCorrect == Spec => []TypeOK
BY TypeInit, TypeStep, PTL DEF Spec

-----------------------------------------------------------------------------
(* A recorded threshold was warned of                                       *)

SentBy(w, k, t) == \E d \in Dates : w[k][d][t] > 0

DecidedWereSent ==
  \A p \in Tasks : task[p].pc = "decided" =>
    \A k \in Kinds : \A t \in task[p].alerted_thresholds[k] : SentBy(warnings, k, t)

SentInv == RecordedThresholdsWereSent /\ DecidedWereSent

\* What a decision does to the counters: a warning that is due is counted, none
\* is forgotten.
LEMMA WarningsAfter ==
  ASSUME TypeOK, NEW p \in Tasks, Decide(p), NEW k \in Kinds, NEW d \in Dates, NEW t \in Thresholds
  PROVE  LET due == NextThreshold(task[p].found[k], task[p].now,
                                  StillSent(status, k, task[p].found[k]))
         IN /\ warnings[k][d][t] \in 0 .. Repeated
            /\ warnings'[k][d][t] =
                 IF d = task[p].found[k] /\ t \in due /\ warnings[k][d][t] < Repeated
                 THEN warnings[k][d][t] + 1 ELSE warnings[k][d][t]
<1> DEFINE due == NextThreshold(task[p].found[k], task[p].now,
                                StillSent(status, k, task[p].found[k]))
<1>1. warnings \in Warnings
  BY DEF TypeOK, Warnings
<1>2. warnings[k][d][t] \in 0 .. Repeated
  BY <1>1 DEF Warnings
<1>3. warnings'[k] = Warned(k, task[p].found[k], due)
  BY DecideStep
<1> HIDE DEF due
<1>4. warnings'[k][d][t] =
        IF d = task[p].found[k] /\ t \in due /\ warnings[k][d][t] < Repeated
        THEN warnings[k][d][t] + 1 ELSE warnings[k][d][t]
  BY <1>1, <1>3, WarnedType
<1> QED
  BY <1>2, <1>4 DEF due

LEMMA DueDate ==
  ASSUME NEW date, NEW now, NEW sent, NEW t \in NextThreshold(date, now, sent)
  PROVE  date # NoDate /\ t \in Thresholds /\ t \notin sent
BY DEF NextThreshold, Pending

LEMMA SentGrows ==
  ASSUME TypeOK, [Next]_vars, NEW k \in Kinds, NEW t \in Thresholds, SentBy(warnings, k, t)
  PROVE  SentBy(warnings', k, t)
<1>1. CASE warnings' = warnings
  BY <1>1
<1>2. ASSUME NEW p \in Tasks, Decide(p) PROVE SentBy(warnings', k, t)
  BY <1>2, WarningsAfter, RepeatedType DEF SentBy
<1> QED
  BY <1>1, <1>2 DEF Next, vars, Fetch, Commit, Conflict, Dies, Renew, EditUrl, NextDay

LEMMA SentStep == TypeOK /\ SentInv /\ [Next]_vars => SentInv'
<1> SUFFICES ASSUME TypeOK, SentInv, [Next]_vars PROVE SentInv'
  OBVIOUS
<1>0. /\ task \in [Tasks -> TaskType] /\ status \in RowType
      /\ \A p \in Tasks, k \in Kinds : /\ task[p].alerted_thresholds[k] \subseteq Thresholds
                                       /\ task[p].found[k] \in Dates \cup {NoDate}
      /\ \A k \in Kinds : status.alerted_thresholds[k] \subseteq Thresholds
  BY DEF TypeOK, TaskType, RowType
<1>1. \A k \in Kinds : \A t \in status.alerted_thresholds[k] : SentBy(warnings', k, t)
  BY <1>0, SentGrows DEF SentInv, RecordedThresholdsWereSent, Sent, SentBy
<1>2. \A p \in Tasks : task[p].pc = "decided" =>
        \A k \in Kinds : \A t \in task[p].alerted_thresholds[k] : SentBy(warnings', k, t)
  BY <1>0, SentGrows DEF SentInv, DecidedWereSent
<1>3. ASSUME NEW p \in Tasks, Decide(p)
      PROVE  SentInv'
  <2>1. ASSUME NEW k \in Kinds, NEW t \in SentAfter(p)[k]
        PROVE  SentBy(warnings', k, t)
    <3> DEFINE due == NextThreshold(task[p].found[k], task[p].now,
                                    StillSent(status, k, task[p].found[k]))
    <3>1. CASE t \in due
      <4>1. task[p].found[k] \in Dates /\ t \in Thresholds
        BY <1>0, <3>1, DueDate
      <4>2. warnings'[k][task[p].found[k]][t] > 0
        BY <1>3, <3>1, <4>1, WarningsAfter, RepeatedType
      <4> QED
        BY <4>1, <4>2 DEF SentBy
    <3>2. CASE t \in StillSent(status, k, task[p].found[k])
      BY <1>0, <1>1, <3>2, DueType
    <3> QED
      BY <2>1, <3>1, <3>2 DEF SentAfter
  <2>2. \A q \in Tasks \ {p} : task'[q] = task[q]
    BY <1>0, <1>3, DecideStep
  <2>3. task'[p].alerted_thresholds = SentAfter(p)
    BY <1>3, DecidedTask
  <2>4. DecidedWereSent'
    BY <1>2, <2>1, <2>2, <2>3 DEF DecidedWereSent
  <2>5. status' = status
    BY <1>3 DEF Decide
  <2> QED
    BY <1>1, <2>4, <2>5 DEF SentInv, RecordedThresholdsWereSent, Sent, SentBy
<1>4. ASSUME NEW p \in Tasks, Commit(p)
      PROVE  SentInv'
  <2>1. \A k \in Kinds : status'.alerted_thresholds[k] \in
                           {status.alerted_thresholds[k], task[p].alerted_thresholds[k]}
    BY <1>4 DEF Commit, Written
  <2>2. task[p].pc = "decided" /\ task' = [task EXCEPT ![p] = IdleTask] /\ IdleTask.pc = "idle"
    BY <1>4 DEF Commit, IdleTask
  <2>3. RecordedThresholdsWereSent'
    BY <1>1, <1>2, <2>1, <2>2 DEF RecordedThresholdsWereSent, Sent, SentBy
  <2>4. DecidedWereSent'
    BY <1>0, <1>2, <2>2 DEF DecidedWereSent
  <2> QED
    BY <2>3, <2>4 DEF SentInv
<1>5. CASE /\ status' = status
           /\ \A p \in Tasks : task'[p].pc = "decided" => task'[p] = task[p]
  BY <1>1, <1>2, <1>5 DEF SentInv, RecordedThresholdsWereSent, DecidedWereSent, Sent, SentBy
<1>6. ASSUME NEW p \in Tasks, Fetch(p) \/ Conflict(p) \/ Dies(p)
      PROVE  /\ status' = status
             /\ \A q \in Tasks : task'[q].pc = "decided" => task'[q] = task[q]
  <2>1. CASE Fetch(p)
    <3>1. /\ status' = status /\ task'[p].pc = "fetched"
          /\ \A q \in Tasks \ {p} : task'[q] = task[q]
      BY <2>1, FetchStep
    <3> QED
      BY <3>1
  <2>2. CASE Conflict(p) \/ Dies(p)
    BY <1>0, <2>2 DEF Conflict, Dies, IdleTask
  <2> QED
    BY <1>6, <2>1, <2>2
<1>7. (\E k \in Kinds : Renew(k)) \/ EditUrl \/ NextDay \/ UNCHANGED vars => status' = status /\ task' = task
  BY DEF Renew, EditUrl, NextDay, vars
<1> QED
  BY <1>3, <1>4, <1>5, <1>6, <1>7 DEF Next

\* A threshold that the row remembers was warned of, for some date of its kind,
\* whichever tasks overlap or die between the warning, the flush and the commit.
THEOREM RecordedMeansSent == Spec => []RecordedThresholdsWereSent
<1>1. Init => SentInv
  BY DEF Init, SentInv, RecordedThresholdsWereSent, DecidedWereSent, NoRow, IdleTask
<1>2. SentInv => RecordedThresholdsWereSent
  BY DEF SentInv
<1> QED
  BY <1>1, <1>2, TypeInit, TypeStep, SentStep, PTL DEF Spec

-----------------------------------------------------------------------------
(* A threshold is warned of once per date                                   *)

\* What excuses a second warning.
Extra == moved + crashes

Busy(p) == task[p].pc \in {"fetched", "decided"}

\* While no two tasks overlap the row is the one the task has loaded.
OneAtATime ==
  ~overlapped =>
    /\ \A p, q \in Tasks : Busy(p) /\ Busy(q) => p = q
    /\ \A p \in Tasks : task[p].pc = "decided" => task[p].loaded = status

\* The date d can be found no more, until an edit of the URL leads back to it.
Gone(k, d) ==
  /\ expiry[k] > d
  /\ \A p \in Tasks : Busy(p) => task[p].found[k] = NoDate \/ task[p].found[k] > d

NotBefore(date, d) == date = NoDate \/ date >= d
NotAfter(date, d) == date = NoDate \/ date <= d

\* What a warning leaves behind until its date is gone: its threshold, and a date
\* that is not before it, in the row or in the task that is about to write it.
Remembered(k, d, t) ==
  /\ expiry[k] >= d
  /\ \A p \in Tasks : Busy(p) => /\ NotBefore(task[p].found[k], d)
                                 /\ NotAfter(task[p].found[k], expiry[k])
  /\ (\A p \in Tasks : task[p].pc # "decided") =>
       /\ NotBefore(status.expires_at[k], d)
       /\ t \in status.alerted_thresholds[k] \/ Gone(k, d)
  /\ \A p \in Tasks : task[p].pc = "decided" =>
       t \in task[p].alerted_thresholds[k] \/ Gone(k, d)

\* A task may still hold a date that an edit of the URL has left meanwhile: it
\* warns of that date only if the edit was the excuse.
LeftBehind(k, d, t) ==
  \A p \in Tasks : task[p].pc = "fetched" /\ task[p].found[k] = d /\ expiry[k] < d =>
    warnings[k][d][t] < Extra \/ t \in StillSent(status, k, d)

Counted(k, d, t) ==
  /\ warnings[k][d][t] <= Extra + 1
  /\ warnings[k][d][t] > Extra => Remembered(k, d, t)
  /\ LeftBehind(k, d, t)

OnceInv ==
  /\ OneAtATime
  /\ ~overlapped => \A k \in Kinds, d \in Dates, t \in Thresholds : Counted(k, d, t)

\* A date is a number, but for NoDate.
LEMMA DatesAreInts ==
  ASSUME TypeOK
  PROVE  /\ \A d \in Dates : d \in Int /\ d # NoDate
         /\ \A k \in Kinds : expiry[k] \in Dates /\ status.expires_at[k] \in Dates \cup {NoDate}
         /\ \A p \in Tasks, k \in Kinds : task[p].found[k] \in Dates \cup {NoDate}
         /\ task \in [Tasks -> TaskType]
         /\ IdleTask.pc = "idle"
<1>1. \A d \in Dates : d \in Int /\ d # NoDate
  BY ExpiryBoundAssumption DEF Dates
<1>2. \A k \in Kinds : expiry[k] \in Dates /\ status.expires_at[k] \in Dates \cup {NoDate}
  BY DEF TypeOK, RowType
<1>3. \A p \in Tasks, k \in Kinds : task[p].found[k] \in Dates \cup {NoDate}
  BY DEF TypeOK, TaskType
<1> QED
  BY <1>1, <1>2, <1>3 DEF TypeOK, IdleTask

LEMMA CountsAreInts ==
  ASSUME TypeOK
  PROVE  /\ moved \in Nat /\ crashes \in Nat /\ Extra \in Nat
         /\ \A k \in Kinds, d \in Dates, t \in Thresholds : warnings[k][d][t] \in Int
<1>1. moved \in Nat /\ crashes \in Nat
  BY DEF TypeOK
<1>2. \A k \in Kinds, d \in Dates, t \in Thresholds : warnings[k][d][t] \in Int
  BY DEF TypeOK
<1> QED
  BY <1>1, <1>2 DEF Extra

LEMMA OnceFetch ==
  ASSUME TypeOK, OnceInv, NEW p \in Tasks, Fetch(p)
  PROVE  OnceInv'
<1>0. /\ task[p].pc = "idle" /\ task'[p].pc = "fetched"
      /\ \A q \in Tasks \ {p} : task'[q] = task[q]
      /\ \A k \in Kinds : task'[p].found[k] \in {NoDate, expiry[k]}
      /\ expiry' = expiry /\ status' = status /\ warnings' = warnings /\ Extra' = Extra
  BY FetchStep DEF Extra
<1>1. ~overlapped' => ~overlapped /\ \A q \in Tasks : task[q].pc = "idle"
  BY DEF Fetch
<1>2. OneAtATime'
  BY <1>0, <1>1 DEF OneAtATime, Busy, OnceInv
<1>3. ASSUME ~overlapped', NEW k \in Kinds, NEW d \in Dates, NEW t \in Thresholds
      PROVE  Counted(k, d, t)'
  <2>0. d \in Int /\ d # NoDate /\ expiry[k] \in Int
    BY DatesAreInts
  <2>1. Counted(k, d, t) /\ \A q \in Tasks : task[q].pc = "idle"
    BY <1>1, <1>3 DEF OnceInv
  <2>2. \A q \in Tasks : Busy(q)' => q = p
    BY <1>0, <2>1 DEF Busy
  <2>3. LeftBehind(k, d, t)'
    BY <1>0, <2>0, <2>2 DEF LeftBehind, Busy
  <2>4. ASSUME warnings[k][d][t] > Extra
        PROVE  Remembered(k, d, t)'
    <3>1. /\ expiry[k] >= d /\ NotBefore(status.expires_at[k], d)
          /\ t \in status.alerted_thresholds[k] \/ expiry[k] > d
      BY <2>1, <2>4 DEF Counted, Remembered, Gone
    <3>2. \A q \in Tasks : Busy(q)' => /\ NotBefore(task'[q].found[k], d)
                                       /\ NotAfter(task'[q].found[k], expiry[k])
      BY <1>0, <2>0, <2>2, <3>1 DEF NotBefore, NotAfter
    <3>3. expiry[k] > d => Gone(k, d)'
      BY <1>0, <2>2 DEF Gone
    <3>4. \A q \in Tasks : task'[q].pc # "decided"
      BY <1>0, <2>1
    <3> QED
      BY <1>0, <3>1, <3>2, <3>3, <3>4 DEF Remembered
  <2> QED
    BY <1>0, <2>1, <2>3, <2>4 DEF Counted
<1> QED
  BY <1>2, <1>3 DEF OnceInv

LEMMA OnceDecide ==
  ASSUME TypeOK, OnceInv, NEW p \in Tasks, Decide(p)
  PROVE  OnceInv'
<1>0. /\ task[p].pc = "fetched" /\ expiry' = expiry /\ status' = status
      /\ Extra' = Extra /\ overlapped' = overlapped
  BY DEF Decide, Extra
<1>1. /\ \A q \in Tasks \ {p} : task'[q] = task[q]
      /\ task'[p].pc = "decided" /\ task'[p].loaded = status
      /\ task'[p].alerted_thresholds = SentAfter(p) /\ task'[p].found = task[p].found
  BY DecidedTask, DatesAreInts
<1>2. OneAtATime'
  BY <1>0, <1>1 DEF OneAtATime, Busy, OnceInv
<1>3. ASSUME ~overlapped', NEW k \in Kinds, NEW d \in Dates, NEW t \in Thresholds
      PROVE  Counted(k, d, t)'
  <2> DEFINE f == task[p].found[k]
             still == StillSent(status, k, f)
             due == NextThreshold(f, task[p].now, still)
  <2>0. /\ f \in Dates \cup {NoDate} /\ d \in Int /\ d # NoDate /\ expiry[k] \in Int
        /\ f # NoDate => f \in Int
    BY DatesAreInts
  <2>1. Counted(k, d, t) /\ \A q \in Tasks : Busy(q) => q = p
    BY <1>0, <1>3 DEF OnceInv, OneAtATime, Busy
  <2>2. /\ \A q \in Tasks : task[q].pc # "decided"
        /\ \A q \in Tasks : Busy(q)' => q = p
    BY <1>0, <1>1, <2>1 DEF Busy
  <2>3. SentAfter(p)[k] = still \cup due
    BY DEF SentAfter
  <2>4. LeftBehind(k, d, t)'
    BY <1>1, <2>2 DEF LeftBehind, Busy
  <2>5. /\ warnings[k][d][t] \in Int /\ Extra \in Int
        /\ warnings'[k][d][t] = IF d = f /\ t \in due /\ warnings[k][d][t] < Repeated
                                THEN warnings[k][d][t] + 1 ELSE warnings[k][d][t]
    BY WarningsAfter, CountsAreInts
  <2>6. t \in due => f # NoDate /\ t \notin still
    BY DueDate
  <2>7. still = IF Renewed(status.expires_at[k], f) THEN {} ELSE status.alerted_thresholds[k]
    BY DEF StillSent
  <2>8. CASE warnings[k][d][t] > Extra
    <3> HIDE DEF still, due
    <3>1. warnings[k][d][t] = Extra + 1 /\ Remembered(k, d, t)
      BY <2>1, <2>5, <2>8 DEF Counted
    <3>2. /\ expiry[k] >= d /\ NotBefore(f, d) /\ NotAfter(f, expiry[k])
          /\ NotBefore(status.expires_at[k], d)
          /\ t \in status.alerted_thresholds[k] \/ (expiry[k] > d /\ (f = NoDate \/ f > d))
      BY <1>0, <2>2, <3>1 DEF Remembered, Gone, Busy
    <3>3. t \in still \/ (expiry[k] > d /\ (f = NoDate \/ f > d))
      <4>1. CASE Renewed(status.expires_at[k], f)
        <5>1. f # NoDate /\ status.expires_at[k] # NoDate /\ f > status.expires_at[k]
          BY <4>1 DEF Renewed
        <5>2. status.expires_at[k] >= d /\ status.expires_at[k] \in Int /\ f \in Int
          BY <2>0, <3>2, <5>1, DatesAreInts DEF NotBefore
        <5>3. f <= expiry[k]
          BY <3>2, <5>1 DEF NotAfter
        <5> QED
          BY <2>0, <5>1, <5>2, <5>3
      <4>2. CASE ~Renewed(status.expires_at[k], f)
        BY <2>7, <3>2, <4>2
      <4> QED
        BY <4>1, <4>2
    <3>4. ~(d = f /\ t \in due)
      BY <2>0, <2>6, <3>3
    <3>5. warnings'[k][d][t] = Extra + 1
      BY <2>5, <3>1, <3>4
    <3>6. expiry[k] > d /\ (f = NoDate \/ f > d) => Gone(k, d)'
      BY <1>0, <1>1, <2>2 DEF Gone
    <3>7. Remembered(k, d, t)'
      BY <1>0, <1>1, <2>2, <2>3, <3>2, <3>3, <3>6 DEF Remembered
    <3>8. warnings'[k][d][t] <= Extra + 1
      BY <2>5, <3>5
    <3> QED
      BY <1>0, <2>4, <3>7, <3>8 DEF Counted
  <2>9. CASE ~(warnings[k][d][t] > Extra)
    <3>1. warnings'[k][d][t] <= Extra + 1
      BY <2>5, <2>9
    <3>2. ASSUME warnings'[k][d][t] > Extra
          PROVE  Remembered(k, d, t)'
      <4>1. d = f /\ t \in due /\ warnings[k][d][t] = Extra
        BY <2>5, <2>9, <3>2
      <4>2. ~(expiry[k] < d)
        <5>1. LeftBehind(k, d, t)
          BY <2>1 DEF Counted
        <5>2. expiry[k] < d => warnings[k][d][t] < Extra \/ t \in StillSent(status, k, d)
          BY <1>0, <4>1, <5>1 DEF LeftBehind
        <5>3. t \notin StillSent(status, k, d)
          BY <2>6, <4>1
        <5> QED
          BY <2>5, <4>1, <5>2, <5>3
      <4> HIDE DEF still, due
      <4>3. NotBefore(f, d) /\ NotAfter(f, expiry[k]) /\ expiry[k] >= d
        BY <2>0, <4>1, <4>2 DEF NotBefore, NotAfter
      <4> QED
        BY <1>0, <1>1, <2>2, <2>3, <4>1, <4>3 DEF Remembered
    <3> QED
      BY <1>0, <2>4, <3>1, <3>2 DEF Counted
  <2> QED
    BY <2>8, <2>9
<1> QED
  BY <1>2, <1>3 DEF OnceInv

LEMMA OnceCommit ==
  ASSUME TypeOK, OnceInv, NEW p \in Tasks, Commit(p)
  PROVE  OnceInv'
<1>0. /\ task[p].pc = "decided" /\ expiry' = expiry /\ warnings' = warnings
      /\ Extra' = Extra /\ overlapped' = overlapped
      /\ \A q \in Tasks \ {p} : task'[q] = task[q]
      /\ task'[p].pc = "idle"
  BY DatesAreInts DEF Commit, Extra
<1>1. OneAtATime'
  BY <1>0 DEF OneAtATime, Busy, OnceInv
<1>2. ASSUME ~overlapped', NEW k \in Kinds, NEW d \in Dates, NEW t \in Thresholds
      PROVE  Counted(k, d, t)'
  <2>1. /\ Counted(k, d, t) /\ task[p].loaded = status
        /\ \A q \in Tasks : Busy(q) => q = p
    BY <1>0, <1>2 DEF OnceInv, OneAtATime, Busy
  <2>2. \A q \in Tasks : ~Busy(q)' /\ task'[q].pc # "decided" /\ task'[q].pc # "fetched"
    BY <1>0, <2>1 DEF Busy
  <2>3. /\ status'.expires_at[k] = task[p].found[k]
        /\ status'.alerted_thresholds[k] = task[p].alerted_thresholds[k]
    BY <2>1 DEF Commit, Written
  <2>4. ASSUME warnings[k][d][t] > Extra
        PROVE  Remembered(k, d, t)'
    <3>1. /\ expiry[k] >= d /\ NotBefore(task[p].found[k], d)
          /\ t \in task[p].alerted_thresholds[k] \/ expiry[k] > d
      BY <1>0, <2>1, <2>4 DEF Counted, Remembered, Gone, Busy
    <3>2. expiry[k] > d => Gone(k, d)'
      BY <1>0, <2>2 DEF Gone
    <3> QED
      BY <1>0, <2>2, <2>3, <3>1, <3>2 DEF Remembered, NotBefore
  <2>5. LeftBehind(k, d, t)'
    BY <2>2 DEF LeftBehind
  <2> QED
    BY <1>0, <2>1, <2>4, <2>5 DEF Counted
<1> QED
  BY <1>1, <1>2 DEF OnceInv

\* A step that leaves the tasks and the row alone and excuses one warning more.
LEMMA OnceExcused ==
  ASSUME TypeOK, OnceInv, NEW k \in Kinds, NEW d \in Dates, NEW t \in Thresholds, ~overlapped,
         warnings' = warnings, Extra' = Extra + 1
  PROVE  /\ warnings'[k][d][t] <= Extra' + 1
         /\ ~(warnings'[k][d][t] > Extra')
<1>1. warnings[k][d][t] \in Int /\ Extra \in Int
  BY CountsAreInts
<1>2. warnings[k][d][t] <= Extra + 1
  BY DEF OnceInv, Counted
<1> QED
  BY <1>1, <1>2

\* A task that ends without a commit has died or has been overtaken.
LEMMA OnceEnds ==
  ASSUME TypeOK, OnceInv, NEW p \in Tasks, Conflict(p) \/ Dies(p)
  PROVE  OnceInv'
<1>0. /\ expiry' = expiry /\ warnings' = warnings /\ status' = status
      /\ overlapped' = overlapped
      /\ \A q \in Tasks \ {p} : task'[q] = task[q]
      /\ task'[p].pc = "idle" /\ Busy(p)
  <2>1. task[p].pc \in {"idle", "fetched", "decided"}
    BY DEF TypeOK, TaskType
  <2> QED
    BY <2>1, DatesAreInts DEF Conflict, Dies, Busy
<1>1. OneAtATime'
  BY <1>0 DEF OneAtATime, Busy, OnceInv
<1>2. ASSUME ~overlapped', NEW k \in Kinds, NEW d \in Dates, NEW t \in Thresholds
      PROVE  Counted(k, d, t)'
  <2>1. Dies(p)
    BY <1>0, <1>2 DEF Conflict, OnceInv, OneAtATime
  <2>2. Extra' = Extra + 1
    BY <2>1, CountsAreInts DEF Dies, Extra
  <2>3. \A q \in Tasks : task'[q].pc # "fetched"
    BY <1>0, <1>2 DEF OnceInv, OneAtATime, Busy
  <2>4. LeftBehind(k, d, t)'
    BY <2>3 DEF LeftBehind
  <2> QED
    BY <1>0, <1>2, <2>2, <2>4, OnceExcused DEF Counted
<1> QED
  BY <1>1, <1>2 DEF OnceInv

\* The world's dates: the days do not matter, an edit of the URL counts when it
\* leads to an earlier date.
LEMMA WorldStep ==
  ASSUME TypeOK, (\E k \in Kinds : Renew(k)) \/ EditUrl \/ NextDay \/ UNCHANGED vars
  PROVE  /\ UNCHANGED <<status, task, warnings, overlapped, crashes, failures>>
         /\ \A k \in Kinds : expiry'[k] \in Dates
         /\ \/ moved' = moved + 1
            \/ moved' = moved /\ \A k \in Kinds : expiry'[k] >= expiry[k]
<1>1. /\ \A k \in Kinds : expiry[k] \in Int /\ expiry[k] \in Dates
      /\ expiry \in [Kinds -> Dates] /\ \A d \in Dates : d \in Int
  BY DatesAreInts DEF TypeOK
<1>2. ASSUME NEW j \in Kinds, Renew(j)
      PROVE  /\ UNCHANGED <<status, task, warnings, overlapped, crashes, failures, moved>>
             /\ \A k \in Kinds : expiry'[k] >= expiry[k] /\ expiry'[k] \in Dates
  <2>1. PICK e \in Dates : e > expiry[j] /\ expiry' = [expiry EXCEPT ![j] = e]
    BY <1>2 DEF Renew
  <2> QED
    BY <1>1, <1>2, <2>1 DEF Renew
<1>3. ASSUME EditUrl
      PROVE  /\ UNCHANGED <<status, task, warnings, overlapped, crashes, failures>>
             /\ \A k \in Kinds : expiry'[k] \in Dates
             /\ \/ moved' = moved + 1
                \/ moved' = moved /\ \A k \in Kinds : expiry'[k] >= expiry[k]
  <2>1. \A k \in Kinds : expiry'[k] \in Dates /\ expiry'[k] \in Int
    BY <1>1, <1>3 DEF EditUrl
  <2>2. (\A k \in Kinds : ~(expiry'[k] < expiry[k])) => \A k \in Kinds : expiry'[k] >= expiry[k]
    BY <1>1, <2>1
  <2> QED
    BY <1>3, <2>1, <2>2 DEF EditUrl
<1>4. ASSUME NextDay \/ UNCHANGED vars
      PROVE  UNCHANGED <<status, task, warnings, overlapped, crashes, failures, moved, expiry>>
  BY <1>4 DEF NextDay, vars
<1> QED
  BY <1>1, <1>2, <1>3, <1>4

LEMMA OnceWorld ==
  ASSUME TypeOK, OnceInv, (\E k \in Kinds : Renew(k)) \/ EditUrl \/ NextDay \/ UNCHANGED vars
  PROVE  OnceInv'
<1>0. /\ UNCHANGED <<status, task, warnings, overlapped, crashes>>
      /\ \A k \in Kinds : expiry'[k] \in Dates /\ expiry'[k] \in Int /\ expiry[k] \in Int
  BY WorldStep, DatesAreInts
<1>1. OneAtATime'
  BY <1>0 DEF OneAtATime, Busy, OnceInv
<1>2. ASSUME ~overlapped, NEW k \in Kinds, NEW d \in Dates, NEW t \in Thresholds,
             moved' = moved + 1
      PROVE  Counted(k, d, t)'
  <2>1. Extra' = Extra + 1 /\ Extra \in Int /\ warnings[k][d][t] \in Int /\ d \in Int
    BY <1>0, <1>2, CountsAreInts, DatesAreInts DEF Extra
  <2>2. Counted(k, d, t) /\ \A p, q \in Tasks : Busy(p) /\ Busy(q) => p = q
    BY <1>2 DEF OnceInv, OneAtATime
  <2>3. ASSUME NEW p \in Tasks, task[p].pc = "fetched", task[p].found[k] = d, expiry'[k] < d
        PROVE  warnings[k][d][t] < Extra + 1 \/ t \in StillSent(status, k, d)
    <3>1. CASE warnings[k][d][t] > Extra
      <4>1. /\ \A q \in Tasks : task[q].pc # "decided"
            /\ Busy(p) /\ d # NoDate
        BY <2>2, <2>3, DatesAreInts DEF Busy
      <4>a. ~Gone(k, d)
        BY <2>1, <2>3, <4>1 DEF Gone
      <4>2. NotBefore(status.expires_at[k], d) /\ t \in status.alerted_thresholds[k]
        BY <2>2, <3>1, <4>1, <4>a DEF Counted, Remembered
      <4>3. ~Renewed(status.expires_at[k], d)
        <5>1. status.expires_at[k] # NoDate => status.expires_at[k] \in Int
          BY DatesAreInts
        <5>2. status.expires_at[k] = NoDate \/ status.expires_at[k] >= d
          BY <4>2 DEF NotBefore
        <5> QED
          BY <2>1, <5>1, <5>2 DEF Renewed
      <4> QED
        BY <4>2, <4>3 DEF StillSent
    <3>2. CASE ~(warnings[k][d][t] > Extra)
      BY <2>1, <3>2
    <3> QED
      BY <3>1, <3>2
  <2>4. LeftBehind(k, d, t)'
    BY <1>0, <2>1, <2>3 DEF LeftBehind, StillSent
  <2> QED
    BY <1>0, <1>2, <2>1, <2>4, OnceExcused DEF Counted
<1>3. ASSUME ~overlapped, NEW k \in Kinds, NEW d \in Dates, NEW t \in Thresholds,
             moved' = moved, expiry'[k] >= expiry[k]
      PROVE  Counted(k, d, t)'
  <2>0. /\ Counted(k, d, t) /\ Extra' = Extra
        /\ d \in Int /\ expiry[k] \in Int /\ expiry'[k] \in Int
    BY <1>0, <1>3, DatesAreInts DEF OnceInv, Extra
  <2>1. Gone(k, d) => Gone(k, d)'
    BY <1>0, <1>3, <2>0 DEF Gone, Busy
  <2>2. ASSUME Remembered(k, d, t) PROVE Remembered(k, d, t)'
    <3>1. expiry'[k] >= d
      BY <1>3, <2>0, <2>2 DEF Remembered
    <3>2. ASSUME NEW p \in Tasks, Busy(p)
          PROVE  NotBefore(task[p].found[k], d) /\ NotAfter(task[p].found[k], expiry'[k])
      <4>1. NotBefore(task[p].found[k], d) /\ NotAfter(task[p].found[k], expiry[k])
        BY <2>2, <3>2 DEF Remembered
      <4>2. task[p].found[k] # NoDate => task[p].found[k] \in Int
        BY DatesAreInts
      <4> QED
        BY <1>3, <2>0, <4>1, <4>2 DEF NotAfter
    <3> QED
      BY <1>0, <2>1, <2>2, <3>1, <3>2 DEF Remembered, Busy
  <2>3. LeftBehind(k, d, t)'
    <3>1. expiry'[k] < d => expiry[k] < d
      BY <1>3, <2>0
    <3> QED
      BY <1>0, <2>0, <3>1 DEF Counted, LeftBehind, StillSent
  <2> QED
    BY <1>0, <2>0, <2>2, <2>3 DEF Counted
<1>4. \/ moved' = moved + 1
      \/ moved' = moved /\ \A k \in Kinds : expiry'[k] >= expiry[k]
  BY WorldStep
<1> QED
  BY <1>0, <1>1, <1>2, <1>3, <1>4 DEF OnceInv

LEMMA OnceStep == TypeOK /\ OnceInv /\ [Next]_vars => OnceInv'
BY OnceFetch, OnceDecide, OnceCommit, OnceEnds, OnceWorld DEF Next

\* While no two tasks overlap, a date is warned of once per threshold, and once
\* more for each process that dies and for each edit of the URL that leads to an
\* earlier date: a threshold that was warned of stays in the row until the date it
\* was for has passed, also when a fetch fails or the date is renewed meanwhile.
THEOREM WarnedOnce == Spec => []WarnedOncePerThreshold
<1>1. Init => OnceInv
  <2> SUFFICES ASSUME Init PROVE OnceInv
    OBVIOUS
  <2>1. \A p \in Tasks : task[p].pc = "idle"
    BY DEF Init, IdleTask
  <2>2. \A k \in Kinds, d \in Dates, t \in Thresholds : warnings[k][d][t] = 0
    BY DEF Init
  <2>3. Extra = 0
    BY DEF Init, Extra
  <2> QED
    BY <2>1, <2>2, <2>3 DEF OnceInv, OneAtATime, Counted, LeftBehind, Busy
<1>2. TypeOK /\ OnceInv => WarnedOncePerThreshold
  <2> SUFFICES ASSUME TypeOK, OnceInv, ~overlapped,
                      NEW k \in Kinds, NEW d \in Dates, NEW t \in Thresholds
               PROVE  warnings[k][d][t] <= 1 + moved + crashes
    BY DEF WarnedOncePerThreshold
  <2>1. warnings[k][d][t] <= Extra + 1
    BY DEF OnceInv, Counted
  <2> QED
    BY <2>1, CountsAreInts DEF Extra
<1> QED
  BY <1>1, <1>2, TypeInit, TypeStep, OnceStep, PTL DEF Spec

-----------------------------------------------------------------------------
(* A date that is close is warned of                                        *)

\* t is the tightest threshold reached with so many days left.
Tightest(t, left) == 0 <= left /\ left <= t /\ \A u \in Thresholds : u < t => u < left

WarnedFor(k, date, now) ==
  \A t \in Thresholds : Tightest(t, date - now) => warnings[k][date][t] > 0

SentFor(k, date, sent) == \A t \in sent : warnings[k][date][t] > 0

\* The row and the task speak of one date each, and the dates only grow.
CheckedRow ==
  \A k \in Kinds :
    /\ status.expires_at[k] = NoDate => status.alerted_thresholds[k] = {}
    /\ status.expires_at[k] # NoDate =>
         /\ status.expires_at[k] <= expiry[k]
         /\ SentFor(k, status.expires_at[k], status.alerted_thresholds[k])
         /\ WarnedFor(k, status.expires_at[k], status.last_checked_at)

CheckedTasks ==
  \A p \in Tasks, k \in Kinds : Busy(p) =>
    /\ task[p].found[k] \in Dates /\ task[p].found[k] <= expiry[k]
    /\ status.expires_at[k] # NoDate => status.expires_at[k] <= task[p].found[k]
    /\ task[p].pc = "decided" =>
         /\ SentFor(k, task[p].found[k], task[p].alerted_thresholds[k])
         /\ WarnedFor(k, task[p].found[k], task[p].now)

Undisturbed == ~overlapped /\ failures = 0 /\ moved = 0

DueInv == OneAtATime /\ (Undisturbed => CheckedRow /\ CheckedTasks)

LEMMA OneAtATimeStep == TypeOK /\ OneAtATime /\ [Next]_vars => OneAtATime'
<1> SUFFICES ASSUME TypeOK, OneAtATime, [Next]_vars PROVE OneAtATime'
  OBVIOUS
<1>1. ASSUME NEW p \in Tasks, Fetch(p) PROVE OneAtATime'
  <2>1. ~overlapped' => \A q \in Tasks : task[q].pc = "idle"
    BY <1>1 DEF Fetch
  <2>2. task'[p].pc = "fetched" /\ \A q \in Tasks \ {p} : task'[q] = task[q]
    BY <1>1, FetchStep
  <2> QED
    BY <2>1, <2>2 DEF OneAtATime, Busy
<1>2. ASSUME NEW p \in Tasks, Decide(p) PROVE OneAtATime'
  <2>1. /\ \A q \in Tasks \ {p} : task'[q] = task[q]
        /\ task'[p].pc = "decided" /\ task'[p].loaded = status
        /\ task[p].pc = "fetched" /\ status' = status /\ overlapped' = overlapped
    BY <1>2, DecidedTask, DatesAreInts DEF Decide
  <2> QED
    BY <2>1 DEF OneAtATime, Busy
<1>3. ASSUME NEW p \in Tasks, Commit(p) \/ Conflict(p) \/ Dies(p) PROVE OneAtATime'
  <2>1. /\ \A q \in Tasks \ {p} : task'[q] = task[q]
        /\ task'[p].pc = "idle" /\ task[p].pc # "idle" /\ overlapped' = overlapped
        /\ status' = status \/ task[p].pc = "decided"
    BY <1>3, DatesAreInts DEF Commit, Conflict, Dies
  <2>2. task[p].pc \in {"idle", "fetched", "decided"}
    BY DEF TypeOK, TaskType
  <2> QED
    BY <2>1, <2>2 DEF OneAtATime, Busy
<1>4. (\E k \in Kinds : Renew(k)) \/ EditUrl \/ NextDay \/ UNCHANGED vars
        => UNCHANGED <<task, status, overlapped>>
  BY DEF Renew, EditUrl, NextDay, vars
<1>5. UNCHANGED <<task, status, overlapped>> => OneAtATime'
  BY DEF OneAtATime, Busy
<1> QED
  BY <1>1, <1>2, <1>3, <1>4, <1>5 DEF Next

\* A counter that is above zero stays above zero.
LEMMA CountStays ==
  ASSUME TypeOK, [Next]_vars, NEW k \in Kinds, NEW d \in Dates, NEW t \in Thresholds,
         warnings[k][d][t] > 0
  PROVE  warnings'[k][d][t] > 0
<1>1. CASE warnings' = warnings
  BY <1>1
<1>2. ASSUME NEW p \in Tasks, Decide(p) PROVE warnings'[k][d][t] > 0
  BY <1>2, WarningsAfter
<1> QED
  BY <1>1, <1>2 DEF Next, vars, Fetch, Commit, Conflict, Dies, Renew, EditUrl, NextDay

\* Fetching without a failure finds the date of the world.
LEMMA DueFetch ==
  ASSUME TypeOK, DueInv, NEW p \in Tasks, Fetch(p), Undisturbed'
  PROVE  CheckedRow' /\ CheckedTasks'
<1>0. /\ task[p].pc = "idle" /\ task'[p].pc = "fetched"
      /\ \A q \in Tasks \ {p} : task'[q] = task[q]
      /\ UNCHANGED <<expiry, status, warnings, moved>>
  BY FetchStep
<1>1. PICK failed \in SUBSET Kinds :
        /\ failures' = failures + Cardinality(failed)
        /\ task' = [task EXCEPT ![p] =
             [pc |-> "fetched", now |-> today, loaded |-> NoRow,
              found |-> [k \in Kinds |-> IF k \in failed THEN NoDate ELSE expiry[k]],
              alerted_thresholds |-> [k \in Kinds |-> {}]]]
  BY DEF Fetch
<1>2. failures = 0 /\ failed = {}
  <2>1. IsFiniteSet(failed)
    BY KindsAssumption, FS_Subset
  <2>2. Cardinality(failed) \in Nat /\ (Cardinality(failed) = 0 => failed = {})
    BY <2>1, FS_CardinalityType, FS_EmptySet
  <2>3. failures \in Nat /\ failures' = 0
    BY DEF TypeOK, Undisturbed
  <2> QED
    BY <1>1, <2>2, <2>3
<1>3. \A k \in Kinds : task'[p].found[k] = expiry[k]
  <2> DEFINE found == [k \in Kinds |-> IF k \in failed THEN NoDate ELSE expiry[k]]
             new == [pc |-> "fetched", now |-> today, loaded |-> NoRow, found |-> found,
                     alerted_thresholds |-> [k \in Kinds |-> {}]]
  <2>1. \A k \in Kinds : found[k] = expiry[k]
    BY <1>2
  <2>2. new.found = found
    OBVIOUS
  <2>3. task' = [task EXCEPT ![p] = new] /\ task \in [Tasks -> TaskType]
    BY <1>1 DEF TypeOK
  <2> HIDE DEF new
  <2>4. task'[p] = new
    BY <2>3
  <2> QED
    BY <2>1, <2>2, <2>4
<1>4. Undisturbed /\ \A q \in Tasks : task[q].pc = "idle"
  BY <1>0, <1>2 DEF Fetch, Undisturbed
<1>5. CheckedRow'
  BY <1>0, <1>4 DEF DueInv, CheckedRow, SentFor, WarnedFor
<1>6. CheckedTasks'
  BY <1>0, <1>3, <1>4, DatesAreInts DEF DueInv, CheckedRow, CheckedTasks, Busy
<1> QED
  BY <1>5, <1>6

\* Either the tightest threshold is due, or it was warned of for the same date.
LEMMA DueDecide ==
  ASSUME TypeOK, DueInv, NEW p \in Tasks, Decide(p), Undisturbed'
  PROVE  CheckedRow' /\ CheckedTasks'
<1>0. /\ task[p].pc = "fetched" /\ UNCHANGED <<expiry, status, overlapped, failures, moved>>
      /\ \A q \in Tasks \ {p} : task'[q] = task[q]
      /\ task'[p].pc = "decided" /\ task'[p].alerted_thresholds = SentAfter(p)
      /\ task'[p].found = task[p].found /\ task'[p].now = task[p].now
  BY DecidedTask, DatesAreInts DEF Decide
<1>1. CheckedRow /\ CheckedTasks /\ \A q \in Tasks : Busy(q) => q = p
  BY <1>0 DEF DueInv, Undisturbed, OneAtATime, Busy
<1>2. \A k \in Kinds : /\ status.alerted_thresholds[k] \subseteq Thresholds
                       /\ status.expires_at[k] \in Dates \cup {NoDate}
  BY DEF TypeOK, RowType
<1>a. ASSUME NEW k \in Kinds, NEW d \in Dates, NEW t \in Thresholds, warnings[k][d][t] > 0
      PROVE  warnings'[k][d][t] > 0
  <2>1. [Next]_vars
    BY DEF Next
  <2> QED
    BY <1>a, <2>1, CountStays
<1>3. CheckedRow'
  BY <1>0, <1>1, <1>2, <1>a DEF CheckedRow, SentFor, WarnedFor
<1>4. ASSUME NEW k \in Kinds
      PROVE  LET f == task[p].found[k]
             IN /\ \A t \in SentAfter(p)[k] : warnings'[k][f][t] > 0
                /\ \A t \in Thresholds : Tightest(t, f - task[p].now) => warnings'[k][f][t] > 0
  <2> DEFINE f == task[p].found[k]
             still == StillSent(status, k, f)
             due == NextThreshold(f, task[p].now, still)
  <2>1. /\ f \in Dates /\ f \in Int /\ f # NoDate /\ f <= expiry[k]
        /\ status.expires_at[k] # NoDate => status.expires_at[k] <= f
    BY <1>0, <1>1, DatesAreInts DEF CheckedTasks, Busy
  <2>2. SentAfter(p)[k] = still \cup due
    BY DEF SentAfter
  <2>3. ASSUME NEW t \in still PROVE t \in Thresholds /\ warnings'[k][f][t] > 0
    <3>1. t \in status.alerted_thresholds[k] /\ ~Renewed(status.expires_at[k], f)
      BY <2>3 DEF StillSent
    <3>2. status.expires_at[k] # NoDate /\ status.expires_at[k] \in Int
      BY <1>1, <1>2, <3>1, DatesAreInts DEF CheckedRow
    <3>3. status.expires_at[k] = f
      BY <2>1, <3>1, <3>2 DEF Renewed
    <3>4. t \in Thresholds /\ warnings[k][f][t] > 0
      BY <1>1, <1>2, <3>1, <3>2, <3>3 DEF CheckedRow, SentFor
    <3> QED
      BY <1>a, <2>1, <3>4
  <2>4. ASSUME NEW t \in due PROVE t \in Thresholds /\ warnings'[k][f][t] > 0
    <3>1. t \in Thresholds
      BY <2>4, DueDate
    <3> QED
      BY <2>1, <2>4, <3>1, WarningsAfter, RepeatedType
  <2>5. ASSUME NEW t \in Thresholds, Tightest(t, f - task[p].now), t \notin still
        PROVE  t \in due
    <3>1. task[p].now \in Int /\ t \in Int /\ \A u \in Thresholds : u \in Int
      BY ThresholdAssumption, ExpiryBoundAssumption DEF TypeOK, TaskType
    <3>2. ~(f < task[p].now)
      BY <2>1, <2>5, <3>1 DEF Tightest
    <3>3. t \in Pending(f, task[p].now, still)
      <4>1. f - task[p].now <= t
        BY <2>5 DEF Tightest
      <4> HIDE DEF still, f
      <4> QED
        BY <2>1, <2>5, <3>2, <4>1 DEF Pending
    <3>4. ASSUME NEW u \in Pending(f, task[p].now, still) PROVE t <= u
      <4>1. u \in Thresholds /\ f - task[p].now <= u
        BY <2>1, <3>2, <3>4 DEF Pending
      <4>2. u < t => u < f - task[p].now
        BY <2>5, <4>1 DEF Tightest
      <4>3. u \in Int /\ t \in Int /\ f - task[p].now \in Int
        BY <2>1, <3>1, <4>1
      <4> QED
        BY ONLY <4>1, <4>2, <4>3
    <3> QED
      BY <3>3, <3>4 DEF NextThreshold
  <2> HIDE DEF still, due
  <2> QED
    BY <2>2, <2>3, <2>4, <2>5
<1>5. CheckedTasks'
  BY <1>0, <1>1, <1>4 DEF CheckedTasks, Busy, SentFor, WarnedFor
<1> QED
  BY <1>3, <1>5

LEMMA DueCommit ==
  ASSUME TypeOK, DueInv, NEW p \in Tasks, Commit(p), Undisturbed'
  PROVE  CheckedRow' /\ CheckedTasks'
<1>0. /\ task[p].pc = "decided" /\ UNCHANGED <<expiry, warnings, overlapped, failures, moved>>
      /\ \A q \in Tasks \ {p} : task'[q] = task[q]
      /\ task'[p].pc = "idle"
  BY DatesAreInts DEF Commit
<1>1. /\ CheckedTasks /\ task[p].loaded = status
      /\ \A q \in Tasks : Busy(q) => q = p
  BY <1>0 DEF DueInv, Undisturbed, OneAtATime, Busy
<1>2. /\ status'.last_checked_at = task[p].now
      /\ \A k \in Kinds : /\ status'.expires_at[k] = task[p].found[k]
                          /\ status'.alerted_thresholds[k] = task[p].alerted_thresholds[k]
  BY <1>1 DEF Commit, Written
<1>3. CheckedRow'
  BY <1>0, <1>1, <1>2, DatesAreInts DEF CheckedRow, CheckedTasks, Busy, SentFor, WarnedFor
<1>4. CheckedTasks'
  BY <1>0, <1>1 DEF CheckedTasks, Busy
<1> QED
  BY <1>3, <1>4

LEMMA DueRest ==
  ASSUME TypeOK, DueInv, Undisturbed',
         \/ \E p \in Tasks : Conflict(p) \/ Dies(p)
         \/ (\E k \in Kinds : Renew(k)) \/ EditUrl \/ NextDay \/ UNCHANGED vars
  PROVE  CheckedRow' /\ CheckedTasks'
<1>1. /\ UNCHANGED <<status, warnings, overlapped, failures>> /\ moved = 0
      /\ \A p \in Tasks : task'[p] = task[p] \/ task'[p].pc = "idle"
      /\ \A k \in Kinds : expiry'[k] >= expiry[k] /\ expiry'[k] \in Dates
  <2>1. moved' = 0 /\ moved \in Nat /\ \A k \in Kinds : expiry[k] \in Int /\ expiry[k] \in Dates
    BY DatesAreInts, CountsAreInts DEF Undisturbed
  <2>2. ASSUME NEW p \in Tasks, Conflict(p) \/ Dies(p)
        PROVE  /\ UNCHANGED <<status, warnings, overlapped, failures, expiry, moved>>
               /\ \A q \in Tasks : task'[q] = task[q] \/ task'[q].pc = "idle"
    BY <2>2, DatesAreInts DEF Conflict, Dies
  <2>3. CASE (\E k \in Kinds : Renew(k)) \/ EditUrl \/ NextDay \/ UNCHANGED vars
    BY <2>1, <2>3, WorldStep
  <2> QED
    BY <2>1, <2>2, <2>3
<1>2. CheckedRow /\ CheckedTasks
  BY <1>1 DEF DueInv, Undisturbed
<1>3. \A k \in Kinds : /\ expiry[k] \in Int /\ expiry'[k] \in Int
                       /\ status.expires_at[k] # NoDate => status.expires_at[k] \in Int
                       /\ \A p \in Tasks : task[p].found[k] \in Dates => task[p].found[k] \in Int
  BY <1>1, DatesAreInts
<1>4. CheckedRow'
  <2>1. ASSUME NEW k \in Kinds, status.expires_at[k] # NoDate
        PROVE  status.expires_at[k] <= expiry'[k]
    BY <1>1, <1>2, <1>3, <2>1 DEF CheckedRow
  <2> QED
    BY <1>1, <1>2, <2>1 DEF CheckedRow, SentFor, WarnedFor
<1>5. CheckedTasks'
  <2>1. ASSUME NEW p \in Tasks, NEW k \in Kinds, Busy(p)
        PROVE  task[p].found[k] <= expiry'[k]
    BY <1>1, <1>2, <1>3, <2>1 DEF CheckedTasks
  <2> QED
    BY <1>1, <1>2, <2>1 DEF CheckedTasks, Busy, SentFor, WarnedFor
<1> QED
  BY <1>4, <1>5

LEMMA DueStep == TypeOK /\ DueInv /\ [Next]_vars => DueInv'
BY OneAtATimeStep, DueFetch, DueDecide, DueCommit, DueRest DEF Next, DueInv

\* While no fetch fails, no edit of the URL leads to an earlier date and no two
\* tasks overlap, a stored date that is close was warned of at the tightest threshold its last check had reached, also when
\* tasks die: the row and the warnings speak of the same date.
THEOREM CloseDateWarned == Spec => []ExpiringDateIsWarned
<1>1. Init => DueInv
  <2> SUFFICES ASSUME Init PROVE DueInv
    OBVIOUS
  <2>1. \A p \in Tasks : task[p].pc = "idle"
    BY DEF Init, IdleTask
  <2>2. \A k \in Kinds : status.expires_at[k] = NoDate /\ status.alerted_thresholds[k] = {}
    BY DEF Init, NoRow
  <2> QED
    BY <2>1, <2>2 DEF DueInv, OneAtATime, CheckedRow, CheckedTasks, Busy
<1>2. DueInv => ExpiringDateIsWarned
  BY DEF DueInv, Undisturbed, CheckedRow, WarnedFor, Tightest, ExpiringDateIsWarned
<1> QED
  BY <1>1, <1>2, TypeInit, TypeStep, DueStep, PTL DEF Spec
=============================================================================
