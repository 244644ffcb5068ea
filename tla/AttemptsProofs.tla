--------------------------- MODULE AttemptsProofs ---------------------------
(***************************************************************************)
(* Machine-checked proofs about the two components that count attempts:    *)
(* the probe (ProbeLoop), which gives up after some, and the limiter of    *)
(* the authentication routes (RateLimiter), which refuses too many.  The   *)
(* two share nothing; each has its own part.                               *)
(***************************************************************************)
EXTENDS ProbeLoop, RateLimiter, SequenceTheorems, FiniteSetTheorems, TLAPS

-----------------------------------------------------------------------------
(***************************************************************************)
(* Probe: what it guarantees for every number of retries.  The invariants  *)
(* of the finished probe are not inductive: LoopInv says what the loop has *)
(* established by the beginning of each attempt, and what its exit adds.   *)
(***************************************************************************)

Failed(seq) == \A k \in DOMAIN seq : IsProbeFailure(seq[k])

\* Before attempt n there were n - 1 attempts, and all of them failed.
AttemptInv ==
  pc \in {"lookup", "request"} => Len(outcomes) = attempt - 1 /\ Failed(outcomes)

\* The last attempt decides; if it failed, it was the last one allowed.
ExitInv ==
  pc = "done" =>
    /\ Len(outcomes) = attempt
    /\ result.status = outcomes[attempt]
    /\ \A k \in 1 .. attempt - 1 : IsProbeFailure(outcomes[k])
    /\ IsProbeFailure(result.status) => attempt = MaxRetries + 1
    /\ result.retry_count = attempt - 1
    /\ {result.response, result.error} = {0, attempt}
    /\ result.network # 0 => result.network = result.response

EscapeInv == pc = "escaped" => Failed(outcomes)

LoopInv == TypeOK /\ AttemptInv /\ ExitInv /\ EscapeInv

-----------------------------------------------------------------------------
\* Exactly the failures are retried.
LEMMA RetryableIsFailure ==
  ASSUME NEW s \in Statuses
  PROVE  IsRetryableStatus(s) <=> IsProbeFailure(s)
  BY DEF Statuses, IsRetryableStatus, IsProbeFailure

\* Appending one outcome to the ones before it.
LEMMA AppendOutcome ==
  ASSUME NEW seq \in Seq(Statuses), NEW s \in Statuses
  PROVE  /\ Append(seq, s) \in Seq(Statuses)
         /\ Len(Append(seq, s)) = Len(seq) + 1
         /\ Append(seq, s)[Len(seq) + 1] = s
         /\ \A k \in 1 .. Len(seq) : Append(seq, s)[k] = seq[k]
         /\ DOMAIN Append(seq, s) = 1 .. Len(seq) + 1
  OBVIOUS

\* An attempt that ends with status s and hands a complete result to the loop
\* keeps the invariant, whether the loop goes on or breaks.
LEMMA EndOfAttempt ==
  ASSUME LoopInv, pc \in {"lookup", "request"},
         NEW s \in Statuses,
         outcomes' = Append(outcomes, s),
         result' \in ResultType, result'.status = s, result'.retry_count = attempt - 1,
         {result'.response, result'.error} = {0, attempt},
         result'.network # 0 => result'.network = result'.response,
         Continue(s)
  PROVE  LoopInv'
<1>1. /\ attempt \in 1 .. MaxRetries + 1 /\ MaxRetries \in Nat
      /\ outcomes \in Seq(Statuses) /\ Len(outcomes) = attempt - 1
      /\ Failed(outcomes)
  BY RetriesAssumption DEF LoopInv, TypeOK, AttemptInv
<1>2. /\ outcomes' \in Seq(Statuses)
      /\ Len(outcomes') = attempt
      /\ outcomes'[attempt] = s
      /\ \A k \in 1 .. attempt - 1 : outcomes'[k] = outcomes[k]
      /\ DOMAIN outcomes' = 1 .. attempt
  <2>1. Len(outcomes) + 1 = attempt
    BY <1>1
  <2> QED
    BY <1>1, <2>1, AppendOutcome
<1>3. \A k \in 1 .. attempt - 1 : IsProbeFailure(outcomes'[k])
  <2>1. DOMAIN outcomes = 1 .. attempt - 1
    BY <1>1
  <2> QED
    BY <1>1, <1>2, <2>1 DEF Failed
<1>4. CASE IsRetryableStatus(s) /\ attempt <= MaxRetries
  <2>1. pc' = "lookup" /\ attempt' = attempt + 1
    BY <1>4 DEF Continue
  <2>2. IsProbeFailure(s)
    BY <1>4, RetryableIsFailure
  <2>3. \A k \in 1 .. attempt : IsProbeFailure(outcomes'[k])
    BY <1>1, <1>2, <1>3, <2>2
  <2>4. Failed(outcomes')
    BY <1>2, <2>3 DEF Failed
  <2>5. attempt' \in 1 .. MaxRetries + 1 /\ Len(outcomes') = attempt' - 1
    BY <1>1, <1>2, <1>4, <2>1
  <2> QED
    BY <1>2, <2>1, <2>4, <2>5 DEF LoopInv, TypeOK, AttemptInv, ExitInv, EscapeInv, Failed
<1>5. CASE ~(IsRetryableStatus(s) /\ attempt <= MaxRetries)
  <2>1. pc' = "done" /\ attempt' = attempt
    BY <1>5 DEF Continue
  <2>2. IsProbeFailure(s) => attempt = MaxRetries + 1
    BY <1>1, <1>5, RetryableIsFailure
  <2>3. TypeOK'
    BY <1>1, <1>2, <2>1 DEF TypeOK
  <2>4. ExitInv'
    BY <1>2, <1>3, <2>1, <2>2 DEF ExitInv
  <2> QED
    BY <2>1, <2>3, <2>4 DEF LoopInv, AttemptInv, EscapeInv
<1> QED
  BY <1>4, <1>5

\* A failing attempt clears the response and sets the error.
LEMMA FailStep ==
  ASSUME LoopInv, pc \in {"lookup", "request"}, NEW s \in Statuses, Fail(s), Continue(s)
  PROVE  LoopInv'
<1>1. attempt \in 1 .. MaxRetries + 1 /\ MaxRetries \in Nat
  BY RetriesAssumption DEF LoopInv, TypeOK
<1>2. /\ result' \in ResultType /\ result'.status = s /\ result'.retry_count = attempt - 1
      /\ result'.response = 0 /\ result'.error = attempt /\ result'.network = 0
  BY <1>1 DEF Fail, ResultType, Sources
<1>3. {result'.response, result'.error} = {0, attempt}
  BY <1>2
<1>4. outcomes' = Append(outcomes, s)
  BY DEF Fail
<1> QED
  BY <1>2, <1>3, <1>4, EndOfAttempt

\* The invariant holds before the first attempt.
LEMMA LoopInit ==
  ASSUME Init
  PROVE  LoopInv
  BY RetriesAssumption DEF Init, LoopInv, TypeOK, AttemptInv, ExitInv, EscapeInv, Failed,
     ResultType, Statuses, Sources

\* Every step of the loop keeps the invariant.
LEMMA LoopStep ==
  ASSUME LoopInv, [Next]_vars
  PROVE  LoopInv'
<1>1. attempt \in 1 .. MaxRetries + 1 /\ MaxRetries \in Nat
  BY RetriesAssumption DEF LoopInv, TypeOK
<1>2. CASE LookupPasses
  <2>1. result' \in ResultType
    BY <1>1, <1>2 DEF LookupPasses, LoopInv, TypeOK, ResultType
  <2> QED
    BY <1>2, <2>1 DEF LookupPasses, LoopInv, TypeOK, AttemptInv, ExitInv, EscapeInv
<1>3. CASE Blocked
  BY <1>3, FailStep DEF Blocked, Statuses
<1>4. CASE Unresolved
  <2>1. outcomes \in Seq(Statuses) /\ Failed(outcomes)
    BY <1>4 DEF Unresolved, LoopInv, TypeOK, AttemptInv
  <2>2. /\ outcomes' \in Seq(Statuses)
        /\ DOMAIN outcomes' = 1 .. Len(outcomes) + 1
        /\ outcomes'[Len(outcomes) + 1] = "dns_error"
        /\ \A k \in 1 .. Len(outcomes) : outcomes'[k] = outcomes[k]
    BY <1>4, <2>1, AppendOutcome DEF Unresolved, Statuses
  <2>3. IsProbeFailure("dns_error")
    BY DEF IsProbeFailure
  <2>4. \A k \in 1 .. Len(outcomes) : IsProbeFailure(outcomes'[k])
    BY <2>1, <2>2 DEF Failed
  <2>5. Failed(outcomes')
    BY <2>1, <2>2, <2>3, <2>4 DEF Failed
  <2>6. result' \in ResultType
    BY <1>1, <1>4 DEF Unresolved, LoopInv, TypeOK, ResultType
  <2> QED
    BY <1>4, <2>2, <2>5, <2>6 DEF Unresolved, LoopInv, TypeOK, AttemptInv, ExitInv, EscapeInv
<1>5. CASE Responds
  <2>1. PICK accepted \in BOOLEAN, slow \in BOOLEAN, measured \in BOOLEAN :
          LET status == StatusFromHttp(accepted, slow) IN
          /\ result' = [status |-> status, response |-> attempt, error |-> 0,
                        network |-> IF measured THEN attempt ELSE 0,
                        retry_count |-> attempt - 1]
          /\ outcomes' = Append(outcomes, status)
          /\ Continue(status)
    BY <1>5 DEF Responds
  <2>2. PICK s \in Statuses : s = StatusFromHttp(accepted, slow)
    BY DEF StatusFromHttp, Statuses
  <2>3. PICK net \in {0, attempt} : net = IF measured THEN attempt ELSE 0
    OBVIOUS
  <2>4. result' = [status |-> s, response |-> attempt, error |-> 0, network |-> net,
                   retry_count |-> attempt - 1]
    BY <2>1, <2>2, <2>3
  <2>5. /\ result' \in ResultType /\ result'.status = s /\ result'.retry_count = attempt - 1
        /\ result'.response = attempt /\ result'.error = 0 /\ result'.network = net
    BY <1>1, <2>4 DEF ResultType, Sources
  <2>6. {result'.response, result'.error} = {0, attempt}
    BY <2>5
  <2>7. outcomes' = Append(outcomes, s) /\ Continue(s)
    BY <2>1, <2>2
  <2>8. pc \in {"lookup", "request"}
    BY <1>5 DEF Responds
  <2> QED
    BY <2>5, <2>6, <2>7, <2>8, EndOfAttempt
<1>6. CASE Raises
  <2>1. PICK exc \in Exceptions : Fail(StatusOfException(exc)) /\ Continue(StatusOfException(exc))
    BY <1>6 DEF Raises
  <2>2. StatusOfException(exc) \in Statuses
    BY DEF StatusOfException, Exceptions, Statuses
  <2> QED
    BY <1>6, <2>1, <2>2, FailStep DEF Raises
<1>7. CASE UNCHANGED vars
  BY <1>7 DEF vars, LoopInv, TypeOK, AttemptInv, ExitInv, EscapeInv, Failed
<1> QED
  BY <1>2, <1>3, <1>4, <1>5, <1>6, <1>7 DEF Next

LEMMA LoopInvariant == Spec => []LoopInv
<1>1. Init => LoopInv
  BY LoopInit
<1>2. LoopInv /\ [Next]_vars => LoopInv'
  BY LoopStep
<1> QED
  BY <1>1, <1>2, PTL DEF Spec

-----------------------------------------------------------------------------
\* The variables of the loop keep their types for every max_retries.
THEOREM ProbeTypeCorrect == Spec => []TypeOK
<1>1. LoopInv => TypeOK
  BY DEF LoopInv
<1> QED
  BY <1>1, LoopInvariant, PTL

\* A probe reports a failure only after max_retries + 1 attempts that all failed.
THEOREM FailureIsUnanimous == Spec => []FailureTookEveryAttempt
<1>1. LoopInv => FailureTookEveryAttempt
  <2> SUFFICES ASSUME LoopInv, pc = "done", IsProbeFailure(result.status)
               PROVE  /\ Len(outcomes) = MaxRetries + 1
                      /\ \A k \in DOMAIN outcomes : IsProbeFailure(outcomes[k])
    BY DEF FailureTookEveryAttempt
  <2>1. /\ outcomes \in Seq(Statuses) /\ Len(outcomes) = attempt
        /\ attempt \in 1 .. MaxRetries + 1 /\ MaxRetries \in Nat
    BY RetriesAssumption DEF LoopInv, TypeOK, ExitInv
  <2>2. DOMAIN outcomes = 1 .. attempt
    BY <2>1
  <2> QED
    BY <2>1, <2>2 DEF LoopInv, ExitInv
<1> QED
  BY <1>1, LoopInvariant, PTL

\* The first success ends the probe and is its result.
THEOREM SuccessIsFinal == Spec => []SuccessEndsTheProbe
<1>1. LoopInv => SuccessEndsTheProbe
  <2> SUFFICES ASSUME LoopInv PROVE SuccessEndsTheProbe
    OBVIOUS
  <2>1. /\ outcomes \in Seq(Statuses) /\ pc \in {"lookup", "request", "done", "escaped"}
        /\ attempt \in 1 .. MaxRetries + 1 /\ MaxRetries \in Nat
    BY RetriesAssumption DEF LoopInv, TypeOK
  <2>2. CASE pc = "done"
    <3>1. DOMAIN outcomes = 1 .. attempt /\ Len(outcomes) = attempt
      BY <2>1, <2>2 DEF LoopInv, ExitInv
    <3> QED
      BY <2>1, <2>2, <3>1 DEF LoopInv, ExitInv, SuccessEndsTheProbe
  <2>3. CASE pc # "done"
    BY <2>1, <2>3 DEF LoopInv, AttemptInv, EscapeInv, Failed, SuccessEndsTheProbe
  <2> QED
    BY <2>2, <2>3
<1> QED
  BY <1>1, LoopInvariant, PTL

\* Every field of the result comes from the last attempt or is None.
THEOREM ResultIsFresh == Spec => []ResultOfLastAttempt
<1>1. LoopInv => ResultOfLastAttempt
  BY DEF LoopInv, ExitInv, ResultOfLastAttempt
<1> QED
  BY <1>1, LoopInvariant, PTL

-----------------------------------------------------------------------------
(***************************************************************************)
(* Limiter: its promise for every limit and every window.  The bucket      *)
(* forgets attempts, so the promise about all of them needs BucketInv: the *)
(* bucket is the tail of the history, and what precedes it is too old to   *)
(* count.                                                                  *)
(***************************************************************************)

Forgotten == Len(admitted) - Len(bucket)

BucketInv ==
  /\ Len(bucket) <= MaxAttempts
  /\ Forgotten \in Nat
  /\ \A k \in 1 .. Len(bucket) : bucket[k] = admitted[Forgotten + k]
  /\ \A k \in 1 .. Forgotten : Old(admitted[k])

LimiterInv == LimiterTypeOK /\ BucketInv /\ WindowIsLimited

-----------------------------------------------------------------------------
LEMMA LimiterStarts ==
  ASSUME LimiterInit
  PROVE  LimiterInv
  BY LimitAssumption, HorizonAssumption
     DEF LimiterInit, LimiterInv, LimiterTypeOK, BucketInv, Forgotten, WindowIsLimited

\* What is left of the bucket after the loop has popped k entries.
LEMMA RecentEntries ==
  ASSUME LimiterTypeOK, NEW k \in 0 .. Len(bucket)
  PROVE  /\ Recent(k) \in Seq(0 .. Horizon)
         /\ Len(Recent(k)) = Len(bucket) - k
         /\ \A j \in 1 .. Len(bucket) - k : Recent(k)[j] = bucket[k + j]
<1>1. bucket \in Seq(0 .. Horizon) /\ Len(bucket) \in Nat
  BY DEF LimiterTypeOK
<1>2. k + 1 \in 1 .. Len(bucket) + 1 /\ Len(bucket) \in 0 .. Len(bucket)
  BY <1>1
<1>3. CASE k = Len(bucket)
  BY <1>1, <1>3, SubSeqProperties DEF Recent
<1>4. CASE k < Len(bucket)
  <2>1. k + 1 \in 1 .. Len(bucket) /\ k + 1 <= Len(bucket)
    BY <1>1, <1>4
  <2>2. PICK first, last \in Int :
          first = k + 1 /\ last = Len(bucket) /\ first <= last
    BY <1>1, <2>1
  <2>3. ASSUME NEW i \in first .. last PROVE bucket[i] \in 0 .. Horizon
    <3>1. i \in 1 .. Len(bucket)
      BY <1>1, <2>2
    <3> QED
      BY <1>1, <3>1, ElementOfSeq
  <2>4. /\ SubSeq(bucket, first, last) \in Seq(0 .. Horizon)
        /\ Len(SubSeq(bucket, first, last)) = last - first + 1
        /\ \A j \in 1 .. last - first + 1 :
             SubSeq(bucket, first, last)[j] = bucket[first + j - 1]
    BY <2>2, <2>3, SubSeqProperties
  <2>5. last - first + 1 = Len(bucket) - k /\ \A j \in Int : first + j - 1 = k + j
    BY <1>1, <2>2
  <2>6. Recent(k) = SubSeq(bucket, first, last)
    BY <2>2 DEF Recent
  <2> QED
    BY <2>4, <2>5, <2>6
<1> QED
  BY <1>1, <1>3, <1>4

\* The numbers every step argues about: n admitted attempts, of which the bucket
\* still holds the last m and has forgotten the first f.
LEMMA Numbers ==
  ASSUME LimiterInv
  PROVE  \E n, m, f \in Nat :
           /\ n = Len(admitted) /\ m = Len(bucket) /\ f = Forgotten /\ n = f + m
           /\ m <= MaxAttempts
           /\ \A k \in 1 .. n : admitted[k] \in Int
           /\ \A k \in 1 .. m : bucket[k] \in Int /\ bucket[k] = admitted[f + k]
           /\ \A k \in 1 .. f : admitted[k] < now - Window
<1>1. /\ Len(admitted) \in Nat /\ Len(bucket) \in Nat
      /\ \A k \in 1 .. Len(admitted) : admitted[k] \in 0 .. Horizon
      /\ \A k \in 1 .. Len(bucket) : bucket[k] \in 0 .. Horizon
  <2>1. admitted \in Seq(0 .. Horizon) /\ bucket \in Seq(0 .. Horizon)
    BY DEF LimiterInv, LimiterTypeOK
  <2> QED
    BY <2>1, ElementOfSeq, LenProperties
<1>2. /\ Forgotten \in Nat /\ Len(bucket) <= MaxAttempts
      /\ \A k \in 1 .. Len(bucket) : bucket[k] = admitted[Forgotten + k]
      /\ \A k \in 1 .. Forgotten : admitted[k] < now - Window
  BY DEF LimiterInv, BucketInv, Old
<1>3. Len(admitted) = Forgotten + Len(bucket)
  BY <1>1 DEF Forgotten
<1>4. 0 .. Horizon \subseteq Int
  BY HorizonAssumption
<1> QED
  BY <1>1, <1>2, <1>3, <1>4

LEMMA Constants ==
  ASSUME LimiterInv
  PROVE  /\ MaxAttempts \in Nat \ {0} /\ Window \in Nat /\ Second \in Nat \ {0}
         /\ Horizon \in Nat /\ MaxRefused \in Nat /\ now \in 0 .. Horizon /\ now \in Int
  BY LimitAssumption, ClockAssumption, HorizonAssumption DEF LimiterInv, LimiterTypeOK, Window

\* An admitted attempt: the one MaxAttempts before it is forgotten or popped.
LEMMA AdmitStep ==
  ASSUME LimiterInv, Admit
  PROVE  LimiterInv'
<1>1. PICK n, m, f \in Nat :
        /\ n = Len(admitted) /\ m = Len(bucket) /\ f = Forgotten /\ n = f + m
        /\ m <= MaxAttempts
        /\ \A k \in 1 .. n : admitted[k] \in Int
        /\ \A k \in 1 .. m : bucket[k] \in Int /\ bucket[k] = admitted[f + k]
        /\ \A k \in 1 .. f : admitted[k] < now - Window
  BY Numbers
<1>2. PICK k \in 0 .. m :
        /\ \A j \in 1 .. k : bucket[j] < now - Window
        /\ m - k < MaxAttempts
        /\ bucket' = Append(Recent(k), now)
        /\ admitted' = Append(admitted, now)
        /\ retry_after' = 0
        /\ now' = now /\ refused' = refused
  BY <1>1 DEF Admit, Pops, Old
<1>3. /\ Recent(k) \in Seq(0 .. Horizon) /\ Len(Recent(k)) = m - k
      /\ \A j \in 1 .. m - k : Recent(k)[j] = bucket[k + j]
  BY <1>1, <1>2, RecentEntries DEF LimiterInv
<1>4. /\ bucket' \in Seq(0 .. Horizon) /\ Len(bucket') = m - k + 1
      /\ \A j \in 1 .. m - k : bucket'[j] = bucket[k + j]
      /\ bucket'[m - k + 1] = now
  <2>1. now \in 0 .. Horizon
    BY Constants
  <2>2. /\ bucket' \in Seq(0 .. Horizon) /\ Len(bucket') = Len(Recent(k)) + 1
        /\ \A j \in 1 .. Len(Recent(k)) : bucket'[j] = Recent(k)[j]
        /\ bucket'[Len(Recent(k)) + 1] = now
    BY <1>2, <1>3, <2>1, AppendProperties
  <2> QED
    BY <1>3, <2>2
<1>5. admitted \in Seq(0 .. Horizon)
  BY DEF LimiterInv, LimiterTypeOK
<1>6. /\ admitted' \in Seq(0 .. Horizon) /\ Len(admitted') = n + 1
      /\ \A j \in 1 .. n : admitted'[j] = admitted[j]
      /\ admitted'[n + 1] = now
  <2>1. now \in 0 .. Horizon
    BY Constants
  <2>2. /\ admitted' \in Seq(0 .. Horizon) /\ Len(admitted') = Len(admitted) + 1
        /\ \A j \in 1 .. Len(admitted) : admitted'[j] = admitted[j]
        /\ admitted'[Len(admitted) + 1] = now
    BY <1>2, <1>5, <2>1, AppendProperties
  <2>3. Len(admitted) = n
    BY <1>1
  <2> QED
    BY <2>2, <2>3
<1>7. LimiterTypeOK'
  BY <1>2, <1>4, <1>6 DEF LimiterInv, LimiterTypeOK
<1>8. Forgotten' = f + k
  BY <1>1, <1>2, <1>4, <1>6 DEF Forgotten
<1>9. ASSUME NEW j \in 1 .. f + k PROVE admitted[j] < now - Window
  <2>1. CASE j <= f
    BY <1>1, <2>1
  <2>2. CASE j > f
    <3>1. PICK i \in 1 .. k : j = f + i
      BY <1>1, <1>2, <2>2
    <3>2. i \in 1 .. m
      BY <1>2, <3>1
    <3>3. bucket[i] = admitted[f + i] /\ bucket[i] < now - Window
      BY <1>1, <1>2, <3>1, <3>2
    <3> QED
      BY <3>1, <3>3
  <2> QED
    BY <1>1, <1>2, <2>1, <2>2
<1>10. BucketInv'
  <2>1. Len(bucket') <= MaxAttempts /\ Forgotten' \in Nat
    BY <1>2, <1>4, <1>8, Constants
  <2>2. ASSUME NEW j \in 1 .. m - k + 1 PROVE bucket'[j] = admitted'[f + k + j]
    <3>1. CASE j = m - k + 1
      <4>1. f + k + j = n + 1
        BY <1>1, <1>2, <3>1
      <4> QED
        BY <1>4, <1>6, <3>1, <4>1
    <3>2. CASE j \in 1 .. m - k
      <4>1. k + j \in 1 .. m /\ f + k + j \in 1 .. n /\ f + (k + j) = f + k + j
        BY <1>1, <1>2, <3>2
      <4>2. bucket'[j] = bucket[k + j] /\ bucket[k + j] = admitted[f + (k + j)]
        BY <1>1, <1>4, <3>2, <4>1
      <4> QED
        BY <1>6, <4>1, <4>2
    <3> QED
      BY <3>1, <3>2
  <2>3. ASSUME NEW j \in 1 .. f + k PROVE admitted'[j] < now' - Window
    <3>1. j \in 1 .. n
      BY <1>1, <1>2
    <3> QED
      BY <1>2, <1>6, <1>9, <3>1
  <2>4. \A j \in 1 .. Len(bucket') : bucket'[j] = admitted'[Forgotten' + j]
    BY <1>4, <1>8, <2>2
  <2>5. \A j \in 1 .. Forgotten' : admitted'[j] < now' - Window
    BY <1>8, <2>3
  <2> QED
    BY <2>1, <2>4, <2>5 DEF BucketInv, Old, Window
<1>11. WindowIsLimited'
  <2>1. DOMAIN admitted' = 1 .. n + 1 /\ DOMAIN admitted = 1 .. n
    BY <1>1, <1>5, <1>6, LenProperties
  <2> SUFFICES ASSUME NEW j \in 1 .. n + 1, j + MaxAttempts \in 1 .. n + 1
               PROVE  admitted'[j + MaxAttempts] > admitted'[j] + Window
    BY <2>1 DEF WindowIsLimited, Window
  <2>2. j \in 1 .. n
    BY <1>1, Constants
  <2>3. CASE j + MaxAttempts \in 1 .. n
    <3>1. admitted[j + MaxAttempts] > admitted[j] + Window
      BY <2>1, <2>2, <2>3 DEF LimiterInv, WindowIsLimited
    <3> QED
      BY <1>6, <2>2, <2>3, <3>1
  <2>4. CASE j + MaxAttempts = n + 1
    <3>1. j \in 1 .. f + k
      BY <1>1, <1>2, <2>2, <2>4, Constants
    <3>2. admitted[j] < now - Window /\ admitted'[j] = admitted[j]
      BY <1>6, <1>9, <2>2, <3>1
    <3>3. admitted'[j + MaxAttempts] = now
      BY <1>6, <2>4
    <3>4. admitted[j] \in Int
      BY <1>1, <2>2
    <3> QED
      BY <3>2, <3>3, <3>4, Constants
  <2> QED
    BY <1>1, <2>2, <2>3, <2>4, Constants
<1> QED
  BY <1>7, <1>10, <1>11 DEF LimiterInv

\* A refusal pops nothing: the bucket is full of recent attempts.
LEMMA RefusePopsNothing ==
  ASSUME LimiterInv, NEW k \in 0 .. Len(bucket), Pops(k), Len(bucket) - k >= MaxAttempts
  PROVE  /\ Len(bucket) = MaxAttempts /\ Len(admitted) >= MaxAttempts
         /\ Recent(k) = bucket
         /\ bucket[1] \in Int /\ bucket[1] >= now - Window
         /\ bucket[1] = admitted[Len(admitted) - MaxAttempts + 1]
<1>1. PICK n, m, f \in Nat :
        /\ n = Len(admitted) /\ m = Len(bucket) /\ f = Forgotten /\ n = f + m
        /\ m <= MaxAttempts
        /\ \A i \in 1 .. m : bucket[i] \in Int /\ bucket[i] = admitted[f + i]
  BY Numbers
<1>2. k = 0 /\ m = MaxAttempts
  BY <1>1, Constants
<1>3. bucket \in Seq(0 .. Horizon)
  BY DEF LimiterInv, LimiterTypeOK
<1>4. Recent(k) = bucket
  <2>1. Recent(k) = SubSeq(bucket, 1, Len(bucket))
    BY <1>2 DEF Recent
  <2> QED
    BY <1>3, <2>1, SubSeqFull
<1>5. 1 \in 1 .. m /\ f + 1 = n - MaxAttempts + 1 /\ n >= MaxAttempts
  BY <1>1, <1>2, Constants
<1>6. bucket[1] \in Int /\ bucket[1] = admitted[f + 1]
  BY <1>1, <1>5
<1>7. ~(bucket[1] < now - Window)
  BY <1>1, <1>2, <1>5 DEF Pops, Old
<1> QED
  BY <1>1, <1>2, <1>4, <1>5, <1>6, <1>7, Constants

\* What the rounded answer is worth.
LEMMA SecondsBound ==
  ASSUME NEW t \in Int
  PROVE  Seconds(t) \in Nat /\ t < (Seconds(t) + 1) * Second
<1>1. Second \in Nat /\ Second > 0
  BY ClockAssumption
<1>2. CASE t < Second
  BY <1>1, <1>2 DEF Seconds
<1>3. CASE t >= Second
  BY <1>1, <1>3 DEF Seconds
<1> QED
  BY <1>1, <1>2, <1>3

LEMMA RefuseStep ==
  ASSUME LimiterInv, Refuse
  PROVE  LimiterInv'
<1>1. PICK k \in 0 .. Len(bucket) :
        /\ Pops(k)
        /\ Len(bucket) - k >= MaxAttempts
        /\ refused < MaxRefused
        /\ bucket' = Recent(k)
        /\ retry_after' = Wait(Recent(k))
        /\ refused' = refused + 1
        /\ now' = now /\ admitted' = admitted
  BY DEF Refuse
<1>2. Recent(k) = bucket /\ bucket' = bucket /\ bucket[1] \in Int
  BY <1>1, RefusePopsNothing
<1>3. retry_after' \in Nat
  <2>1. bucket[1] + Window - now \in Int
    BY <1>2, Constants
  <2> QED
    BY <1>1, <1>2, <2>1, SecondsBound DEF Wait
<1>4. LimiterTypeOK'
  BY <1>1, <1>2, <1>3, Constants DEF LimiterInv, LimiterTypeOK
<1>5. BucketInv' /\ WindowIsLimited'
  BY <1>1, <1>2 DEF LimiterInv, BucketInv, Forgotten, Old, Window, WindowIsLimited
<1> QED
  BY <1>4, <1>5 DEF LimiterInv

LEMMA TickStep ==
  ASSUME LimiterInv, Tick
  PROVE  LimiterInv'
<1>1. now' = now + 1 /\ now < Horizon /\ bucket' = bucket /\ admitted' = admitted
  BY DEF Tick
<1>2. LimiterTypeOK'
  BY <1>1, Constants DEF Tick, LimiterInv, LimiterTypeOK
<1>3. ASSUME NEW j \in 1 .. Forgotten PROVE admitted[j] < now' - Window
  <2>1. PICK n, m, f \in Nat :
          /\ f = Forgotten /\ n = f + m
          /\ \A k \in 1 .. n : admitted[k] \in Int
          /\ \A k \in 1 .. f : admitted[k] < now - Window
    BY Numbers
  <2>2. j \in 1 .. f /\ j \in 1 .. n
    BY <2>1
  <2>3. admitted[j] \in Int /\ admitted[j] < now - Window
    BY <2>1, <2>2
  <2> QED
    BY <1>1, <2>3, Constants
<1>4. BucketInv'
  BY <1>1, <1>3 DEF LimiterInv, BucketInv, Forgotten, Old, Window
<1>5. WindowIsLimited'
  BY <1>1 DEF LimiterInv, WindowIsLimited, Window
<1> QED
  BY <1>2, <1>4, <1>5 DEF LimiterInv

LEMMA LimiterStep ==
  ASSUME LimiterInv, [LimiterNext]_LimiterVars
  PROVE  LimiterInv'
<1>1. CASE UNCHANGED LimiterVars
  BY <1>1 DEF LimiterVars, LimiterInv, LimiterTypeOK, BucketInv, Forgotten, Old, Window, WindowIsLimited
<1> QED
  BY <1>1, AdmitStep, RefuseStep, TickStep DEF LimiterNext

LEMMA LimiterInvariant == LimiterSpec => []LimiterInv
<1>1. LimiterInit => LimiterInv
  BY LimiterStarts
<1>2. LimiterInv /\ [LimiterNext]_LimiterVars => LimiterInv'
  BY LimiterStep
<1> QED
  BY <1>1, <1>2, PTL DEF LimiterSpec

-----------------------------------------------------------------------------
\* The deque and the history keep their types.
THEOREM LimiterTypeCorrect == LimiterSpec => []LimiterTypeOK
<1>1. LimiterInv => LimiterTypeOK
  BY DEF LimiterInv
<1> QED
  BY <1>1, LimiterInvariant, PTL

\* For every limit and window: no window has more admitted attempts than the limit.
THEOREM WindowLimit == LimiterSpec => []WindowIsLimited
<1>1. LimiterInv => WindowIsLimited
  BY DEF LimiterInv
<1> QED
  BY <1>1, LimiterInvariant, PTL

\* What a step that refuses an attempt knows of the history.
LEMMA RefusalFacts ==
  ASSUME LimiterInv, [LimiterNext]_LimiterVars, refused' = refused + 1
  PROVE  /\ Len(admitted) >= MaxAttempts
         /\ admitted[Len(admitted) - MaxAttempts + 1] >= now - Window
         /\ admitted[Len(admitted) - MaxAttempts + 1]
              < now + (retry_after' + 1) * Second - Window
<1>1. refused \in Nat
  BY HorizonAssumption DEF LimiterInv, LimiterTypeOK
<1>2. Refuse
  BY <1>1 DEF LimiterNext, Admit, Tick, LimiterVars
<1>3. PICK k \in 0 .. Len(bucket) :
        /\ Pops(k)
        /\ Len(bucket) - k >= MaxAttempts
        /\ retry_after' = Wait(Recent(k))
  BY <1>2 DEF Refuse
<1>4. /\ Recent(k) = bucket /\ Len(admitted) >= MaxAttempts
      /\ bucket[1] \in Int /\ bucket[1] >= now - Window
      /\ bucket[1] = admitted[Len(admitted) - MaxAttempts + 1]
  BY <1>3, RefusePopsNothing
<1>5. PICK t \in Int : t = bucket[1] + Window - now
  BY <1>4, Constants
<1>6. retry_after' = Seconds(t)
  BY <1>3, <1>4, <1>5 DEF Wait
<1>7. PICK ticks \in Int : ticks = (retry_after' + 1) * Second /\ t < ticks
  <2>1. Seconds(t) \in Nat /\ t < (Seconds(t) + 1) * Second
    BY SecondsBound
  <2>2. (Seconds(t) + 1) * Second \in Int
    BY <2>1, ClockAssumption
  <2> QED
    BY <1>6, <2>1, <2>2
<1>8. bucket[1] < now + ticks - Window
  <2>1. bucket[1] \in Int /\ now \in Int /\ Window \in Int
    BY <1>4, Constants
  <2> QED
    BY <1>5, <1>7, <2>1
<1> QED
  BY <1>4, <1>7, <1>8

\* A refusal has MaxAttempts attempts of the current window behind it.
THEOREM RefusalReason == LimiterSpec => RefusalIsJustified
<1>1. LimiterInv /\ [LimiterNext]_LimiterVars =>
        [refused' = refused + 1 =>
           /\ Len(admitted) >= MaxAttempts
           /\ admitted[Len(admitted) - MaxAttempts + 1] >= now - Window]_LimiterVars
  BY RefusalFacts
<1> QED
  BY <1>1, LimiterInvariant, PTL DEF LimiterSpec, RefusalIsJustified

\* Waiting one second more than Retry-After is enough.
THEOREM RetryAfterSuffices == LimiterSpec => RetryAfterIsEnough
<1>1. LimiterInv /\ [LimiterNext]_LimiterVars =>
        [refused' = refused + 1 =>
           admitted[Len(admitted) - MaxAttempts + 1]
             < now + (retry_after' + 1) * Second - Window]_LimiterVars
  BY RefusalFacts
<1> QED
  BY <1>1, LimiterInvariant, PTL DEF LimiterSpec, RetryAfterIsEnough

-----------------------------------------------------------------------------
(* The limiter that forgets nothing                                         *)

\* The clock only goes forward: the history is in order and in the past.
OrderInv ==
  /\ \A k \in DOMAIN admitted : admitted[k] <= now
  /\ \A i, j \in DOMAIN admitted : i <= j => admitted[i] <= admitted[j]

LEMMA OrderStep ==
  ASSUME LimiterTypeOK, OrderInv, [LimiterNext]_LimiterVars
  PROVE  OrderInv'
<1>1. /\ admitted \in Seq(0 .. Horizon) /\ Len(admitted) \in Nat /\ DOMAIN admitted = 1 .. Len(admitted)
      /\ now \in 0 .. Horizon /\ Horizon \in Nat
      /\ \A k \in DOMAIN admitted : admitted[k] \in 0 .. Horizon
  BY HorizonAssumption DEF LimiterTypeOK
<1>2. \/ now' = now /\ admitted' = Append(admitted, now)
      \/ now' \in {now, now + 1} /\ admitted' = admitted
  BY DEF LimiterNext, LimiterVars, Admit, Refuse, Tick
<1>3. CASE now' = now /\ admitted' = Append(admitted, now)
  <2>1. /\ DOMAIN admitted' = 1 .. Len(admitted) + 1
        /\ admitted'[Len(admitted) + 1] = now
        /\ \A k \in DOMAIN admitted : admitted'[k] = admitted[k]
    BY <1>1, <1>3, AppendProperties
  <2>2. ASSUME NEW k \in DOMAIN admitted' PROVE admitted'[k] <= now
    <3>1. CASE k \in DOMAIN admitted
      BY <2>1, <3>1 DEF OrderInv
    <3>2. CASE k = Len(admitted) + 1
      BY <1>1, <2>1, <3>2
    <3> QED
      BY <1>1, <2>1, <3>1, <3>2
  <2>3. ASSUME NEW i \in DOMAIN admitted', NEW j \in DOMAIN admitted', i <= j
        PROVE  admitted'[i] <= admitted'[j]
    <3>1. CASE j = Len(admitted) + 1
      BY <2>1, <2>2, <3>1
    <3>2. CASE j # Len(admitted) + 1
      <4>1. i \in DOMAIN admitted /\ j \in DOMAIN admitted
        BY <1>1, <2>1, <2>3, <3>2
      <4> QED
        BY <2>1, <2>3, <4>1 DEF OrderInv
    <3> QED
      BY <3>1, <3>2
  <2> QED
    BY <1>3, <2>2, <2>3 DEF OrderInv
<1>4. CASE now' \in {now, now + 1} /\ admitted' = admitted
  <2>1. now <= now' /\ now' \in Int
    BY <1>1, <1>4
  <2>2. \A k \in DOMAIN admitted : admitted[k] <= now'
    BY <1>1, <2>1 DEF OrderInv
  <2> QED
    BY <1>4, <2>2 DEF OrderInv
<1> QED
  BY <1>2, <1>3, <1>4

LEMMA LimiterOrder == LimiterSpec => [](LimiterInv /\ OrderInv)
<1>1. LimiterInit => OrderInv
  BY DEF LimiterInit, OrderInv
<1>2. LimiterInv /\ OrderInv /\ [LimiterNext]_LimiterVars => OrderInv'
  BY OrderStep DEF LimiterInv
<1> QED
  BY <1>1, <1>2, LimiterInvariant, PTL DEF LimiterSpec

LEMMA SameCount == ASSUME NEW set PROVE Sliding!Cardinality(set) = Cardinality(set)
BY DEF Sliding!Cardinality, Cardinality

\* What the abstract limiter counts, from its bounds in the history.
LEMMA CountedBetween ==
  ASSUME LimiterTypeOK, NEW first \in 1 .. Len(admitted) + 1
  PROVE  /\ Sliding!WithinWindow \subseteq first .. Len(admitted) =>
              Sliding!Cardinality(Sliding!WithinWindow) <= Len(admitted) - first + 1
         /\ first .. Len(admitted) \subseteq Sliding!WithinWindow =>
              Len(admitted) - first + 1 <= Sliding!Cardinality(Sliding!WithinWindow)
         /\ Sliding!Cardinality(Sliding!WithinWindow) \in Nat
<1> DEFINE window == Sliding!WithinWindow
           late == first .. Len(admitted)
<1>1. Len(admitted) \in Nat /\ DOMAIN admitted = 1 .. Len(admitted)
  BY DEF LimiterTypeOK
<1>2. IsFiniteSet(late) /\ Cardinality(late) = Len(admitted) - first + 1
  <2>1. first \in Int /\ Len(admitted) \in Int /\ first <= Len(admitted) + 1
    BY <1>1
  <2>2. /\ IsFiniteSet(late)
        /\ Cardinality(late) = IF first > Len(admitted) THEN 0 ELSE Len(admitted) - first + 1
    BY <2>1, FS_Interval
  <2> QED
    BY <2>1, <2>2
<1>3. window \subseteq 1 .. Len(admitted)
  BY <1>1 DEF Sliding!WithinWindow
<1>4. IsFiniteSet(window)
  <2>1. 1 \in Int /\ Len(admitted) \in Int
    BY <1>1
  <2>2. IsFiniteSet(1 .. Len(admitted))
    BY <2>1, FS_Interval
  <2> QED
    BY <1>3, <2>2, FS_Subset
<1>5. Cardinality(window) \in Nat /\ Sliding!Cardinality(window) = Cardinality(window)
  BY <1>4, FS_CardinalityType, SameCount
<1>6. window \subseteq late => Cardinality(window) <= Cardinality(late)
  BY <1>2, FS_Subset
<1>7. late \subseteq window => Cardinality(late) <= Cardinality(window)
  BY <1>4, FS_Subset
<1> QED
  BY <1>2, <1>5, <1>6, <1>7

\* What the deque has forgotten, or pops now, is not counted.
LEMMA AdmitIsAllow ==
  ASSUME LimiterInv, Admit
  PROVE  Sliding!Allow
<1>1. PICK n, m, f \in Nat :
        /\ n = Len(admitted) /\ m = Len(bucket) /\ f = Forgotten /\ n = f + m
        /\ \A k \in 1 .. m : bucket[k] = admitted[f + k]
        /\ \A k \in 1 .. n : admitted[k] \in Int
        /\ \A k \in 1 .. f : admitted[k] < now - Window
  BY Numbers
<1>2. PICK k \in 0 .. m :
        /\ \A j \in 1 .. k : bucket[j] < now - Window
        /\ m - k < MaxAttempts
        /\ admitted' = Append(admitted, now) /\ now' = now /\ refused' = refused
  BY <1>1 DEF Admit, Pops, Old
<1>3. ASSUME NEW j \in Sliding!WithinWindow PROVE j \in f + k + 1 .. n
  <2>1. j \in 1 .. n /\ admitted[j] >= now - Window
    <3>1. j \in DOMAIN admitted /\ admitted[j] >= now - Window
      BY DEF Sliding!WithinWindow
    <3>2. admitted \in Seq(0 .. Horizon)
      BY DEF LimiterInv, LimiterTypeOK
    <3>3. DOMAIN admitted = 1 .. Len(admitted) /\ n = Len(admitted)
      BY <1>1, <3>2, LenProperties
    <3> QED
      BY <3>1, <3>3
  <2>2. admitted[j] \in Int /\ now - Window \in Int
    BY <1>1, <2>1, Constants
  <2>3. j \notin 1 .. f
    BY <1>1, <2>1, <2>2
  <2>4. ~(j - f \in 1 .. k)
    <3> SUFFICES ASSUME j - f \in 1 .. k PROVE FALSE
      OBVIOUS
    <3>1. j - f \in 1 .. m /\ f + (j - f) = j
      BY <1>1, <1>2, <2>1
    <3>2. bucket[j - f] = admitted[j] /\ bucket[j - f] < now - Window
      BY <1>1, <1>2, <3>1
    <3> QED
      BY <2>1, <2>2, <3>2
  <2> QED
    BY <1>1, <1>2, <2>1, <2>3, <2>4
<1>4. ~Sliding!Full
  <2>1. f + k + 1 \in 1 .. n + 1 /\ n - (f + k + 1) + 1 = m - k
    BY <1>1, <1>2
  <2>2. /\ Sliding!Cardinality(Sliding!WithinWindow) <= m - k
        /\ Sliding!Cardinality(Sliding!WithinWindow) \in Nat
    <3>1. Sliding!WithinWindow \subseteq f + k + 1 .. n
      BY <1>3
    <3> QED
      BY <1>1, <2>1, <3>1, CountedBetween DEF LimiterInv
  <2> QED
    BY <1>1, <1>2, <2>2, Constants DEF Sliding!Full
<1> QED
  BY <1>2, <1>4 DEF Sliding!Allow

\* The oldest entry of a full deque is within the window, and so is what follows it.
LEMMA RefuseIsDeny ==
  ASSUME LimiterInv, OrderInv, Refuse
  PROVE  Sliding!Deny
<1> DEFINE first == Len(admitted) - MaxAttempts + 1
<1>1. /\ Len(admitted) >= MaxAttempts
      /\ admitted[first] \in Int /\ admitted[first] >= now - Window
      /\ refused < MaxRefused /\ refused' = refused + 1 /\ now' = now /\ admitted' = admitted
  BY RefusePopsNothing DEF Refuse
<1>2. /\ Len(admitted) \in Nat /\ DOMAIN admitted = 1 .. Len(admitted)
      /\ \A k \in DOMAIN admitted : admitted[k] \in Int
  BY HorizonAssumption DEF LimiterInv, LimiterTypeOK
<1>3. first \in 1 .. Len(admitted) /\ Len(admitted) - first + 1 = MaxAttempts
  BY <1>1, <1>2, Constants
<1>4. first .. Len(admitted) \subseteq Sliding!WithinWindow
  <2> SUFFICES ASSUME NEW k \in first .. Len(admitted) PROVE k \in Sliding!WithinWindow
    OBVIOUS
  <2>1. k \in DOMAIN admitted /\ first \in DOMAIN admitted /\ first <= k
    BY <1>2, <1>3
  <2>2. admitted[first] <= admitted[k]
    BY <2>1 DEF OrderInv
  <2>3. admitted[k] \in Int /\ now - Window \in Int
    BY <1>2, <2>1, Constants
  <2>4. admitted[k] >= now - Window
    BY <1>1, <2>2, <2>3
  <2> QED
    BY <2>1, <2>4 DEF Sliding!WithinWindow
<1>5. Sliding!Full
  <2>1. MaxAttempts <= Sliding!Cardinality(Sliding!WithinWindow)
    BY <1>2, <1>3, <1>4, CountedBetween DEF LimiterInv
  <2>2. Sliding!Cardinality(Sliding!WithinWindow) \in Nat
    BY <1>2, <1>3, CountedBetween DEF LimiterInv
  <2> QED
    BY <2>1, <2>2, Constants DEF Sliding!Full
<1> QED
  BY <1>1, <1>5 DEF Sliding!Deny

LEMMA SlidingStep ==
  LimiterInv /\ OrderInv /\ [LimiterNext]_LimiterVars => [Sliding!WindowNext]_(Sliding!WindowVars)
<1> SUFFICES ASSUME LimiterInv, OrderInv, [LimiterNext]_LimiterVars
             PROVE  [Sliding!WindowNext]_(Sliding!WindowVars)
  OBVIOUS
<1>1. CASE Admit
  BY <1>1, AdmitIsAllow DEF Sliding!WindowNext
<1>2. CASE Refuse
  BY <1>2, RefuseIsDeny DEF Sliding!WindowNext
<1>3. CASE Tick
  BY <1>3 DEF Tick, Sliding!TimePasses, Sliding!WindowNext
<1>4. CASE UNCHANGED LimiterVars
  BY <1>4 DEF LimiterVars, Sliding!WindowVars
<1> QED
  BY <1>1, <1>2, <1>3, <1>4 DEF LimiterNext

\* The deque that is emptied from its old end, rate_limit.py:22-29, admits and
\* refuses as a limiter that remembers every attempt, for every limit and window.
THEOREM ForgettingIsSafe == LimiterSpec => RefinesSlidingWindow
<1>1. LimiterInit => Sliding!WindowInit
  BY DEF LimiterInit, Sliding!WindowInit
<1> QED
  BY <1>1, SlidingStep, LimiterOrder, PTL DEF LimiterSpec, RefinesSlidingWindow, Sliding!Spec
=============================================================================
