---------------------------- MODULE RateLimiter ----------------------------
(***************************************************************************)
(* InMemoryRateLimiter.allow for one key: a deque of the times at which       *)
(* attempts were admitted.  The routes that call it are coroutines of one     *)
(* event loop and allow has no await, so a call is one step.  The clock       *)
(* counts ticks of time.monotonic, Second of them in a second, for the answer *)
(* is rounded to seconds; several calls may see the same time.                *)
(***************************************************************************)
EXTENDS Integers, Sequences

CONSTANTS
  MaxAttempts,   \* auth_rate_limit_max_attempts
  WindowSeconds, \* auth_rate_limit_window_seconds
  Second,        \* ticks of the clock in one second
  Horizon,       \* bound: the last time
  MaxRefused     \* bound: refused attempts in one behaviour

ASSUME LimitAssumption == MaxAttempts \in Nat \ {0} /\ WindowSeconds \in Nat
ASSUME ClockAssumption == Second \in Nat \ {0}
ASSUME HorizonAssumption == Horizon \in Nat /\ MaxRefused \in Nat

VARIABLES
  now,
  bucket,        \* _events[key], oldest first
  admitted,      \* history: the times of all the admitted attempts
  refused,       \* how many were refused, for the bound
  retry_after    \* the latest answer: 0 admitted, else seconds to wait

LimiterVars == <<now, bucket, admitted, refused, retry_after>>

LimiterTypeOK ==
  /\ now \in 0 .. Horizon
  /\ bucket \in Seq(0 .. Horizon)
  /\ admitted \in Seq(0 .. Horizon)
  /\ refused \in 0 .. MaxRefused
  /\ retry_after \in Nat

-----------------------------------------------------------------------------
Window == WindowSeconds * Second

\* bucket[0] < cutoff.
Old(t) == t < now - Window

\* Mutation: the loop pops what is still within the window.
PopsTooMany(k) ==
  /\ \A j \in 1 .. k : Old(bucket[j]) \/ j = 1
  /\ k < Len(bucket) => ~Old(bucket[k + 1])

\* while bucket and bucket[0] < cutoff: the first k entries are popped.
Pops(k) ==
  /\ \A j \in 1 .. k : Old(bucket[j])
  /\ k < Len(bucket) => ~Old(bucket[k + 1])

Recent(k) == SubSeq(bucket, k + 1, Len(bucket))

\* int(max(1, ...)): at least one second, else rounded down.
Seconds(ticks) == IF ticks < Second THEN 1 ELSE ticks \div Second

\* Mutation: the time that has passed already is taken off twice.
WaitTooLittle(recent) == Seconds(recent[1] + Window - now - now)

\* The seconds until the oldest entry is as old as the window.
Wait(recent) == Seconds(recent[1] + Window - now)

Admit ==
  \E k \in 0 .. Len(bucket) :
    /\ Pops(k)
    /\ Len(bucket) - k < MaxAttempts
    /\ bucket' = Append(Recent(k), now)
    /\ admitted' = Append(admitted, now)
    /\ retry_after' = 0
    /\ UNCHANGED <<now, refused>>

\* Mutation: an attempt that is refused is counted as well.
RefuseAndCount ==
  \E k \in 0 .. Len(bucket) :
    /\ Pops(k)
    /\ Len(bucket) - k >= MaxAttempts
    /\ refused < MaxRefused
    /\ bucket' = Append(Recent(k), now)
    /\ retry_after' = Wait(Recent(k))
    /\ refused' = refused + 1
    /\ UNCHANGED <<now, admitted>>

Refuse ==
  \E k \in 0 .. Len(bucket) :
    /\ Pops(k)
    /\ Len(bucket) - k >= MaxAttempts
    /\ refused < MaxRefused
    /\ bucket' = Recent(k)
    /\ retry_after' = Wait(Recent(k))
    /\ refused' = refused + 1
    /\ UNCHANGED <<now, admitted>>

Tick ==
  /\ now < Horizon
  /\ now' = now + 1
  /\ UNCHANGED <<bucket, admitted, refused, retry_after>>

LimiterInit ==
  /\ now = 0
  /\ bucket = <<>>
  /\ admitted = <<>>
  /\ refused = 0
  /\ retry_after = 0

LimiterNext == Admit \/ Refuse \/ Tick

LimiterSpec == LimiterInit /\ [][LimiterNext]_LimiterVars

-----------------------------------------------------------------------------
\* Whatever the pattern of attempts, no span of one window, its two ends
\* included, has more than MaxAttempts admitted ones.
WindowIsLimited ==
  \A k \in DOMAIN admitted :
    k + MaxAttempts \in DOMAIN admitted => admitted[k + MaxAttempts] > admitted[k] + Window

\* The limiter refuses nobody without a reason: a refusal means that MaxAttempts
\* attempts were admitted within the window that ends now.
RefusalIsJustified ==
  [][refused' = refused + 1 =>
       /\ Len(admitted) >= MaxAttempts
       /\ admitted[Len(admitted) - MaxAttempts + 1] >= now - Window]_LimiterVars

\* Who waits for one second more than Retry-After, which is rounded down, is not
\* kept out by the attempts the answer was computed from: the oldest of them has
\* left the window.
RetryAfterIsEnough ==
  [][refused' = refused + 1 =>
       admitted[Len(admitted) - MaxAttempts + 1] < now + (retry_after' + 1) * Second - Window]_LimiterVars

-----------------------------------------------------------------------------
(* Refinement: a limiter that forgets nothing                               *)

Sliding == INSTANCE SlidingWindow

\* The deque forgets attempts whenever allow is called, and tells no difference:
\* it admits and refuses exactly as a limiter does that remembers them all.
RefinesSlidingWindow == Sliding!Spec
=============================================================================
