---------------------------- MODULE RuntimeHealth ----------------------------
(***************************************************************************)
(* The health panel of the dashboard, from the worker to the screen.  Beat   *)
(* enqueues a ping; the worker that takes it writes one time to two keys of  *)
(* Redis, one after the other.  GET /runtime/health takes the time, reads     *)
(* both keys and Redis itself in three threads, each of which may time out,  *)
(* and judges their age.  The browser keeps the last answer for a while and  *)
(* shows what its newest load has brought.                                   *)
(***************************************************************************)
EXTENDS Naturals

CONSTANTS
  Workers,      \* worker processes that run pings
  Loads,        \* loads of the dashboard in flight at once
  Second,       \* ticks of the clock in a second
  Stale,        \* runtime_beat_stale_seconds
  KeyLife,      \* ex=3600 of the two keys
  ReadTime,     \* timeout_seconds of the reads
  CacheTTL,     \* HEALTH_TTL_MS
  Horizon,      \* bound: the clock
  MaxTimeouts,  \* bound: reads of Redis that time out
  MaxLoads,     \* bound: loads begun
  MaxPings      \* bound: pings taken

\* The first age, in ticks, that is too old: ages are cut to whole seconds.
Limit == (Stale + 1) * Second

ASSUME HealthAssumption == /\ {Stale, KeyLife, ReadTime, CacheTTL, Horizon, MaxTimeouts, MaxLoads,
                                 MaxPings} \subseteq Nat
                           /\ Second \in Nat \ {0}
                           /\ Limit + ReadTime <= KeyLife /\ 1 <= Horizon

VARIABLES
  now,         \* the clock, from 1
  pings,       \* the pings that workers have taken
  ping,        \* what each worker is doing
  key,         \* the two keys in Redis: the time that is written there, and when it expires
  load,        \* what each load is doing, at the API and in the browser
  cache,       \* runtimeHealthCache: checked_at of an answer, and when it was fetched
  shown,       \* runtimeHealth: checked_at of the answer on the screen
  seq,         \* runtimeLoadSeq
  lastPing,    \* history: the latest time a worker has written to a key
  completed,   \* history: the latest time a worker has written to both keys
  pingsMet,    \* history: two pings were under way at once
  lateAnswer,  \* history: an answer was cached after one that was newer
  timeouts

HealthVars == <<now, pings, ping, key, load, cache, shown, seq, lastPing, completed,
          pingsMet, lateAnswer, timeouts>>

Never == 0
Times == 0 .. Horizon
NoKey == [at |-> Never, until |-> Never]
Keys == {"beat", "worker"}

\* pending: the reads of keys that have not ended; failed: one has timed out; seen:
\* the keys that were read; base: history, completed when the reads began.
LoadType == [pc : {"idle", "asked", "reading", "answered", "settled"},
             seq : 0 .. MaxLoads, checked : Times, pending : SUBSET Keys,
             failed : BOOLEAN, seen : [Keys -> Times],
             base : Times, ok : BOOLEAN]

Idle == [pc |-> "idle", seq |-> 0, checked |-> Never, pending |-> {}, failed |-> FALSE,
         seen |-> [k \in Keys |-> Never], base |-> Never, ok |-> FALSE]

HealthTypeOK ==
  /\ now \in Times
  /\ pings \in 0 .. MaxPings
  /\ ping \in [Workers -> [pc : {"idle", "began", "half"}, at : Times]]
  /\ key \in [Keys -> [at : Times, until : 0 .. Horizon + KeyLife]]
  /\ load \in [Loads -> LoadType]
  /\ cache \in [checked : Times, at : Times]
  /\ shown \in Times
  /\ seq \in 0 .. MaxLoads
  /\ lastPing \in Times /\ completed \in Times
  /\ pingsMet \in BOOLEAN /\ lateAnswer \in BOOLEAN
  /\ timeouts \in 0 .. MaxTimeouts

Later(s, t) == IF s > t THEN s ELSE t

browser == <<load, cache, shown, seq, lateAnswer>>
server == <<pings, ping, key, lastPing, completed, pingsMet>>

-----------------------------------------------------------------------------
(* beat, the ping task, Redis                                               *)

\* A key is gone when its lifetime is over; a read ends within its timeout.
Tick ==
  /\ now < Horizon
  /\ \A l \in Loads : load[l].pending # {} => now < load[l].checked + ReadTime
  /\ now' = now + 1
  /\ key' = [k \in Keys |-> IF key[k].until <= now + 1 THEN NoKey ELSE key[k]]
  /\ UNCHANGED <<pings, ping, load, cache, shown, seq, lastPing, completed, pingsMet,
                 lateAnswer, timeouts>>

\* A ping that beat has sent is taken; it may have waited in the broker for any
\* time, the time it writes is taken by the worker.
PingBegins(w) ==
  /\ ping[w].pc = "idle"
  /\ pings < MaxPings
  /\ pings' = pings + 1
  /\ ping' = [ping EXCEPT ![w] = [pc |-> "began", at |-> now]]
  /\ pingsMet' = (pingsMet \/ \E v \in Workers : ping[v].pc # "idle")
  /\ UNCHANGED <<now, key, lastPing, completed, browser, timeouts>>

WriteBeat(w) ==
  /\ ping[w].pc = "began"
  /\ key' = [key EXCEPT !["beat"] = [at |-> ping[w].at, until |-> now + KeyLife]]
  /\ lastPing' = Later(lastPing, ping[w].at)
  /\ ping' = [ping EXCEPT ![w].pc = "half"]
  /\ UNCHANGED <<now, pings, completed, pingsMet, browser, timeouts>>

WriteWorker(w) ==
  /\ ping[w].pc = "half"
  /\ key' = [key EXCEPT !["worker"] = [at |-> ping[w].at, until |-> now + KeyLife]]
  /\ completed' = Later(completed, ping[w].at)
  /\ ping' = [ping EXCEPT ![w] = [pc |-> "idle", at |-> Never]]
  /\ UNCHANGED <<now, pings, lastPing, pingsMet, browser, timeouts>>

\* The worker dies, or a command to Redis fails.
PingFails(w) ==
  /\ ping[w].pc # "idle"
  /\ ping' = [ping EXCEPT ![w] = [pc |-> "idle", at |-> Never]]
  /\ UNCHANGED <<now, pings, key, lastPing, completed, pingsMet, browser, timeouts>>

-----------------------------------------------------------------------------
(* GET /runtime/health                                                      *)

\* Bound: one request reads at a time.  Reading changes nothing at the API, and
\* answers may still arrive in any order.
HealthBegins(l) ==
  /\ load[l].pc = "asked"
  /\ \A m \in Loads : load[m].pc # "reading"
  /\ load' = [load EXCEPT ![l] = [@ EXCEPT !.pc = "reading", !.checked = now,
                                           !.pending = Keys, !.base = completed]]
  /\ UNCHANGED <<now, server, cache, shown, seq, lateAnswer, timeouts>>

Read(l, k) ==
  LET q == load[l] IN
  /\ q.pc = "reading" /\ k \in q.pending
  /\ load' = [load EXCEPT ![l] = [q EXCEPT
       !.pending = q.pending \ {k},
       !.seen = [j \in Keys |-> IF j = k THEN key[j].at ELSE q.seen[j]]]]
  /\ UNCHANGED <<now, server, cache, shown, seq, lateAnswer, timeouts>>

\* _safe_to_thread: no value.
ReadTimesOut(l, k) ==
  LET q == load[l] IN
  /\ q.pc = "reading" /\ k \in q.pending
  /\ timeouts < MaxTimeouts
  /\ timeouts' = timeouts + 1
  /\ load' = [load EXCEPT ![l] = [q EXCEPT !.pending = q.pending \ {k}, !.failed = TRUE]]
  /\ UNCHANGED <<now, server, cache, shown, seq, lateAnswer>>

\* max(0, int(...)): whole seconds, and 0 for a key that was written after the time
\* was taken.
Age(t, at) == IF at <= t THEN 0 ELSE (at - t) \div Second

\* Mutation: the age is compared as it is.
FreshExactly(t, at) == t # Never /\ at <= t + Stale * Second

Fresh(t, at) == t # Never /\ Age(t, at) <= Stale

BeatOk(q) == Fresh(q.seen["beat"], q.checked)

\* Mutation: a worker key that is too old is excused as one that is not there.
WorkerExcused(q) == Fresh(q.seen["worker"], q.checked) \/ BeatOk(q)

WorkerOk(q) == \/ Fresh(q.seen["worker"], q.checked)
               \/ BeatOk(q) /\ q.seen["worker"] = Never

\* Redis itself has been asked meanwhile, and may be unreachable.
HealthAnswers(l, redisOk) ==
  LET q == load[l] IN
  /\ q.pc = "reading" /\ q.pending = {}
  /\ redisOk \/ timeouts < MaxTimeouts
  /\ timeouts' = IF redisOk THEN timeouts ELSE timeouts + 1
  /\ load' = [load EXCEPT ![l] = [q EXCEPT !.pc = "answered",
       !.failed = q.failed \/ ~redisOk,
       !.seen = Idle.seen,
       !.ok = redisOk /\ WorkerOk(q) /\ BeatOk(q)]]
  /\ UNCHANGED <<now, server, cache, shown, seq, lateAnswer>>

-----------------------------------------------------------------------------
(* DashboardView.vue and api/runtime.ts                                     *)

\* getCachedRuntimeHealth.
Cached == IF cache.at # Never /\ now <= cache.at + CacheTTL THEN cache.checked ELSE Never

\* What the browser keeps of a request that has ended.
Settled(n, checked) == [Idle EXCEPT !.pc = "settled", !.seq = n, !.checked = checked]

\* A load, by the timer or the button, has the other data of the dashboard: the
\* cached answer is shown, and asked for again if it is too old.  Loads overlap
\* when one is slow.
LoadRuntimePanels(l) ==
  /\ load[l].pc = "idle"
  /\ seq < MaxLoads
  /\ seq' = seq + 1
  /\ shown' = Cached
  /\ load' = [load EXCEPT ![l] = IF Cached = Never THEN [@ EXCEPT !.pc = "asked", !.seq = seq + 1]
                                 ELSE Settled(seq + 1, Cached)]
  /\ UNCHANGED <<now, server, cache, lateAnswer, timeouts>>

AnswerArrives(l) ==
  /\ load[l].pc = "answered"
  /\ cache' = [checked |-> load[l].checked, at |-> now]
  /\ lateAnswer' = (lateAnswer \/ load[l].checked < cache.checked)
  /\ load' = [load EXCEPT ![l] = Settled(load[l].seq, load[l].checked)]
  /\ UNCHANGED <<now, server, shown, seq, timeouts>>

AnswerLost(l) ==
  /\ load[l].pc \in {"asked", "answered"}
  /\ load' = [load EXCEPT ![l] = Settled(load[l].seq, Never)]
  /\ UNCHANGED <<now, server, cache, shown, seq, lateAnswer, timeouts>>

\* Mutation: whatever settles last is shown.
ShowAnyLoad(l) ==
  /\ load[l].pc = "settled"
  /\ shown' = IF load[l].checked # Never THEN load[l].checked ELSE shown
  /\ load' = [load EXCEPT ![l] = Idle]
  /\ UNCHANGED <<now, server, cache, seq, lateAnswer, timeouts>>

\* Both panels have settled; only the newest load shows them.
ShowPanels(l) ==
  /\ load[l].pc = "settled"
  /\ shown' = IF load[l].seq = seq /\ load[l].checked # Never THEN load[l].checked ELSE shown
  /\ load' = [load EXCEPT ![l] = Idle]
  /\ UNCHANGED <<now, server, cache, seq, lateAnswer, timeouts>>

-----------------------------------------------------------------------------
HealthInit ==
  /\ now = 1
  /\ pings = 0
  /\ ping = [w \in Workers |-> [pc |-> "idle", at |-> Never]]
  /\ key = [k \in Keys |-> NoKey]
  /\ load = [l \in Loads |-> Idle]
  /\ cache = [checked |-> Never, at |-> Never]
  /\ shown = Never
  /\ seq = 0
  /\ lastPing = Never /\ completed = Never
  /\ pingsMet = FALSE /\ lateAnswer = FALSE
  /\ timeouts = 0

HealthNext ==
  \/ Tick
  \/ \E w \in Workers : PingBegins(w) \/ WriteBeat(w) \/ WriteWorker(w) \/ PingFails(w)
  \/ \E l \in Loads :
       \/ LoadRuntimePanels(l) \/ HealthBegins(l)
       \/ \E redisOk \in BOOLEAN : HealthAnswers(l, redisOk)
       \/ \E k \in Keys : Read(l, k) \/ ReadTimesOut(l, k)
       \/ AnswerArrives(l) \/ AnswerLost(l) \/ ShowPanels(l)

HealthSpec == HealthInit /\ [][HealthNext]_HealthVars

-----------------------------------------------------------------------------
\* "ok" can be relied on, whatever died, expired or timed out and whichever key
\* was read first: less than the limit and a second before checked_at a ping has
\* reached Redis, and a worker has completed one, unless the warm-up rule excuses
\* it: the last one completed before the reads has expired, or a read timed out.
\* runtime.py:78, :83, :87.
OkMeansRecentPing ==
  \A l \in Loads :
    LET q == load[l] IN
    q.pc = "answered" /\ q.ok =>
      /\ lastPing # Never /\ q.checked < lastPing + Limit
      /\ \/ completed # Never /\ q.checked < completed + Limit
         \/ q.base = Never \/ q.base + KeyLife <= now
         \/ q.failed

\* "degraded" has a reason: a read that failed, or no ping completed within the
\* limit when the reads began, unless a ping that was slow has met another and
\* turned a key back.  ping.py:14.
DegradedHasAReason ==
  \A l \in Loads :
    LET q == load[l] IN
    q.pc = "answered" /\ ~q.ok /\ ~pingsMet =>
      q.failed \/ q.base = Never \/ q.base + Limit <= q.checked

\* The panel never goes back to an older answer, also when loads overlap, a
\* panel settles late or an answer is lost; only an older answer that reached
\* the cache after a newer one can turn it back.  DashboardView.vue:97-99.
PanelNeverGoesBack ==
  [][~lateAnswer /\ shown' # Never => shown' >= shown]_HealthVars
=============================================================================
