# MONI: a verification project

TLA+ models of MONI, an uptime monitor: a FastAPI service, PostgreSQL, Celery
workers with a beat scheduler over Redis, and a Vue browser application.  Paths
are relative to the repository (`src/`); `app/` is `src/backend/app/`, `views/`
is `src/frontend/src/views/`.

Contents: 1 inventory, 2 plan, 3 the modules and the code, 4 the runs, 5 bounds
and fairness, 6 proofs, 7 what disagrees with the documents, 8 what is not
covered.

To check: `tlc -config X.cfg M` for each run of section 4, `tlapm M.tla` for each
`*Proofs` module.

## 1. Inventory

### Processes and how they interact

    browser (Vue) --HTTP--> API (uvicorn, asyncio) --SQL--> PostgreSQL
                                 |                              ^
                                 +--LPUSH--> Redis broker       | SQL
                                               |                |
    beat --LPUSH enqueue_due/expiry/heartbeat--+--> Celery worker processes (prefork)
                                                     checks, notify, expiry, ping, scheduler

Nothing calls across processes directly.  Everything goes through committed rows
of PostgreSQL (READ COMMITTED, one session per request or task,
`app/core/database.py`), messages in the broker (acknowledged when a task starts,
so a dead process loses its message), two heartbeat keys in Redis, and, in the
browser, `localStorage`.

Four facts about the libraries carry most of the weight, and each is visible in
the models:

- *autoflush is off and the unit of work is partial*: an UPDATE is sent at
  `flush` or `commit`, and names only the columns whose value differs from the one
  this session loaded (`Written` in four modules);
- *an UPDATE takes the row lock until COMMIT or ROLLBACK*: the early flush in
  `checks.py:289` is what keeps two checks of a monitor apart;
- *`.delay()` is outside the transaction*: a message may leave for a transaction
  that rolls back, and be consumed before one that commits;
- *an `await` in the browser or in the API is a point where anything else runs*.

### Components

| component | state | operations | hard because of |
|---|---|---|---|
| check pipeline (`checks.py`, `scheduler.py`, `monitors.py`) | `monitors` snapshot and flags, `check_runs`, `incidents`, row lock, broker queue | scheduler task, check task, create, PATCH pause/resume, delete, run-check | parallel checks of one monitor, stale ORM copies, crashes inside the transaction, lost messages |
| incident alerts (`checks.py`, `notify.py`, `mail.py`) | `incidents.last_alert_sent_at/reminder_count`, `alert_events`, broker | decide opened/still_down/recovered, notify task | messages that overtake commits, parallel notify tasks, counts read before they are written |
| probe (`checks.py`) | local variables of the attempts | lookup, request, retry | values that outlive their attempt, an exception nobody takes |
| monitor configuration (`monitors.py`, `monitor_service.py`) | `monitors`, `monitor_regions` | create, PATCH | validation against what was loaded, DELETE + INSERT under concurrency |
| expiry warnings (`expiry.py`) | `monitor_expiry_status` | sweep, button, inline check of the first GET | overlap, failed fetches, renewals, edits of the URL |
| rate limiter (`rate_limit.py`, `routers/auth.py`) | a deque per key | allow | boundary of the window, rounding |
| sessions (`auth_service.py`, `security.py`, `api/auth.ts`) | `refresh_tokens`, `localStorage` | login, refresh, logout, authFetch | parallel calls with one token, lost answers, requests the browser gave up while the server goes on, sign-out during a refresh |
| Run Check in the browser (`MonitorsView.vue`, `MonitorDetailView.vue`) | timers, phase, baseline | click, poll, timeout | answers that outlive their timer, stale baseline |
| registration, verification, Google sign-in (`auth_service.py`) | `users` with its two unique keys | register, verify, callback | letter before commit, credentials replaced by a stale load, concurrent first sign-ins |
| status pages (`status_pages.py`) | `status_pages` with its unique slug, `status_page_monitors` | create, PATCH, delete, public read | DELETE + INSERT under concurrency, one answer for every failed commit, reads in three statements |
| runtime health (`runtime.py`, `ping.py`, `api/runtime.ts`, `DashboardView.vue`) | two Redis keys with a lifetime, a cache and the panel in the browser | ping, health, load | pings that die half way, reads in parallel that time out, warm-up rule, answers out of order |
| uptime, risk fields, dashboard, lists | none | reads | boundaries of the pure functions |
| other pages, shell, migrations, deployment, tests | - | - | - |

### What makes each correct

- **Check pipeline.** One open incident per monitor; status and incidents tell the
  same story; every opening and closing is announced; a check does not undo a
  pause or a delete; a due monitor is checked, also after a crash, as long as its probes
  end in a result.
- **Alerts.** No reminder inside the cooldown; no reminder for an outage that was
  not reported; an outage reported once, and once more for each check that died while
  it opened it; the count never ahead of the reminders; a recovery reported once, and
  once more for each check that died while it closed the incident.
- **Probe.** Down only after every attempt failed; the first success decides; the
  result is of the last attempt.
- **Configuration.** At least one region; the active region stays mapped and the
  timeout within the interval, unless PATCHes overlap.
- **Expiry.** No threshold recorded that was not sent; one warning per threshold
  and date, and one more for each task that died and each edit of the URL that led to an
  earlier date, unless tasks overlap; an expiring date is warned of, unless tasks
  overlap, a fetch failed or such an edit was made.
- **Limiter.** Never more than the limit in a window; no refusal without reason;
  the wait it tells is enough.
- **Sessions.** The stored token is usable or about to be replaced; one live token
  per sign-in and no live session thrown away while calls do not overlap.
- **Run Check.** The timers always stop; the button comes back and completed means a
  check after the click, unless a request outlives its polling.
- **Accounts.** Whoever is not verified has, in a letter that has left, the token of
  the registration that chose the password; a verified account keeps its password,
  its link to Google and its state; nothing collides: the last three unless
  requests overlap.
- **Status pages.** A PATCH or POST that succeeds has linked its list, and nothing else
  unless requests overlap; "slug already exists" is true under the same condition,
  unless the database itself failed; a monitor shown as down comes with its incident.
- **Runtime health.** "ok" rests on a recent ping, "degraded" has a reason, the panel
  does not go back in time.

## 2. Plan

Done in this order, the most important behaviour first:

1. `CheckPipeline` with the abstract `IncidentLifecycle` and `CheckTurns`;
2. `IncidentAlerts` (it relies on what `CheckPipeline` shows: checks of one monitor
   exclude each other from their decision to their commit);
3. `MonitorConfig`, `ExpiryAlerts`;
4. `ProbeLoop`; `RateLimiter` with the abstract `SlidingWindow`;
5. `BrowserSession`, `RunCheckPolling`;
6. `StatusPages`, `Accounts`, `RuntimeHealth`;
7. the proofs: a module for each component with long ones (`CheckPipelineProofs`,
   `IncidentAlertsProofs`, `ExpiryAlertsProofs`, `MonitorConfigProofs`, `AccountsProofs`), and
   `AttemptsProofs` (`ProbeLoop`, `RateLimiter`), `BrowserProofs` (`BrowserSession`,
   `RunCheckPolling`), `ViewProofs` (`StatusPages`, `RuntimeHealth`).

`StatusPages` and `Accounts` share no variable with the pipeline: what they need of it
(a monitor fails, recovers, is deleted; a token is issued) is one action or one
field.  `IncidentAlerts` needs that checks of one monitor exclude each other from their
decision to their commit: that is `CheckTurns`, which `CheckPipeline` implements because
of its row lock, and which lets `IncidentAlerts` have one check.

The two modules that share a proof module (`ProbeLoop` and `RateLimiter`, and so on) have
no name in common: the second of each calls its `Init`, `Next`, `Spec` and `TypeOK`
`LimiterInit`, `PollingSpec`, `HealthTypeOK` and so on.

Left for the future, in this order: pause and resume by two requests at once in
`CheckPipeline`; the sweep of `expiry.py` over several monitors.

## 3. The modules and the code

### CheckPipeline, IncidentLifecycle, CheckTurns

`CheckPipeline` follows one check through `_check_http_monitor_async`:

| action | code |
|---|---|
| `Receive`, `Select`, `Skip` | the message is taken, `checks.py:281-286` loads the row |
| `FlushChecking` | `checks.py:288-289`, the UPDATE and its row lock |
| `Probe` | `checks.py:294-321`, any result of `_perform_probe` |
| `StayUp`, `Recover`, `OpenIncident`, `StayDown` | the four branches of `checks.py:343-395` |
| `Commit` | `checks.py:397` |
| `Abort` | the death of the process or a broker or database error, ROLLBACK (bounded by `MaxAborts`) |
| `Raises` | an exception of the probe that no handler takes (`checks.py:126`, `:292`), ROLLBACK; it may end every check of a monitor, so no bound counts it |

`BeatSelect`/`BeatSend` are the SELECT and the loop of `scheduler.py:22-38`, and
`Create`, `PatchLoad`/`PatchCommit`, `Delete`, `RunCheckAdmit` and `RequestEnqueue`
the requests of `monitors.py`.  `row`, `incident` and `last_run` hold what is
committed; what an open transaction has read or flushed is in the record of its
process.  `lock` is the row lock.  Time is the age of `last_checked_at` in four
steps (never, within the run-check minimum, past it, past the interval).

`IncidentLifecycle` is what the table of incidents promises without processes or
transactions: a monitor has no or one open incident, an incident is opened once
and closed at most once.  `CheckPipeline` implements it (`RefinesLifecycle`: the
open incidents of a monitor and the closed ones are read off the committed table).

`CheckTurns` is what the checks of a monitor are to each other: from its decision to its
commit or its end a check has the turn (`TakeToOpen`, `TakeToClose`, `TakeToStay`, then
`Carry` or `GiveUp`), and what it commits is what it has decided.  In `CheckPipeline` the
turn of a monitor is read off the tasks in stage "decided" (`Decisions`); that there is
never more than one of them is the work of the row lock (`RefinesTurns`).

### IncidentAlerts

The decision of a check and its commit are two actions with the broker between
them: `DecideOpen`, `DecideStillDown`, `DecideRecovered` put the message into `outbox`
(`checks.py:354-395`), `CheckCommit` or `CheckAbort` end the transaction.
`NotifyLoad`, `NotifyCommit` and `NotifyDies` are the notify task before and after the
SMTP call (`notify.py:17-107`).  `ShouldSendStillDown` is `checks.py:78-93` on a clock
of minutes.  An incident that is flushed but not committed is invisible to
`NotifyLoad`.

The model has one check at a time between decision and commit, which is what
`CheckPipeline` grants (its `RefinesTurns`).  An outage whose check died after its message
is opened again by the next check under another identifier: `OutageReportedOnce` counts
the reported openings of the monitor, whatever their identifiers, against its outages
and the checks that died (status "lost").  `undone` counts the checks that died after
they sent a recovery.  `NotifyCommit` waits for the row lock of a check that closes the
incident only when the task has the row to write, which `incident_recovered` has not.

### ProbeLoop

`_perform_probe`.  Instead of values, each field of the result holds the number of
the attempt its value comes from, so that a value left over from an earlier
attempt is seen.  `Fail` stands for the two handlers, `Continue` for the condition
of the `break`, `Unresolved` for the exception of `getaddrinfo` that neither handler
takes.

### MonitorConfig

A PATCH is `PatchLoad` (load and validation), then `PatchDelete`/`PatchDeleted`
(the DELETE of `set_monitor_regions`, which may wait for another one), `PatchResolve`
or `PatchActive` (the active region), and `PatchCommit`, `PatchReject` or
`PatchConflict`.  `WithoutRows` is what READ COMMITTED makes of a DELETE that waited.
The field `overlapped` of a PATCH is a history: another one was under way during it.
The two properties that name it say exactly which PATCHes can break a constraint,
also on a monitor that earlier PATCHes have broken.

### ExpiryAlerts

`Fetch` (with failures), `Decide` (renewal, next threshold, message), `Commit` or
`Conflict` (two first INSERTs) or `Dies`.  Certificate and domain are two members of
`Kinds`: the code treats them alike.  `Renew` moves one date on; `EditUrl` is a PATCH that
points the monitor to another host, with any dates, and keeps the row
(`monitors.py:221-222`).  `warnings` counts by kind, date and threshold; `overlapped` is a
history as above, `moved` counts the edits that led to an earlier date.

### RateLimiter, SlidingWindow

`InMemoryRateLimiter.allow` for one key.  The clock ticks finer than a second
because the answer is rounded to seconds; `admitted` is a history of all admitted
attempts, against which the deque is judged.  `SlidingWindow` is a limiter that keeps
them all and allows an attempt if and only if fewer than the limit are within the window;
`RateLimiter` implements it (`RefinesSlidingWindow`), although it throws attempts away and
stops at the first one that it keeps.

### BrowserSession

`CallSend`, `CallAnswered`, `CallUnauthorized`, `CallSaves` and `CallDenied` are
`authFetch` and `refreshAccessToken` of `api/auth.ts` between their awaits,
`RefreshRead`, `RefreshCommit` and `RefreshError` the route of `/auth/refresh`,
`SignOutSend`, `SignOutCommit` and `SignOutClears` the two sides of the sign-out.
`RefreshLost` is a fetch that rejects before or after the route has done its work,
`RefreshAbandoned` one that rejects while the server is still at it: the browser goes on,
the request stays under way (`abandoned`) until its answer is dropped (`AnswerDropped`),
and a call that refreshes meanwhile overlaps it.  A sign-out request that fails is taken
not to have reached the server.
Access and refresh token issued together have one number; `storage` holds the two
numbers of `localStorage`; `overlapped` is a history: two calls, or a call and a
sign-out, were under way at once.

### RunCheckPolling

The button and its timers, on both pages: `asksFirst` tells the page of all
monitors, which asks the API for `last_checked_at` before it queues a check, from
the page of one, which takes the one it shows.  A request of the timer is three
actions (sent, served, answered), so that its answer may arrive after the timer is
gone; `outlived` is a history that this may happen.

### StatusPages

A PATCH is `PatchLoad` (load, validation of the monitors), `PatchKeep` or
`PatchDelete`/`PatchDeleted` (the DELETE of `_set_page_monitors`, which is executed
at once and may wait for another), and `PatchCommit`, which sends the INSERTs and the
UPDATE; `PatchConflict` is the `except` that answers 409 when a constraint
is violated, `DatabaseFails` a statement or commit that fails for any other reason, which
the same `except` answers the same way (`AnswersConflict`), `PatchGone` the UPDATE of a page that another request has deleted.  POST
(`CreateBegin`, `CreateFlush`, `CreateConflict`, `CreateCommit`) and DELETE
(`DeleteLoad`, `DeleteCommit`) likewise.  `SlugHeld` and `RowsFree` are what the unique
index and the row locks make a writer wait for; `WithoutRows` is what READ COMMITTED
leaves of a DELETE that waited.  The public page is `ReadPage`, `ReadMonitors`,
`ReadIncidents`, its three statements, between which anything may commit.  `Fails`,
`Pauses`, `Recovers` and `DeleteMonitor` are what the pipeline does to a monitor as far
as a page shows it.

### Accounts

`RegisterSelect`, `RegisterFlush` (or `RegisterCollides`), `RegisterMail` and
`RegisterCommit` are `register_user` between its statements, with the letter that
leaves before the commit; `VerifySelect` and `VerifyCommit` are `verify_email`;
`GoogleSelect`, `GoogleSelectEmail` (or `GoogleConflict`), `GoogleFlush` (or
`GoogleCollides`) and `GoogleCommit` are `google_oauth_callback` up to the commit of
`_issue_tokens`.  A letter, its token and the password chosen with it have one
number.  `Held` and `SubHeld` are the locks of a row and of the two unique keys;
`Fails` ends a request at any point, `Expires` makes a letter late.

### RuntimeHealth

`PingBegins`, `WriteBeat`, `WriteWorker` and `PingFails` are `ping.py` command by
command; `HealthBegins`, `Read`, `ReadTimesOut` and `HealthAnswers` are
`GET /runtime/health` with its three threads (`Age` cuts to whole seconds as `int()` does;
`Fresh`, `BeatOk` and `WorkerOk` are the rule of `runtime.py:76-90`); `LoadRuntimePanels`, `AnswerArrives`, `AnswerLost` and
`ShowPanels` are the two panels of `DashboardView.vue` and the cache of
`api/runtime.ts`.  Time is one clock, `Second` of whose ticks are a second; the histories `lastPing`, `completed` and `base`
say what has happened at the worker, and the answers are judged against them.

### MC modules

`MCX` instantiates `X` for TLC: it names the sets of results or bodies and the
symmetry sets that the cfgs of `X` use.

## 4. The runs

Every run finishes without an error.  The numbers are distinct states, after
symmetry.

| run | cfg | states | shows |
|---|---|---|---|
| pipeline_safety | CheckPipelineSafety | 564,347 | four properties of the pipeline with two processes, a request and a crash; it implements both abstract specifications |
| pipeline_liveness | CheckPipelineLiveness | 412,053 | a due monitor is checked, under fairness, also after a crash, if from some time on its probes end in a result |
| alerts_safety | IncidentAlertsSafety | 3,454,146 | what the alert policy keeps when messages overtake commits and checks or notify tasks die twice |
| config | MonitorConfig | 1,646,329 | two PATCHes with every body: a region is left, and only overlapping PATCHes break the region and the timing rule |
| expiry | ExpiryAlerts | 1,971,105 | two tasks, a failed fetch, a crash, an edit of the URL to an earlier date: nothing recorded that was not sent; what is warned of once, and what is never missed |
| probe_safety | ProbeLoopSafety | 1,935 | the verdict and the result of up to four attempts |
| limiter | RateLimiter | 4,653 | the limit, Retry-After, and that forgetting old attempts makes no difference |
| session | BrowserSession | 4,797,044 | two calls that may be repeated, an error, two lost or abandoned requests, a sign-out: no dead token is kept for good; what holds while calls do not overlap |
| polling | RunCheckPolling | 51,654 | two clicks on both pages, late answers, no worker: the timers stop; what holds while no request outlives its polling |
| pages | StatusPages | 1,002,945 | three requests on two pages, two at a time, and a reader: lists are replaced exactly, conflicts are real unless the database itself failed, an outage comes with its incident |
| accounts | Accounts | 669,641 | three requests on two addresses and two Google accounts, one failure, letters that expire |
| health | RuntimeHealth | 4,434,473 | two workers, two loads, keys that expire, reads that time out, ages cut to whole seconds: both answers have their reason, the panel never goes back |

The longest take two to four minutes with two workers.

No run has a type invariant: each is a theorem (section 6).

Several properties hold under a condition on a history variable or a counter.  The
condition is part of the statement, is met by many states of the run (the same run
without overlaps, crashes or failures), and is as weak as was found true: dropping
it yields a counterexample, and those are described in section 7.

Each property has a mutant: a definition of the module (commented "Mutation")
that replaces a definition of the model the way a plausible bug would, and under
which the same run finds the property violated.

## 5. Bounds and fairness

- *One monitor* in the pipeline, alert, configuration and expiry runs.  Rows of
  different monitors share no lock and no column; the theorems of section 6 hold for
  any number of them.
- *Two processes* of each kind, *one or two requests*.  Every race of the code is
  between two transactions; a third waits for the same lock.  In `session` a call
  that has ended may begin again, and so meet the pair it saved, or what is left of a
  request it has given up.
- *Two incidents* so that one follows the other; *two thresholds* (of four) so that
  one is jumped over; *three regions*, one not in the catalogue; *two values* of
  interval and timeout, so that each order of them occurs.
- `MaxQueue`, `MaxOutbox`: one or two messages waiting, enough for one to overtake
  another.  `MaxAborts`, `MaxCrashes`, `MaxErrors`, `MaxFailures`, `MaxMoves`: one failure
  or edit, at every point; two in `alerts` and of the lost requests in `session`, for a
  second to meet what the first has left.  The proofs hold for any number.
- `Horizon` 4 minutes with a cooldown of 2 and a reminder of 1: two reminders fit;
  10 ticks with a window of 4: the deque is emptied twice; two days with thresholds of 0
  and 1 days: dates that are reached, passed, renewed and exchanged by an edit of the URL;
  warnings are counted up to `Repeated`, one more than the property allows.
- `MaxTokens` 5: two sign-ins and three refreshes, or one and four.
- `pages`: two pages, two slugs and two monitors, so that a slug can be taken and lists
  can be mixed; three requests in all, two at once, so that one finds what two others
  have mixed; one incident shown, two opened, so that the limit cuts; one failure of the
  database.
- `accounts`: two addresses and two subjects, one of which changes its address to that
  of the other; three requests at once, for a third to meet a collision of two; two
  registrations, so that the second replaces the first.
- `health`: two ticks to the second, and a limit of 0 s, so that the ages 0 and 1 s lie on
  both sides of it and each has a tick that is cut off; with 120 s
  (`app/core/config.py:53`) only the distance would grow.  A key lives three ticks (3600 s
  in the code: what matters is that it outlives the limit, a second and a read), and the
  clock runs to 4, so that a key is written, grows stale and expires.  One request reads at a time, since
  reading changes nothing; answers still arrive in any order.
- `MaxClicks`, `MaxChecks`, `MaxTimeouts` in `RunCheckPolling`: one more than the
  interleavings of two clicks use.

`CHECK_DEADLOCK FALSE` is in the cfgs of models that stop at a bound, not in the
code: the clock (`IncidentAlerts`, `ExpiryAlerts`, `RateLimiter`), the tokens
(`BrowserSession`), the clicks and checks (`RunCheckPolling`), the requests and letters
(`StatusPages`, `Accounts`), the clock and the loads (`RuntimeHealth`), and in
`ProbeLoop`, which ends as the function does.  In `CheckPipeline` and `MonitorConfig` deadlock is
checked.

Fairness.  `CheckPipeline!Fairness`: beat fires its task (weak); a message that is
offered again and again is received (strong: with one message a process may take
another first; Redis lists are FIFO); a lock request that is enabled again and again
is granted (strong: PostgreSQL queues them in order); a running task goes on (weak).
Nothing is assumed of the requests, and nothing of crashes except that they are
finitely many.  Exceptions of a probe (`Raises`) are not: `DueMonitorIsChecked` is stated
for the monitors whose probes return from some time on (`ProbesReturn`), and is false
without that premise.  In `RunCheckPolling` each liveness property states its own:
`TimersStop` assumes of the browser that its 60-second timer fires, and of nobody
else anything; `PollingTerminates` assumes `AnswersArrive` (the interval timer fires,
the API answers what it is asked, and a worker checks the monitor at each interval)
and nothing of the 60 seconds.

## 6. Proofs

All proofs are checked by tlapm with no assumption besides the named ASSUMEs on the
constants (null values are not members of the sets they stand for; bounds are
natural numbers; the notify processes are finitely many; the clock of `RuntimeHealth` has
a first tick, and a key outlives the stale limit, a second more and a read, as 3600 s do
120 s, 1 s and 3 s), which
TLC evaluates in every run.

**CheckPipelineProofs** (any sets of monitors, processes, requests, identifiers; any
bounds).  `TypeCorrect` is by one step per action.  The safety properties are not
inductive alone: that a commit opens no second incident depends on what was read
before it.  `PipelineInv` adds `LockInv` (a task between its flush and its end holds
the row lock of its monitor) and `ReservedInv` (the e-mail of a decision has left,
and no two tasks have drawn one identifier) to `DecisionsStayValid`,
`IncidentsAnnounced`, `AtMostOneOpenIncident` and `StatusMatchesIncidents`.  The
argument: only the holder of the lock commits a change of the incidents of a
monitor, so what it read is still so (`QuietStep` and `UndecidedStep` for steps of
others and of undecided tasks, `DecideStep` and `CommitStep` for the two that
matter).  From it: `OneOpenIncident`, `StatusTellsIncidents`, `TransitionsAnnounced`,
`ReadsHoldUntilCommit`, and `PipelineRefinesLifecycle`, where `CommitRefines` shows that
a commit is one abstract step and `OnlyCommitMovesIncidents` that everything else
stutters.  `ConfigurationKept` is an action property, from the shape of the two steps
that write `is_paused`.

`ChecksTakeTurns` is the refinement of `CheckTurns`: reading the incidents takes the turn
(`DecideTakesTurn`, where `LockInv` says that nobody else has it and `ReservedInv` that
the identifier is fresh), the commit carries the decision out (`CommitCarries`), a crash
gives it up (`AbortGivesUp`), and a task before its decision has none
(`UndecidedStutters`).  `TurnsMakeLifecycle` uses nothing of the pipeline: whatever
implements `CheckTurns` implements `IncidentLifecycle`, because an open turn fixes what
the incidents of its monitor are (`TurnsHeld`).

**AttemptsProofs** (any `MaxRetries`; any limit, window and resolution of the clock).
`LoopInv`: before attempt n there were n - 1 attempts and all failed; at the exit the
last attempt decides.  From it `ProbeTypeCorrect`, `FailureIsUnanimous`,
`SuccessIsFinal`, `ResultIsFresh`.  `BucketInv`: the deque is the tail of the admitted
attempts, and those it has forgotten are older than the window.  From it
`LimiterTypeCorrect`, `WindowLimit`, `RefusalReason` and `RetryAfterSuffices`.  With
`OrderInv`, the admitted attempts are in order, the attempts that are left in the deque
are one by one those within the window, which is `ForgettingIsSafe`: the deque allows
and denies as `SlidingWindow` does.

**IncidentAlertsProofs** (any incidents, notify processes, policy and bounds).
`Base` adds to the types what the open transaction of the check has done to its
incident.  `CooldownInv` follows a reminder from the decision through the broker to
the task: its incident was opened a cooldown before it was sent, and no step moves
`opened_at` or gives an identifier back (`RowsEvolve`).
`RecordInv` says that a row with the time of a last alert, a reminder in the broker
and a task that sends one each rest on an alert in `alert_events`, and that no task
carries a count that is ahead.  `OpeningInv` counts the places where the one report of an
opening can be (a message, a task, a row of `alert_events`): none for an identifier
that is free, never two.  With `LoneOpen` and `Flushed` (an identifier that is flushed is
that of the open check) the openings that were reported are those of closed incidents, of
one that goes on, and of checks that died (`OutagesReportedOnce`).  `RecoveryInv` counts the places where the report of a recovery
can be, over the whole queue: no more than one for an incident that a check has ended,
or is about to, and one for every check that died while it closed one.  `LoneOpen` is that one incident is
open at most, and none while a check opens another.  From them `TypeCorrect`,
`RemindersWaitForCooldown`, `RemindersFollowFirstAlert`, `CountNeverAhead`,
`OutagesReportedOnce`, `RecoveryReportedOnce`, and the refinement `AlertedIncidentsLive`
of `IncidentLifecycle`.  The notify processes and the incidents are assumed to be
finitely many, so that messages and outages can be counted.

**ExpiryAlertsProofs** (any finite set of kinds, any thresholds and tasks).
`SentInv`: what a task has decided to record was sent, for some date.  `OnceInv`: while no
two tasks overlap, a warning leaves its threshold in the row, or in the task that is about
to write it, with a date not before its own, until its date can be found no more; every
task that dies and every edit of the URL that leads to an earlier date excuses one more
(`Extra`).  `DueInv`: while no fetch fails and no such edit is made, the row and the task
speak of one date each, which only grows, and the tightest threshold that was reached is
due or was warned of.  From
them `TypeCorrect`, `RecordedMeansSent`, `WarnedOnce`, `CloseDateWarned`.

**MonitorConfigProofs** (any catalogue, bodies and number of PATCHes).  `Base`: a PATCH
under way has passed the validation.  `AloneInv`: a PATCH that nobody has overlapped
has loaded the row that is there, deletes the rows that are there and has chosen an
active region among those that will be.  From them `TypeCorrect`, `RegionsRemain`,
`TimeoutStays`, `ActiveRegionStays`.

**AccountsProofs** (any addresses, Google accounts and requests).  `RowsInv` and
`RequestsInv` relate each row to the letters, and each request to the row of its
address and to the row it has loaded; `HoldersInv`: two requests never hold the same
row; `AloneInv`: a request that nobody has overlapped works on the row as it is, and
no row has its subject.  A step begins a request, moves one or commits one, and one
lemma for each (`Started`, `Moved`, `Committed`) preserves all of it.  From it
`TypeCorrect`, `UnverifiedCanVerify`, `VerifiedPasswordStays`, `LinkStays`,
`CollisionsNeedOverlap`.

**BrowserProofs** (any number of calls, clicks and requests, any bounds).  Of
`BrowserSession`: `FreshInv`: the token an answer carries is live and neither the storage
nor any call or sign-out has it, so that `StoredInv`, which is `StoredTokenUsable`,
survives the moment it is saved.  `LoneInv` and `OneLiveInv`: a call nobody has overlapped
finds in the storage what it took from it, and what it has validated stays live until it
commits; `AbandonedLost`: only a request that was counted as lost goes on without its
browser.  From them `TypeCorrect`, `BrowserCanGoOn`, `OneLiveToken`, `LoneCallStaysIn`.
Of `RunCheckPolling`: on the page that asks first, the baseline of a click (`ClicksInv`),
of the timer (`TimerInv`) and of a request that has not outlived its timer (`AnswersInv`)
lies between the checks committed at the click and those committed now, so that an
answer beyond it is a check after the click.  From `PollingInv`, `PollingTypeCorrect` and
`CompletedIsEarned`.

**ViewProofs** (any pages, slugs, monitors, requests; any workers, loads, lifetimes).
Of `StatusPages`: `RequestInv`: a request that nobody has overlapped is alone
(`LoneInv`), has loaded the row that is there and deleted the rows that are there
(`SeenInv`).  `OutageInv`: a monitor is shown as down only with an incident that is open;
`ReaderInv`: of what the reader has read so far, every monitor that is down has an
incident among those that were open; the list leaves one out only when it is full of
newer ones (a lemma: of a finite set of numbers the newest are exactly as many as the
limit, if there are as many).  From `PagesInv`, `PagesTypeCorrect`, `OutageIsExplained`,
`ListReplacesLinks`, `ConflictIsTheSlug`.
Of `RuntimeHealth`: `ServerInv` relates the keys to the pings (a key holds no later time
than was written, outlives it by its lifetime, and is missed only after that; while no
two pings meet it holds the latest), `RequestsInv` what a request has read to what was in
the keys when it began, `PanelInv` the numbers of the loads to what the panel and the
cache hold; `FreshIsWithinLimit` says what cutting to whole seconds lets pass: an age less
than the limit and a second.  From `HealthInv`, `HealthTypeCorrect`, `OkIsBacked`, `DegradedIsBacked`,
`PanelMovesForward`.

Proved and in no run, since the theorem makes one redundant: the type invariants,
`DecisionsStayValid`, `SuccessEndsTheProbe`, `RefusalIsJustified`, and `RefinesLifecycle`
of `IncidentAlerts`.  TLC has agreed with
each of them before it was proved.

Only model-checked: liveness (`DueMonitorIsChecked`, `PollingTerminates`,
`TimersStop`), since ENABLED and fairness are out of the prover's reach.  Every
invariant, action property and refinement that a run checks is also a theorem.  What a
recursive definition computes for every input cannot be proved either; no module
declares one.

## 7. What disagrees with the documents

Each was met as a counterexample while the models were written, by stating the
property without its condition, and is kept here for the reader of the code:

- *Reminders* (`upgrade_planning_docs_1:123`): their clock is the time of the last alert,
  which only a notify task writes (`checks.py:90`); when the first message overtakes the
  commit of its incident, or its task dies, it never starts and no reminder is sent
  (`checks.py:377`).
- *A name that does not resolve* (`PROJECT-PLAN.md:230`): `getaddrinfo` raises outside
  both handlers, every check ends without a result, `last_checked_at` is never written and
  the monitor never goes down (`checks.py:126`; likewise the refusal of an internal
  address, `:292`); hence the premise `ProbesReturn`.
- *A session that is lost* (`README.md:67`): of two calls that refresh at once the second
  is denied and deletes the live pair the first has just saved (`api/auth.ts:80`).
- *Snapshot* (`README.md:68`, `:91`): a check that waited for the lock writes only the
  columns that differ from its stale copy, so that `last_status_code` and
  `last_error_message` may be those of the run before (`checks.py:281`, `:339`).
- *Skipping a running check* (`upgrade_planning_docs_1:330`,
  `planning-docs/PROJECT-PLAN.md:410`): CHECKING is flushed and never committed, so
  neither the scheduler (`scheduler.py:26`) nor run-check (`monitor_service.py:157`) sees it.
- *Maximum of reminders* (`upgrade_planning_docs_1:127`): checks that run while a
  reminder waits in the broker see the old count (`checks.py:384`).
- *Recovered once* (`upgrade_planning_docs_1:124`): not after a check that died between
  its message and its commit (`checks.py:360`); `RecoveredAlertOnce` says how many.
- *Order of alerts* (`upgrade_planning_docs_1:524`): a delayed reminder follows the
  recovery (`notify.py:82`).
- *Region and timing* (`MONITOR-REGION-RESOURCE-SAVING-PLAN.md:41`,
  `PROJECT-PLAN.md:239`): two overlapping PATCHes, each valid, are not together
  (`monitors.py:203`, `:233`).
- *Outage reported once* (`upgrade_planning_docs_1:121`): a check that dies between its
  message and its commit has reported an incident that is not there, and the next check
  reports the outage again under another identifier (`checks.py:377`);
  `OutageReportedOnce` says how many.
- *One warning per threshold* (`upgrade_planning_docs_1:251`): overlapping tasks send
  it twice (`expiry.py:211`), and so does a task that died before its commit.
- *Edits of the URL* (`monitors.py:221`): the row of the host before is kept, and its
  thresholds start again only for a later date (`expiry.py:202`).  A host with an earlier
  date inherits what was sent for the other one, so that its date may never be warned of,
  and the way back to the first host warns of one threshold of one date twice.
- *Renewal* (`upgrade_planning_docs_1:231`): after a failed fetch the old date is gone
  and a renewal is not noticed (`expiry.py:225`).
- *Order of warnings* (`upgrade_planning_docs_1:205`): thresholds that were jumped over
  are made up for on the following checks (`expiry.py:57`).
- *One refresh token* (`README.md:67`): of two requests that refresh at once both may find
  the token live and issue a new one (`auth_service.py:143`), also when the first is one
  that the browser has given up while the server was at work on it.
- *Signing out* (`README.md:67`): an answer of `/auth/refresh` that arrives after it
  fills the storage again (`api/auth.ts:84`).
- *Run Check* (`M1-DAY-BY-DAY-CHECKLIST.md:202`, `PROJECT-PLAN.md:164`): an answer after
  the 60 seconds disables the button until the page is reloaded
  (`MonitorsView.vue:389`), and the page of one monitor may take an older check for the
  new one (`MonitorDetailView.vue:238`).
- *Lists of a status page* (`status_pages.py:76`): two PATCHes that overlap leave the
  monitors of both, or one of them fails on a duplicate key.
- *"slug already exists"* (`status_pages.py:130`, `:172`): the answer to any exception of
  the flush or commit, also to a lost connection or to a name or notes that the database
  does not store, to a link that another PATCH has inserted, and to a page that was deleted
  meanwhile.
- *Verified accounts* (`auth_service.py:39`): a registration that has loaded the row
  before it was verified replaces the password of the verified account, and stores a
  token that can verify it again.
- *Google sign-in* (`auth_service.py:239-261`): of two callbacks that overlap the later
  replaces the link of the earlier, or ends in an IntegrityError that nobody takes, a
  500.
- *Age* (`runtime.py:78`, `:83`): ages are cut to whole seconds before they are compared, so
  that a heartbeat counts as fresh for almost one second more than
  `runtime_beat_stale_seconds`.
- *Warm-up* (`runtime.py:89`): a read of the worker key that times out counts as a key
  that was never written, and is excused while beat is fresh.
- *Runtime cache* (`api/runtime.ts:57`): an answer that arrives after a newer one
  replaces it in the cache, and the next load shows it.
- *Fresh beat* (`ping.py:22`): the time a ping writes is the worker's, so that a backlog
  of pings keeps the beat key fresh after beat has stopped.

## 8. What is not covered

- The pure functions behind uptime windows, risk fields and accepted status codes: they
  keep no state and no property of the modelled parts depends on them.
- The queue profile of the runtime panel, the list of a user's pages, the region
  catalogue, `/auth/me`: reads.
- The views of status pages and of registration, which only call the routes; the
  overlapping loads of `MonitorsView.vue:136` and `PublicStatusPageView.vue:34`, which
  keep whatever arrives last.
- The sweep of `expiry.py:153`: an exception for one monitor ends it for all that
  follow.
- Refresh tokens of 14 days and several browsers: the rows of two sign-ins do not
  interact.
- The dashboard and the lists: reads whose aggregates are computed by the database.
- E-mail texts, layout, logging, HTTP of the probes, TLS, WHOIS formats.
- Several monitors in one run: they share nothing but the broker and the processes,
  whose number is a matter of throughput.
- The growth of queues and of the limiter's memory, the blocking of the event loop:
  no property of a state tells them apart.
- Migrations, deployment scripts, tests.  The migrations were read for keys: there is
  no unique index on open incidents, which is why `AtMostOneOpenIncident` needs the
  lock.
