-------------------------- MODULE RunCheckPolling --------------------------
(***************************************************************************)
(* The Run Check button of a monitor, on the page of all monitors and on the *)
(* page of one.  A click notes when the monitor was last checked, asks the   *)
(* API to queue a check, and starts a timer that asks for the monitor again  *)
(* and again, until it was checked after that or 60 seconds have passed.  A  *)
(* request the timer has sent is answered whenever the network likes, also   *)
(* after the timer is cleared.  The first page asks the API for the time of  *)
(* the last check, the second takes the one it shows.                        *)
(* current_status is never "checking" here: the worker does not commit it    *)
(* (CheckPipeline), so no reader of the API sees it.                         *)
(***************************************************************************)
EXTENDS Naturals

CONSTANTS
  Clicks,       \* handlers of the button that may run at once
  Polls,        \* requests of the timer that may be in flight at once
  NoPolling,    \* the timers of the monitor are cleared
  MaxClicks,    \* bound: clicks
  MaxChecks,    \* bound: checks the worker finishes
  MaxTimeouts,  \* bound: pollings that take 60 seconds
  MaxFailures   \* bound: requests that are refused or fail

ASSUME PollBoundAssumption ==
  /\ {MaxClicks, MaxChecks, MaxTimeouts, MaxFailures} \subseteq Nat
  /\ NoPolling \notin 0 .. MaxChecks

VARIABLES
  asksFirst,        \* the page: of all monitors, else of one
  last_checked_at,  \* monitors.last_checked_at: how many checks are committed
  shown,            \* last_checked_at as the page of one monitor shows it
  phase,            \* runCheckState of the row, runCheckPhase of the page
  polling,          \* what the timer compares with, or NoPolling
  asked_at,         \* history: the checks committed before the click it polls for
  click,            \* what each handler is doing
  poll,             \* the requests of the timers
  outlived,         \* history: timers were cleared while a request was in flight
  clicks, timeouts, failures

PollingVars == <<asksFirst, last_checked_at, shown, phase, polling, asked_at, click, poll,
          outlived, clicks, timeouts, failures>>

Checks == 0 .. MaxChecks

Phases == {"none", "queued", "completed", "failed", "timeout"}

\* clicked_at: how many checks were committed when the button was clicked.
ClickType == [pc : {"idle", "reading", "posting", "accepted"}, baseline : Checks,
              clicked_at : Checks]
PollType == [pc : {"free", "asked", "answered"}, baseline : Checks, seen : Checks]

IdleClick == [pc |-> "idle", baseline |-> 0, clicked_at |-> 0]
FreePoll == [pc |-> "free", baseline |-> 0, seen |-> 0]

PollingTypeOK ==
  /\ {last_checked_at, shown, asked_at} \subseteq Checks
  /\ {asksFirst, outlived} \subseteq BOOLEAN
  /\ phase \in Phases
  /\ polling \in Checks \cup {NoPolling}
  /\ click \in [Clicks -> ClickType]
  /\ poll \in [Polls -> PollType]
  /\ clicks \in 0 .. MaxClicks /\ timeouts \in 0 .. MaxTimeouts /\ failures \in 0 .. MaxFailures

\* The timers are cleared, or replaced, while one of these requests is in flight.
Abandons(requests) == outlived' = (outlived \/ \E q \in requests : poll[q].pc # "free")

-----------------------------------------------------------------------------
(* handleRunCheck                                                           *)

\* The button is disabled while the phase says so, not while a handler runs.
Click(k) ==
  /\ click[k].pc = "idle"
  /\ phase # "queued"
  /\ clicks < MaxClicks
  /\ clicks' = clicks + 1
  /\ click' = [click EXCEPT ![k].pc = "reading", ![k].clicked_at = last_checked_at]
  /\ UNCHANGED <<asksFirst, last_checked_at, shown, phase, polling, asked_at, poll,
                 outlived, timeouts, failures>>

\* Mutation: nothing is read, as if the monitor had never been checked.
NeverChecked(k) ==
  /\ click[k].pc = "reading"
  /\ click' = [click EXCEPT ![k].pc = "posting"]
  /\ UNCHANGED <<asksFirst, last_checked_at, shown, phase, polling, asked_at, poll,
                 outlived, clicks, timeouts, failures>>

\* Bound: a click that no check could follow stays here.
ReadBaseline(k) ==
  /\ click[k].pc = "reading"
  /\ last_checked_at < MaxChecks
  /\ click' = [click EXCEPT ![k].pc = "posting",
                            ![k].baseline = IF asksFirst THEN last_checked_at ELSE shown]
  /\ UNCHANGED <<asksFirst, last_checked_at, shown, phase, polling, asked_at, poll,
                 outlived, clicks, timeouts, failures>>

\* POST run-check: 202, the check is queued.
Accept(k) ==
  /\ click[k].pc = "posting"
  /\ click' = [click EXCEPT ![k].pc = "accepted"]
  /\ UNCHANGED <<asksFirst, last_checked_at, shown, phase, polling, asked_at, poll,
                 outlived, clicks, timeouts, failures>>

\* startRunCheckPolling clears the timers there are and starts new ones.
StartPolling(k) ==
  /\ click[k].pc = "accepted"
  /\ phase' = "queued"
  /\ polling' = click[k].baseline
  /\ asked_at' = click[k].clicked_at
  /\ click' = [click EXCEPT ![k] = IdleClick]
  /\ Abandons(Polls)
  /\ UNCHANGED <<asksFirst, last_checked_at, shown, poll, clicks, timeouts, failures>>

\* 409, 429 or no connection: a polling that runs goes on.
Refused(k) ==
  /\ click[k].pc \in {"reading", "posting"}
  /\ failures < MaxFailures
  /\ failures' = failures + 1
  /\ phase' = "failed"
  /\ click' = [click EXCEPT ![k] = IdleClick]
  /\ UNCHANGED <<asksFirst, last_checked_at, shown, polling, asked_at, poll, outlived,
                 clicks, timeouts>>

-----------------------------------------------------------------------------
(* startRunCheckPolling                                                     *)

\* The timer does not wait for the answer of the last request.
PollSend(p) ==
  /\ polling # NoPolling
  /\ poll[p].pc = "free"
  /\ poll' = [poll EXCEPT ![p] = [FreePoll EXCEPT !.pc = "asked", !.baseline = polling]]
  /\ UNCHANGED <<asksFirst, last_checked_at, shown, phase, polling, asked_at, click,
                 outlived, clicks, timeouts, failures>>

\* The API reads the monitor.
PollServed(p) ==
  /\ poll[p].pc = "asked"
  /\ poll' = [poll EXCEPT ![p].pc = "answered", ![p].seen = last_checked_at]
  /\ UNCHANGED <<asksFirst, last_checked_at, shown, phase, polling, asked_at, click,
                 outlived, clicks, timeouts, failures>>

\* Mutation: the times are compared the wrong way round.
HasOlderCheck(p) == poll[p].seen < poll[p].baseline

HasNewCheck(p) == poll[p].seen # poll[p].baseline

\* The callback goes on with the answer, whatever timers there are by now.
PollAnswer(p) ==
  /\ poll[p].pc = "answered"
  /\ \/ HasNewCheck(p) /\ phase' = "completed" /\ polling' = NoPolling /\ Abandons(Polls \ {p})
     \/ ~HasNewCheck(p) /\ phase' = "queued" /\ UNCHANGED <<polling, outlived>>
  /\ shown' = poll[p].seen
  /\ poll' = [poll EXCEPT ![p] = FreePoll]
  /\ UNCHANGED <<asksFirst, last_checked_at, asked_at, click, clicks, timeouts, failures>>

\* The request fails, or one of those for the list and the checks that follow it.
PollFails(p) ==
  /\ poll[p].pc \in {"asked", "answered"}
  /\ failures < MaxFailures
  /\ failures' = failures + 1
  /\ phase' = "failed" /\ polling' = NoPolling
  /\ poll' = [poll EXCEPT ![p] = FreePoll]
  /\ Abandons(Polls \ {p})
  /\ UNCHANGED <<asksFirst, last_checked_at, shown, asked_at, click, clicks, timeouts>>

\* Mutation: the phase is shown, the timer goes on.
TimeoutKeepsTimers ==
  /\ polling # NoPolling
  /\ timeouts < MaxTimeouts
  /\ timeouts' = timeouts + 1
  /\ phase' = "timeout"
  /\ UNCHANGED <<asksFirst, last_checked_at, shown, polling, asked_at, click, poll,
                 outlived, clicks, failures>>

PollTimeout ==
  /\ polling # NoPolling
  /\ timeouts < MaxTimeouts
  /\ timeouts' = timeouts + 1
  /\ phase' = "timeout" /\ polling' = NoPolling
  /\ Abandons(Polls)
  /\ UNCHANGED <<asksFirst, last_checked_at, shown, asked_at, click, poll, clicks,
                 failures>>

\* loadDetail: the page is opened or refreshed, or a polling is over.
Show ==
  /\ shown' = last_checked_at
  /\ UNCHANGED <<asksFirst, last_checked_at, phase, polling, asked_at, click, poll,
                 outlived, clicks, timeouts, failures>>

\* The worker commits a check: one that was asked for, or one that was due.
CheckCommitted ==
  /\ last_checked_at < MaxChecks
  /\ last_checked_at' = last_checked_at + 1
  /\ UNCHANGED <<asksFirst, shown, phase, polling, asked_at, click, poll, outlived,
                 clicks, timeouts, failures>>

-----------------------------------------------------------------------------
PollingInit ==
  /\ asksFirst \in BOOLEAN
  /\ outlived = FALSE
  /\ last_checked_at = 0 /\ shown = 0 /\ asked_at = 0
  /\ phase = "none"
  /\ polling = NoPolling
  /\ click = [k \in Clicks |-> IdleClick]
  /\ poll = [p \in Polls |-> FreePoll]
  /\ clicks = 0 /\ timeouts = 0 /\ failures = 0

PollingNext ==
  \/ \E k \in Clicks : Click(k) \/ ReadBaseline(k) \/ Accept(k) \/ StartPolling(k) \/ Refused(k)
  \/ \E p \in Polls : PollSend(p) \/ PollServed(p) \/ PollAnswer(p) \/ PollFails(p)
  \/ PollTimeout \/ Show
  \/ CheckCommitted

PollingSpec == PollingInit /\ [][PollingNext]_PollingVars

-----------------------------------------------------------------------------
\* The timer fires, the API answers, and while a worker runs the monitor is
\* checked at every interval.
AnswersArrive ==
  /\ WF_PollingVars(CheckCommitted)
  /\ \A p \in Polls : WF_PollingVars(PollSend(p)) /\ WF_PollingVars(PollServed(p)) /\ WF_PollingVars(PollAnswer(p))

\* No timer asks for ever, also when clicks overlap, requests outlive their
\* polling, no worker runs and nobody answers: the time limit of the last click
\* ends it.  With MaxTimeouts = MaxClicks every polling can reach its 60 seconds.
TimersStop == WF_PollingVars(PollTimeout) => (polling # NoPolling ~> polling = NoPolling)

\* A click is followed by a phase that lets the user click again, even if the time
\* limit never strikes, as long as no request outlives its polling.
\* M1-DAY-BY-DAY-CHECKLIST.md:202 allows no exception.
PollingTerminates ==
  AnswersArrive /\ [](~outlived) => (phase = "queued" ~> phase # "queued")

\* "completed" means that a check was committed after the click: on the page of
\* all monitors, as long as no request outlives its polling.  PROJECT-PLAN.md:164.
CompletedMeansChecked ==
  [][asksFirst /\ ~outlived /\ phase # "completed" /\ phase' = "completed"
       => last_checked_at > asked_at]_PollingVars
=============================================================================
