----------------------------- MODULE ProbeLoop -----------------------------
(***************************************************************************)
(* _perform_probe: the attempts of one probe.  Each attempt first looks the  *)
(* target up and refuses private addresses, then sends the request; a failed *)
(* attempt is repeated at once, at most max_retries times.  The variables    *)
(* of the result outlive the attempt that assigned them, so the model keeps  *)
(* for each of them the NUMBER of the attempt its value comes from (0: None).*)
(***************************************************************************)
EXTENDS Naturals, Sequences

CONSTANT MaxRetries    \* monitors.max_retries

ASSUME RetriesAssumption == MaxRetries \in Nat

VARIABLES
  pc,        \* where the task is: before the lookup, before the request, ended
  attempt,   \* the attempt that runs, counted from 1
  result,    \* what the probe would return now
  outcomes   \* history: how each attempt has ended

vars == <<pc, attempt, result, outcomes>>

Statuses == {"up", "slow", "down", "timeout", "dns_error", "tls_error", "http_error"}

IsProbeFailure(status) == status \notin {"up", "slow"}

IsRetryableStatus(status) ==
  status \in {"timeout", "dns_error", "tls_error", "http_error", "down"}

\* _status_from_http of a response: is its code accepted, was it slow.
StatusFromHttp(accepted, slow) ==
  IF ~accepted THEN "http_error" ELSE IF slow THEN "slow" ELSE "up"

\* _map_http_exception
Exceptions == {"TimeoutException", "ConnectError of TLS", "ConnectError", "HTTPError"}

StatusOfException(exc) ==
  CASE exc = "TimeoutException"    -> "timeout"
    [] exc = "ConnectError of TLS" -> "tls_error"
    [] exc = "ConnectError"        -> "dns_error"
    [] exc = "HTTPError"           -> "down"

\* response stands for status_code, response_time_ms, ttfb_ms, final_url and
\* content_type; network for the three connection times; error for its type
\* and its message.
Sources == 0 .. MaxRetries + 1
ResultType == [status : Statuses, response : Sources, network : Sources, error : Sources,
               retry_count : 0 .. MaxRetries]

TypeOK ==
  /\ pc \in {"lookup", "request", "done", "escaped"}
  /\ attempt \in 1 .. MaxRetries + 1
  /\ result \in ResultType
  /\ outcomes \in Seq(Statuses)

-----------------------------------------------------------------------------
\* Mutation: an HTTP error is taken for an answer and not repeated.
BreaksOnHttpError(status) ==
  IF status \in {"timeout", "dns_error", "tls_error", "down"} /\ attempt <= MaxRetries
    THEN pc' = "lookup" /\ attempt' = attempt + 1
    ELSE pc' = "done" /\ UNCHANGED attempt

\* The end of the loop body: one more attempt, or break.
Continue(status) ==
  IF IsRetryableStatus(status) /\ attempt <= MaxRetries
    THEN pc' = "lookup" /\ attempt' = attempt + 1
    ELSE pc' = "done" /\ UNCHANGED attempt

\* The public address is found.
LookupPasses ==
  /\ pc = "lookup"
  /\ pc' = "request"
  /\ result' = [result EXCEPT !.retry_count = attempt - 1]
  /\ UNCHANGED <<attempt, outcomes>>

\* Mutation: the handler does not clear what the last attempt has left.
KeepsResponse(status) ==
  /\ result' = [result EXCEPT !.status = status, !.error = attempt, !.retry_count = attempt - 1]
  /\ outcomes' = Append(outcomes, status)

\* Both handlers: the fields of the response are cleared.
Fail(status) ==
  /\ result' = [status |-> status, response |-> 0, network |-> 0, error |-> attempt,
                retry_count |-> attempt - 1]
  /\ outcomes' = Append(outcomes, status)

\* ValueError: a local name, a private address, or no address at all.
Blocked ==
  /\ pc = "lookup"
  /\ Fail("down")
  /\ Continue("down")

\* getaddrinfo raises socket.gaierror for a name that does not resolve: no
\* handler of the loop takes an OSError, and the task ends with it.
Unresolved ==
  /\ pc = "lookup"
  /\ pc' = "escaped"
  /\ outcomes' = Append(outcomes, "dns_error")
  /\ result' = [result EXCEPT !.retry_count = attempt - 1]
  /\ UNCHANGED attempt

\* The connection times are measured on a connection of their own, which may
\* fail while the request does not.
Responds ==
  /\ pc = "request"
  /\ \E accepted, slow, measured \in BOOLEAN :
       LET status == StatusFromHttp(accepted, slow) IN
       /\ result' = [status |-> status, response |-> attempt, error |-> 0,
                     network |-> IF measured THEN attempt ELSE 0,
                     retry_count |-> attempt - 1]
       /\ outcomes' = Append(outcomes, status)
       /\ Continue(status)

Raises ==
  /\ pc = "request"
  /\ \E exc \in Exceptions :
       /\ Fail(StatusOfException(exc))
       /\ Continue(StatusOfException(exc))

Init ==
  /\ pc = "lookup"
  /\ attempt = 1
  /\ result = [status |-> "down", response |-> 0, network |-> 0, error |-> 0, retry_count |-> 0]
  /\ outcomes = <<>>

Next == LookupPasses \/ Blocked \/ Unresolved \/ Responds \/ Raises

Spec == Init /\ [][Next]_vars

-----------------------------------------------------------------------------
\* A monitor goes down only when every attempt failed, and all of them were
\* made: no early break counts a single failure as the verdict.
FailureTookEveryAttempt ==
  pc = "done" /\ IsProbeFailure(result.status) =>
    /\ Len(outcomes) = MaxRetries + 1
    /\ \A k \in DOMAIN outcomes : IsProbeFailure(outcomes[k])

\* The first success ends the probe, and is what it returns.
SuccessEndsTheProbe ==
  /\ \A k \in DOMAIN outcomes : ~IsProbeFailure(outcomes[k]) => k = Len(outcomes) /\ pc = "done"
  /\ pc = "done" => result.status = outcomes[Len(outcomes)]

\* The row of check_runs describes one attempt, the last: no code, time or
\* message of an earlier attempt survives in it, and an error is shown exactly
\* when there was no response.
ResultOfLastAttempt ==
  pc = "done" =>
    /\ result.retry_count = Len(outcomes) - 1
    /\ {result.response, result.error} = {0, Len(outcomes)}
    /\ result.network # 0 => result.network = result.response
=============================================================================
