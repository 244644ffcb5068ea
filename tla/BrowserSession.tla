--------------------------- MODULE BrowserSession ---------------------------
(***************************************************************************)
(* The session of one user in one browser: the access and the refresh token  *)
(* in localStorage, the calls of authFetch that share them (the requests a   *)
(* page sends in parallel, its timers, other tabs), signing out, and the     *)
(* rows of refresh_tokens behind them.  A refresh token is replaced each     *)
(* time it is used.  The access and the refresh token issued together have   *)
(* one number; an access token is valid until it expires, whatever happens   *)
(* to the refresh token.                                                     *)
(***************************************************************************)
EXTENDS Naturals, Sequences, FiniteSets

CONSTANTS
  Calls,       \* calls of authFetch in flight at once
  MaxTokens,   \* bound: tokens issued
  MaxLost,     \* bound: requests or answers of /auth/refresh that are lost
  MaxErrors,   \* bound: answers 429 or 5xx of /auth/refresh
  MaxSignOuts  \* bound: how often the user signs out

ASSUME SessionBoundAssumption == {MaxTokens, MaxLost, MaxErrors, MaxSignOuts} \subseteq Nat

VARIABLES
  tokens,    \* table refresh_tokens: the sign-in each row stems from, is it live
  expired,   \* the access tokens whose exp has passed
  storage,   \* localStorage: the number of each token, 0 if it is not there
  call,      \* what each call of authFetch is doing
  signout,   \* what the call of logout is doing
  overlapped,  \* history: two calls, or a call and a sign-out, were under way at once,
               \* the server's work on a call that the browser has given up included
  logins, lost, errors, signouts

vars == <<tokens, expired, storage, call, signout, overlapped, logins, lost, errors, signouts>>

UnderWay == {c \in Calls : call[c].pc # "idle"}

NoToken == 0
Numbers == 0 .. MaxTokens

CallType == [pc : {"idle", "sent", "refreshing", "validated", "answered", "denied"},
             access : Numbers, refresh : Numbers, new : Numbers, abandoned : BOOLEAN]

IdleCall == [pc |-> "idle", access |-> NoToken, refresh |-> NoToken, new |-> NoToken,
             abandoned |-> FALSE]

TypeOK ==
  /\ tokens \in Seq([login : 1 .. MaxTokens, live : BOOLEAN]) /\ Len(tokens) <= MaxTokens
  /\ expired \subseteq DOMAIN tokens
  /\ storage \in [access : Numbers, refresh : Numbers]
  /\ call \in [Calls -> CallType]
  /\ signout \in [pc : {"idle", "sent", "answered"}, refresh : Numbers]
  /\ overlapped \in BOOLEAN
  /\ logins \in Numbers /\ lost \in 0 .. MaxLost
  /\ errors \in 0 .. MaxErrors /\ signouts \in 0 .. MaxSignOuts

-----------------------------------------------------------------------------
\* saveTokens and clearTokens.
Saved(n) == [access |-> n, refresh |-> n]
Cleared == [access |-> NoToken, refresh |-> NoToken]

Live(n) == n # NoToken /\ tokens[n].live

\* _issue_tokens: one more row.
Issue(rows, login) == Append(rows, [login |-> login, live |-> TRUE])

Revoked(rows, n) == [rows EXCEPT ![n].live = FALSE]

\* login_password or google_oauth_callback, and the page that saves the answer:
\* the router shows it only to a browser without an access token.
Login ==
  /\ storage.access = NoToken
  /\ Len(tokens) < MaxTokens
  /\ tokens' = Issue(tokens, logins + 1)
  /\ logins' = logins + 1
  /\ storage' = Saved(Len(tokens) + 1)
  /\ UNCHANGED <<expired, call, signout, overlapped, lost, errors, signouts>>

Expire(n) ==
  /\ expired' = expired \cup {n}
  /\ UNCHANGED <<tokens, storage, call, signout, overlapped, logins, lost, errors, signouts>>

-----------------------------------------------------------------------------
(* authFetch, in the browser                                                *)

CallSend(c) ==
  /\ call[c].pc = "idle"
  /\ storage.access # NoToken
  /\ call' = [call EXCEPT ![c].pc = "sent", ![c].access = storage.access]
  /\ overlapped' = (overlapped \/ UnderWay # {} \/ signout.pc # "idle")
  /\ UNCHANGED <<tokens, expired, storage, signout, logins, lost, errors, signouts>>

\* Any answer but 401 ends the call.
CallAnswered(c) ==
  /\ call[c].pc = "sent"
  /\ call[c].access \notin expired
  /\ call' = [call EXCEPT ![c] = IdleCall]
  /\ UNCHANGED <<tokens, expired, storage, signout, overlapped, logins, lost, errors, signouts>>

\* 401: refreshAccessToken takes the refresh token that is stored by now, and
\* throws if there is none.
CallUnauthorized(c) ==
  /\ call[c].pc = "sent"
  /\ call[c].access \in expired
  /\ call' = [call EXCEPT ![c] =
       IF storage.refresh = NoToken THEN IdleCall
       ELSE [IdleCall EXCEPT !.pc = "refreshing", !.refresh = storage.refresh]]
  /\ UNCHANGED <<tokens, expired, storage, signout, overlapped, logins, lost, errors, signouts>>

\* Mutation: the old refresh token is kept beside the new access token.
SaveAccessOnly(c) ==
  /\ call[c].pc = "answered" /\ ~call[c].abandoned
  /\ storage' = [storage EXCEPT !.access = call[c].new]
  /\ call' = [call EXCEPT ![c] = IdleCall]
  /\ UNCHANGED <<tokens, expired, signout, overlapped, logins, lost, errors, signouts>>

\* The answer is saved whatever the storage holds by now.  The request that is
\* then repeated changes nothing here.
CallSaves(c) ==
  /\ call[c].pc = "answered" /\ ~call[c].abandoned
  /\ storage' = Saved(call[c].new)
  /\ call' = [call EXCEPT ![c] = IdleCall]
  /\ UNCHANGED <<tokens, expired, signout, overlapped, logins, lost, errors, signouts>>

\* Any answer that is not ok clears the storage, whatever it holds by now.
CallDenied(c) ==
  /\ call[c].pc = "denied" /\ ~call[c].abandoned
  /\ storage' = Cleared
  /\ call' = [call EXCEPT ![c] = IdleCall]
  /\ UNCHANGED <<tokens, expired, signout, overlapped, logins, lost, errors, signouts>>

-----------------------------------------------------------------------------
(* POST /auth/refresh                                                       *)

\* refresh_tokens: the row is read without a lock.
RefreshRead(c) ==
  /\ call[c].pc = "refreshing"
  /\ call' = [call EXCEPT ![c].pc = IF Live(call[c].refresh) THEN "validated" ELSE "denied"]
  /\ UNCHANGED <<tokens, expired, storage, signout, overlapped, logins, lost, errors, signouts>>

\* Mutation: the token that was used stays live.
IssueWithoutRevoke(c) ==
  /\ call[c].pc = "validated"
  /\ Len(tokens) < MaxTokens
  /\ tokens' = Issue(tokens, tokens[call[c].refresh].login)
  /\ call' = [call EXCEPT ![c].pc = "answered", ![c].new = Len(tokens) + 1]
  /\ UNCHANGED <<expired, storage, signout, overlapped, logins, lost, errors, signouts>>

\* revoked_at is flushed, the new row added, both committed.  The UPDATE of
\* another request with the same token waits for the commit and then succeeds.
RefreshCommit(c) ==
  /\ call[c].pc = "validated"
  /\ Len(tokens) < MaxTokens
  /\ tokens' = Issue(Revoked(tokens, call[c].refresh), tokens[call[c].refresh].login)
  /\ call' = [call EXCEPT ![c].pc = "answered", ![c].new = Len(tokens) + 1]
  /\ UNCHANGED <<expired, storage, signout, overlapped, logins, lost, errors, signouts>>

\* 429 of the rate limiter before the row is read, or 5xx of the database or the proxy: ROLLBACK.
RefreshError(c) ==
  /\ call[c].pc \in {"refreshing", "validated"}
  /\ errors < MaxErrors
  /\ errors' = errors + 1
  /\ call' = [call EXCEPT ![c].pc = "denied"]
  /\ UNCHANGED <<tokens, expired, storage, signout, overlapped, logins, lost, signouts>>

\* Mutation: the call that gets no answer clears the storage.
LostClears(c) ==
  /\ call[c].pc \in {"refreshing", "answered", "denied"} /\ ~call[c].abandoned
  /\ lost < MaxLost
  /\ lost' = lost + 1
  /\ call' = [call EXCEPT ![c] = IdleCall]
  /\ storage' = Cleared
  /\ UNCHANGED <<tokens, expired, signout, overlapped, logins, errors, signouts>>

\* fetch rejects since the request has not reached the server, or its answer not
\* the browser: the storage stays.
RefreshLost(c) ==
  /\ call[c].pc \in {"refreshing", "answered", "denied"} /\ ~call[c].abandoned
  /\ lost < MaxLost
  /\ lost' = lost + 1
  /\ call' = [call EXCEPT ![c] = IdleCall]
  /\ UNCHANGED <<tokens, expired, storage, signout, overlapped, logins, errors, signouts>>

\* fetch rejects while the server is at work, or about to be: the browser is free
\* to send the next call, the server goes on.
RefreshAbandoned(c) ==
  /\ call[c].pc \in {"refreshing", "validated"} /\ ~call[c].abandoned
  /\ lost < MaxLost
  /\ lost' = lost + 1
  /\ call' = [call EXCEPT ![c].abandoned = TRUE]
  /\ UNCHANGED <<tokens, expired, storage, signout, overlapped, logins, errors, signouts>>

\* What the server answers then, nobody reads.
AnswerDropped(c) ==
  /\ call[c].pc \in {"answered", "denied"} /\ call[c].abandoned
  /\ call' = [call EXCEPT ![c] = IdleCall]
  /\ UNCHANGED <<tokens, expired, storage, signout, overlapped, logins, lost, errors, signouts>>

-----------------------------------------------------------------------------
(* logout, in the browser and POST /auth/logout                             *)

SignOutSend ==
  /\ signout.pc = "idle"
  /\ storage.refresh # NoToken
  /\ signouts < MaxSignOuts
  /\ signouts' = signouts + 1
  /\ signout' = [pc |-> "sent", refresh |-> storage.refresh]
  /\ overlapped' = (overlapped \/ UnderWay # {})
  /\ UNCHANGED <<tokens, expired, storage, call, logins, lost, errors>>

\* A token that is revoked or unknown is answered 200 as well.
SignOutCommit ==
  /\ signout.pc = "sent"
  /\ tokens' = Revoked(tokens, signout.refresh)
  /\ signout' = [signout EXCEPT !.pc = "answered"]
  /\ UNCHANGED <<expired, storage, call, overlapped, logins, lost, errors, signouts>>

\* finally: the storage is cleared, also when the request has failed.
SignOutClears ==
  /\ signout.pc \in {"sent", "answered"}
  /\ storage' = Cleared
  /\ signout' = [pc |-> "idle", refresh |-> NoToken]
  /\ UNCHANGED <<tokens, expired, call, overlapped, logins, lost, errors, signouts>>

-----------------------------------------------------------------------------
Init ==
  /\ tokens = <<>>
  /\ expired = {}
  /\ storage = Cleared
  /\ call = [c \in Calls |-> IdleCall]
  /\ signout = [pc |-> "idle", refresh |-> NoToken]
  /\ overlapped = FALSE
  /\ logins = 0 /\ lost = 0 /\ errors = 0 /\ signouts = 0

Next ==
  \/ Login
  \/ \E n \in DOMAIN tokens \ expired : Expire(n)
  \/ \E c \in Calls :
       \/ CallSend(c) \/ CallAnswered(c) \/ CallUnauthorized(c)
       \/ CallSaves(c) \/ CallDenied(c)
       \/ RefreshRead(c) \/ RefreshCommit(c) \/ RefreshError(c)
       \/ RefreshLost(c) \/ RefreshAbandoned(c) \/ AnswerDropped(c)
  \/ SignOutSend \/ SignOutCommit \/ SignOutClears

Spec == Init /\ [][Next]_vars

-----------------------------------------------------------------------------
\* The browser can go on with what it has stored: the refresh token is live, or
\* whoever has used it is about to replace or to clear it.  It holds for calls
\* in parallel, errors and signing out, as long as no answer is lost.
StoredTokenUsable ==
  lost = 0 /\ storage.refresh # NoToken =>
    \/ Live(storage.refresh)
    \/ \E c \in Calls : call[c].pc = "answered" /\ call[c].refresh = storage.refresh
    \/ signout.pc = "answered" /\ signout.refresh = storage.refresh

\* A call ends and leaves no token although the stored one was live.
SignsOutByItself(c) ==
  /\ call[c].pc # "idle" /\ call'[c].pc = "idle"
  /\ Live(storage.refresh) /\ storage'.refresh = NoToken

\* A user is sent to the login page by authFetch only when the stored refresh
\* token is no longer worth anything, as long as calls have never overlapped and
\* /auth/refresh has given no error, also when answers are lost.  README.md:67,
\* session continuity.
LoneCallKeepsSession ==
  [][~overlapped /\ errors = 0 => \A c \in Calls : ~SignsOutByItself(c)]_vars

\* A sign-in has one live refresh token at a time, what was used is worthless:
\* while calls do not overlap, also across lost answers, errors and sign-outs.  A
\* call that the browser has given up counts until the server is done with it.
OneLiveTokenPerLogin ==
  ~overlapped =>
    \A m, n \in DOMAIN tokens :
      tokens[m].live /\ tokens[n].live /\ tokens[m].login = tokens[n].login => m = n
=============================================================================
