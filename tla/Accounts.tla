------------------------------ MODULE Accounts ------------------------------
(***************************************************************************)
(* The table of users: registration, which sends its letter before it        *)
(* commits and replaces the credentials of an account nobody has verified;   *)
(* the verification of the address; and the callback of Google, which finds  *)
(* a user by subject, links one by address, or inserts one.  Every request   *)
(* is one transaction at READ COMMITTED: an UPDATE locks its row, an INSERT   *)
(* its unique keys, until the transaction ends.  Every registration chooses  *)
(* a new password; the letter, its token and the password have one number.   *)
(***************************************************************************)
EXTENDS Naturals, FiniteSets

CONSTANTS
  Emails,
  Subs,         \* Google accounts
  Profiles,     \* the pairs of subject and address that Google reports
  Requests,     \* requests in flight at once
  NoSub,
  MaxLetters,   \* bound: registrations that draw a token
  MaxFailures   \* bound: letters that SMTP refuses, requests that die

ASSUME AccountAssumption == /\ NoSub \notin Subs /\ Emails # {}
                            /\ Profiles \subseteq [sub : Subs, email : Emails]
                            /\ {MaxLetters, MaxFailures} \subseteq Nat

VARIABLES
  user,     \* the committed row of each address
  letters,  \* the number of the last letter
  sent,     \* the letters that SMTP has taken
  late,     \* the letters whose email_verify_expires_at has passed
  req,      \* what each request is doing
  failures

vars == <<user, letters, sent, late, req, failures>>

None == 0
Numbers == 0 .. MaxLetters

NoUser == [exists |-> FALSE, verified |-> FALSE, password |-> None, token |-> None, sub |-> NoSub]

UserType == [exists : BOOLEAN, verified : BOOLEAN, password : Numbers, token : Numbers,
             sub : Subs \cup {NoSub}]

\* loaded: the row the session holds; number: of the letter; overlapped: history,
\* another request was under way at some moment of this one.
ReqType == [pc : {"idle", "registering", "flushed", "mailed", "verifying",
                  "unknown", "linking", "linked"},
            email : Emails, loaded : UserType, number : Numbers,
            sub : Subs \cup {NoSub}, overlapped : BOOLEAN]

AnyEmail == CHOOSE e \in Emails : TRUE

NoRequest == [pc |-> "idle", email |-> AnyEmail, loaded |-> NoUser, number |-> None,
              sub |-> NoSub, overlapped |-> FALSE]

TypeOK ==
  /\ user \in [Emails -> UserType]
  /\ letters \in Numbers
  /\ sent \subseteq 1 .. letters /\ late \subseteq 1 .. letters
  /\ req \in [Requests -> ReqType]
  /\ failures \in 0 .. MaxFailures

-----------------------------------------------------------------------------
UnderWay(r) == req[r].pc # "idle"

\* A request begins; whoever is under way has been overlapped by it.
Begin(r, started) ==
  /\ ~UnderWay(r)
  /\ req' = [s \in Requests |->
       IF s = r THEN [started EXCEPT !.overlapped = \E q \in Requests : UnderWay(q)]
       ELSE [req[s] EXCEPT !.overlapped = @ \/ UnderWay(s)]]

\* The row of an address, or its unique key, is held by another transaction.
Held(e, r) ==
  \E s \in Requests \ {r} : req[s].pc \in {"flushed", "mailed", "linked"} /\ req[s].email = e

SubHeld(g, r) == \E s \in Requests \ {r} : req[s].pc = "linked" /\ req[s].sub = g

\* The request ends without a trace: ROLLBACK.
Refuse(r) == /\ req' = [req EXCEPT ![r] = NoRequest]
             /\ UNCHANGED <<user, letters, sent, late>>

\* The column an ORM flush leaves in the row: only a change is written.
Written(stored, loaded, new) == IF new = loaded THEN stored ELSE new

-----------------------------------------------------------------------------
(* register_user                                                            *)

\* Mutation: the row that was found is updated, verified or not.
RegisterAnyone(r, e) ==
  /\ letters < MaxLetters
  /\ letters' = letters + 1
  /\ Begin(r, [NoRequest EXCEPT !.pc = "registering", !.email = e, !.loaded = user[e],
                                !.number = letters + 1])
  /\ UNCHANGED <<user, sent, late, failures>>

\* 409 for an address that is verified.
RegisterSelect(r, e) ==
  /\ ~user[e].verified
  /\ letters < MaxLetters
  /\ letters' = letters + 1
  /\ Begin(r, [NoRequest EXCEPT !.pc = "registering", !.email = e, !.loaded = user[e],
                                !.number = letters + 1])
  /\ UNCHANGED <<user, sent, late, failures>>

\* The flush updates the row that was found or inserts one.
RegisterFlush(r) ==
  /\ req[r].pc = "registering"
  /\ ~Held(req[r].email, r)
  /\ req[r].loaded.exists \/ ~user[req[r].email].exists
  /\ req' = [req EXCEPT ![r].pc = "flushed"]
  /\ UNCHANGED <<user, letters, sent, late, failures>>

\* IntegrityError of the INSERT: 409 as well.
RegisterCollides(r) ==
  /\ req[r].pc = "registering"
  /\ ~req[r].loaded.exists /\ user[req[r].email].exists
  /\ Refuse(r)
  /\ UNCHANGED failures

RegisterMail(r) ==
  /\ req[r].pc = "flushed"
  /\ sent' = sent \cup {req[r].number}
  /\ req' = [req EXCEPT ![r].pc = "mailed"]
  /\ UNCHANGED <<user, letters, late, failures>>

\* Mutation: the commit comes first, the letter after it.
CommitBeforeMail(r) ==
  LET q == req[r] IN
  /\ q.pc = "flushed"
  /\ user' = [user EXCEPT ![q.email] =
       IF q.loaded.exists THEN [@ EXCEPT !.password = q.number, !.token = q.number]
       ELSE [NoUser EXCEPT !.exists = TRUE, !.password = q.number, !.token = q.number]]
  /\ req' = [req EXCEPT ![r] = NoRequest]
  /\ UNCHANGED <<letters, sent, late, failures>>

\* is_verified was loaded as False and stays out of the UPDATE.
RegisterCommit(r) ==
  LET q == req[r] IN
  /\ q.pc = "mailed"
  /\ user' = [user EXCEPT ![q.email] =
       IF q.loaded.exists THEN [@ EXCEPT !.password = q.number, !.token = q.number]
       ELSE [NoUser EXCEPT !.exists = TRUE, !.password = q.number, !.token = q.number]]
  /\ req' = [req EXCEPT ![r] = NoRequest]
  /\ UNCHANGED <<letters, sent, late, failures>>

-----------------------------------------------------------------------------
(* verify_email                                                             *)

\* 400 for a letter that no row knows and for one that is late.
VerifySelect(r, n, e) ==
  /\ n \in sent \ late
  /\ user[e].exists /\ user[e].token = n
  /\ Begin(r, [NoRequest EXCEPT !.pc = "verifying", !.email = e, !.loaded = user[e], !.number = n])
  /\ UNCHANGED <<user, letters, sent, late, failures>>

\* The UPDATE waits for the row and names the row by its id only.
VerifyCommit(r) ==
  LET q == req[r]
      row == user[q.email] IN
  /\ q.pc = "verifying"
  /\ ~Held(q.email, r)
  /\ user' = [user EXCEPT ![q.email] =
       [row EXCEPT !.verified = Written(row.verified, q.loaded.verified, TRUE), !.token = None]]
  /\ req' = [req EXCEPT ![r] = NoRequest]
  /\ UNCHANGED <<letters, sent, late, failures>>

-----------------------------------------------------------------------------
(* google_oauth_callback                                                    *)

Owns(e, g) == user[e].exists /\ user[e].sub = g

\* Mutation: users are looked up by address only.
GoogleByEmail(r, p) ==
  /\ ~Owns(p.email, p.sub)
  /\ Begin(r, [NoRequest EXCEPT !.pc = "unknown", !.email = p.email, !.sub = p.sub])
  /\ UNCHANGED <<user, letters, sent, late, failures>>

\* A subject that is known is signed in, which changes no user.
GoogleSelect(r, p) ==
  /\ \A e \in Emails : ~Owns(e, p.sub)
  /\ Begin(r, [NoRequest EXCEPT !.pc = "unknown", !.email = p.email, !.sub = p.sub])
  /\ UNCHANGED <<user, letters, sent, late, failures>>

\* Mutation: the link of another Google account is replaced.
NeverElsewhere(row, g) == FALSE

LinkedElsewhere(row, g) == row.sub # NoSub /\ row.sub # g

GoogleSelectEmail(r) ==
  LET q == req[r] IN
  /\ q.pc = "unknown"
  /\ ~LinkedElsewhere(user[q.email], q.sub)
  /\ req' = [req EXCEPT ![r].pc = "linking", ![r].loaded = user[q.email]]
  /\ UNCHANGED <<user, letters, sent, late, failures>>

\* 409, the address is linked to another Google account.
GoogleConflict(r) ==
  /\ req[r].pc = "unknown"
  /\ LinkedElsewhere(user[req[r].email], req[r].sub)
  /\ Refuse(r)
  /\ UNCHANGED failures

\* The row to insert is there by now, or another one has the subject.
Collides(q) ==
  \/ ~q.loaded.exists /\ user[q.email].exists
  \/ \E e \in Emails \ {q.email} : Owns(e, q.sub)

GoogleFlush(r) ==
  /\ req[r].pc = "linking"
  /\ ~Held(req[r].email, r) /\ ~SubHeld(req[r].sub, r)
  /\ ~Collides(req[r])
  /\ req' = [req EXCEPT ![r].pc = "linked"]
  /\ UNCHANGED <<user, letters, sent, late, failures>>

\* An IntegrityError that nobody takes: 500.
GoogleCollides(r) ==
  /\ req[r].pc = "linking"
  /\ Collides(req[r])
  /\ Refuse(r)
  /\ UNCHANGED failures

\* The commit of _issue_tokens.
GoogleCommit(r) ==
  LET q == req[r]
      row == user[q.email] IN
  /\ q.pc = "linked"
  /\ user' = [user EXCEPT ![q.email] =
       IF q.loaded.exists
       THEN [row EXCEPT !.sub = Written(row.sub, q.loaded.sub, q.sub),
                        !.verified = Written(row.verified, q.loaded.verified, TRUE)]
       ELSE [NoUser EXCEPT !.exists = TRUE, !.verified = TRUE, !.sub = q.sub]]
  /\ req' = [req EXCEPT ![r] = NoRequest]
  /\ UNCHANGED <<letters, sent, late, failures>>

-----------------------------------------------------------------------------
\* SMTP refuses the letter, the commit fails, or the process dies.
Fails(r) ==
  /\ UnderWay(r)
  /\ failures < MaxFailures
  /\ failures' = failures + 1
  /\ Refuse(r)

Expires(n) ==
  /\ late' = late \cup {n}
  /\ UNCHANGED <<user, letters, sent, req, failures>>

-----------------------------------------------------------------------------
Init ==
  /\ user = [e \in Emails |-> NoUser]
  /\ letters = 0
  /\ sent = {} /\ late = {}
  /\ req = [r \in Requests |-> NoRequest]
  /\ failures = 0

Next ==
  \/ \E r \in Requests :
       \/ \E e \in Emails : RegisterSelect(r, e)
       \/ RegisterFlush(r) \/ RegisterCollides(r) \/ RegisterMail(r) \/ RegisterCommit(r)
       \/ \E n \in sent, e \in Emails : VerifySelect(r, n, e)
       \/ VerifyCommit(r)
       \/ \E p \in Profiles : GoogleSelect(r, p)
       \/ GoogleSelectEmail(r) \/ GoogleConflict(r)
       \/ GoogleFlush(r) \/ GoogleCollides(r) \/ GoogleCommit(r)
       \/ Fails(r)
  \/ \E n \in sent \ late : Expires(n)

Spec == Init /\ [][Next]_vars

-----------------------------------------------------------------------------
\* An account that nobody has verified can be: the token in its row is the one
\* of the registration that chose its password, and the letter that carries it
\* has left, however registrations, verifications, sign-ins with Google and
\* failures of any of them meet.  auth_service.py:74, :88.
UnverifiedHasItsLetter ==
  \A e \in Emails :
    /\ user[e].token \in sent \cup {None}
    /\ user[e].exists /\ ~user[e].verified =>
         user[e].token # None /\ user[e].token = user[e].password

\* A request that was overlapped has just ended.
OverlappedEnds(e) ==
  \E r \in Requests : req[r].email = e /\ req[r].overlapped /\ UnderWay(r) /\ ~UnderWay(r)'

\* A registration never touches an account that is verified: only one that was
\* overlapped, and so had loaded the row before it was verified, replaces the
\* password.  auth_service.py:39.
VerifiedKeepsPassword ==
  [][\A e \in Emails :
       user[e].verified /\ user'[e].password # user[e].password => OverlappedEnds(e)]_vars

\* An account keeps the Google account it is linked to, and stays verified: only
\* two callbacks that overlap can replace the link.  auth_service.py:247.
LinkIsKept ==
  [][\A e \in Emails :
       /\ user[e].verified => user'[e].verified
       /\ user[e].sub # NoSub /\ user'[e].sub # user[e].sub => OverlappedEnds(e)]_vars

\* A unique key of the table is violated only by requests that overlap; the
\* IntegrityError of the callback, which nobody takes, needs two of them.
\* auth_service.py:63, :261.
OnlyOverlapsCollide ==
  [][\A r \in Requests :
       RegisterCollides(r) \/ GoogleCollides(r) => req[r].overlapped]_vars
=============================================================================
