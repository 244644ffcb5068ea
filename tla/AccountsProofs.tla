--------------------------- MODULE AccountsProofs ---------------------------
(***************************************************************************)
(* Machine-checked proofs about Accounts, for any number of addresses,       *)
(* Google accounts and requests at once.  The invariant says what a row, a   *)
(* request and the row a request has loaded have to do with each other; a     *)
(* step starts a request, moves one, or commits one, and a lemma for each of *)
(* the three preserves the invariant.                                        *)
(***************************************************************************)
EXTENDS Accounts, TLAPS

Holding(q) == q.pc \in {"flushed", "mailed", "linked"}

\* An idle row is no user; whoever is not verified has the token of the password.
RowOK(row) ==
  /\ row.verified => row.exists
  /\ row.sub # NoSub => row.exists
  /\ row.exists /\ ~row.verified => row.token # None /\ row.token = row.password

\* What a request holds, against the row of its address and the letters.
QOK(q, row, n, letterbox) ==
  /\ q.pc \in {"registering", "flushed", "mailed"} =>
       q.number \in 1 .. n /\ ~q.loaded.verified
  /\ q.pc = "mailed" => q.number \in letterbox
  /\ q.pc = "verifying" => q.loaded.exists
  /\ q.loaded.exists => row.exists
  /\ q.loaded.verified => row.verified
  /\ Holding(q) /\ ~q.loaded.exists => ~row.exists
  /\ q.pc \in {"linking", "linked"} => ~LinkedElsewhere(q.loaded, q.sub)

\* A request nobody has overlapped works on the row as it is.
FreshOK(q, rows) ==
  q.pc # "idle" /\ ~q.overlapped =>
    /\ q.pc # "unknown" => q.loaded = rows[q.email]
    /\ q.pc \in {"unknown", "linking", "linked"} =>
         \A e \in Emails : ~(rows[e].exists /\ rows[e].sub = q.sub)

RowsInv == \A e \in Emails : RowOK(user[e]) /\ user[e].token \in sent \cup {None}

RequestsInv == \A r \in Requests : QOK(req[r], user[req[r].email], letters, sent)

HoldersInv ==
  \A r, s \in Requests :
    r # s /\ Holding(req[r]) /\ Holding(req[s]) => req[r].email # req[s].email

AloneInv ==
  \A r \in Requests :
    /\ FreshOK(req[r], user)
    /\ req[r].pc # "idle" /\ ~req[r].overlapped =>
         \A s \in Requests \ {r} : req[s].pc = "idle"

Inv == TypeOK /\ RowsInv /\ RequestsInv /\ HoldersInv /\ AloneInv

-----------------------------------------------------------------------------
LEMMA IdleTypes ==
  /\ NoUser \in UserType /\ NoRequest \in ReqType
  /\ NoRequest.pc = "idle" /\ NoRequest.loaded = NoUser
  /\ NoUser.exists = FALSE /\ NoUser.verified = FALSE /\ NoUser.sub = NoSub
<1>1. NoUser \in UserType
  BY AccountAssumption DEF NoUser, UserType, Numbers, None
<1>2. AnyEmail \in Emails
  BY AccountAssumption DEF AnyEmail
<1>3. None \in Numbers
  BY AccountAssumption DEF None, Numbers
<1>4. NoRequest \in ReqType
  BY <1>1, <1>2, <1>3 DEF NoRequest, ReqType
<1> QED
  BY <1>1, <1>4 DEF NoRequest, NoUser

LEMMA ReqFields ==
  ASSUME NEW q \in ReqType
  PROVE  /\ q.email \in Emails /\ q.loaded \in UserType /\ q.number \in Numbers
         /\ q.sub \in Subs \cup {NoSub} /\ q.overlapped \in BOOLEAN
BY DEF ReqType

\* Only a request that has ended satisfies the invariant whatever the rows are.
LEMMA IdleOK ==
  ASSUME NEW row, NEW n, NEW letterbox, NEW rows
  PROVE  /\ QOK(NoRequest, row, n, letterbox)
         /\ FreshOK(NoRequest, rows)
         /\ ~Holding(NoRequest)
BY IdleTypes DEF QOK, FreshOK, Holding

LEMMA InitInv == Init => Inv
<1> SUFFICES ASSUME Init PROVE Inv
  OBVIOUS
<1>1. TypeOK
  BY IdleTypes, AccountAssumption DEF Init, TypeOK, Numbers
<1>2. RowsInv
  BY DEF Init, RowsInv, RowOK, NoUser, None
<1>3. \A r \in Requests : req[r] = NoRequest
  BY DEF Init
<1>4. RequestsInv /\ HoldersInv /\ AloneInv
  BY <1>3, IdleOK, IdleTypes DEF RequestsInv, HoldersInv, AloneInv
<1> QED
  BY <1>1, <1>2, <1>4 DEF Inv

-----------------------------------------------------------------------------
\* A request begins: the rows stay, and what it has loaded is the row as it is.
LEMMA Started ==
  ASSUME Inv,
         NEW r \in Requests, NEW started \in ReqType,
         Begin(r, started),
         user' = user, sent' = sent, late' = late, failures' = failures,
         letters' \in Numbers, letters' >= letters,
         started.pc # "idle", ~Holding(started),
         \A o \in BOOLEAN :
           /\ QOK([started EXCEPT !.overlapped = o], user[started.email], letters', sent)
           /\ FreshOK([started EXCEPT !.overlapped = o], user)
  PROVE  Inv'
<1> DEFINE others == \E q \in Requests : UnderWay(q)
<1> DEFINE new == [started EXCEPT !.overlapped = others]
<1> DEFINE kept(s) == [req[s] EXCEPT !.overlapped = @ \/ UnderWay(s)]
<1>1. others \in BOOLEAN
  OBVIOUS
<1>2. new \in ReqType /\ new.pc = started.pc /\ new.email = started.email /\ new.overlapped = others
  BY <1>1 DEF ReqType
<1>3. ~Holding(new)
  BY <1>2 DEF Holding
<1>4. QOK(new, user[new.email], letters', sent) /\ FreshOK(new, user)
  BY <1>1, <1>2
<1>5. \A s \in Requests \ {r} :
        /\ kept(s) \in ReqType
        /\ kept(s).pc = req[s].pc /\ kept(s).email = req[s].email
        /\ kept(s).loaded = req[s].loaded /\ kept(s).number = req[s].number
        /\ kept(s).sub = req[s].sub
        /\ kept(s).overlapped <=> (req[s].overlapped \/ req[s].pc # "idle")
  <2> SUFFICES ASSUME NEW s \in Requests \ {r}
               PROVE  /\ kept(s) \in ReqType
                      /\ kept(s).pc = req[s].pc /\ kept(s).email = req[s].email
                      /\ kept(s).loaded = req[s].loaded /\ kept(s).number = req[s].number
                      /\ kept(s).sub = req[s].sub
                      /\ kept(s).overlapped <=> (req[s].overlapped \/ req[s].pc # "idle")
    OBVIOUS
  <2>1. req[s] \in ReqType
    BY DEF Inv, TypeOK
  <2> QED
    BY <2>1 DEF ReqType, UnderWay
<1>6. req' = [s \in Requests |-> IF s = r THEN new ELSE kept(s)]
  BY DEF Begin
<1>7. req'[r] = new /\ \A s \in Requests \ {r} : req'[s] = kept(s)
  BY <1>6
<1>8. ~UnderWay(r)
  BY DEF Begin
<1>9. ~others => \A s \in Requests : req[s].pc = "idle"
  BY DEF UnderWay
<1> HIDE DEF new, kept, others
<1>10. TypeOK'
  <2>1. \A s \in Requests : (IF s = r THEN new ELSE kept(s)) \in ReqType
    BY <1>2, <1>5
  <2>2. req' \in [Requests -> ReqType]
    BY <1>6, <2>1
  <2>3. letters \in Nat /\ letters' \in Nat
    BY AccountAssumption DEF Inv, TypeOK, Numbers
  <2>4. 1 .. letters \subseteq 1 .. letters'
    BY <2>3
  <2> QED
    BY <2>2, <2>4 DEF Inv, TypeOK
<1>11. RowsInv'
  BY DEF Inv, RowsInv
<1>12. RequestsInv'
  <2>1. \A s \in Requests \ {r} : QOK(kept(s), user[kept(s).email], letters', sent)
    <3> SUFFICES ASSUME NEW s \in Requests \ {r}
                 PROVE  QOK(kept(s), user[kept(s).email], letters', sent)
      OBVIOUS
    <3>1. QOK(req[s], user[req[s].email], letters, sent)
      BY DEF Inv, RequestsInv
    <3>2. letters \in Nat /\ letters' \in Nat
      BY AccountAssumption DEF Inv, TypeOK, Numbers
    <3>3. 1 .. letters \subseteq 1 .. letters'
      BY <3>2
    <3> QED
      BY <1>5, <3>1, <3>3 DEF QOK, Holding
  <2> QED
    BY <1>4, <1>7, <2>1 DEF RequestsInv
<1>13. HoldersInv'
  BY <1>3, <1>5, <1>7 DEF Inv, HoldersInv, Holding
<1>14. AloneInv'
  <2>1. \A s \in Requests \ {r} : req'[s].pc # "idle" => req'[s].overlapped
    BY <1>5, <1>7
  <2>2. \A s \in Requests \ {r} : FreshOK(req'[s], user')
    BY <2>1 DEF FreshOK
  <2>3. ~req'[r].overlapped => \A s \in Requests \ {r} : req'[s].pc = "idle"
    BY <1>2, <1>5, <1>7, <1>9
  <2> QED
    BY <1>4, <1>7, <2>1, <2>2, <2>3 DEF AloneInv
<1> QED
  BY <1>10, <1>11, <1>12, <1>13, <1>14 DEF Inv

\* A request moves on, or ends without a trace: the rows stay.
LEMMA Moved ==
  ASSUME Inv,
         NEW r \in Requests, NEW q \in ReqType,
         req[r].pc # "idle",
         req' = [req EXCEPT ![r] = q],
         user' = user, letters' = letters, late' = late,
         sent \subseteq sent', sent' \subseteq 1 .. letters,
         failures' \in 0 .. MaxFailures,
         q.pc # "idle" => q.email = req[r].email /\ q.overlapped = req[r].overlapped,
         Holding(q) => Holding(req[r]) \/ ~Held(q.email, r),
         QOK(q, user[q.email], letters, sent'),
         FreshOK(q, user)
  PROVE  Inv'
<1>1. req'[r] = q /\ \A s \in Requests \ {r} : req'[s] = req[s]
  BY DEF Inv, TypeOK
<1>2. TypeOK'
  BY DEF Inv, TypeOK
<1>3. RowsInv'
  BY DEF Inv, RowsInv
<1>4. RequestsInv'
  <2>1. \A s \in Requests \ {r} : QOK(req[s], user[req[s].email], letters, sent')
    BY DEF Inv, RequestsInv, QOK
  <2> QED
    BY <1>1, <2>1 DEF RequestsInv
<1>5. HoldersInv'
  <2>1. ASSUME Holding(q), NEW s \in Requests \ {r}, Holding(req[s])
        PROVE  req[s].email # q.email
    <3>1. q.email = req[r].email
      BY <2>1 DEF Holding
    <3>2. CASE Holding(req[r])
      BY <2>1, <3>1, <3>2 DEF Inv, HoldersInv
    <3>3. CASE ~Held(q.email, r)
      BY <2>1, <3>3 DEF Held, Holding
    <3> QED
      BY <2>1, <3>2, <3>3
  <2> QED
    BY <1>1, <2>1 DEF Inv, HoldersInv
<1>6. AloneInv'
  <2>1. \A s \in Requests \ {r} : FreshOK(req[s], user)
    BY DEF Inv, AloneInv
  <2>2. \A s \in Requests \ {r} : req[s].pc # "idle" => req[s].overlapped
    BY DEF Inv, AloneInv
  <2>3. q.pc # "idle" /\ ~q.overlapped => \A s \in Requests \ {r} : req[s].pc = "idle"
    BY DEF Inv, AloneInv
  <2> QED
    BY <1>1, <2>1, <2>2, <2>3 DEF AloneInv
<1> QED
  BY <1>2, <1>3, <1>4, <1>5, <1>6 DEF Inv

\* A request commits one row and ends.
LEMMA Committed ==
  ASSUME Inv,
         NEW r \in Requests, NEW row \in UserType,
         req[r].pc # "idle",
         req' = [req EXCEPT ![r] = NoRequest],
         user' = [user EXCEPT ![req[r].email] = row],
         UNCHANGED <<letters, sent, late, failures>>,
         Holding(req[r]) \/ ~Held(req[r].email, r),
         RowOK(row), row.token \in sent \cup {None},
         user[req[r].email].exists => row.exists,
         user[req[r].email].verified => row.verified
  PROVE  Inv'
<1> DEFINE e == req[r].email
<1>1. e \in Emails
  BY ReqFields DEF Inv, TypeOK
<1>2. user'[e] = row /\ \A f \in Emails \ {e} : user'[f] = user[f]
  BY <1>1 DEF Inv, TypeOK
<1>3. req'[r] = NoRequest /\ \A s \in Requests \ {r} : req'[s] = req[s]
  BY DEF Inv, TypeOK
<1>4. TypeOK'
  BY IdleTypes, <1>1 DEF Inv, TypeOK
<1>5. RowsInv'
  BY <1>2 DEF Inv, RowsInv
<1>6. \A f \in Emails : /\ user[f].exists => user'[f].exists
                        /\ user[f].verified => user'[f].verified
  BY <1>2
<1>7. \A s \in Requests \ {r} : Holding(req[s]) => user'[req[s].email] = user[req[s].email]
  <2> SUFFICES ASSUME NEW s \in Requests \ {r}, Holding(req[s])
               PROVE  user'[req[s].email] = user[req[s].email]
    OBVIOUS
  <2>1. req[s].email \in Emails
    BY ReqFields DEF Inv, TypeOK
  <2>2. CASE Holding(req[r])
    BY <1>2, <2>1, <2>2 DEF Inv, HoldersInv
  <2>3. CASE ~Held(e, r)
    BY <1>2, <2>1, <2>3 DEF Held, Holding
  <2> QED
    BY <2>2, <2>3
<1>8. RequestsInv'
  <2>1. \A s \in Requests \ {r} : QOK(req[s], user'[req[s].email], letters, sent)
    <3> SUFFICES ASSUME NEW s \in Requests \ {r}
                 PROVE  QOK(req[s], user'[req[s].email], letters, sent)
      OBVIOUS
    <3>1. QOK(req[s], user[req[s].email], letters, sent)
      BY DEF Inv, RequestsInv
    <3>2. req[s].email \in Emails
      BY ReqFields DEF Inv, TypeOK
    <3> QED
      BY <1>6, <1>7, <3>1, <3>2 DEF QOK
  <2>2. UNCHANGED <<letters, sent>>
    OBVIOUS
  <2> QED
    BY <1>3, <2>1, <2>2, IdleOK DEF RequestsInv
<1>9. HoldersInv'
  BY <1>3, IdleOK DEF Inv, HoldersInv
<1>10. AloneInv'
  <2>1. \A s \in Requests \ {r} : req[s].pc # "idle" => req[s].overlapped
    BY DEF Inv, AloneInv
  <2>2. \A s \in Requests \ {r} : FreshOK(req[s], user')
    BY <2>1 DEF FreshOK
  <2> QED
    BY <1>3, <2>1, <2>2, IdleOK, IdleTypes DEF AloneInv
<1> QED
  BY <1>4, <1>5, <1>8, <1>9, <1>10 DEF Inv

-----------------------------------------------------------------------------
\* What a request under way has loaded, sent and drawn.
LEMMA ReqFacts ==
  ASSUME Inv, NEW r \in Requests
  PROVE  /\ req[r] \in ReqType /\ req[r].email \in Emails /\ req[r].loaded \in UserType
         /\ user[req[r].email] \in UserType
         /\ QOK(req[r], user[req[r].email], letters, sent)
         /\ FreshOK(req[r], user)
         /\ RowOK(user[req[r].email])
         /\ user[req[r].email].token \in sent \cup {None}
BY ReqFields DEF Inv, TypeOK, RequestsInv, RowsInv, AloneInv

LEMMA LettersType ==
  ASSUME Inv
  PROVE  letters \in Nat /\ MaxLetters \in Nat /\ MaxFailures \in Nat /\ sent \subseteq 1 .. letters
         /\ failures \in 0 .. MaxFailures
BY AccountAssumption DEF Inv, TypeOK, Numbers

LEMMA RegisterSelectInv ==
  ASSUME Inv, NEW r \in Requests, NEW e \in Emails, RegisterSelect(r, e)
  PROVE  Inv'
<1> DEFINE started == [NoRequest EXCEPT !.pc = "registering", !.email = e, !.loaded = user[e],
                                        !.number = letters + 1]
<1>1. letters' = letters + 1 /\ letters' \in Numbers /\ letters' >= letters /\ letters' \in 1 .. letters'
  BY LettersType DEF RegisterSelect, Numbers
<1>2. user[e] \in UserType /\ ~user[e].verified
  BY DEF Inv, TypeOK, RegisterSelect
<1>3. started \in ReqType
  BY IdleTypes, <1>1, <1>2 DEF ReqType
<1>4. /\ started.pc = "registering" /\ started.email = e /\ started.loaded = user[e]
      /\ started.number = letters'
  BY IdleTypes, <1>1 DEF ReqType
<1>5. \A o \in BOOLEAN :
        /\ QOK([started EXCEPT !.overlapped = o], user[started.email], letters', sent)
        /\ FreshOK([started EXCEPT !.overlapped = o], user)
  <2> SUFFICES ASSUME NEW o \in BOOLEAN
               PROVE  /\ QOK([started EXCEPT !.overlapped = o], user[e], letters', sent)
                      /\ FreshOK([started EXCEPT !.overlapped = o], user)
    BY <1>4
  <2> DEFINE new == [started EXCEPT !.overlapped = o]
  <2>1. /\ new.pc = "registering" /\ new.email = e /\ new.loaded = user[e]
        /\ new.number = letters'
    BY <1>3, <1>4 DEF ReqType
  <2> HIDE DEF new
  <2>2. QOK(new, user[e], letters', sent) /\ FreshOK(new, user)
    BY <1>1, <1>2, <2>1 DEF QOK, FreshOK, Holding
  <2> QED
    BY <2>2 DEF new
<1>6. Begin(r, started) /\ user' = user /\ sent' = sent /\ late' = late /\ failures' = failures
  BY DEF RegisterSelect
<1> HIDE DEF started
<1>7. started.pc # "idle" /\ ~Holding(started)
  BY <1>4 DEF Holding
<1> QED
  BY <1>1, <1>3, <1>5, <1>6, <1>7, Started

LEMMA VerifySelectInv ==
  ASSUME Inv, NEW r \in Requests, NEW n \in sent, NEW e \in Emails, VerifySelect(r, n, e)
  PROVE  Inv'
<1> DEFINE started == [NoRequest EXCEPT !.pc = "verifying", !.email = e, !.loaded = user[e],
                                        !.number = n]
<1>1. letters' = letters /\ letters' \in Numbers /\ letters' >= letters /\ n \in Numbers
  BY LettersType DEF VerifySelect, Numbers, Inv, TypeOK
<1>2. user[e] \in UserType /\ user[e].exists
  BY DEF Inv, TypeOK, VerifySelect
<1>3. started \in ReqType
  BY IdleTypes, <1>1, <1>2 DEF ReqType
<1>4. started.pc = "verifying" /\ started.email = e /\ started.loaded = user[e]
  BY IdleTypes DEF ReqType
<1>5. \A o \in BOOLEAN :
        /\ QOK([started EXCEPT !.overlapped = o], user[started.email], letters', sent)
        /\ FreshOK([started EXCEPT !.overlapped = o], user)
  <2> SUFFICES ASSUME NEW o \in BOOLEAN
               PROVE  /\ QOK([started EXCEPT !.overlapped = o], user[e], letters', sent)
                      /\ FreshOK([started EXCEPT !.overlapped = o], user)
    BY <1>4
  <2> DEFINE new == [started EXCEPT !.overlapped = o]
  <2>1. new.pc = "verifying" /\ new.email = e /\ new.loaded = user[e]
    BY <1>3, <1>4 DEF ReqType
  <2> HIDE DEF new
  <2>2. QOK(new, user[e], letters', sent) /\ FreshOK(new, user)
    BY <1>2, <2>1 DEF QOK, FreshOK, Holding
  <2> QED
    BY <2>2 DEF new
<1>6. Begin(r, started) /\ user' = user /\ sent' = sent /\ late' = late /\ failures' = failures
  BY DEF VerifySelect
<1> HIDE DEF started
<1>7. started.pc # "idle" /\ ~Holding(started)
  BY <1>4 DEF Holding
<1> QED
  BY <1>1, <1>3, <1>5, <1>6, <1>7, Started

LEMMA GoogleSelectInv ==
  ASSUME Inv, NEW r \in Requests, NEW p \in Profiles, GoogleSelect(r, p)
  PROVE  Inv'
<1> DEFINE started == [NoRequest EXCEPT !.pc = "unknown", !.email = p.email, !.sub = p.sub]
<1>1. letters' = letters /\ letters' \in Numbers /\ letters' >= letters
  BY LettersType DEF GoogleSelect, Numbers, Inv, TypeOK
<1>2. p.email \in Emails /\ p.sub \in Subs
  BY AccountAssumption
<1>3. started \in ReqType
  BY IdleTypes, <1>2 DEF ReqType
<1>4. started.pc = "unknown" /\ started.email = p.email /\ started.loaded = NoUser /\ started.sub = p.sub
  BY IdleTypes DEF ReqType
<1>5. \A o \in BOOLEAN :
        /\ QOK([started EXCEPT !.overlapped = o], user[started.email], letters', sent)
        /\ FreshOK([started EXCEPT !.overlapped = o], user)
  <2> SUFFICES ASSUME NEW o \in BOOLEAN
               PROVE  /\ QOK([started EXCEPT !.overlapped = o], user[p.email], letters', sent)
                      /\ FreshOK([started EXCEPT !.overlapped = o], user)
    BY <1>4
  <2> DEFINE new == [started EXCEPT !.overlapped = o]
  <2>1. new.pc = "unknown" /\ new.loaded = NoUser /\ new.sub = p.sub
    BY <1>3, <1>4 DEF ReqType
  <2>2. \A e \in Emails : ~(user[e].exists /\ user[e].sub = p.sub)
    BY DEF GoogleSelect, Owns
  <2> HIDE DEF new
  <2>3. QOK(new, user[p.email], letters', sent) /\ FreshOK(new, user)
    BY <2>1, <2>2, IdleTypes DEF QOK, FreshOK, Holding
  <2> QED
    BY <2>3 DEF new
<1>6. Begin(r, started) /\ user' = user /\ sent' = sent /\ late' = late /\ failures' = failures
  BY DEF GoogleSelect
<1> HIDE DEF started
<1>7. started.pc # "idle" /\ ~Holding(started)
  BY <1>4 DEF Holding
<1> QED
  BY <1>1, <1>3, <1>5, <1>6, <1>7, Started

-----------------------------------------------------------------------------
\* The step of a request that only moves its program counter.
LEMMA Stepped ==
  ASSUME NEW q \in ReqType,
         NEW c \in {"flushed", "mailed", "linked"}
  PROVE  /\ [q EXCEPT !.pc = c] \in ReqType
         /\ [q EXCEPT !.pc = c].pc = c
         /\ [q EXCEPT !.pc = c].email = q.email /\ [q EXCEPT !.pc = c].loaded = q.loaded
         /\ [q EXCEPT !.pc = c].number = q.number /\ [q EXCEPT !.pc = c].sub = q.sub
         /\ [q EXCEPT !.pc = c].overlapped = q.overlapped
BY DEF ReqType

LEMMA RegisterFlushInv ==
  ASSUME Inv, NEW r \in Requests, RegisterFlush(r)
  PROVE  Inv'
<1> DEFINE q == [req[r] EXCEPT !.pc = "flushed"]
<1>1. req[r].pc = "registering" /\ ~Held(req[r].email, r)
      /\ (req[r].loaded.exists \/ ~user[req[r].email].exists)
  BY DEF RegisterFlush
<1>2. req' = [req EXCEPT ![r] = q]
  BY DEF RegisterFlush
<1>3. /\ q \in ReqType /\ q.pc = "flushed" /\ q.email = req[r].email
      /\ q.loaded = req[r].loaded /\ q.number = req[r].number /\ q.overlapped = req[r].overlapped
  BY ReqFacts, Stepped
<1> HIDE DEF q
<1>4. QOK(q, user[q.email], letters, sent) /\ FreshOK(q, user)
  BY ReqFacts, <1>1, <1>3 DEF QOK, FreshOK, Holding
<1>5. user' = user /\ letters' = letters /\ late' = late /\ sent' = sent /\ failures' = failures
  BY DEF RegisterFlush
<1> QED
  BY <1>1, <1>2, <1>3, <1>4, <1>5, LettersType, Moved

LEMMA RegisterMailInv ==
  ASSUME Inv, NEW r \in Requests, RegisterMail(r)
  PROVE  Inv'
<1> DEFINE q == [req[r] EXCEPT !.pc = "mailed"]
<1>1. req[r].pc = "flushed" /\ Holding(req[r])
  BY DEF RegisterMail, Holding
<1>2. req' = [req EXCEPT ![r] = q]
  BY DEF RegisterMail
<1>3. /\ q \in ReqType /\ q.pc = "mailed" /\ q.email = req[r].email
      /\ q.loaded = req[r].loaded /\ q.number = req[r].number /\ q.overlapped = req[r].overlapped
  BY ReqFacts, Stepped
<1> HIDE DEF q
<1>4. /\ user' = user /\ letters' = letters /\ late' = late /\ failures' = failures
      /\ sent' = sent \cup {req[r].number}
  BY DEF RegisterMail
<1>5. QOK(q, user[q.email], letters, sent') /\ FreshOK(q, user)
  BY ReqFacts, <1>1, <1>3, <1>4 DEF QOK, FreshOK, Holding
<1>6. sent \subseteq sent' /\ sent' \subseteq 1 .. letters
  BY ReqFacts, LettersType, <1>1, <1>4 DEF QOK
<1> QED
  BY <1>1, <1>2, <1>3, <1>4, <1>5, <1>6, LettersType, Moved

LEMMA GoogleSelectEmailInv ==
  ASSUME Inv, NEW r \in Requests, GoogleSelectEmail(r)
  PROVE  Inv'
<1> DEFINE row == user[req[r].email]
<1> DEFINE q == [req[r] EXCEPT !.pc = "linking", !.loaded = row]
<1>1. req[r].pc = "unknown" /\ ~LinkedElsewhere(row, req[r].sub)
  BY DEF GoogleSelectEmail
<1>2. row \in UserType
  BY ReqFacts
<1>3. req' = [req EXCEPT ![r] = q]
  BY ReqFacts DEF GoogleSelectEmail, ReqType, Inv, TypeOK
<1>4. /\ q \in ReqType /\ q.pc = "linking" /\ q.email = req[r].email
      /\ q.loaded = row /\ q.sub = req[r].sub /\ q.overlapped = req[r].overlapped
  BY ReqFacts, <1>2 DEF ReqType
<1> HIDE DEF q
<1>5. QOK(q, row, letters, sent)
  BY <1>1, <1>4 DEF QOK, Holding
<1>6. FreshOK(q, user)
  BY ReqFacts, <1>1, <1>4 DEF FreshOK
<1>7. user' = user /\ letters' = letters /\ late' = late /\ sent' = sent /\ failures' = failures
  BY DEF GoogleSelectEmail
<1>8. ~Holding(q)
  BY <1>4 DEF Holding
<1> QED
  BY <1>1, <1>3, <1>4, <1>5, <1>6, <1>7, <1>8, LettersType, Moved

LEMMA GoogleFlushInv ==
  ASSUME Inv, NEW r \in Requests, GoogleFlush(r)
  PROVE  Inv'
<1> DEFINE q == [req[r] EXCEPT !.pc = "linked"]
<1>1. req[r].pc = "linking" /\ ~Held(req[r].email, r)
      /\ (req[r].loaded.exists \/ ~user[req[r].email].exists)
  BY DEF GoogleFlush, Collides
<1>2. req' = [req EXCEPT ![r] = q]
  BY DEF GoogleFlush
<1>3. /\ q \in ReqType /\ q.pc = "linked" /\ q.email = req[r].email
      /\ q.loaded = req[r].loaded /\ q.sub = req[r].sub /\ q.overlapped = req[r].overlapped
  BY ReqFacts, Stepped
<1> HIDE DEF q
<1>4. QOK(q, user[q.email], letters, sent) /\ FreshOK(q, user)
  BY ReqFacts, <1>1, <1>3 DEF QOK, FreshOK, Holding
<1>5. user' = user /\ letters' = letters /\ late' = late /\ sent' = sent /\ failures' = failures
  BY DEF GoogleFlush
<1> QED
  BY <1>1, <1>2, <1>3, <1>4, <1>5, LettersType, Moved

\* A request that ends without a trace: a conflict, an IntegrityError, a failure.
LEMMA RefuseInv ==
  ASSUME Inv, NEW r \in Requests, req[r].pc # "idle", Refuse(r), failures' \in 0 .. MaxFailures
  PROVE  Inv'
<1>1. /\ req' = [req EXCEPT ![r] = NoRequest]
      /\ user' = user /\ letters' = letters /\ late' = late /\ sent' = sent
  BY DEF Refuse
<1>2. QOK(NoRequest, user[NoRequest.email], letters, sent) /\ FreshOK(NoRequest, user)
  BY IdleOK
<1> QED
  BY <1>1, <1>2, IdleOK, IdleTypes, LettersType, Moved

-----------------------------------------------------------------------------
LEMMA RegisterCommitInv ==
  ASSUME Inv, NEW r \in Requests, RegisterCommit(r)
  PROVE  Inv'
<1> DEFINE q == req[r]
<1> DEFINE old == user[q.email]
<1> DEFINE updated == [old EXCEPT !.password = q.number, !.token = q.number]
<1> DEFINE inserted == [NoUser EXCEPT !.exists = TRUE, !.password = q.number, !.token = q.number]
<1> DEFINE row == IF q.loaded.exists THEN updated ELSE inserted
<1>1. q.pc = "mailed" /\ Holding(q)
  BY DEF RegisterCommit, Holding
<1>2. /\ q.number \in sent /\ q.number # None /\ q.number \in Numbers
      /\ q.loaded.exists => old.exists
      /\ ~q.loaded.exists => ~old.exists
  BY ReqFacts, ReqFields, LettersType, <1>1 DEF QOK, None
<1>3. old \in UserType /\ RowOK(old)
  BY ReqFacts
<1>4. /\ updated \in UserType /\ updated.token = q.number /\ updated.password = q.number
      /\ updated.exists = old.exists /\ updated.verified = old.verified /\ updated.sub = old.sub
  BY <1>2, <1>3 DEF UserType
<1>5. /\ inserted \in UserType /\ inserted.token = q.number /\ inserted.password = q.number
      /\ inserted.exists /\ ~inserted.verified
  BY <1>2, IdleTypes DEF UserType
<1>6. user' = [user EXCEPT ![q.email] = row]
  BY ReqFacts DEF RegisterCommit, Inv, TypeOK
<1>7. req' = [req EXCEPT ![r] = NoRequest] /\ UNCHANGED <<letters, sent, late, failures>>
  BY DEF RegisterCommit
<1> HIDE DEF updated, inserted
<1>8. row \in UserType /\ RowOK(row) /\ row.token \in sent \cup {None}
  BY <1>2, <1>3, <1>4, <1>5 DEF RowOK
<1>9. (old.exists => row.exists) /\ (old.verified => row.verified)
  BY <1>2, <1>3, <1>4, <1>5 DEF RowOK
<1> HIDE DEF row
<1> QED
  BY <1>1, <1>6, <1>7, <1>8, <1>9, Committed

LEMMA VerifyCommitInv ==
  ASSUME Inv, NEW r \in Requests, VerifyCommit(r)
  PROVE  Inv'
<1> DEFINE q == req[r]
<1> DEFINE old == user[q.email]
<1> DEFINE v == Written(old.verified, q.loaded.verified, TRUE)
<1> DEFINE row == [old EXCEPT !.verified = v, !.token = None]
<1>1. q.pc = "verifying" /\ ~Held(q.email, r)
  BY DEF VerifyCommit
<1>2. /\ q.loaded.exists /\ old.exists
      /\ q.loaded.verified => old.verified
  BY ReqFacts, <1>1 DEF QOK
<1>3. old \in UserType /\ RowOK(old) /\ q.loaded \in UserType
  BY ReqFacts
<1>4. v = TRUE
  BY <1>2, <1>3 DEF Written, UserType
<1>5. None \in Numbers
  BY AccountAssumption DEF None, Numbers
<1>6. user' = [user EXCEPT ![q.email] = row]
  BY DEF VerifyCommit
<1>7. req' = [req EXCEPT ![r] = NoRequest] /\ UNCHANGED <<letters, sent, late, failures>>
  BY DEF VerifyCommit
<1> HIDE DEF v
<1>8. row \in UserType /\ row.exists /\ row.verified /\ row.token = None
  BY <1>2, <1>3, <1>4, <1>5 DEF UserType
<1> HIDE DEF row
<1>9. RowOK(row)
  BY <1>8 DEF RowOK
<1> QED
  BY <1>1, <1>6, <1>7, <1>8, <1>9, Committed

LEMMA GoogleCommitInv ==
  ASSUME Inv, NEW r \in Requests, GoogleCommit(r)
  PROVE  Inv'
<1> DEFINE q == req[r]
<1> DEFINE old == user[q.email]
<1> DEFINE s == Written(old.sub, q.loaded.sub, q.sub)
<1> DEFINE v == Written(old.verified, q.loaded.verified, TRUE)
<1> DEFINE updated == [old EXCEPT !.sub = s, !.verified = v]
<1> DEFINE inserted == [NoUser EXCEPT !.exists = TRUE, !.verified = TRUE, !.sub = q.sub]
<1> DEFINE row == IF q.loaded.exists THEN updated ELSE inserted
<1>1. q.pc = "linked" /\ Holding(q)
  BY DEF GoogleCommit, Holding
<1>2. /\ q.loaded.exists => old.exists
      /\ ~q.loaded.exists => ~old.exists
      /\ q.loaded.verified => old.verified
  BY ReqFacts, <1>1 DEF QOK
<1>3. /\ old \in UserType /\ RowOK(old) /\ q.loaded \in UserType /\ q.sub \in Subs \cup {NoSub}
      /\ old.token \in sent \cup {None}
  BY ReqFacts, ReqFields
<1>4. v = TRUE /\ s \in Subs \cup {NoSub}
  BY <1>2, <1>3 DEF Written, UserType
<1>5. user' = [user EXCEPT ![q.email] = row]
  BY DEF GoogleCommit
<1>6. req' = [req EXCEPT ![r] = NoRequest] /\ UNCHANGED <<letters, sent, late, failures>>
  BY DEF GoogleCommit
<1> HIDE DEF s, v
<1>7. /\ updated \in UserType /\ updated.verified /\ updated.exists = old.exists
      /\ updated.token = old.token
  BY <1>3, <1>4 DEF UserType
<1>8. inserted \in UserType /\ inserted.exists /\ inserted.verified /\ inserted.token = None
  BY <1>3, IdleTypes DEF UserType, NoUser
<1> HIDE DEF updated, inserted
<1>9. row \in UserType /\ RowOK(row) /\ row.token \in sent \cup {None}
  BY <1>2, <1>3, <1>7, <1>8 DEF RowOK
<1>10. (old.exists => row.exists) /\ (old.verified => row.verified)
  BY <1>2, <1>7, <1>8
<1> HIDE DEF row
<1> QED
  BY <1>1, <1>5, <1>6, <1>9, <1>10, Committed

-----------------------------------------------------------------------------
LEMMA StepInv == Inv /\ [Next]_vars => Inv'
<1> SUFFICES ASSUME Inv, [Next]_vars PROVE Inv'
  OBVIOUS
<1>1. ASSUME NEW r \in Requests, NEW e \in Emails, RegisterSelect(r, e) PROVE Inv'
  BY <1>1, RegisterSelectInv
<1>2. ASSUME NEW r \in Requests, RegisterFlush(r) PROVE Inv'
  BY <1>2, RegisterFlushInv
<1>3. ASSUME NEW r \in Requests, RegisterCollides(r) PROVE Inv'
  <2>1. req[r].pc # "idle" /\ Refuse(r) /\ failures' = failures
    BY <1>3 DEF RegisterCollides
  <2> QED
    BY <2>1, LettersType, RefuseInv
<1>4. ASSUME NEW r \in Requests, RegisterMail(r) PROVE Inv'
  BY <1>4, RegisterMailInv
<1>5. ASSUME NEW r \in Requests, RegisterCommit(r) PROVE Inv'
  BY <1>5, RegisterCommitInv
<1>6. ASSUME NEW r \in Requests, NEW n \in sent, NEW e \in Emails, VerifySelect(r, n, e) PROVE Inv'
  BY <1>6, VerifySelectInv
<1>7. ASSUME NEW r \in Requests, VerifyCommit(r) PROVE Inv'
  BY <1>7, VerifyCommitInv
<1>8. ASSUME NEW r \in Requests, NEW p \in Profiles, GoogleSelect(r, p) PROVE Inv'
  BY <1>8, GoogleSelectInv
<1>9. ASSUME NEW r \in Requests, GoogleSelectEmail(r) PROVE Inv'
  BY <1>9, GoogleSelectEmailInv
<1>10. ASSUME NEW r \in Requests, GoogleConflict(r) PROVE Inv'
  <2>1. req[r].pc # "idle" /\ Refuse(r) /\ failures' = failures
    BY <1>10 DEF GoogleConflict
  <2> QED
    BY <2>1, LettersType, RefuseInv
<1>11. ASSUME NEW r \in Requests, GoogleFlush(r) PROVE Inv'
  BY <1>11, GoogleFlushInv
<1>12. ASSUME NEW r \in Requests, GoogleCollides(r) PROVE Inv'
  <2>1. req[r].pc # "idle" /\ Refuse(r) /\ failures' = failures
    BY <1>12 DEF GoogleCollides
  <2> QED
    BY <2>1, LettersType, RefuseInv
<1>13. ASSUME NEW r \in Requests, GoogleCommit(r) PROVE Inv'
  BY <1>13, GoogleCommitInv
<1>14. ASSUME NEW r \in Requests, Fails(r) PROVE Inv'
  <2>1. req[r].pc # "idle" /\ Refuse(r) /\ failures' = failures + 1 /\ failures < MaxFailures
    BY <1>14 DEF Fails, UnderWay
  <2>2. failures' \in 0 .. MaxFailures
    BY <2>1, LettersType
  <2> QED
    BY <2>1, <2>2, RefuseInv
<1>15. ASSUME NEW n \in sent \ late, Expires(n) PROVE Inv'
  <2>1. UNCHANGED <<user, letters, sent, req, failures>> /\ late' = late \cup {n}
    BY <1>15 DEF Expires
  <2>2. TypeOK'
    BY <2>1, LettersType DEF Inv, TypeOK
  <2> QED
    BY <2>1, <2>2 DEF Inv, RowsInv, RequestsInv, HoldersInv, AloneInv
<1>16. CASE UNCHANGED vars
  BY <1>16 DEF vars, Inv, TypeOK, RowsInv, RequestsInv, HoldersInv, AloneInv
<1> QED
  BY <1>1, <1>2, <1>3, <1>4, <1>5, <1>6, <1>7, <1>8, <1>9, <1>10, <1>11, <1>12, <1>13,
     <1>14, <1>15, <1>16 DEF Next

LEMMA Invariance == Spec => []Inv
BY InitInv, StepInv, PTL DEF Spec

-----------------------------------------------------------------------------
\* The rows, the letters and the requests under way always have their types.
THEOREM TypeCorrect == Spec => []TypeOK
<1>1. Inv => TypeOK
  BY DEF Inv
<1> QED
  BY <1>1, Invariance, PTL

\* However registrations, verifications, sign-ins with Google and their failures
\* meet, an account that nobody has verified has in its row the token of the
\* registration that chose its password, and that letter has left.
THEOREM UnverifiedCanVerify == Spec => []UnverifiedHasItsLetter
<1>1. Inv => UnverifiedHasItsLetter
  BY DEF Inv, RowsInv, RowOK, UnverifiedHasItsLetter
<1> QED
  BY <1>1, Invariance, PTL

-----------------------------------------------------------------------------
\* The rows change only at the commit of a request, in the row of its address.
LEMMA RowChanges ==
  ASSUME Inv, [Next]_vars, NEW e \in Emails, user'[e] # user[e]
  PROVE  \E r \in Requests : /\ req[r].email = e
                             /\ RegisterCommit(r) \/ VerifyCommit(r) \/ GoogleCommit(r)
<1>1. PICK r \in Requests : RegisterCommit(r) \/ VerifyCommit(r) \/ GoogleCommit(r)
  BY DEF Next, vars, RegisterSelect, RegisterFlush, RegisterCollides, RegisterMail, VerifySelect,
         GoogleSelect, GoogleSelectEmail, GoogleConflict, GoogleFlush, GoogleCollides, Fails,
         Refuse, Expires
<1>2. \E row : user' = [user EXCEPT ![req[r].email] = row]
  <2>1. CASE RegisterCommit(r)
    BY <2>1 DEF RegisterCommit
  <2>2. CASE VerifyCommit(r)
    BY <2>2 DEF VerifyCommit
  <2>3. CASE GoogleCommit(r)
    BY <2>3 DEF GoogleCommit
  <2> QED
    BY <1>1, <2>1, <2>2, <2>3
<1>3. user \in [Emails -> UserType]
  BY DEF Inv, TypeOK
<1>4. req[r].email = e
  BY <1>2, <1>3
<1> QED
  BY <1>1, <1>4

\* The request that commits ends, and works on the row as it is unless it was
\* overlapped.
LEMMA CommitEnds ==
  ASSUME Inv, NEW r \in Requests, RegisterCommit(r) \/ VerifyCommit(r) \/ GoogleCommit(r)
  PROVE  /\ UnderWay(r) /\ req'[r].pc = "idle"
         /\ ~req[r].overlapped => req[r].loaded = user[req[r].email]
<1>1. req[r].pc \in {"mailed", "verifying", "linked"}
  BY DEF RegisterCommit, VerifyCommit, GoogleCommit
<1>2. req'[r] = NoRequest
  BY DEF RegisterCommit, VerifyCommit, GoogleCommit, Inv, TypeOK
<1> QED
  BY <1>1, <1>2, IdleTypes, ReqFacts DEF UnderWay, FreshOK

\* A step that replaces the password of a verified account ends a request that
\* was overlapped.
LEMMA PasswordStep ==
  ASSUME Inv, [Next]_vars, NEW e \in Emails,
         user[e].verified, user'[e].password # user[e].password
  PROVE  OverlappedEnds(e)
<1>1. PICK r \in Requests : /\ req[r].email = e
                            /\ RegisterCommit(r) \/ VerifyCommit(r) \/ GoogleCommit(r)
  BY RowChanges
<1>2. SUFFICES ASSUME ~req[r].overlapped PROVE FALSE
  BY <1>1, CommitEnds DEF OverlappedEnds, UnderWay
<1>3. req[r].loaded = user[e]
  BY <1>1, <1>2, CommitEnds
<1>4. user[e] \in UserType /\ RowOK(user[e]) /\ user \in [Emails -> UserType]
  BY DEF Inv, TypeOK, RowsInv
<1>5. CASE RegisterCommit(r)
  <2>1. req[r].pc = "mailed"
    BY <1>5 DEF RegisterCommit
  <2>2. ~req[r].loaded.verified
    BY <2>1, ReqFacts DEF QOK
  <2> QED
    BY <1>3, <2>2
<1>6. CASE VerifyCommit(r)
  <2> DEFINE v == Written(user[e].verified, req[r].loaded.verified, TRUE)
  <2>1. user' = [user EXCEPT ![e] = [user[e] EXCEPT !.verified = v, !.token = None]]
    BY <1>1, <1>6 DEF VerifyCommit
  <2> HIDE DEF v
  <2>2. user'[e].password = user[e].password
    BY <1>4, <2>1 DEF UserType
  <2> QED
    BY <2>2
<1>7. CASE GoogleCommit(r)
  <2> DEFINE v == Written(user[e].verified, req[r].loaded.verified, TRUE)
             s == Written(user[e].sub, req[r].loaded.sub, req[r].sub)
  <2>1. req[r].loaded.exists
    BY <1>3, <1>4 DEF RowOK
  <2>2. user' = [user EXCEPT ![e] = [user[e] EXCEPT !.sub = s, !.verified = v]]
    BY <1>1, <1>7, <2>1 DEF GoogleCommit
  <2> HIDE DEF v, s
  <2>3. user'[e].password = user[e].password
    BY <1>4, <2>2 DEF UserType
  <2> QED
    BY <2>3
<1> QED
  BY <1>1, <1>5, <1>6, <1>7

\* Nothing makes a verified account unverified.
LEMMA VerifiedStays ==
  ASSUME Inv, [Next]_vars, NEW e \in Emails, user[e].verified
  PROVE  user'[e].verified
<1>1. SUFFICES ASSUME user'[e] # user[e] PROVE user'[e].verified
  OBVIOUS
<1>2. PICK r \in Requests : /\ req[r].email = e
                            /\ RegisterCommit(r) \/ VerifyCommit(r) \/ GoogleCommit(r)
  BY <1>1, RowChanges
<1>3. user[e] \in UserType /\ RowOK(user[e]) /\ user \in [Emails -> UserType]
  BY DEF Inv, TypeOK, RowsInv
<1>4. user[e].exists
  BY <1>3 DEF RowOK
<1>5. CASE RegisterCommit(r)
  <2>1. req[r].pc = "mailed" /\ Holding(req[r])
    BY <1>5 DEF RegisterCommit, Holding
  <2>2. req[r].loaded.exists
    BY <1>2, <1>4, <2>1, ReqFacts DEF QOK
  <2> DEFINE n == req[r].number
  <2>3. user' = [user EXCEPT ![e] = [user[e] EXCEPT !.password = n, !.token = n]]
    BY <1>2, <1>5, <2>2 DEF RegisterCommit
  <2> HIDE DEF n
  <2>4. user'[e].verified = user[e].verified
    BY <1>3, <2>3 DEF UserType
  <2> QED
    BY <2>4
<1>6. CASE VerifyCommit(r)
  <2> DEFINE v == Written(user[e].verified, req[r].loaded.verified, TRUE)
  <2>1. v
    BY DEF Written
  <2>2. user' = [user EXCEPT ![e] = [user[e] EXCEPT !.verified = v, !.token = None]]
    BY <1>2, <1>6 DEF VerifyCommit
  <2> HIDE DEF v
  <2>3. user'[e].verified = v
    BY <1>3, <2>2 DEF UserType
  <2> QED
    BY <2>1, <2>3
<1>7. CASE GoogleCommit(r)
  <2> DEFINE v == Written(user[e].verified, req[r].loaded.verified, TRUE)
             s == Written(user[e].sub, req[r].loaded.sub, req[r].sub)
  <2>1. v
    BY DEF Written
  <2>2. req[r].pc = "linked" /\ Holding(req[r])
    BY <1>7 DEF GoogleCommit, Holding
  <2>3. req[r].loaded.exists
    BY <1>2, <1>4, <2>2, ReqFacts DEF QOK
  <2>4. user' = [user EXCEPT ![e] = [user[e] EXCEPT !.sub = s, !.verified = v]]
    BY <1>2, <1>7, <2>3 DEF GoogleCommit
  <2> HIDE DEF v, s
  <2>5. user'[e].verified = v
    BY <1>3, <2>4 DEF UserType
  <2> QED
    BY <2>1, <2>5
<1> QED
  BY <1>2, <1>5, <1>6, <1>7

\* A step that replaces a link ends a request that was overlapped.
LEMMA LinkStep ==
  ASSUME Inv, [Next]_vars, NEW e \in Emails,
         user[e].sub # NoSub, user'[e].sub # user[e].sub
  PROVE  OverlappedEnds(e)
<1>1. PICK r \in Requests : /\ req[r].email = e
                            /\ RegisterCommit(r) \/ VerifyCommit(r) \/ GoogleCommit(r)
  BY RowChanges
<1>2. SUFFICES ASSUME ~req[r].overlapped PROVE FALSE
  BY <1>1, CommitEnds DEF OverlappedEnds, UnderWay
<1>3. req[r].loaded = user[e]
  BY <1>1, <1>2, CommitEnds
<1>4. user[e] \in UserType /\ RowOK(user[e]) /\ user \in [Emails -> UserType]
  BY DEF Inv, TypeOK, RowsInv
<1>5. req[r].loaded.exists
  BY <1>3, <1>4 DEF RowOK
<1>6. CASE RegisterCommit(r)
  <2> DEFINE n == req[r].number
  <2>1. user' = [user EXCEPT ![e] = [user[e] EXCEPT !.password = n, !.token = n]]
    BY <1>1, <1>5, <1>6 DEF RegisterCommit
  <2> HIDE DEF n
  <2>2. user'[e].sub = user[e].sub
    BY <1>4, <2>1 DEF UserType
  <2> QED
    BY <2>2
<1>7. CASE VerifyCommit(r)
  <2> DEFINE v == Written(user[e].verified, req[r].loaded.verified, TRUE)
  <2>1. user' = [user EXCEPT ![e] = [user[e] EXCEPT !.verified = v, !.token = None]]
    BY <1>1, <1>7 DEF VerifyCommit
  <2> HIDE DEF v
  <2>2. user'[e].sub = user[e].sub
    BY <1>4, <2>1 DEF UserType
  <2> QED
    BY <2>2
<1>8. CASE GoogleCommit(r)
  <2> DEFINE v == Written(user[e].verified, req[r].loaded.verified, TRUE)
             s == Written(user[e].sub, req[r].loaded.sub, req[r].sub)
  <2>1. req[r].pc = "linked"
    BY <1>8 DEF GoogleCommit
  <2>2. ~LinkedElsewhere(req[r].loaded, req[r].sub)
    BY <2>1, ReqFacts DEF QOK
  <2>3. s = user[e].sub
    BY <1>3, <2>2 DEF LinkedElsewhere, Written
  <2>4. user' = [user EXCEPT ![e] = [user[e] EXCEPT !.sub = s, !.verified = v]]
    BY <1>1, <1>5, <1>8 DEF GoogleCommit
  <2> HIDE DEF v, s
  <2>5. user'[e].sub = s
    BY <1>4, <2>4 DEF UserType
  <2> QED
    BY <2>3, <2>5
<1> QED
  BY <1>1, <1>6, <1>7, <1>8

\* A registration replaces the password of a verified account only when another
\* request was under way at some moment of it.
THEOREM VerifiedPasswordStays == Spec => VerifiedKeepsPassword
<1>1. Inv /\ [Next]_vars =>
        [\A e \in Emails :
           user[e].verified /\ user'[e].password # user[e].password => OverlappedEnds(e)]_vars
  BY PasswordStep
<1> QED
  BY <1>1, Invariance, PTL DEF Spec, VerifiedKeepsPassword

\* An account stays verified, and keeps its Google account but for two callbacks
\* that overlap.
THEOREM LinkStays == Spec => LinkIsKept
<1>1. Inv /\ [Next]_vars =>
        [\A e \in Emails :
           /\ user[e].verified => user'[e].verified
           /\ user[e].sub # NoSub /\ user'[e].sub # user[e].sub => OverlappedEnds(e)]_vars
  BY VerifiedStays, LinkStep
<1> QED
  BY <1>1, Invariance, PTL DEF Spec, LinkIsKept

\* A request that nobody overlaps never violates a unique key of the table.
THEOREM CollisionsNeedOverlap == Spec => OnlyOverlapsCollide
<1>1. ASSUME Inv, NEW r \in Requests, RegisterCollides(r), ~req[r].overlapped PROVE FALSE
  <2>1. req[r].pc = "registering" /\ ~req[r].loaded.exists /\ user[req[r].email].exists
    BY <1>1 DEF RegisterCollides
  <2> QED
    BY <1>1, <2>1, ReqFacts DEF FreshOK
<1>2. ASSUME Inv, NEW r \in Requests, GoogleCollides(r), ~req[r].overlapped PROVE FALSE
  <2>1. req[r].pc = "linking" /\ Collides(req[r])
    BY <1>2 DEF GoogleCollides
  <2>2. req[r].loaded = user[req[r].email] /\ \A e \in Emails : ~Owns(e, req[r].sub)
    BY <1>2, <2>1, ReqFacts DEF FreshOK, Owns
  <2> QED
    BY <2>1, <2>2 DEF Collides
<1>3. Inv /\ [Next]_vars =>
        [\A r \in Requests : RegisterCollides(r) \/ GoogleCollides(r) => req[r].overlapped]_vars
  BY <1>1, <1>2
<1> QED
  BY <1>3, Invariance, PTL DEF Spec, OnlyOverlapsCollide
=============================================================================
