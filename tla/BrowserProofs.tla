--------------------------- MODULE BrowserProofs ----------------------------
(***************************************************************************)
(* Machine-checked proofs about the two things the browser does beside its *)
(* pages: it keeps a session (BrowserSession), and it polls for the end of *)
(* a check that the user asked for (RunCheckPolling).  Each has its own    *)
(* part.                                                                   *)
(***************************************************************************)
EXTENDS BrowserSession, RunCheckPolling, TLAPS

-----------------------------------------------------------------------------
(***************************************************************************)
(* Session: for any number of calls in flight and any bounds.  Two         *)
(* arguments meet: a token that an answer carries is not known to anybody  *)
(* before the browser saves it, and a call that nobody overlaps finds in   *)
(* the storage what it took from it.                                       *)
(***************************************************************************)

Row == [login : 1 .. MaxTokens, live : BOOLEAN]

LiveIn(rows, n) == n # NoToken /\ rows[n].live

\* A call that has taken the refresh token out of the storage.
UsesToken(k) == k.pc \in {"refreshing", "validated", "answered", "denied"}

\* The tokens a call names have been issued, n of them by now.
CallOK(k, n) ==
  /\ k.refresh <= n /\ k.new <= n
  /\ UsesToken(k) => k.refresh # NoToken
  /\ k.pc = "answered" => k.new # NoToken

Base ==
  /\ TypeOK
  /\ logins <= Len(tokens)
  /\ \A i \in 1 .. Len(tokens) : tokens[i].login <= logins
  /\ storage.access = storage.refresh /\ storage.refresh <= Len(tokens)
  /\ \A c \in Calls : CallOK(call[c], Len(tokens))
  /\ signout.refresh <= Len(tokens)
  /\ signout.pc # "idle" => signout.refresh # NoToken

\* The token of an answer is live and nobody has it but this answer.
FreshInv ==
  \A c \in Calls : call[c].pc = "answered" =>
    /\ LiveIn(tokens, call[c].new)
    /\ storage.refresh # call[c].new /\ signout.refresh # call[c].new
    /\ \A d \in Calls : call[d].refresh # call[c].new
    /\ \A d \in Calls \ {c} : call[d].pc = "answered" => call[d].new # call[c].new

StoredInv ==
  lost = 0 /\ storage.refresh # NoToken =>
    \/ LiveIn(tokens, storage.refresh)
    \/ \E c \in Calls : call[c].pc = "answered" /\ call[c].refresh = storage.refresh
    \/ signout.pc = "answered" /\ signout.refresh = storage.refresh

\* What a call finds as long as no two have overlapped.
LoneOK(k, stored, rows, errorcount) ==
  k.pc # "idle" =>
    /\ stored.access # NoToken
    /\ UsesToken(k) => stored.refresh = k.refresh
    /\ k.pc = "validated" => LiveIn(rows, k.refresh)
    /\ k.pc = "denied" /\ errorcount = 0 => ~LiveIn(rows, k.refresh)

LoneInv ==
  ~overlapped =>
    /\ \A c \in Calls : LoneOK(call[c], storage, tokens, errors)
    /\ \A c, d \in Calls : call[c].pc # "idle" /\ call[d].pc # "idle" => c = d
    /\ signout.pc # "idle" => \A c \in Calls : call[c].pc = "idle"

OneLive(rows) ==
  \A m, n \in 1 .. Len(rows) :
    rows[m].live /\ rows[n].live /\ rows[m].login = rows[n].login => m = n

OneLiveInv == ~overlapped => OneLive(tokens)

Inv == Base /\ FreshInv /\ StoredInv /\ LoneInv /\ OneLiveInv

\* Nobody gives up a call but for a request or an answer that is lost.
AbandonedLost == \A c \in Calls : call[c].abandoned => lost # 0

-----------------------------------------------------------------------------
LEMMA Bounds == {MaxTokens, MaxLost, MaxErrors, MaxSignOuts} \subseteq Nat
BY SessionBoundAssumption

LEMMA BaseTypes ==
  ASSUME Base
  PROVE  /\ tokens \in Seq(Row) /\ Len(tokens) \in Nat /\ Len(tokens) <= MaxTokens
         /\ DOMAIN tokens = 1 .. Len(tokens)
         /\ \A i \in 1 .. Len(tokens) : tokens[i] \in Row
         /\ storage.refresh \in Nat /\ storage.access \in Nat /\ signout.refresh \in Nat
         /\ \A c \in Calls : call[c] \in CallType /\ call[c].refresh \in Nat /\ call[c].new \in Nat
         /\ logins \in Nat
<1>1. tokens \in Seq(Row) /\ Len(tokens) <= MaxTokens
  BY DEF Base, TypeOK, Row
<1>2. Numbers \subseteq Nat
  BY Bounds DEF Numbers
<1>3. DOMAIN tokens = 1 .. Len(tokens) /\ Len(tokens) \in Nat
      /\ \A i \in 1 .. Len(tokens) : tokens[i] \in Row
  BY <1>1
<1>4. storage.refresh \in Numbers /\ storage.access \in Numbers /\ signout.refresh \in Numbers
      /\ logins \in Numbers
  BY DEF Base, TypeOK
<1>5. \A c \in Calls : /\ call[c] \in CallType
                       /\ call[c].refresh \in Numbers /\ call[c].new \in Numbers
  BY DEF Base, TypeOK, CallType
<1> QED
  BY <1>1, <1>2, <1>3, <1>4, <1>5

LEMMA IdleTypes ==
  /\ IdleCall \in CallType /\ IdleCall.pc = "idle"
  /\ IdleCall.refresh = NoToken /\ IdleCall.new = NoToken /\ ~IdleCall.abandoned
BY Bounds DEF IdleCall, CallType, NoToken, Numbers

LEMMA IdleOK ==
  ASSUME NEW n \in Nat, NEW stored, NEW rows, NEW m
  PROVE  CallOK(IdleCall, n) /\ LoneOK(IdleCall, stored, rows, m) /\ ~UsesToken(IdleCall)
BY IdleTypes DEF CallOK, LoneOK, UsesToken, NoToken

\* One more row leaves the others as they are.
LEMMA Issued ==
  ASSUME NEW rows \in Seq(Row), NEW l \in 1 .. MaxTokens
  PROVE  /\ Issue(rows, l) \in Seq(Row) /\ Len(Issue(rows, l)) = Len(rows) + 1
         /\ \A i \in 1 .. Len(rows) : Issue(rows, l)[i] = rows[i]
         /\ Issue(rows, l)[Len(rows) + 1].login = l /\ Issue(rows, l)[Len(rows) + 1].live
<1> DEFINE new == [login |-> l, live |-> TRUE]
<1>1. new \in Row /\ new.login = l /\ new.live
  BY DEF Row
<1>2. Issue(rows, l) = Append(rows, new)
  BY DEF Issue
<1> HIDE DEF new
<1> QED
  BY <1>1, <1>2

\* Revoking a row changes whether it is live.
LEMMA RevokedRows ==
  ASSUME NEW rows \in Seq(Row), NEW n \in 1 .. Len(rows)
  PROVE  /\ Revoked(rows, n) \in Seq(Row) /\ Len(Revoked(rows, n)) = Len(rows)
         /\ \A i \in 1 .. Len(rows) : /\ Revoked(rows, n)[i].login = rows[i].login
                                      /\ Revoked(rows, n)[i].live <=> (rows[i].live /\ i # n)
<1> DEFINE new == [rows[n] EXCEPT !.live = FALSE]
<1>1. rows[n] \in Row /\ \A i \in 1 .. Len(rows) : rows[i] \in Row
  OBVIOUS
<1>2. new \in Row /\ new.login = rows[n].login /\ ~new.live
  BY <1>1 DEF Row
<1>3. Revoked(rows, n) = [rows EXCEPT ![n] = new]
  BY DEF Revoked
<1> HIDE DEF new
<1> QED
  BY <1>1, <1>2, <1>3

-----------------------------------------------------------------------------
LEMMA InitInv == Init => Inv
<1> SUFFICES ASSUME Init PROVE Inv
  OBVIOUS
<1>1. tokens = <<>> /\ Len(tokens) = 0 /\ tokens \in Seq(Row) /\ DOMAIN tokens = {}
  BY DEF Init
<1>2. storage.refresh = NoToken /\ storage.access = NoToken /\ signout.refresh = NoToken
      /\ signout.pc = "idle" /\ NoToken = 0
  BY DEF Init, Cleared, NoToken
<1>3. \A c \in Calls : call[c] = IdleCall
  BY DEF Init
<1>4. TypeOK
  <2>1. 0 \in Numbers /\ 0 \in 0 .. MaxLost /\ 0 \in 0 .. MaxErrors /\ 0 \in 0 .. MaxSignOuts
        /\ 0 <= MaxTokens
    BY Bounds DEF Numbers
  <2>2. /\ tokens \in Seq([login : 1 .. MaxTokens, live : BOOLEAN])
        /\ Len(tokens) <= MaxTokens /\ expired \subseteq DOMAIN tokens
    BY <1>1, <2>1 DEF Init, Row
  <2>3. call \in [Calls -> CallType]
    BY IdleTypes DEF Init
  <2>4. /\ storage \in [access : Numbers, refresh : Numbers]
        /\ signout \in [pc : {"idle", "sent", "answered"}, refresh : Numbers]
    BY <2>1 DEF Init, Cleared, NoToken
  <2> QED
    BY <2>1, <2>2, <2>3, <2>4 DEF Init, TypeOK
<1>5. Base
  BY <1>1, <1>2, <1>3, <1>4, IdleOK DEF Base, Init
<1>6. FreshInv /\ StoredInv
  BY <1>2, <1>3, IdleTypes DEF FreshInv, StoredInv
<1>7. LoneInv
  BY <1>2, <1>3, IdleTypes, IdleOK DEF LoneInv
<1>8. OneLiveInv
  BY <1>1 DEF OneLiveInv, OneLive
<1> QED
  BY <1>5, <1>6, <1>7, <1>8 DEF Inv

-----------------------------------------------------------------------------
\* A call moves on and keeps its tokens, or ends: nothing else of the session
\* changes.
LEMMA CallMoves ==
  ASSUME Inv,
         NEW c \in Calls, NEW k \in CallType,
         call' = [call EXCEPT ![c] = k],
         UNCHANGED <<tokens, expired, storage, signout, logins, signouts>>,
         lost' \in 0 .. MaxLost, lost' >= lost,
         errors' \in 0 .. MaxErrors, errors' >= errors,
         overlapped' \in BOOLEAN, overlapped => overlapped',
         k.pc # "answered", call[c].pc = "answered" => lost' # 0,
         CallOK(k, Len(tokens)),
         k.refresh \in {storage.refresh, call[c].refresh, NoToken},
         ~overlapped' =>
           /\ LoneOK(k, storage, tokens, errors')
           /\ k.pc # "idle" => call[c].pc # "idle" \/
                (signout.pc = "idle" /\ \A d \in Calls : call[d].pc = "idle")
  PROVE  Inv'
<1>1. call'[c] = k /\ \A d \in Calls \ {c} : call'[d] = call[d]
  BY DEF Inv, Base, TypeOK
<1>2. Base'
  <2>1. call' \in [Calls -> CallType]
    BY DEF Inv, Base, TypeOK
  <2> QED
    BY <1>1, <2>1 DEF Inv, Base, TypeOK
<1>3. FreshInv'
  <2> SUFFICES ASSUME NEW d \in Calls \ {c}, call[d].pc = "answered"
               PROVE  /\ LiveIn(tokens, call[d].new)
                      /\ storage.refresh # call[d].new /\ signout.refresh # call[d].new
                      /\ k.refresh # call[d].new
                      /\ \A f \in Calls : call[f].refresh # call[d].new
                      /\ \A f \in Calls \ {d} : call[f].pc = "answered" => call[f].new # call[d].new
    BY <1>1 DEF FreshInv
  <2>1. call[d].new # NoToken
    BY DEF Inv, Base, CallOK
  <2> QED
    BY <2>1 DEF Inv, FreshInv
<1>4. StoredInv'
  <2> SUFFICES ASSUME lost' = 0, storage.refresh # NoToken PROVE StoredInv'
    BY DEF StoredInv
  <2>1. lost = 0 /\ call[c].pc # "answered"
    BY Bounds DEF Inv, Base, TypeOK
  <2> QED
    BY <1>1, <2>1 DEF Inv, StoredInv
<1>5. LoneInv'
  <2> SUFFICES ASSUME ~overlapped' PROVE LoneInv'
    BY DEF LoneInv
  <2>1. ~overlapped
    OBVIOUS
  <2>2. errors' = 0 => errors = 0
    BY Bounds DEF Inv, Base, TypeOK
  <2>3. \A d \in Calls : LoneOK(call[d], storage, tokens, errors)
    BY <2>1 DEF Inv, LoneInv
  <2>4. \A d \in Calls : LoneOK(call[d], storage, tokens, errors')
    BY <2>2, <2>3 DEF LoneOK
  <2>5. \A d \in Calls : LoneOK(call'[d], storage', tokens', errors')
    BY <1>1, <2>4
  <2>6. \A d, f \in Calls : call'[d].pc # "idle" /\ call'[f].pc # "idle" => d = f
    BY <1>1, <2>1 DEF Inv, LoneInv
  <2>7. signout'.pc # "idle" => \A d \in Calls : call'[d].pc = "idle"
    BY <1>1, <2>1 DEF Inv, LoneInv
  <2> QED
    BY <2>5, <2>6, <2>7 DEF LoneInv
<1>6. OneLiveInv'
  BY DEF Inv, OneLiveInv
<1> QED
  BY <1>2, <1>3, <1>4, <1>5, <1>6 DEF Inv

\* The counters that most steps leave alone.
LEMMA CounterTypes ==
  ASSUME Inv
  PROVE  /\ lost \in 0 .. MaxLost /\ errors \in 0 .. MaxErrors /\ overlapped \in BOOLEAN
         /\ lost \in Nat /\ errors \in Nat /\ MaxLost \in Nat /\ MaxErrors \in Nat
         /\ lost >= 0 /\ errors >= 0
<1>1. lost \in 0 .. MaxLost /\ errors \in 0 .. MaxErrors /\ overlapped \in BOOLEAN
  BY DEF Inv, Base, TypeOK
<1> QED
  BY <1>1, Bounds

LEMMA CountersStay ==
  ASSUME Inv
  PROVE  /\ overlapped' = overlapped => overlapped' \in BOOLEAN /\ (overlapped => overlapped')
         /\ lost' = lost => lost' \in 0 .. MaxLost /\ lost' >= lost
         /\ errors' = errors => errors' \in 0 .. MaxErrors /\ errors' >= errors
BY CounterTypes

LEMMA CallFacts ==
  ASSUME Inv, NEW c \in Calls
  PROVE  /\ call[c] \in CallType /\ CallOK(call[c], Len(tokens))
         /\ ~overlapped => LoneOK(call[c], storage, tokens, errors)
         /\ storage.refresh \in Numbers /\ storage.access \in Numbers
         /\ storage.access = storage.refresh /\ storage.refresh <= Len(tokens)
         /\ Len(tokens) \in Nat
BY BaseTypes DEF Inv, Base, TypeOK, LoneInv

LEMMA CallSendInv ==
  ASSUME Inv, NEW c \in Calls, CallSend(c)
  PROVE  Inv'
<1> DEFINE k == [call[c] EXCEPT !.pc = "sent", !.access = storage.access]
<1>1. k \in CallType /\ k.pc = "sent" /\ k.refresh = call[c].refresh /\ k.new = call[c].new
  BY CallFacts DEF CallType
<1>2. call' = [call EXCEPT ![c] = k]
  BY DEF CallSend, Inv, Base, TypeOK
<1> HIDE DEF k
<1>3. /\ UNCHANGED <<tokens, expired, storage, signout, logins, signouts>>
      /\ lost' = lost /\ errors' = errors /\ storage.access # NoToken /\ call[c].pc = "idle"
      /\ overlapped' = (overlapped \/ UnderWay # {} \/ signout.pc # "idle")
  BY DEF CallSend
<1>4. ~UsesToken(k) /\ CallOK(k, Len(tokens))
  BY <1>1, CallFacts DEF UsesToken, CallOK
<1>5. LoneOK(k, storage, tokens, errors')
  BY <1>1, <1>3, <1>4 DEF LoneOK
<1>6. overlapped' \in BOOLEAN /\ (overlapped => overlapped')
  BY <1>3, CounterTypes
<1>7. ~overlapped' => signout.pc = "idle" /\ \A d \in Calls : call[d].pc = "idle"
  BY <1>3 DEF UnderWay
<1>8. lost' \in 0 .. MaxLost /\ lost' >= lost /\ errors' \in 0 .. MaxErrors /\ errors' >= errors
  BY <1>3, CountersStay
<1>9. k.pc # "answered" /\ call[c].pc # "answered" /\ k.refresh = call[c].refresh
  BY <1>1, <1>3
<1> QED
  BY <1>1, <1>2, <1>3, <1>4, <1>5, <1>6, <1>7, <1>8, <1>9, CallMoves

LEMMA CallAnsweredInv ==
  ASSUME Inv, NEW c \in Calls, CallAnswered(c)
  PROVE  Inv'
<1>1. /\ call' = [call EXCEPT ![c] = IdleCall] /\ call[c].pc = "sent"
      /\ UNCHANGED <<tokens, expired, storage, signout, logins, signouts>>
      /\ lost' = lost /\ errors' = errors /\ overlapped' = overlapped
  BY DEF CallAnswered
<1>2. overlapped' \in BOOLEAN /\ (overlapped => overlapped')
  BY <1>1, CountersStay
<1>3. lost' \in 0 .. MaxLost /\ lost' >= lost /\ errors' \in 0 .. MaxErrors /\ errors' >= errors
  BY <1>1, CountersStay
<1>4. /\ IdleCall \in CallType /\ IdleCall.pc # "answered" /\ CallOK(IdleCall, Len(tokens))
      /\ IdleCall.refresh \in {storage.refresh, call[c].refresh, NoToken}
      /\ LoneOK(IdleCall, storage, tokens, errors')
      /\ IdleCall.pc = "idle" /\ call[c].pc # "answered"
  BY <1>1, IdleTypes, IdleOK, CallFacts
<1> QED
  BY <1>1, <1>2, <1>3, <1>4, CallMoves

LEMMA CallUnauthorizedInv ==
  ASSUME Inv, NEW c \in Calls, CallUnauthorized(c)
  PROVE  Inv'
<1> DEFINE taken == [IdleCall EXCEPT !.pc = "refreshing", !.refresh = storage.refresh]
<1> DEFINE k == IF storage.refresh = NoToken THEN IdleCall ELSE taken
<1>1. /\ call' = [call EXCEPT ![c] = k] /\ call[c].pc = "sent"
      /\ UNCHANGED <<tokens, expired, storage, signout, logins, signouts>>
      /\ lost' = lost /\ errors' = errors /\ overlapped' = overlapped
  BY DEF CallUnauthorized
<1>2. /\ taken \in CallType /\ taken.pc = "refreshing"
      /\ taken.refresh = storage.refresh /\ taken.new = NoToken
  BY IdleTypes, CallFacts DEF CallType
<1> HIDE DEF taken
<1>3. k \in CallType /\ k.pc # "answered" /\ k.refresh \in {storage.refresh, NoToken}
  BY <1>2, IdleTypes
<1>4. CallOK(k, Len(tokens))
  <2>1. storage.refresh # NoToken => CallOK(taken, Len(tokens))
    BY <1>2, CallFacts DEF CallOK, NoToken
  <2> QED
    BY <2>1, IdleOK, CallFacts
<1>5. LoneOK(k, storage, tokens, errors')
  <2>1. storage.refresh # NoToken => LoneOK(taken, storage, tokens, errors')
    BY <1>2, CallFacts DEF LoneOK, UsesToken
  <2> QED
    BY <2>1, IdleOK, CallFacts
<1>6. overlapped' \in BOOLEAN /\ (overlapped => overlapped')
  BY <1>1, CountersStay
<1>7. lost' \in 0 .. MaxLost /\ lost' >= lost /\ errors' \in 0 .. MaxErrors /\ errors' >= errors
  BY <1>1, CountersStay
<1>8. call[c].pc # "answered" /\ call[c].pc # "idle"
  BY <1>1
<1> HIDE DEF k
<1> QED
  BY <1>1, <1>3, <1>4, <1>5, <1>6, <1>7, <1>8, CallMoves

\* A request of /auth/refresh that goes on keeps its tokens.
LEMMA Goes ==
  ASSUME NEW k \in CallType, NEW p \in {"validated", "denied"}
  PROVE  /\ [k EXCEPT !.pc = p] \in CallType /\ [k EXCEPT !.pc = p].pc = p
         /\ [k EXCEPT !.pc = p].refresh = k.refresh /\ [k EXCEPT !.pc = p].new = k.new
BY DEF CallType

LEMMA RefreshReadInv ==
  ASSUME Inv, NEW c \in Calls, RefreshRead(c)
  PROVE  Inv'
<1> DEFINE p == IF Live(call[c].refresh) THEN "validated" ELSE "denied"
<1> DEFINE k == [call[c] EXCEPT !.pc = p]
<1>1. /\ call' = [call EXCEPT ![c] = k] /\ call[c].pc = "refreshing"
      /\ UNCHANGED <<tokens, expired, storage, signout, logins, signouts>>
      /\ lost' = lost /\ errors' = errors /\ overlapped' = overlapped
  BY DEF RefreshRead
<1>2. p \in {"validated", "denied"}
  OBVIOUS
<1>3. /\ p = "validated" => LiveIn(tokens, call[c].refresh)
      /\ p = "denied" => ~LiveIn(tokens, call[c].refresh)
  BY DEF Live, LiveIn
<1> HIDE DEF p
<1>4. k \in CallType /\ k.pc = p /\ k.refresh = call[c].refresh /\ k.new = call[c].new
  BY <1>2, Goes, CallFacts
<1> HIDE DEF k
<1>5. CallOK(k, Len(tokens))
  BY <1>1, <1>2, <1>4, CallFacts DEF CallOK, UsesToken
<1>6. ~overlapped => LoneOK(k, storage, tokens, errors')
  BY <1>1, <1>2, <1>3, <1>4, CallFacts DEF LoneOK, UsesToken
<1>7. overlapped' \in BOOLEAN /\ (overlapped => overlapped')
  BY <1>1, CountersStay
<1>8. lost' \in 0 .. MaxLost /\ lost' >= lost /\ errors' \in 0 .. MaxErrors /\ errors' >= errors
  BY <1>1, CountersStay
<1>9. /\ k.pc # "answered" /\ call[c].pc # "answered" /\ call[c].pc # "idle"
      /\ k.refresh = call[c].refresh
  BY <1>1, <1>2, <1>4
<1> QED
  BY <1>1, <1>4, <1>5, <1>6, <1>7, <1>8, <1>9, CallMoves

LEMMA RefreshErrorInv ==
  ASSUME Inv, NEW c \in Calls, RefreshError(c)
  PROVE  Inv'
<1> DEFINE k == [call[c] EXCEPT !.pc = "denied"]
<1>1. /\ call' = [call EXCEPT ![c] = k] /\ call[c].pc \in {"refreshing", "validated"}
      /\ UNCHANGED <<tokens, expired, storage, signout, logins, signouts>>
      /\ lost' = lost /\ errors' = errors + 1 /\ errors < MaxErrors /\ overlapped' = overlapped
  BY DEF RefreshError
<1>2. errors' \in 0 .. MaxErrors /\ errors' >= errors /\ errors' # 0
  BY <1>1, CounterTypes
<1>3. k \in CallType /\ k.pc = "denied" /\ k.refresh = call[c].refresh /\ k.new = call[c].new
  BY Goes, CallFacts
<1> HIDE DEF k
<1>4. CallOK(k, Len(tokens))
  BY <1>1, <1>3, CallFacts DEF CallOK, UsesToken
<1>5. ~overlapped => LoneOK(k, storage, tokens, errors')
  BY <1>1, <1>2, <1>3, CallFacts DEF LoneOK, UsesToken
<1>6. overlapped' \in BOOLEAN /\ (overlapped => overlapped') /\ lost' \in 0 .. MaxLost /\ lost' >= lost
  BY <1>1, CountersStay
<1>7. k.pc # "answered" /\ call[c].pc # "answered" /\ call[c].pc # "idle"
  BY <1>1, <1>3
<1> QED
  BY <1>1, <1>2, <1>3, <1>4, <1>5, <1>6, <1>7, CallMoves

LEMMA RefreshLostInv ==
  ASSUME Inv, NEW c \in Calls, RefreshLost(c)
  PROVE  Inv'
<1>1. /\ call' = [call EXCEPT ![c] = IdleCall]
      /\ UNCHANGED <<tokens, expired, storage, signout, logins, signouts>>
      /\ lost' = lost + 1 /\ lost < MaxLost /\ errors' = errors /\ overlapped' = overlapped
  BY DEF RefreshLost
<1>2. lost' \in 0 .. MaxLost /\ lost' >= lost /\ lost' # 0
  BY <1>1, CounterTypes
<1>3. /\ overlapped' \in BOOLEAN /\ (overlapped => overlapped')
      /\ errors' \in 0 .. MaxErrors /\ errors' >= errors
  BY <1>1, CountersStay
<1>4. /\ IdleCall \in CallType /\ IdleCall.pc = "idle" /\ CallOK(IdleCall, Len(tokens))
      /\ IdleCall.refresh \in {storage.refresh, call[c].refresh, NoToken}
      /\ LoneOK(IdleCall, storage, tokens, errors')
  BY IdleTypes, IdleOK, CallFacts
<1> QED
  BY <1>1, <1>2, <1>3, <1>4, CallMoves

LEMMA RefreshAbandonedInv ==
  ASSUME Inv, NEW c \in Calls, RefreshAbandoned(c)
  PROVE  Inv'
<1> DEFINE k == [call[c] EXCEPT !.abandoned = TRUE]
<1>1. /\ call' = [call EXCEPT ![c] = k] /\ call[c].pc \in {"refreshing", "validated"}
      /\ UNCHANGED <<tokens, expired, storage, signout, logins, signouts>>
      /\ lost' = lost + 1 /\ lost < MaxLost /\ errors' = errors /\ overlapped' = overlapped
  BY DEF RefreshAbandoned
<1>2. lost' \in 0 .. MaxLost /\ lost' >= lost /\ lost' # 0
  BY <1>1, CounterTypes
<1>3. k \in CallType /\ k.pc = call[c].pc /\ k.refresh = call[c].refresh /\ k.new = call[c].new
  BY CallFacts DEF CallType
<1> HIDE DEF k
<1>4. CallOK(k, Len(tokens))
  BY <1>3, CallFacts DEF CallOK, UsesToken
<1>5. ~overlapped => LoneOK(k, storage, tokens, errors')
  BY <1>1, <1>3, CallFacts DEF LoneOK, UsesToken
<1>6. /\ overlapped' \in BOOLEAN /\ (overlapped => overlapped')
      /\ errors' \in 0 .. MaxErrors /\ errors' >= errors
  BY <1>1, CountersStay
<1>7. k.pc # "answered" /\ call[c].pc # "answered" /\ call[c].pc # "idle"
  BY <1>1, <1>3
<1> QED
  BY <1>1, <1>2, <1>3, <1>4, <1>5, <1>6, <1>7, CallMoves

LEMMA AnswerDroppedInv ==
  ASSUME Inv, AbandonedLost, NEW c \in Calls, AnswerDropped(c)
  PROVE  Inv'
<1>1. /\ call' = [call EXCEPT ![c] = IdleCall] /\ call[c].abandoned
      /\ UNCHANGED <<tokens, expired, storage, signout, logins, signouts>>
      /\ lost' = lost /\ errors' = errors /\ overlapped' = overlapped
  BY DEF AnswerDropped
<1>2. lost' \in 0 .. MaxLost /\ lost' >= lost /\ lost' # 0
  BY <1>1, CountersStay DEF AbandonedLost
<1>3. /\ overlapped' \in BOOLEAN /\ (overlapped => overlapped')
      /\ errors' \in 0 .. MaxErrors /\ errors' >= errors
  BY <1>1, CountersStay
<1>4. /\ IdleCall \in CallType /\ IdleCall.pc = "idle" /\ CallOK(IdleCall, Len(tokens))
      /\ IdleCall.refresh \in {storage.refresh, call[c].refresh, NoToken}
      /\ LoneOK(IdleCall, storage, tokens, errors')
  BY IdleTypes, IdleOK, CallFacts
<1> QED
  BY <1>1, <1>2, <1>3, <1>4, CallMoves

-----------------------------------------------------------------------------
\* A call ends and replaces what is stored: by the token of its answer, or by
\* nothing.
LEMMA CallEnds ==
  ASSUME Inv, NEW c \in Calls, NEW n \in Numbers,
         call[c].pc # "idle",
         call' = [call EXCEPT ![c] = IdleCall],
         storage' = Saved(n),
         UNCHANGED <<tokens, expired, signout, overlapped, logins, lost, errors, signouts>>,
         n = NoToken \/ (call[c].pc = "answered" /\ n = call[c].new)
  PROVE  Inv'
<1>1. call'[c] = IdleCall /\ \A d \in Calls \ {c} : call'[d] = call[d]
  BY DEF Inv, Base, TypeOK
<1>2. storage'.refresh = n /\ storage'.access = n
      /\ storage' \in [access : Numbers, refresh : Numbers]
  BY DEF Saved
<1>3. n <= Len(tokens)
  BY CallFacts DEF NoToken, CallOK
<1>4. n # NoToken => /\ LiveIn(tokens, n)
                     /\ \A d \in Calls \ {c} : call[d].pc = "answered" => call[d].new # n
  BY DEF Inv, FreshInv
<1>5. Base'
  <2>1. call' \in [Calls -> CallType]
    BY IdleTypes DEF Inv, Base, TypeOK
  <2>2. \A d \in Calls : CallOK(call'[d], Len(tokens))
    BY <1>1, IdleOK, CallFacts
  <2> QED
    BY <1>2, <1>3, <2>1, <2>2 DEF Inv, Base, TypeOK
<1>6. FreshInv'
  <2> SUFFICES ASSUME NEW d \in Calls \ {c}, call[d].pc = "answered"
               PROVE  /\ LiveIn(tokens, call[d].new)
                      /\ n # call[d].new /\ signout.refresh # call[d].new
                      /\ NoToken # call[d].new
                      /\ \A f \in Calls : call[f].refresh # call[d].new
                      /\ \A f \in Calls \ {d} : call[f].pc = "answered" => call[f].new # call[d].new
    BY <1>1, <1>2, IdleTypes DEF FreshInv
  <2>1. call[d].new # NoToken
    BY DEF Inv, Base, CallOK
  <2> QED
    BY <1>4, <2>1 DEF Inv, FreshInv
<1>7. StoredInv'
  BY <1>2, <1>4 DEF StoredInv
<1>8. LoneInv'
  <2> SUFFICES ASSUME ~overlapped PROVE LoneInv'
    BY DEF LoneInv
  <2>1. \A d \in Calls : call'[d] = IdleCall \/ call'[d].pc = "idle"
    BY <1>1 DEF Inv, LoneInv
  <2>2. \A d \in Calls : call'[d].pc = "idle"
    BY <2>1, IdleTypes
  <2> QED
    BY <2>2 DEF LoneInv, LoneOK
<1>9. OneLiveInv'
  BY DEF Inv, OneLiveInv
<1> QED
  BY <1>5, <1>6, <1>7, <1>8, <1>9 DEF Inv

LEMMA CallSavesInv ==
  ASSUME Inv, NEW c \in Calls, CallSaves(c)
  PROVE  Inv'
<1>1. call[c].new \in Numbers
  BY CallFacts DEF CallType
<1> QED
  BY <1>1, CallEnds DEF CallSaves

LEMMA CallDeniedInv ==
  ASSUME Inv, NEW c \in Calls, CallDenied(c)
  PROVE  Inv'
<1>1. NoToken \in Numbers /\ Cleared = Saved(NoToken)
  BY Bounds DEF NoToken, Numbers, Cleared, Saved
<1> QED
  BY <1>1, CallEnds DEF CallDenied

-----------------------------------------------------------------------------
\* POST /auth/refresh commits: the row that was used is revoked, one is added.
LEMMA RefreshCommitInv ==
  ASSUME Inv, NEW c \in Calls, RefreshCommit(c)
  PROVE  Inv'
<1> DEFINE used == call[c].refresh
<1> DEFINE l == tokens[used].login
<1> DEFINE k == [call[c] EXCEPT !.pc = "answered", !.new = Len(tokens) + 1]
<1>1. /\ call[c].pc = "validated" /\ Len(tokens) < MaxTokens
      /\ tokens' = Issue(Revoked(tokens, used), l)
      /\ call' = [call EXCEPT ![c].pc = "answered", ![c].new = Len(tokens) + 1]
      /\ UNCHANGED <<expired, storage, signout, overlapped, logins, lost, errors, signouts>>
  BY DEF RefreshCommit
<1>2. tokens \in Seq(Row) /\ Len(tokens) \in Nat /\ DOMAIN tokens = 1 .. Len(tokens)
      /\ MaxTokens \in Nat /\ NoToken = 0
      /\ \A i \in 1 .. Len(tokens) : tokens[i] \in Row
  BY BaseTypes, Bounds DEF Inv, NoToken
<1>3. used \in 1 .. Len(tokens)
  BY <1>1, <1>2, CallFacts, BaseTypes DEF CallOK, UsesToken, Inv
<1>4. l \in 1 .. MaxTokens /\ l <= logins
  BY <1>2, <1>3 DEF Row, Inv, Base
<1>5. /\ tokens' \in Seq(Row) /\ Len(tokens') = Len(tokens) + 1
      /\ \A i \in 1 .. Len(tokens) : /\ tokens'[i].login = tokens[i].login
                                     /\ tokens'[i].live <=> (tokens[i].live /\ i # used)
      /\ tokens'[Len(tokens) + 1].login = l /\ tokens'[Len(tokens) + 1].live
  <2> DEFINE rows == Revoked(tokens, used)
  <2>1. /\ rows \in Seq(Row) /\ Len(rows) = Len(tokens)
        /\ \A i \in 1 .. Len(tokens) : /\ rows[i].login = tokens[i].login
                                       /\ rows[i].live <=> (tokens[i].live /\ i # used)
    BY <1>2, <1>3, RevokedRows
  <2>2. tokens' = Issue(rows, l)
    BY <1>1
  <2> HIDE DEF rows, l
  <2>3. /\ Issue(rows, l) \in Seq(Row) /\ Len(Issue(rows, l)) = Len(rows) + 1
        /\ \A i \in 1 .. Len(rows) : Issue(rows, l)[i] = rows[i]
        /\ Issue(rows, l)[Len(rows) + 1].login = l /\ Issue(rows, l)[Len(rows) + 1].live
    BY <1>4, <2>1, Issued
  <2> QED
    BY <2>1, <2>2, <2>3
<1>6. Len(tokens) + 1 \in Numbers
  BY <1>1, <1>2 DEF Numbers
<1>7. k \in CallType /\ k.pc = "answered" /\ k.refresh = used /\ k.new = Len(tokens) + 1
  BY <1>6, CallFacts DEF CallType
<1>8. call' = [call EXCEPT ![c] = k]
  BY <1>1 DEF Inv, Base, TypeOK
<1> HIDE DEF k
<1>9. call'[c] = k /\ (\A d \in Calls \ {c} : call'[d] = call[d]) /\ call' \in [Calls -> CallType]
  BY <1>7, <1>8 DEF Inv, Base, TypeOK
<1>10. Base'
  <2>1. TypeOK'
    <3>1. tokens' \in Seq([login : 1 .. MaxTokens, live : BOOLEAN])
      BY <1>5 DEF Row
    <3>2. DOMAIN tokens' = 1 .. Len(tokens) + 1
      BY <1>5
    <3>3. expired' \subseteq DOMAIN tokens'
      <4>1. expired' = expired /\ expired \subseteq 1 .. Len(tokens)
        BY <1>1, <1>2 DEF Inv, Base, TypeOK
      <4> QED
        BY <1>2, <3>2, <4>1
    <3>4. Len(tokens') <= MaxTokens
      <4>1. /\ Len(tokens) < MaxTokens /\ Len(tokens') = Len(tokens) + 1
            /\ Len(tokens) \in Nat /\ MaxTokens \in Nat
        BY <1>1, <1>2, <1>5
      <4> QED
        BY <4>1
    <3> QED
      BY <1>1, <1>9, <3>1, <3>3, <3>4 DEF Inv, Base, TypeOK
  <2>2. logins' <= Len(tokens')
    <3>1. logins' = logins /\ logins \in Nat /\ logins <= Len(tokens)
      BY <1>1, BaseTypes DEF Inv, Base
    <3> QED
      BY <1>2, <1>5, <3>1
  <2>3. \A i \in 1 .. Len(tokens') : tokens'[i].login <= logins'
    <3>1. \A i \in 1 .. Len(tokens) : tokens[i].login <= logins
      BY DEF Inv, Base
    <3>2. \A i \in 1 .. Len(tokens') : i \in 1 .. Len(tokens) \/ i = Len(tokens) + 1
      BY <1>2, <1>5
    <3> QED
      BY <1>1, <1>4, <1>5, <3>1, <3>2
  <2>4. storage'.access = storage'.refresh /\ storage'.refresh <= Len(tokens')
        /\ signout'.refresh <= Len(tokens') /\ (signout'.pc # "idle" => signout'.refresh # NoToken)
    <3>1. /\ storage' = storage /\ storage.refresh \in Nat /\ storage.refresh <= Len(tokens)
          /\ signout' = signout /\ signout.refresh \in Nat /\ signout.refresh <= Len(tokens)
          /\ storage.access = storage.refresh /\ (signout.pc # "idle" => signout.refresh # NoToken)
      BY <1>1, BaseTypes DEF Inv, Base
    <3> QED
      BY <1>2, <1>5, <3>1
  <2>5. \A d \in Calls : CallOK(call'[d], Len(tokens'))
    <3>1. CallOK(k, Len(tokens'))
      BY <1>2, <1>3, <1>5, <1>7 DEF CallOK
    <3>2. \A d \in Calls \ {c} : CallOK(call[d], Len(tokens'))
      BY <1>2, <1>5, CallFacts, BaseTypes DEF CallOK, Inv
    <3> QED
      BY <1>9, <3>1, <3>2
  <2> QED
    BY <2>1, <2>2, <2>3, <2>4, <2>5 DEF Base
<1>11. \A n \in 1 .. Len(tokens) : LiveIn(tokens', n) <=> (LiveIn(tokens, n) /\ n # used)
  BY <1>5 DEF LiveIn
<1>12. FreshInv'
  <2>1. LiveIn(tokens', k.new)
    BY <1>2, <1>5, <1>7 DEF LiveIn
  <2>2. /\ storage.refresh # k.new /\ signout.refresh # k.new
        /\ \A d \in Calls : call[d].refresh # k.new /\ call[d].new # k.new
        /\ used # k.new
    BY <1>2, <1>3, <1>7, CallFacts, BaseTypes DEF CallOK, Inv, Base
  <2>3. ASSUME NEW d \in Calls \ {c}, call[d].pc = "answered"
        PROVE  /\ LiveIn(tokens', call[d].new)
               /\ storage.refresh # call[d].new /\ signout.refresh # call[d].new
               /\ \A f \in Calls : call[f].refresh # call[d].new
               /\ \A f \in Calls \ {d} : call[f].pc = "answered" => call[f].new # call[d].new
    <3>1. /\ LiveIn(tokens, call[d].new) /\ used # call[d].new
          /\ storage.refresh # call[d].new /\ signout.refresh # call[d].new
          /\ \A f \in Calls : call[f].refresh # call[d].new
          /\ \A f \in Calls \ {d} : call[f].pc = "answered" => call[f].new # call[d].new
      BY <2>3 DEF Inv, FreshInv
    <3>2. call[d].new \in 1 .. Len(tokens)
      BY <1>2, <2>3, CallFacts, BaseTypes DEF CallOK, Inv
    <3> QED
      BY <1>11, <3>1, <3>2
  <2> QED
    BY <1>1, <1>7, <1>9, <2>1, <2>2, <2>3 DEF FreshInv
<1>13. StoredInv'
  <2> SUFFICES ASSUME lost = 0, storage.refresh # NoToken
               PROVE  \/ LiveIn(tokens', storage.refresh)
                      \/ \E d \in Calls : call'[d].pc = "answered" /\ call'[d].refresh = storage.refresh
                      \/ signout.pc = "answered" /\ signout.refresh = storage.refresh
    BY <1>1 DEF StoredInv
  <2>1. storage.refresh \in 1 .. Len(tokens)
    BY <1>2, CallFacts, BaseTypes DEF Inv
  <2>2. CASE storage.refresh = used
    BY <1>7, <1>9, <2>2
  <2>3. CASE storage.refresh # used
    <3>1. \/ LiveIn(tokens, storage.refresh)
          \/ \E d \in Calls : call[d].pc = "answered" /\ call[d].refresh = storage.refresh
          \/ signout.pc = "answered" /\ signout.refresh = storage.refresh
      BY DEF Inv, StoredInv
    <3> QED
      BY <1>1, <1>9, <1>11, <2>1, <2>3, <3>1
  <2> QED
    BY <2>2, <2>3
<1>14. LoneInv'
  <2> SUFFICES ASSUME ~overlapped PROVE LoneInv'
    BY <1>1 DEF LoneInv
  <2>1. \A d \in Calls \ {c} : call[d].pc = "idle"
    BY <1>1 DEF Inv, LoneInv
  <2>2. signout.pc = "idle"
    BY <1>1 DEF Inv, LoneInv
  <2>3. LoneOK(k, storage, tokens', errors)
    BY <1>1, <1>7, CallFacts DEF LoneOK, UsesToken
  <2>4. \A d \in Calls \ {c} : LoneOK(call[d], storage, tokens', errors)
    BY <2>1 DEF LoneOK
  <2> QED
    BY <1>1, <1>9, <2>1, <2>2, <2>3, <2>4 DEF LoneInv
<1>15. OneLiveInv'
  <2> SUFFICES ASSUME ~overlapped, NEW m \in 1 .. Len(tokens'), NEW n \in 1 .. Len(tokens'),
                      tokens'[m].live, tokens'[n].live, tokens'[m].login = tokens'[n].login
               PROVE  m = n
    BY <1>1 DEF OneLiveInv, OneLive
  <2>1. OneLive(tokens)
    BY DEF Inv, OneLiveInv
  <2>2. tokens[used].live
    BY <1>1, CallFacts DEF LoneOK, LiveIn
  <2>3. \A i \in 1 .. Len(tokens) : tokens'[i].live => tokens'[i].login # l
    BY <1>3, <1>5, <2>1, <2>2 DEF OneLive
  <2>4. \A i \in 1 .. Len(tokens') : i \in 1 .. Len(tokens) \/ i = Len(tokens) + 1
    BY <1>2, <1>5
  <2>5. CASE m \in 1 .. Len(tokens) /\ n \in 1 .. Len(tokens)
    BY <1>5, <2>1, <2>5 DEF OneLive
  <2>6. CASE m = Len(tokens) + 1 \/ n = Len(tokens) + 1
    BY <1>5, <2>3, <2>4, <2>6
  <2> QED
    BY <2>4, <2>5, <2>6
<1> QED
  BY <1>10, <1>12, <1>13, <1>14, <1>15 DEF Inv

-----------------------------------------------------------------------------
LEMMA LoginInv ==
  ASSUME Inv, Login
  PROVE  Inv'
<1>1. /\ storage.access = NoToken /\ Len(tokens) < MaxTokens
      /\ tokens' = Issue(tokens, logins + 1) /\ logins' = logins + 1
      /\ storage' = Saved(Len(tokens) + 1)
      /\ UNCHANGED <<expired, call, signout, overlapped, lost, errors, signouts>>
  BY DEF Login
<1>2. tokens \in Seq(Row) /\ Len(tokens) \in Nat /\ DOMAIN tokens = 1 .. Len(tokens)
      /\ MaxTokens \in Nat /\ NoToken = 0 /\ logins \in Nat /\ logins <= Len(tokens)
  BY BaseTypes, Bounds DEF Inv, NoToken, Base
<1>3. logins + 1 \in 1 .. MaxTokens /\ logins + 1 \in Numbers /\ Len(tokens) + 1 \in Numbers
  BY <1>1, <1>2 DEF Numbers
<1>4. /\ tokens' \in Seq(Row) /\ Len(tokens') = Len(tokens) + 1
      /\ \A i \in 1 .. Len(tokens) : tokens'[i] = tokens[i]
      /\ tokens'[Len(tokens) + 1].login = logins + 1 /\ tokens'[Len(tokens) + 1].live
  BY <1>1, <1>2, <1>3, Issued
<1>5. storage'.refresh = Len(tokens) + 1 /\ storage'.access = Len(tokens) + 1
      /\ storage' \in [access : Numbers, refresh : Numbers]
  BY <1>1, <1>3 DEF Saved
<1>6. \A i \in 1 .. Len(tokens') : i \in 1 .. Len(tokens) \/ i = Len(tokens) + 1
  BY <1>2, <1>4
<1>7. Base'
  <2>1. TypeOK'
    <3>1. tokens' \in Seq([login : 1 .. MaxTokens, live : BOOLEAN]) /\ Len(tokens') <= MaxTokens
      BY <1>1, <1>2, <1>4 DEF Row
    <3>2. expired' \subseteq DOMAIN tokens'
      <4>1. expired' = expired /\ expired \subseteq 1 .. Len(tokens)
        BY <1>1, <1>2 DEF Inv, Base, TypeOK
      <4>2. DOMAIN tokens' = 1 .. Len(tokens) + 1
        BY <1>4
      <4> QED
        BY <1>2, <4>1, <4>2
    <3> QED
      BY <1>1, <1>3, <1>5, <3>1, <3>2 DEF Inv, Base, TypeOK
  <2>2. logins' <= Len(tokens')
    BY <1>1, <1>2, <1>4
  <2>3. \A i \in 1 .. Len(tokens') : tokens'[i].login <= logins'
    <3>1. \A i \in 1 .. Len(tokens) : tokens[i].login <= logins /\ tokens[i].login \in Nat
      BY BaseTypes DEF Inv, Base, Row
    <3>2. \A i \in 1 .. Len(tokens) : tokens'[i].login <= logins'
      BY <1>1, <1>2, <1>4, <3>1
    <3>3. tokens'[Len(tokens) + 1].login <= logins'
      BY <1>1, <1>2, <1>4
    <3> QED
      BY <1>6, <3>2, <3>3
  <2>4. /\ signout' = signout /\ signout.refresh <= Len(tokens')
        /\ (signout.pc # "idle" => signout.refresh # NoToken)
    <3>1. signout.refresh \in Nat /\ signout.refresh <= Len(tokens)
      BY BaseTypes DEF Inv, Base
    <3>2. signout' = signout /\ (signout.pc # "idle" => signout.refresh # NoToken)
      BY <1>1 DEF Inv, Base
    <3> QED
      BY <1>2, <1>4, <3>1, <3>2
  <2>5. \A d \in Calls : CallOK(call'[d], Len(tokens'))
    BY <1>1, <1>2, <1>4, CallFacts, BaseTypes DEF CallOK, Inv
  <2>6. storage'.access = storage'.refresh /\ storage'.refresh <= Len(tokens')
    BY <1>2, <1>4, <1>5
  <2> QED
    BY <2>1, <2>2, <2>3, <2>4, <2>5, <2>6 DEF Base
<1>8. \A n \in 1 .. Len(tokens) : LiveIn(tokens', n) <=> LiveIn(tokens, n)
  BY <1>4 DEF LiveIn
<1>9. FreshInv'
  <2> SUFFICES ASSUME NEW d \in Calls, call[d].pc = "answered"
               PROVE  /\ LiveIn(tokens', call[d].new)
                      /\ storage'.refresh # call[d].new /\ signout.refresh # call[d].new
                      /\ \A f \in Calls : call[f].refresh # call[d].new
                      /\ \A f \in Calls \ {d} : call[f].pc = "answered" => call[f].new # call[d].new
    BY <1>1 DEF FreshInv
  <2>1. call[d].new \in 1 .. Len(tokens)
    BY <1>2, CallFacts, BaseTypes DEF CallOK, Inv
  <2>2. storage'.refresh # call[d].new
    BY <1>2, <1>5, <2>1
  <2> QED
    BY <1>8, <2>1, <2>2 DEF Inv, FreshInv
<1>10. StoredInv'
  BY <1>2, <1>4, <1>5 DEF StoredInv, LiveIn
<1>11. LoneInv'
  <2> SUFFICES ASSUME ~overlapped PROVE LoneInv'
    BY <1>1 DEF LoneInv
  <2>1. \A d \in Calls : call[d].pc = "idle"
    BY <1>1, CallFacts DEF LoneOK
  <2> QED
    BY <1>1, <2>1 DEF LoneInv, LoneOK
<1>12. OneLiveInv'
  <2> SUFFICES ASSUME ~overlapped, NEW m \in 1 .. Len(tokens'), NEW n \in 1 .. Len(tokens'),
                      tokens'[m].live, tokens'[n].live, tokens'[m].login = tokens'[n].login
               PROVE  m = n
    BY <1>1 DEF OneLiveInv, OneLive
  <2>1. OneLive(tokens)
    BY DEF Inv, OneLiveInv
  <2>2. \A i \in 1 .. Len(tokens) : tokens'[i].login # logins + 1
    <3>1. \A i \in 1 .. Len(tokens) : tokens[i].login <= logins /\ tokens[i].login \in Nat
      BY BaseTypes DEF Inv, Base, Row
    <3> QED
      BY <1>2, <1>4, <3>1
  <2>3. CASE m \in 1 .. Len(tokens) /\ n \in 1 .. Len(tokens)
    BY <1>4, <2>1, <2>3 DEF OneLive
  <2>4. CASE m = Len(tokens) + 1 \/ n = Len(tokens) + 1
    BY <1>4, <1>6, <2>2, <2>4
  <2> QED
    BY <1>6, <2>3, <2>4
<1> QED
  BY <1>7, <1>9, <1>10, <1>11, <1>12 DEF Inv

LEMMA ExpireInv ==
  ASSUME Inv, NEW n \in DOMAIN tokens \ expired, Expire(n)
  PROVE  Inv'
<1>1. /\ expired' = expired \cup {n}
      /\ UNCHANGED <<tokens, storage, call, signout, overlapped, logins, lost, errors, signouts>>
  BY DEF Expire
<1>2. Base'
  BY <1>1 DEF Inv, Base, TypeOK
<1>3. FreshInv' /\ StoredInv' /\ LoneInv' /\ OneLiveInv'
  BY <1>1 DEF Inv, FreshInv, StoredInv, LoneInv, OneLiveInv
<1> QED
  BY <1>2, <1>3 DEF Inv

LEMMA SignOutSendInv ==
  ASSUME Inv, SignOutSend
  PROVE  Inv'
<1>1. /\ signout.pc = "idle" /\ storage.refresh # NoToken
      /\ signout' = [pc |-> "sent", refresh |-> storage.refresh]
      /\ overlapped' = (overlapped \/ UnderWay # {})
      /\ signouts < MaxSignOuts /\ signouts' = signouts + 1
      /\ UNCHANGED <<tokens, expired, storage, call, logins, lost, errors>>
  BY DEF SignOutSend
<1>2. signouts' \in 0 .. MaxSignOuts
  <2>1. signouts \in 0 .. MaxSignOuts /\ MaxSignOuts \in Nat
    BY Bounds DEF Inv, Base, TypeOK
  <2> QED
    BY <1>1, <2>1
<1>3. storage.refresh \in Numbers /\ storage.refresh <= Len(tokens)
  BY DEF Inv, Base, TypeOK
<1>4. signout'.pc = "sent" /\ signout'.refresh = storage.refresh
      /\ signout' \in [pc : {"idle", "sent", "answered"}, refresh : Numbers]
  BY <1>1, <1>3
<1>5. overlapped' \in BOOLEAN
  BY <1>1, CounterTypes
<1>6. Base'
  BY <1>1, <1>2, <1>3, <1>4, <1>5 DEF Inv, Base, TypeOK
<1>7. FreshInv'
  BY <1>1, <1>4 DEF Inv, FreshInv
<1>8. StoredInv'
  BY <1>1 DEF Inv, StoredInv
<1>9. LoneInv'
  <2> SUFFICES ASSUME ~overlapped' PROVE LoneInv'
    BY DEF LoneInv
  <2>1. ~overlapped /\ \A d \in Calls : call[d].pc = "idle"
    BY <1>1 DEF UnderWay
  <2> QED
    BY <1>1, <2>1 DEF Inv, LoneInv, LoneOK
<1>10. OneLiveInv'
  BY <1>1 DEF Inv, OneLiveInv
<1> QED
  BY <1>6, <1>7, <1>8, <1>9, <1>10 DEF Inv

LEMMA SignOutCommitInv ==
  ASSUME Inv, SignOutCommit
  PROVE  Inv'
<1> DEFINE used == signout.refresh
<1>1. /\ signout.pc = "sent" /\ tokens' = Revoked(tokens, used)
      /\ signout' = [signout EXCEPT !.pc = "answered"]
      /\ UNCHANGED <<expired, storage, call, overlapped, logins, lost, errors, signouts>>
  BY DEF SignOutCommit
<1>2. tokens \in Seq(Row) /\ Len(tokens) \in Nat /\ DOMAIN tokens = 1 .. Len(tokens) /\ NoToken = 0
  BY BaseTypes DEF Inv, NoToken
<1>3. used \in 1 .. Len(tokens)
  <2>1. used \in Nat /\ used <= Len(tokens) /\ used # NoToken
    BY <1>1, BaseTypes DEF Inv, Base
  <2> QED
    BY <1>2, <2>1
<1>4. /\ tokens' \in Seq(Row) /\ Len(tokens') = Len(tokens)
      /\ \A i \in 1 .. Len(tokens) : /\ tokens'[i].login = tokens[i].login
                                     /\ tokens'[i].live <=> (tokens[i].live /\ i # used)
  BY <1>1, <1>2, <1>3, RevokedRows
<1>5. signout'.pc = "answered" /\ signout'.refresh = used
      /\ signout' \in [pc : {"idle", "sent", "answered"}, refresh : Numbers]
  BY <1>1 DEF Inv, Base, TypeOK
<1>6. DOMAIN tokens' = DOMAIN tokens
  BY <1>2, <1>4
<1>7. Base'
  <2>1. tokens' \in Seq([login : 1 .. MaxTokens, live : BOOLEAN])
    BY <1>4 DEF Row
  <2>2. TypeOK'
    BY <1>1, <1>4, <1>5, <1>6, <2>1 DEF Inv, Base, TypeOK
  <2> QED
    BY <1>1, <1>4, <1>5, <2>2 DEF Inv, Base
<1>8. \A n \in 1 .. Len(tokens) : LiveIn(tokens', n) <=> (LiveIn(tokens, n) /\ n # used)
  BY <1>4 DEF LiveIn
<1>9. FreshInv'
  <2> SUFFICES ASSUME NEW d \in Calls, call[d].pc = "answered"
               PROVE  /\ LiveIn(tokens', call[d].new)
                      /\ storage.refresh # call[d].new /\ used # call[d].new
                      /\ \A f \in Calls : call[f].refresh # call[d].new
                      /\ \A f \in Calls \ {d} : call[f].pc = "answered" => call[f].new # call[d].new
    BY <1>1, <1>5 DEF FreshInv
  <2>1. call[d].new \in 1 .. Len(tokens)
    BY <1>2, CallFacts, BaseTypes DEF CallOK, Inv
  <2> QED
    BY <1>8, <2>1 DEF Inv, FreshInv
<1>10. StoredInv'
  <2> SUFFICES ASSUME lost = 0, storage.refresh # NoToken
               PROVE  \/ LiveIn(tokens', storage.refresh)
                      \/ \E d \in Calls : call[d].pc = "answered" /\ call[d].refresh = storage.refresh
                      \/ used = storage.refresh
    BY <1>1, <1>5 DEF StoredInv
  <2>1. storage.refresh \in 1 .. Len(tokens)
    <3>1. storage.refresh \in Nat /\ storage.refresh <= Len(tokens)
      BY BaseTypes DEF Inv, Base
    <3> QED
      BY <1>2, <3>1
  <2> QED
    BY <1>1, <1>8, <2>1 DEF Inv, StoredInv
<1>11. LoneInv'
  <2> SUFFICES ASSUME ~overlapped PROVE LoneInv'
    BY <1>1 DEF LoneInv
  <2>1. \A d \in Calls : call[d].pc = "idle"
    BY <1>1 DEF Inv, LoneInv
  <2> QED
    BY <1>1, <2>1 DEF LoneInv, LoneOK
<1>12. OneLiveInv'
  BY <1>1, <1>4 DEF Inv, OneLiveInv, OneLive
<1> QED
  BY <1>7, <1>9, <1>10, <1>11, <1>12 DEF Inv

LEMMA SignOutClearsInv ==
  ASSUME Inv, SignOutClears
  PROVE  Inv'
<1>1. /\ signout.pc # "idle" /\ storage' = Cleared
      /\ signout' = [pc |-> "idle", refresh |-> NoToken]
      /\ UNCHANGED <<tokens, expired, call, overlapped, logins, lost, errors, signouts>>
  BY DEF SignOutClears
<1>2. NoToken \in Numbers /\ NoToken <= Len(tokens) /\ NoToken = 0
  BY Bounds, BaseTypes DEF NoToken, Numbers, Inv
<1>3. /\ storage'.refresh = NoToken /\ storage'.access = NoToken
      /\ storage' \in [access : Numbers, refresh : Numbers]
      /\ signout'.pc = "idle" /\ signout'.refresh = NoToken
      /\ signout' \in [pc : {"idle", "sent", "answered"}, refresh : Numbers]
  BY <1>1, <1>2 DEF Cleared
<1>4. Base'
  BY <1>1, <1>2, <1>3 DEF Inv, Base, TypeOK
<1>5. FreshInv'
  <2>1. \A d \in Calls : call[d].pc = "answered" => call[d].new # NoToken
    BY DEF Inv, Base, CallOK
  <2> QED
    BY <1>1, <1>3, <2>1 DEF Inv, FreshInv
<1>6. StoredInv'
  BY <1>3 DEF StoredInv
<1>7. LoneInv'
  BY <1>1, <1>3 DEF Inv, LoneInv, LoneOK
<1>8. OneLiveInv'
  BY <1>1 DEF Inv, OneLiveInv
<1> QED
  BY <1>4, <1>5, <1>6, <1>7, <1>8 DEF Inv

-----------------------------------------------------------------------------
\* Whether a call is given up does not change with its other fields.
LEMMA AbandonedFields ==
  ASSUME NEW k \in CallType, NEW a, NEW p, NEW n
  PROVE  /\ [k EXCEPT !.pc = p].abandoned = k.abandoned
         /\ [k EXCEPT !.pc = p, !.access = a].abandoned = k.abandoned
         /\ [k EXCEPT !.pc = p, !.new = n].abandoned = k.abandoned
         /\ [IdleCall EXCEPT !.pc = p, !.refresh = n].abandoned = IdleCall.abandoned
BY DEF CallType, IdleCall

LEMMA AbandonedStep == Inv /\ AbandonedLost /\ [Next]_vars => AbandonedLost'
<1> SUFFICES ASSUME Inv, AbandonedLost, [Next]_vars PROVE AbandonedLost'
  OBVIOUS
<1>1. call \in [Calls -> CallType] /\ \A c \in Calls : call[c] \in CallType
  BY DEF Inv, Base, TypeOK
<1>2. ASSUME NEW c \in Calls, lost' = lost,
             \A d \in Calls \ {c} : call'[d] = call[d], call'[c].abandoned => call[c].abandoned
      PROVE  AbandonedLost'
  BY <1>2 DEF AbandonedLost
<1>3. ASSUME lost' = lost + 1 PROVE AbandonedLost'
  <2>1. lost' # 0
    BY <1>3, CounterTypes
  <2> QED
    BY <2>1 DEF AbandonedLost
<1>4. CASE UNCHANGED <<call, lost>>
  BY <1>4 DEF AbandonedLost
<1>5. ASSUME NEW c \in Calls, NEW k, call' = [call EXCEPT ![c] = k], lost' = lost,
             k.abandoned => call[c].abandoned
      PROVE  AbandonedLost'
  <2>1. call'[c] = k /\ \A d \in Calls \ {c} : call'[d] = call[d]
    BY <1>1, <1>5
  <2> QED
    BY <1>2, <1>5, <2>1
<1>6. ASSUME NEW c \in Calls, CallAnswered(c) \/ CallSaves(c) \/ CallDenied(c) \/ AnswerDropped(c)
      PROVE  AbandonedLost'
  <2>1. call' = [call EXCEPT ![c] = IdleCall] /\ lost' = lost /\ ~IdleCall.abandoned
    BY <1>6, IdleTypes DEF CallAnswered, CallSaves, CallDenied, AnswerDropped
  <2> QED
    BY <1>5, <2>1
<1>7. ASSUME NEW c \in Calls, CallSend(c) PROVE AbandonedLost'
  <2> DEFINE k == [call[c] EXCEPT !.pc = "sent", !.access = storage.access]
  <2>1. call' = [call EXCEPT ![c] = k] /\ lost' = lost
    BY <1>1, <1>7 DEF CallSend
  <2>2. k.abandoned = call[c].abandoned
    BY <1>1, AbandonedFields
  <2> HIDE DEF k
  <2> QED
    BY <1>5, <2>1, <2>2
<1>8. ASSUME NEW c \in Calls, CallUnauthorized(c) PROVE AbandonedLost'
  <2> DEFINE taken == [IdleCall EXCEPT !.pc = "refreshing", !.refresh = storage.refresh]
             k == IF storage.refresh = NoToken THEN IdleCall ELSE taken
  <2>1. call' = [call EXCEPT ![c] = k] /\ lost' = lost
    BY <1>8 DEF CallUnauthorized
  <2>2. ~taken.abandoned /\ ~IdleCall.abandoned
    BY <1>1, AbandonedFields, IdleTypes
  <2> HIDE DEF taken
  <2>3. ~k.abandoned
    BY <2>2
  <2> HIDE DEF k
  <2> QED
    BY <1>5, <2>1, <2>3
<1>9. ASSUME NEW c \in Calls, RefreshRead(c) \/ RefreshError(c) PROVE AbandonedLost'
  <2>1. PICK p : call' = [call EXCEPT ![c].pc = p] /\ lost' = lost
    BY <1>9 DEF RefreshRead, RefreshError
  <2> DEFINE k == [call[c] EXCEPT !.pc = p]
  <2>2. call' = [call EXCEPT ![c] = k]
    BY <1>1, <2>1
  <2>3. k.abandoned = call[c].abandoned
    BY <1>1, AbandonedFields
  <2> HIDE DEF k
  <2> QED
    BY <1>5, <2>1, <2>2, <2>3
<1>10. ASSUME NEW c \in Calls, RefreshCommit(c) PROVE AbandonedLost'
  <2> DEFINE k == [call[c] EXCEPT !.pc = "answered", !.new = Len(tokens) + 1]
  <2>1. call' = [call EXCEPT ![c] = k] /\ lost' = lost
    BY <1>1, <1>10 DEF RefreshCommit
  <2>2. k.abandoned = call[c].abandoned
    BY <1>1, AbandonedFields
  <2> HIDE DEF k
  <2> QED
    BY <1>5, <2>1, <2>2
<1>11. ASSUME NEW c \in Calls, RefreshLost(c) \/ RefreshAbandoned(c) PROVE AbandonedLost'
  BY <1>3, <1>11 DEF RefreshLost, RefreshAbandoned
<1>12. CASE \/ Login \/ (\E n \in DOMAIN tokens \ expired : Expire(n))
            \/ SignOutSend \/ SignOutCommit \/ SignOutClears \/ UNCHANGED vars
  BY <1>4, <1>12 DEF Login, Expire, SignOutSend, SignOutCommit, SignOutClears, vars
<1> QED
  BY <1>6, <1>7, <1>8, <1>9, <1>10, <1>11, <1>12 DEF Next

LEMMA StepInv == Inv /\ AbandonedLost /\ [Next]_vars => Inv'
<1> SUFFICES ASSUME Inv, AbandonedLost, [Next]_vars PROVE Inv'
  OBVIOUS
<1>1. CASE Login
  BY <1>1, LoginInv
<1>2. ASSUME NEW n \in DOMAIN tokens \ expired, Expire(n) PROVE Inv'
  BY <1>2, ExpireInv
<1>3. ASSUME NEW c \in Calls, CallSend(c) \/ CallAnswered(c) \/ CallUnauthorized(c) PROVE Inv'
  BY <1>3, CallSendInv, CallAnsweredInv, CallUnauthorizedInv
<1>4. ASSUME NEW c \in Calls, CallSaves(c) \/ CallDenied(c) PROVE Inv'
  BY <1>4, CallSavesInv, CallDeniedInv
<1>5. ASSUME NEW c \in Calls, RefreshRead(c) \/ RefreshCommit(c) \/ RefreshError(c) \/ RefreshLost(c)
      PROVE  Inv'
  BY <1>5, RefreshReadInv, RefreshCommitInv, RefreshErrorInv, RefreshLostInv
<1>8. ASSUME NEW c \in Calls, RefreshAbandoned(c) \/ AnswerDropped(c) PROVE Inv'
  BY <1>8, RefreshAbandonedInv, AnswerDroppedInv
<1>6. CASE SignOutSend \/ SignOutCommit \/ SignOutClears
  BY <1>6, SignOutSendInv, SignOutCommitInv, SignOutClearsInv
<1>7. CASE UNCHANGED vars
  <2>1. Base'
    BY <1>7 DEF vars, Inv, Base, TypeOK
  <2> QED
    BY <1>7, <2>1 DEF vars, Inv, FreshInv, StoredInv, LoneInv, OneLiveInv
<1> QED
  BY <1>1, <1>2, <1>3, <1>4, <1>5, <1>6, <1>7, <1>8 DEF Next

LEMMA Invariance == Spec => []Inv
<1>1. Init => AbandonedLost
  BY IdleTypes DEF Init, AbandonedLost
<1> QED
  BY <1>1, InitInv, AbandonedStep, StepInv, PTL DEF Spec

-----------------------------------------------------------------------------
\* The table, the storage and the calls always have their types.
THEOREM TypeCorrect == Spec => []TypeOK
<1>1. Inv => TypeOK
  BY DEF Inv, Base
<1> QED
  BY <1>1, Invariance, PTL

\* As long as no answer is lost, the browser can go on with the refresh token it
\* has stored, for any number of calls in parallel, errors and sign-outs.
THEOREM BrowserCanGoOn == Spec => []StoredTokenUsable
<1>1. Inv => StoredTokenUsable
  BY DEF Inv, StoredInv, StoredTokenUsable, Live, LiveIn
<1> QED
  BY <1>1, Invariance, PTL

\* While calls do not overlap, a sign-in has at most one live refresh token, also
\* when the browser gives up a call that the server goes on with.
THEOREM OneLiveToken == Spec => []OneLiveTokenPerLogin
<1>1. Inv => OneLiveTokenPerLogin
  <2>1. Inv => DOMAIN tokens = 1 .. Len(tokens)
    BY BaseTypes DEF Inv
  <2> QED
    BY <2>1 DEF Inv, OneLiveInv, OneLive, OneLiveTokenPerLogin
<1> QED
  BY <1>1, Invariance, PTL

\* The call that throws a live token away is not alone or was denied by an error.
LEMMA LoneStep ==
  ASSUME Inv, [Next]_vars, ~overlapped, errors = 0, NEW c \in Calls
  PROVE  ~SignsOutByItself(c)
<1> SUFFICES ASSUME call[c].pc # "idle", call'[c].pc = "idle",
                    Live(storage.refresh), storage'.refresh = NoToken
             PROVE  FALSE
  BY DEF SignsOutByItself
<1>1. storage' # storage /\ call' # call
  BY DEF Live
<1>2. PICK d \in Calls : CallSaves(d) \/ CallDenied(d)
  BY <1>1 DEF Next, vars, Login, Expire, CallSend, CallAnswered, CallUnauthorized, RefreshRead,
         RefreshCommit, RefreshError, RefreshLost, RefreshAbandoned, AnswerDropped,
         SignOutSend, SignOutCommit, SignOutClears
<1>3. CASE CallSaves(d)
  <2>1. storage'.refresh = call[d].new /\ call[d].pc = "answered"
    BY <1>3 DEF CallSaves, Saved
  <2> QED
    BY <2>1, CallFacts DEF CallOK
<1>4. CASE CallDenied(d)
  <2>1. call[d].pc = "denied"
    BY <1>4 DEF CallDenied
  <2>2. storage.refresh = call[d].refresh /\ ~LiveIn(tokens, call[d].refresh)
    BY <2>1, CallFacts DEF LoneOK, UsesToken
  <2> QED
    BY <2>2 DEF Live, LiveIn
<1> QED
  BY <1>2, <1>3, <1>4

\* As long as calls have never overlapped and /auth/refresh has given no error,
\* authFetch signs a user out only when the stored token is worth nothing.
THEOREM LoneCallStaysIn == Spec => LoneCallKeepsSession
<1>1. Inv /\ [Next]_vars =>
        [~overlapped /\ errors = 0 => \A c \in Calls : ~SignsOutByItself(c)]_vars
  BY LoneStep
<1> QED
  BY <1>1, Invariance, PTL DEF Spec, LoneCallKeepsSession

-----------------------------------------------------------------------------
(***************************************************************************)
(* Run Check: for any number of clicks and requests.  What a request in    *)
(* flight compares with is not what the timer compares with, unless the    *)
(* request belongs to that timer: AnswersInv relates the two.              *)
(***************************************************************************)

\* The values of the last check are ordered like numbers, and NoPolling is none.
LEMMA CheckNumbers ==
  /\ MaxChecks \in Nat /\ MaxClicks \in Nat /\ MaxTimeouts \in Nat /\ MaxFailures \in Nat
  /\ 0 \in Checks /\ NoPolling \notin Checks
  /\ \A c \in Checks : c \in Nat
  /\ \A c \in Checks : c < MaxChecks => c + 1 \in Checks
BY PollBoundAssumption DEF Checks

LEMMA PollingIdleTypes == IdleClick \in ClickType /\ FreePoll \in PollType
BY CheckNumbers DEF IdleClick, FreePoll, ClickType, PollType

\* A step of a handler of the button.
Clicking(k) == Click(k) \/ ReadBaseline(k) \/ Accept(k) \/ StartPolling(k) \/ Refused(k)

\* A step of a request of the timer.
Asking(p) == PollSend(p) \/ PollServed(p) \/ PollAnswer(p) \/ PollFails(p)

\* The record a handler or a request has after its step, and that no other changes.
LEMMA ClickingFields ==
  ASSUME PollingTypeOK, NEW k \in Clicks, Clicking(k)
  PROVE  /\ click' \in [Clicks -> ClickType] /\ poll' = poll
         /\ \A j \in Clicks \ {k} : click'[j] = click[j]
         /\ Click(k) => /\ click'[k].pc = "reading" /\ click'[k].clicked_at = last_checked_at
         /\ ReadBaseline(k) =>
              /\ click'[k].pc = "posting" /\ click'[k].clicked_at = click[k].clicked_at
              /\ click'[k].baseline = IF asksFirst THEN last_checked_at ELSE shown
         /\ Accept(k) => /\ click'[k].pc = "accepted" /\ click'[k].baseline = click[k].baseline
                         /\ click'[k].clicked_at = click[k].clicked_at
         /\ StartPolling(k) \/ Refused(k) => click'[k].pc = "idle"
<1>0. click \in [Clicks -> ClickType] /\ last_checked_at \in Checks /\ shown \in Checks
  BY DEF PollingTypeOK
<1>1. CASE Click(k)
  <2>1. click' = [click EXCEPT ![k].pc = "reading", ![k].clicked_at = last_checked_at]
        /\ poll' = poll /\ click[k].pc = "idle"
    BY <1>1 DEF Click
  <2>2. click' \in [Clicks -> ClickType]
    BY <1>0, <2>1 DEF ClickType
  <2>3. click'[k].pc = "reading" /\ click'[k].clicked_at = last_checked_at
        /\ \A j \in Clicks \ {k} : click'[j] = click[j]
    BY <1>0, <2>1 DEF ClickType
  <2> QED
    BY <1>1, <2>1, <2>2, <2>3 DEF ReadBaseline, Accept, StartPolling, Refused
<1>2. CASE ReadBaseline(k)
  <2> DEFINE base == IF asksFirst THEN last_checked_at ELSE shown
  <2>0. base \in Checks
    BY <1>0
  <2>1. click' = [click EXCEPT ![k].pc = "posting", ![k].baseline = base]
        /\ poll' = poll /\ click[k].pc = "reading"
    BY <1>2 DEF ReadBaseline
  <2> HIDE DEF base
  <2>2. click' \in [Clicks -> ClickType]
    BY <1>0, <2>0, <2>1 DEF ClickType
  <2>3. click'[k].pc = "posting" /\ click'[k].baseline = base
        /\ click'[k].clicked_at = click[k].clicked_at
        /\ \A j \in Clicks \ {k} : click'[j] = click[j]
    BY <1>0, <2>1 DEF ClickType
  <2>4. ~Click(k) /\ ~Accept(k) /\ ~StartPolling(k) /\ (Refused(k) => click'[k].pc = "idle")
    BY <1>0, <2>1 DEF Click, Accept, StartPolling, Refused, IdleClick
  <2> QED
    BY <2>1, <2>2, <2>3, <2>4 DEF base
<1>3. CASE Accept(k)
  <2>1. click' = [click EXCEPT ![k].pc = "accepted"] /\ poll' = poll /\ click[k].pc = "posting"
    BY <1>3 DEF Accept
  <2>2. click' \in [Clicks -> ClickType]
    BY <1>0, <2>1 DEF ClickType
  <2>3. click'[k].pc = "accepted" /\ click'[k].baseline = click[k].baseline
        /\ click'[k].clicked_at = click[k].clicked_at
        /\ \A j \in Clicks \ {k} : click'[j] = click[j]
    BY <1>0, <2>1 DEF ClickType
  <2>4. ~Click(k) /\ ~ReadBaseline(k) /\ ~StartPolling(k) /\ (Refused(k) => click'[k].pc = "idle")
    BY <1>0, <2>1 DEF Click, ReadBaseline, StartPolling, Refused, IdleClick
  <2> QED
    BY <2>1, <2>2, <2>3, <2>4
<1>4. CASE StartPolling(k) \/ Refused(k)
  <2>1. click' = [click EXCEPT ![k] = IdleClick] /\ poll' = poll
        /\ click[k].pc \in {"reading", "posting", "accepted"}
    BY <1>4 DEF StartPolling, Refused
  <2>2. click' \in [Clicks -> ClickType] /\ click'[k] = IdleClick
        /\ \A j \in Clicks \ {k} : click'[j] = click[j]
    BY <1>0, <2>1, PollingIdleTypes
  <2>3. click'[k].pc = "idle"
    BY <2>2 DEF IdleClick
  <2>4. ~Click(k)
    BY <2>1 DEF Click
  <2>5. ~ReadBaseline(k) /\ ~Accept(k)
    <3>1. click'[k].pc = "idle"
      BY <2>3
    <3>2. ASSUME ReadBaseline(k) PROVE click'[k].pc = "posting"
      BY <1>0, <3>2 DEF ReadBaseline, ClickType
    <3>3. ASSUME Accept(k) PROVE click'[k].pc = "accepted"
      BY <1>0, <3>3 DEF Accept, ClickType
    <3> QED
      BY <3>1, <3>2, <3>3
  <2> QED
    BY <2>1, <2>2, <2>3, <2>4, <2>5
<1> QED
  BY <1>1, <1>2, <1>3, <1>4 DEF Clicking

LEMMA AskingFields ==
  ASSUME PollingTypeOK, NEW p \in Polls, Asking(p)
  PROVE  /\ poll' \in [Polls -> PollType] /\ click' = click
         /\ \A q \in Polls \ {p} : poll'[q] = poll[q]
         /\ PollSend(p) => /\ poll'[p].pc = "asked" /\ poll'[p].baseline = polling
                           /\ polling \in Checks
         /\ PollServed(p) => /\ poll'[p].pc = "answered" /\ poll'[p].seen = last_checked_at
                             /\ poll'[p].baseline = poll[p].baseline
         /\ PollAnswer(p) \/ PollFails(p) => poll'[p].pc = "free"
<1>0. poll \in [Polls -> PollType] /\ last_checked_at \in Checks /\ polling \in Checks \cup {NoPolling}
  BY DEF PollingTypeOK
<1>1. CASE PollSend(p)
  <2> DEFINE new == [FreePoll EXCEPT !.pc = "asked", !.baseline = polling]
  <2>1. poll' = [poll EXCEPT ![p] = new] /\ click' = click /\ poll[p].pc = "free"
        /\ polling \in Checks
    BY <1>0, <1>1 DEF PollSend
  <2>2. new \in PollType /\ new.pc = "asked" /\ new.baseline = polling
    BY <2>1, PollingIdleTypes DEF PollType
  <2> HIDE DEF new
  <2>3. poll' \in [Polls -> PollType] /\ poll'[p] = new /\ \A q \in Polls \ {p} : poll'[q] = poll[q]
    BY <1>0, <2>1, <2>2
  <2> QED
    BY <2>1, <2>2, <2>3 DEF PollServed, PollAnswer, PollFails
<1>2. CASE PollServed(p)
  <2>1. poll' = [poll EXCEPT ![p].pc = "answered", ![p].seen = last_checked_at] /\ click' = click
        /\ poll[p].pc = "asked"
    BY <1>2 DEF PollServed
  <2>2. poll' \in [Polls -> PollType]
    BY <1>0, <2>1 DEF PollType
  <2>3. poll'[p].pc = "answered" /\ poll'[p].seen = last_checked_at
        /\ poll'[p].baseline = poll[p].baseline /\ \A q \in Polls \ {p} : poll'[q] = poll[q]
    BY <1>0, <2>1 DEF PollType
  <2>4. ~PollSend(p) /\ ~PollAnswer(p) /\ (PollFails(p) => poll'[p].pc = "free")
    BY <1>0, <2>1 DEF PollSend, PollAnswer, PollFails, FreePoll
  <2> QED
    BY <2>1, <2>2, <2>3, <2>4
<1>3. CASE PollAnswer(p) \/ PollFails(p)
  <2>1. poll' = [poll EXCEPT ![p] = FreePoll] /\ click' = click
        /\ poll[p].pc \in {"asked", "answered"}
    BY <1>3 DEF PollAnswer, PollFails
  <2>2. poll' \in [Polls -> PollType] /\ poll'[p] = FreePoll
        /\ \A q \in Polls \ {p} : poll'[q] = poll[q]
    BY <1>0, <2>1, PollingIdleTypes
  <2>3. poll'[p].pc = "free"
    BY <2>2 DEF FreePoll
  <2>4. ASSUME PollServed(p) PROVE poll'[p].pc = "answered"
    BY <1>0, <2>4 DEF PollServed, PollType
  <2> QED
    BY <2>1, <2>2, <2>3, <2>4 DEF PollSend
<1> QED
  BY <1>1, <1>2, <1>3 DEF Asking

\* The page, the worker and the timers after a step of any kind.
PageTypes ==
  /\ {last_checked_at', shown', asked_at'} \subseteq Checks
  /\ {asksFirst', outlived'} \subseteq BOOLEAN
  /\ phase' \in Phases /\ polling' \in Checks \cup {NoPolling}
  /\ clicks' \in 0 .. MaxClicks /\ timeouts' \in 0 .. MaxTimeouts /\ failures' \in 0 .. MaxFailures

LEMMA PollingTypeStep == PollingTypeOK /\ [PollingNext]_PollingVars => PollingTypeOK'
<1> SUFFICES ASSUME PollingTypeOK, [PollingNext]_PollingVars PROVE PollingTypeOK'
  OBVIOUS
<1>0. /\ click \in [Clicks -> ClickType] /\ poll \in [Polls -> PollType]
      /\ last_checked_at \in Checks /\ shown \in Checks /\ asked_at \in Checks
      /\ asksFirst \in BOOLEAN /\ outlived \in BOOLEAN
      /\ phase \in Phases /\ polling \in Checks \cup {NoPolling}
      /\ clicks \in 0 .. MaxClicks /\ timeouts \in 0 .. MaxTimeouts /\ failures \in 0 .. MaxFailures
  BY DEF PollingTypeOK
<1>a. {"none", "queued", "completed", "failed", "timeout"} = Phases
  BY DEF Phases
<1>1. ASSUME NEW k \in Clicks, Clicking(k) PROVE PollingTypeOK'
  <2>1. PageTypes
    <3>1. CASE Click(k)
      BY <1>0, <3>1, CheckNumbers DEF Click, PageTypes
    <3>2. CASE ReadBaseline(k) \/ Accept(k)
      BY <1>0, <3>2 DEF ReadBaseline, Accept, PageTypes
    <3>3. CASE StartPolling(k)
      <4>1. click[k].baseline \in Checks /\ click[k].clicked_at \in Checks
        BY <1>0 DEF ClickType
      <4>2. outlived' \in BOOLEAN
        BY <3>3 DEF StartPolling, Abandons
      <4> QED
        BY <1>0, <1>a, <3>3, <4>1, <4>2 DEF StartPolling, PageTypes
    <3>4. CASE Refused(k)
      BY <1>0, <1>a, <3>4, CheckNumbers DEF Refused, PageTypes
    <3> QED
      BY <1>1, <3>1, <3>2, <3>3, <3>4 DEF Clicking
  <2> QED
    BY <1>0, <1>1, <2>1, ClickingFields DEF PageTypes, PollingTypeOK
<1>2. ASSUME NEW p \in Polls, Asking(p) PROVE PollingTypeOK'
  <2>1. PageTypes
    <3>1. CASE PollSend(p) \/ PollServed(p)
      BY <1>0, <3>1 DEF PollSend, PollServed, PageTypes
    <3>2. CASE PollAnswer(p)
      <4>1. poll[p].seen \in Checks
        BY <1>0 DEF PollType
      <4>2. outlived' \in BOOLEAN
        BY <1>0, <3>2 DEF PollAnswer, Abandons
      <4>3. phase' \in Phases /\ polling' \in Checks \cup {NoPolling}
        BY <1>0, <1>a, <3>2 DEF PollAnswer
      <4> QED
        BY <1>0, <3>2, <4>1, <4>2, <4>3 DEF PollAnswer, PageTypes
    <3>3. CASE PollFails(p)
      <4>1. outlived' \in BOOLEAN
        BY <3>3 DEF PollFails, Abandons
      <4> QED
        BY <1>0, <1>a, <3>3, <4>1, CheckNumbers DEF PollFails, PageTypes
    <3> QED
      BY <1>2, <3>1, <3>2, <3>3 DEF Asking
  <2> QED
    BY <1>0, <1>2, <2>1, AskingFields DEF PageTypes, PollingTypeOK
<1>3. CASE PollTimeout
  <2>1. outlived' \in BOOLEAN
    BY <1>3 DEF PollTimeout, Abandons
  <2> QED
    BY <1>0, <1>a, <1>3, <2>1, CheckNumbers DEF PollTimeout, PollingTypeOK
<1>4. CASE Show \/ CheckCommitted
  BY <1>0, <1>4, CheckNumbers DEF Show, CheckCommitted, PollingTypeOK
<1>5. CASE UNCHANGED PollingVars
  BY <1>0, <1>5 DEF PollingVars, PollingTypeOK
<1> QED
  BY <1>1, <1>2, <1>3, <1>4, <1>5 DEF PollingNext, Clicking, Asking

LEMMA PollingTypeInit == PollingInit => PollingTypeOK
<1> SUFFICES ASSUME PollingInit PROVE PollingTypeOK
  OBVIOUS
<1>1. phase \in Phases /\ polling = NoPolling /\ outlived \in BOOLEAN /\ asksFirst \in BOOLEAN
  BY DEF PollingInit, Phases
<1>2. click \in [Clicks -> ClickType] /\ poll \in [Polls -> PollType]
  BY PollingIdleTypes DEF PollingInit
<1>3. last_checked_at \in Checks /\ shown \in Checks /\ asked_at \in Checks
  BY CheckNumbers DEF PollingInit
<1>4. clicks \in 0 .. MaxClicks /\ timeouts \in 0 .. MaxTimeouts /\ failures \in 0 .. MaxFailures
  BY CheckNumbers DEF PollingInit
<1> QED
  BY <1>1, <1>2, <1>3, <1>4 DEF PollingTypeOK

\* The phase, the timers, the handlers and the requests keep their types: the
\* timer never compares with anything but the time of a check.
THEOREM PollingTypeCorrect == PollingSpec => []PollingTypeOK
BY PollingTypeInit, PollingTypeStep, PTL DEF PollingSpec

-----------------------------------------------------------------------------
(* Completed means checked                                                  *)

\* The page of all monitors asks for the time of the last check after the click:
\* what it compares with is neither older than the click nor newer than now.
ClicksInv ==
  \A k \in Clicks :
    /\ click[k].pc \in {"reading", "posting", "accepted"} => click[k].clicked_at <= last_checked_at
    /\ click[k].pc \in {"posting", "accepted"} =>
         click[k].clicked_at <= click[k].baseline /\ click[k].baseline <= last_checked_at

TimerInv == polling # NoPolling => asked_at <= polling /\ polling <= last_checked_at

\* A request in flight belongs to the timer there is, unless it has outlived its own.
AnswersInv ==
  \A p \in Polls :
    /\ poll[p].pc # "free" => poll[p].baseline <= last_checked_at
    /\ poll[p].pc = "answered" => poll[p].baseline <= poll[p].seen /\ poll[p].seen <= last_checked_at
    /\ poll[p].pc # "free" /\ ~outlived => polling # NoPolling /\ poll[p].baseline = polling

PollingInv == asksFirst => ClicksInv /\ TimerInv /\ AnswersInv

LEMMA PollingNumbers ==
  ASSUME PollingTypeOK
  PROVE  /\ last_checked_at \in Nat /\ asked_at \in Nat
         /\ polling # NoPolling => polling \in Nat
         /\ \A k \in Clicks : click[k].baseline \in Nat /\ click[k].clicked_at \in Nat
         /\ \A p \in Polls : poll[p].baseline \in Nat /\ poll[p].seen \in Nat
<1>1. \A k \in Clicks : click[k] \in ClickType
  BY DEF PollingTypeOK
<1>2. \A p \in Polls : poll[p] \in PollType
  BY DEF PollingTypeOK
<1>3. \A k \in Clicks : click[k].baseline \in Checks /\ click[k].clicked_at \in Checks
  BY <1>1 DEF ClickType
<1>4. \A p \in Polls : poll[p].baseline \in Checks /\ poll[p].seen \in Checks
  BY <1>2 DEF PollType
<1> QED
  BY <1>3, <1>4, CheckNumbers DEF PollingTypeOK

\* Timers that are cleared leave no request behind, or the flag tells.
LEMMA NothingAbandoned ==
  ASSUME NEW requests \in SUBSET Polls, Abandons(requests), ~outlived'
  PROVE  ~outlived /\ \A q \in requests : poll[q].pc = "free"
BY DEF Abandons

LEMMA PollingStep == PollingTypeOK /\ PollingInv /\ [PollingNext]_PollingVars => PollingInv'
<1> SUFFICES ASSUME PollingTypeOK, PollingInv, [PollingNext]_PollingVars, asksFirst'
             PROVE  ClicksInv' /\ TimerInv' /\ AnswersInv'
  BY DEF PollingInv
<1>0. asksFirst' = asksFirst
  BY DEF PollingNext, PollingVars, Click, ReadBaseline, Accept, StartPolling, Refused, PollSend,
     PollServed, PollAnswer, PollFails, PollTimeout, Show, CheckCommitted
<1>1. ClicksInv /\ TimerInv /\ AnswersInv
  BY <1>0 DEF PollingInv
<1>2. /\ last_checked_at \in Nat /\ asked_at \in Nat
      /\ polling # NoPolling => polling \in Nat
      /\ \A k \in Clicks : click[k].baseline \in Nat /\ click[k].clicked_at \in Nat
      /\ \A p \in Polls : poll[p].baseline \in Nat /\ poll[p].seen \in Nat
  BY PollingNumbers
<1>3. ASSUME NEW k \in Clicks, Clicking(k) PROVE ClicksInv' /\ TimerInv' /\ AnswersInv'
  <2>0. /\ poll' = poll /\ \A j \in Clicks \ {k} : click'[j] = click[j]
        /\ last_checked_at' = last_checked_at
    BY <1>3, ClickingFields DEF Clicking, Click, ReadBaseline, Accept, StartPolling, Refused
  <2>1. ClicksInv'
    <3>1. \A j \in Clicks \ {k} :
            /\ click'[j].pc \in {"reading", "posting", "accepted"} =>
                 click'[j].clicked_at <= last_checked_at'
            /\ click'[j].pc \in {"posting", "accepted"} =>
                 click'[j].clicked_at <= click'[j].baseline /\ click'[j].baseline <= last_checked_at'
      BY <1>1, <2>0 DEF ClicksInv
    <3>2. /\ click'[k].pc \in {"reading", "posting", "accepted"} =>
               click'[k].clicked_at <= last_checked_at'
          /\ click'[k].pc \in {"posting", "accepted"} =>
               click'[k].clicked_at <= click'[k].baseline /\ click'[k].baseline <= last_checked_at'
      <4>1. CASE Click(k)
        BY <1>2, <1>3, <2>0, <4>1, ClickingFields
      <4>2. CASE ReadBaseline(k)
        <5>1. asksFirst
          BY <1>0
        <5>2. click'[k].pc = "posting" /\ click'[k].clicked_at = click[k].clicked_at
              /\ click'[k].baseline = last_checked_at
          BY <1>3, <4>2, <5>1, ClickingFields
        <5>3. click[k].clicked_at <= last_checked_at
          BY <1>1, <4>2 DEF ClicksInv, ReadBaseline
        <5> QED
          BY <1>2, <2>0, <5>2, <5>3
      <4>3. CASE Accept(k)
        BY <1>1, <1>2, <1>3, <2>0, <4>3, ClickingFields DEF ClicksInv, Accept
      <4>4. CASE StartPolling(k) \/ Refused(k)
        BY <1>3, <4>4, ClickingFields
      <4> QED
        BY <1>3, <4>1, <4>2, <4>3, <4>4 DEF Clicking
    <3> QED
      BY <3>1, <3>2 DEF ClicksInv
  <2>2. CASE StartPolling(k)
    <3>1. /\ polling' = click[k].baseline /\ asked_at' = click[k].clicked_at
          /\ click[k].pc = "accepted" /\ Abandons(Polls)
      BY <2>2 DEF StartPolling
    <3>2. TimerInv'
      BY <1>1, <2>0, <3>1 DEF ClicksInv, TimerInv
    <3>3. AnswersInv'
      BY <1>1, <2>0, <3>1, NothingAbandoned DEF AnswersInv
    <3> QED
      BY <2>1, <3>2, <3>3
  <2>3. CASE ~StartPolling(k)
    <3>1. polling' = polling /\ asked_at' = asked_at /\ outlived' = outlived
      BY <1>3, <2>3 DEF Clicking, Click, ReadBaseline, Accept, Refused
    <3> QED
      BY <1>1, <2>0, <2>1, <3>1 DEF TimerInv, AnswersInv
  <2> QED
    BY <2>2, <2>3
<1>4. ASSUME NEW p \in Polls, Asking(p) PROVE ClicksInv' /\ TimerInv' /\ AnswersInv'
  <2>0. /\ click' = click /\ \A q \in Polls \ {p} : poll'[q] = poll[q]
        /\ last_checked_at' = last_checked_at /\ asked_at' = asked_at
    BY <1>4, AskingFields DEF Asking, PollSend, PollServed, PollAnswer, PollFails
  <2>1. ClicksInv'
    BY <1>1, <2>0 DEF ClicksInv
  <2>2. CASE PollSend(p)
    <3>1. polling' = polling /\ outlived' = outlived /\ polling # NoPolling
      BY <2>2 DEF PollSend
    <3>2. poll'[p].pc = "asked" /\ poll'[p].baseline = polling
      BY <1>4, <2>2, AskingFields
    <3>3. TimerInv'
      BY <1>1, <2>0, <3>1 DEF TimerInv
    <3>4. AnswersInv'
      BY <1>1, <2>0, <3>1, <3>2 DEF AnswersInv, TimerInv
    <3> QED
      BY <2>1, <3>3, <3>4
  <2>3. CASE PollServed(p)
    <3>1. polling' = polling /\ outlived' = outlived /\ poll[p].pc = "asked"
      BY <2>3 DEF PollServed
    <3>2. poll'[p].pc = "answered" /\ poll'[p].seen = last_checked_at
          /\ poll'[p].baseline = poll[p].baseline
      BY <1>4, <2>3, AskingFields
    <3>3. TimerInv'
      BY <1>1, <2>0, <3>1 DEF TimerInv
    <3>4. AnswersInv'
      BY <1>1, <1>2, <2>0, <3>1, <3>2 DEF AnswersInv
    <3> QED
      BY <2>1, <3>3, <3>4
  <2>4. CASE PollAnswer(p) \/ PollFails(p)
    <3>1. poll'[p].pc = "free"
      BY <1>4, <2>4, AskingFields
    <3>2. \/ polling' = polling /\ outlived' = outlived
          \/ polling' = NoPolling /\ Abandons(Polls \ {p})
      BY <2>4 DEF PollAnswer, PollFails
    <3>3. TimerInv'
      BY <1>1, <2>0, <3>2 DEF TimerInv
    <3>4. AnswersInv'
      <4>1. CASE polling' = polling /\ outlived' = outlived
        BY <1>1, <2>0, <3>1, <4>1 DEF AnswersInv
      <4>2. CASE polling' = NoPolling /\ Abandons(Polls \ {p})
        <5>1. ~outlived' => \A q \in Polls \ {p} : poll[q].pc = "free"
          BY <4>2, NothingAbandoned
        <5> QED
          BY <1>1, <2>0, <3>1, <5>1 DEF AnswersInv
      <4> QED
        BY <3>2, <4>1, <4>2
    <3> QED
      BY <2>1, <3>3, <3>4
  <2> QED
    BY <1>4, <2>2, <2>3, <2>4 DEF Asking
<1>5. CASE PollTimeout
  <2>1. /\ click' = click /\ poll' = poll /\ last_checked_at' = last_checked_at
        /\ polling' = NoPolling /\ Abandons(Polls)
    BY <1>5 DEF PollTimeout
  <2>2. ~outlived' => \A q \in Polls : poll[q].pc = "free"
    BY <2>1, NothingAbandoned
  <2> QED
    BY <1>1, <2>1, <2>2 DEF ClicksInv, TimerInv, AnswersInv
<1>6. CASE Show \/ UNCHANGED PollingVars
  <2>1. /\ click' = click /\ poll' = poll /\ last_checked_at' = last_checked_at
        /\ polling' = polling /\ asked_at' = asked_at /\ outlived' = outlived
    BY <1>6 DEF Show, PollingVars
  <2> QED
    BY <1>1, <2>1 DEF ClicksInv, TimerInv, AnswersInv
<1>7. CASE CheckCommitted
  <2>1. /\ click' = click /\ poll' = poll /\ last_checked_at' = last_checked_at + 1
        /\ polling' = polling /\ asked_at' = asked_at /\ outlived' = outlived
    BY <1>7 DEF CheckCommitted
  <2>2. \A n \in Nat : n <= last_checked_at => n <= last_checked_at'
    BY <1>2, <2>1
  <2>3. ClicksInv'
    BY <1>1, <1>2, <2>1, <2>2 DEF ClicksInv
  <2>4. TimerInv'
    BY <1>1, <1>2, <2>1, <2>2 DEF TimerInv
  <2>5. AnswersInv'
    BY <1>1, <1>2, <2>1, <2>2 DEF AnswersInv
  <2> QED
    BY <2>3, <2>4, <2>5
<1> QED
  BY <1>3, <1>4, <1>5, <1>6, <1>7 DEF PollingNext, Clicking, Asking

\* On the page of all monitors "completed" follows a check that was committed
\* after the click, as long as no request outlives its polling: an answer differs
\* from the baseline only by such a check.
THEOREM CompletedIsEarned == PollingSpec => CompletedMeansChecked
<1>1. PollingInit => PollingInv
  BY DEF PollingInit, PollingInv, ClicksInv, TimerInv, AnswersInv, IdleClick, FreePoll
<1>2. PollingTypeOK /\ PollingInv /\ [PollingNext]_PollingVars =>
        [asksFirst /\ ~outlived /\ phase # "completed" /\ phase' = "completed"
           => last_checked_at > asked_at]_PollingVars
  <2> SUFFICES ASSUME PollingTypeOK, PollingInv, PollingNext, asksFirst, ~outlived,
                      phase # "completed", phase' = "completed"
               PROVE  last_checked_at > asked_at
    BY DEF PollingVars
  <2>1. PICK p \in Polls : PollAnswer(p) /\ HasNewCheck(p)
    BY DEF PollingNext, Click, ReadBaseline, Accept, StartPolling, Refused, PollSend, PollServed,
       PollAnswer, PollFails, PollTimeout, Show, CheckCommitted
  <2>2. poll[p].pc = "answered" /\ poll[p].seen # poll[p].baseline
    BY <2>1 DEF PollAnswer, HasNewCheck
  <2>3. /\ poll[p].baseline <= poll[p].seen /\ poll[p].seen <= last_checked_at
        /\ polling # NoPolling /\ poll[p].baseline = polling
        /\ asked_at <= polling
    BY <2>2 DEF PollingInv, AnswersInv, TimerInv
  <2>4. /\ last_checked_at \in Nat /\ asked_at \in Nat
        /\ poll[p].baseline \in Nat /\ poll[p].seen \in Nat
    BY PollingNumbers
  <2> QED
    BY <2>2, <2>3, <2>4
<1> QED
  BY <1>1, <1>2, PollingTypeInit, PollingTypeStep, PollingStep, PTL
     DEF PollingSpec, CompletedMeansChecked
=============================================================================
