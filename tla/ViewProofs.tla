----------------------------- MODULE ViewProofs -----------------------------
(***************************************************************************)
(* Machine-checked proofs about what is shown of a state that others       *)
(* change: status pages with their public view (StatusPages) and the       *)
(* runtime panel (RuntimeHealth).  Each has its own part.                  *)
(***************************************************************************)
EXTENDS StatusPages, RuntimeHealth, SequenceTheorems, FiniteSetTheorems, TLAPS

-----------------------------------------------------------------------------
(***************************************************************************)
(* Status pages: for any pages, monitors, requests and bounds.  The        *)
(* invariant says what a request holds against the tables, what an outage  *)
(* leaves in them, and what the reader has of them between its queries.    *)
(***************************************************************************)

\* What a request holds: a page, a body, and after POST a body without gaps.
Shape(q) ==
  /\ q.pc # "idle" => q.page \in Pages
  /\ q.pc \in {"validated", "flushed"} =>
       q.body \in Bodies /\ Unset \notin {q.body.slug, q.body.is_public, q.body.monitor_ids}
  /\ q.pc \in {"loaded", "deleting", "ready"} => q.body \in Bodies

\* A PATCH that nothing overlaps finds the page as it loaded it, and the links
\* as its DELETE saw them.
Seen(q) ==
  q.pc \in {"loaded", "deleting", "ready"} /\ ~q.overlapped =>
    /\ page[q.page] = q.loaded /\ q.loaded.exists
    /\ q.pc # "loaded" /\ Replaces(q) => q.rows = links[q.page]

ShapeInv == \A r \in Requests : Shape(req[r])
SeenInv == \A r \in Requests : Seen(req[r])

\* A request that no other overlaps is the only one under way.
LoneInv ==
  \A r, s \in Requests : UnderWay(r) /\ ~req[r].overlapped /\ r # s => ~UnderWay(s)

RequestInv == ShapeInv /\ SeenInv /\ LoneInv

\* A monitor is DOWN only with an incident of its own that is open.
OutageInv == \A m \in Monitors : monitor[m].down => HasOpen(m)

\* The reader has found a page, and after its monitors an incident of each that
\* is DOWN.
FoundInv == read.pc # "idle" => read.page \in Pages

ReadInv ==
  read.pc \in {"monitors", "answered"} =>
    /\ read.down \subseteq read.shown
    /\ read.open \subseteq 1 .. Len(incident)
    /\ \A m \in read.down : \E k \in read.open : incident[k].monitor = m

-----------------------------------------------------------------------------
(* Records of requests                                                      *)

LEMMA EmptyRecords == NoRow \in RowType /\ NoRequest \in ReqType /\ NoRead \in ReadType
BY DEF NoRow, RowType, NoRequest, ReqType, NoRead, ReadType

\* A request that begins: its fields are the ones given, nothing is selected.
LEMMA StartedFields ==
  ASSUME NEW pc \in {"validated", "loaded", "removing"}, NEW p \in Pages,
         NEW b \in Bodies \cup {Unset}
  PROVE  /\ Started(pc, p, b) \in ReqType
         /\ Started(pc, p, b).pc = pc /\ Started(pc, p, b).page = p /\ Started(pc, p, b).body = b
BY EmptyRecords DEF Started, NoRequest, ReqType

\* The monitors of a body are monitors.
LEMMA NewLinksType == ASSUME NEW b \in BodyType PROVE NewLinks(b) \in SUBSET Monitors
<1>1. CASE b.monitor_ids = Unset
  BY <1>1 DEF NewLinks
<1>2. CASE b.monitor_ids # Unset
  <2>1. b.monitor_ids \in Seq(Monitors)
    BY <1>2 DEF BodyType
  <2>2. \A k \in DOMAIN b.monitor_ids : b.monitor_ids[k] \in Monitors
    BY <2>1
  <2> QED
    BY <1>2, <2>2 DEF NewLinks
<1> QED
  BY <1>1, <1>2

\* A request on page p loses the rows another has removed, and nothing else.
LEMMA WithoutRowsFields ==
  ASSUME NEW q \in ReqType, NEW p, NEW gone
  PROVE  /\ WithoutRows(q, p, gone) \in ReqType
         /\ WithoutRows(q, p, gone).pc = q.pc /\ WithoutRows(q, p, gone).page = q.page
         /\ WithoutRows(q, p, gone).body = q.body /\ WithoutRows(q, p, gone).loaded = q.loaded
         /\ WithoutRows(q, p, gone).overlapped = q.overlapped
<1>1. CASE q.pc = "deleting" /\ q.page = p
  <2>1. WithoutRows(q, p, gone) = [q EXCEPT !.rows = q.rows \ gone]
    BY <1>1 DEF WithoutRows
  <2>2. q.rows \ gone \in SUBSET Monitors
    BY DEF ReqType
  <2> QED
    BY <2>1, <2>2 DEF ReqType
<1>2. CASE ~(q.pc = "deleting" /\ q.page = p)
  BY <1>2 DEF WithoutRows
<1> QED
  BY <1>1, <1>2

\* What a request keeps when another one begins or ends.
Same(q1, q) ==
  /\ q1.pc = q.pc /\ q1.page = q.page /\ q1.body = q.body /\ q1.loaded = q.loaded

\* The beginning of a request, for every other.
LEMMA BeginFields ==
  ASSUME TypeOK, NEW r \in Requests, NEW q \in ReqType, Begin(r, q)
  PROVE  /\ req' \in [Requests -> ReqType] /\ begun' \in 0 .. MaxRequests /\ ~UnderWay(r)
         /\ Same(req'[r], q) /\ req'[r].rows = q.rows
         /\ req'[r].overlapped = (\E s \in Requests : UnderWay(s))
         /\ \A s \in Requests \ {r} :
              /\ Same(req'[s], req[s]) /\ req'[s].rows = req[s].rows
              /\ req'[s].overlapped = (req[s].overlapped \/ UnderWay(s))
<1>0. req \in [Requests -> ReqType]
  BY DEF TypeOK
<1> DEFINE others == \E s \in Requests : UnderWay(s)
           own == [q EXCEPT !.overlapped = others]
           other(s) == [req[s] EXCEPT !.overlapped = req[s].overlapped \/ UnderWay(s)]
<1>1. req' = [s \in Requests |-> IF s = r THEN own ELSE other(s)]
  BY DEF Begin
<1>2. others \in BOOLEAN /\ \A s \in Requests : (req[s].overlapped \/ UnderWay(s)) \in BOOLEAN
  OBVIOUS
<1>3. own \in ReqType /\ Same(own, q) /\ own.rows = q.rows /\ own.overlapped = others
  <2> HIDE DEF others
  <2> QED
    BY <1>2 DEF ReqType, Same
<1>4. ASSUME NEW s \in Requests
      PROVE  /\ other(s) \in ReqType /\ Same(other(s), req[s]) /\ other(s).rows = req[s].rows
             /\ other(s).overlapped = (req[s].overlapped \/ UnderWay(s))
  <2> DEFINE o == req[s].overlapped \/ UnderWay(s)
  <2>1. o \in BOOLEAN /\ req[s] \in ReqType /\ other(s) = [req[s] EXCEPT !.overlapped = o]
    BY <1>0
  <2> HIDE DEF o, other
  <2>2. /\ other(s) \in ReqType /\ Same(other(s), req[s]) /\ other(s).rows = req[s].rows
        /\ other(s).overlapped = o
    BY <2>1 DEF ReqType, Same
  <2> QED
    BY <2>2 DEF o
<1> HIDE DEF own, other, others
<1>5. req' \in [Requests -> ReqType] /\ req'[r] = own /\ \A s \in Requests \ {r} : req'[s] = other(s)
  BY <1>1, <1>3, <1>4
<1>6. begun' \in 0 .. MaxRequests /\ ~UnderWay(r)
  BY PageAssumption DEF Begin, TypeOK
<1> QED
  BY <1>3, <1>4, <1>5, <1>6 DEF others

\* The end of a transaction, for every request.
LEMMA CommittedFields ==
  ASSUME TypeOK, NEW r \in Requests, NEW p, NEW gone, Committed(r, p, gone)
  PROVE  /\ req' \in [Requests -> ReqType] /\ req'[r] = NoRequest
         /\ \A s \in Requests \ {r} :
              Same(req'[s], req[s]) /\ req'[s].overlapped = req[s].overlapped
<1>0. req \in [Requests -> ReqType]
  BY DEF TypeOK
<1>1. req' = [s \in Requests |-> IF s = r THEN NoRequest ELSE WithoutRows(req[s], p, gone)]
  BY DEF Committed
<1>2. \A s \in Requests :
        /\ WithoutRows(req[s], p, gone) \in ReqType /\ Same(WithoutRows(req[s], p, gone), req[s])
        /\ WithoutRows(req[s], p, gone).overlapped = req[s].overlapped
  BY <1>0, WithoutRowsFields DEF Same
<1> QED
  BY <1>1, <1>2, EmptyRecords

-----------------------------------------------------------------------------
(* Requests                                                                 *)

\* A request r that is under way moves to q or ends; the others keep what they
\* hold but for rows another has removed.
Moves(r, q) ==
  /\ req' \in [Requests -> ReqType]
  /\ UnderWay(r)
  /\ req'[r] = q /\ q \in ReqType
  /\ \A s \in Requests \ {r} : Same(req'[s], req[s]) /\ req'[s].overlapped = req[s].overlapped

LEMMA RequestMoves ==
  ASSUME TypeOK, RequestInv, NEW r \in Requests, NEW q, Moves(r, q), Shape(q),
         \/ q.pc \in {"idle", "flushed"}
         \/ page' = page /\ links' = links /\ Seen(q) /\ q.overlapped = req[r].overlapped
                                                      /\ q.pc # "idle",
         q.pc = "flushed" => q.overlapped = req[r].overlapped
  PROVE  RequestInv'
<1>1. ShapeInv'
  <2>1. \A s \in Requests \ {r} : Shape(req'[s])
    BY DEF RequestInv, ShapeInv, Shape, Moves, Same
  <2>2. Shape(req'[r])
    BY DEF Moves
  <2>3. \A s \in Requests : Shape(req'[s])
    BY <2>1, <2>2
  <2> QED
    BY <2>3 DEF ShapeInv, Shape
<1>2. ASSUME NEW s \in Requests \ {r}, req'[s].pc # "idle"
      PROVE  req'[s].overlapped /\ req[r].overlapped
  BY <1>2 DEF RequestInv, LoneInv, UnderWay, Moves, Same
<1>3. SeenInv'
  <2> SUFFICES ASSUME NEW s \in Requests, req'[s].pc \in {"loaded", "deleting", "ready"},
                      ~req'[s].overlapped
               PROVE  /\ page'[req'[s].page] = req'[s].loaded /\ req'[s].loaded.exists
                      /\ req'[s].pc # "loaded" /\ Replaces(req'[s]) =>
                           req'[s].rows = links'[req'[s].page]
    BY DEF SeenInv, Seen, Replaces
  <2>1. s = r
    BY <1>2
  <2>2. req'[s] = q
    BY <2>1 DEF Moves
  <2> QED
    BY <2>2 DEF Seen
<1>4. LoneInv'
  <2> SUFFICES ASSUME NEW s \in Requests, NEW t \in Requests, req'[s].pc # "idle",
                      ~req'[s].overlapped, s # t, req'[t].pc # "idle"
               PROVE  FALSE
    BY DEF LoneInv, UnderWay
  <2>1. s = r /\ t # r
    BY <1>2
  <2>2. q.pc # "idle" /\ req'[r] = q /\ ~q.overlapped
    BY <2>1 DEF Moves
  <2>3. req[r].overlapped
    BY <1>2, <2>1
  <2> QED
    BY <2>2, <2>3
<1> QED
  BY <1>1, <1>3, <1>4 DEF RequestInv

\* A request that begins has a page and a body, and sees the page as it is.
LEMMA RequestBegins ==
  ASSUME TypeOK, RequestInv, NEW r \in Requests, NEW q \in ReqType, Begin(r, q), Shape(q),
         q.pc = "loaded" => q.loaded = page[q.page] /\ page[q.page].exists,
         q.pc \in {"validated", "loaded", "removing"}, page' = page, links' = links
  PROVE  RequestInv'
<1>0. /\ ~UnderWay(r) /\ Same(req'[r], q)
      /\ req'[r].overlapped = (\E s \in Requests : UnderWay(s))
      /\ \A s \in Requests \ {r} :
           /\ Same(req'[s], req[s]) /\ req'[s].rows = req[s].rows
           /\ req'[s].overlapped = (req[s].overlapped \/ UnderWay(s))
  BY BeginFields
<1>1. ShapeInv'
  <2>1. \A s \in Requests \ {r} : Shape(req'[s])
    BY <1>0 DEF RequestInv, ShapeInv, Shape, Same
  <2>2. Shape(req'[r])
    BY <1>0 DEF Shape, Same
  <2>3. \A s \in Requests : Shape(req'[s])
    BY <2>1, <2>2
  <2> QED
    BY <2>3 DEF ShapeInv, Shape
<1>2. SeenInv'
  <2> SUFFICES ASSUME NEW s \in Requests, req'[s].pc \in {"loaded", "deleting", "ready"},
                      ~req'[s].overlapped
               PROVE  /\ page'[req'[s].page] = req'[s].loaded /\ req'[s].loaded.exists
                      /\ req'[s].pc # "loaded" /\ Replaces(req'[s]) =>
                           req'[s].rows = links'[req'[s].page]
    BY DEF SeenInv, Seen, Replaces
  <2>1. CASE s # r
    BY <1>0, <2>1 DEF Same, UnderWay
  <2>2. CASE s = r
    <3>1. q.pc = "loaded"
      BY <1>0, <2>2 DEF Same
    <3> QED
      BY <1>0, <2>2, <3>1 DEF Same
  <2> QED
    BY <2>1, <2>2
<1>3. LoneInv'
  <2> SUFFICES ASSUME NEW s \in Requests, NEW t \in Requests, req'[s].pc # "idle",
                      ~req'[s].overlapped, s # t, req'[t].pc # "idle"
               PROVE  FALSE
    BY DEF LoneInv, UnderWay
  <2>1. s = r
    BY <1>0 DEF Same, UnderWay
  <2>2. ~UnderWay(t)
    BY <1>0, <2>1
  <2> QED
    BY <1>0, <2>1, <2>2 DEF UnderWay, Same
<1> QED
  BY <1>1, <1>2, <1>3 DEF RequestInv

\* A step of the monitors or of the reader is none of the requests.
LEMMA RequestsRest ==
  ASSUME RequestInv, req' = req, page' = page, links' = links
  PROVE  RequestInv'
BY DEF RequestInv, ShapeInv, Shape, SeenInv, Seen, Replaces, LoneInv, UnderWay

\* One request's record replaced by another is such a move.
LEMMA RecordMoves ==
  ASSUME TypeOK, NEW r \in Requests, NEW q \in ReqType, UnderWay(r), req' = [req EXCEPT ![r] = q]
  PROVE  Moves(r, q)
BY DEF TypeOK, Moves, Same

LEMMA CommitMoves ==
  ASSUME TypeOK, NEW r \in Requests, NEW p, NEW gone, UnderWay(r), Committed(r, p, gone)
  PROVE  Moves(r, NoRequest)
BY CommittedFields, EmptyRecords DEF Moves

LEMMA NothingHeld == Shape(NoRequest) /\ NoRequest.pc = "idle"
BY DEF Shape, NoRequest

\* What the tables and the requests keep in a step of a request.
RequestStep ==
  /\ page' \in [Pages -> RowType] /\ links' \in [Pages -> SUBSET Monitors]
  /\ req' \in [Requests -> ReqType] /\ begun' \in 0 .. MaxRequests
  /\ failures' \in 0 .. MaxFailures
  /\ monitor' = monitor /\ incident' = incident /\ read' = read
  /\ RequestInv'

LEMMA RequestTypes ==
  ASSUME TypeOK, RequestInv, NEW r \in Requests
  PROVE  /\ req \in [Requests -> ReqType] /\ req[r] \in ReqType /\ Shape(req[r]) /\ Seen(req[r])
         /\ page \in [Pages -> RowType] /\ links \in [Pages -> SUBSET Monitors]
         /\ begun \in 0 .. MaxRequests /\ failures \in 0 .. MaxFailures
BY DEF TypeOK, RequestInv, ShapeInv, SeenInv

LEMMA RefuseStep ==
  ASSUME TypeOK, RequestInv, NEW r \in Requests, UnderWay(r), Refuse(r)
  PROVE  RequestStep
<1>1. Moves(r, NoRequest)
  BY RecordMoves, EmptyRecords DEF Refuse
<1>2. RequestInv'
  BY <1>1, RequestMoves, NothingHeld
<1>3. req' \in [Requests -> ReqType]
  BY <1>1 DEF Moves
<1> QED
  BY <1>2, <1>3 DEF Refuse, RequestStep, TypeOK

LEMMA DatabaseFailsStep ==
  ASSUME TypeOK, RequestInv, NEW r \in Requests, DatabaseFails(r)
  PROVE  RequestStep
<1>0. req' = [req EXCEPT ![r] = NoRequest] /\ UnderWay(r)
      /\ UNCHANGED <<page, links, monitor, incident, read, begun>>
  BY DEF DatabaseFails
<1>1. Moves(r, NoRequest)
  BY <1>0, RecordMoves, EmptyRecords
<1>2. RequestInv'
  BY <1>1, RequestMoves, NothingHeld
<1>3. req' \in [Requests -> ReqType]
  BY <1>1 DEF Moves
<1>4. failures' \in 0 .. MaxFailures
  BY PageAssumption DEF DatabaseFails, TypeOK
<1> QED
  BY <1>0, <1>2, <1>3, <1>4 DEF RequestStep, TypeOK

LEMMA CreateBeginStep ==
  ASSUME TypeOK, RequestInv, NEW r \in Requests, NEW p \in Pages, NEW b \in Bodies,
         CreateBegin(r, p, b)
  PROVE  RequestStep
<1> DEFINE q == Started("validated", p, b)
<1>1. q \in ReqType /\ q.pc = "validated" /\ q.page = p /\ q.body = b
  BY StartedFields
<1>2. Begin(r, q) /\ Unset \notin {b.slug, b.is_public, b.monitor_ids}
      /\ page' = page /\ links' = links
  BY DEF CreateBegin
<1> HIDE DEF q
<1>3. Shape(q)
  BY <1>1, <1>2 DEF Shape
<1>4. RequestInv'
  BY <1>1, <1>2, <1>3, RequestBegins
<1>5. req' \in [Requests -> ReqType] /\ begun' \in 0 .. MaxRequests
  BY <1>1, <1>2, BeginFields
<1> QED
  BY <1>4, <1>5 DEF CreateBegin, RequestStep, TypeOK

LEMMA PatchLoadStep ==
  ASSUME TypeOK, RequestInv, NEW r \in Requests, NEW p \in Pages, NEW b \in Bodies,
         PatchLoad(r, p, b)
  PROVE  RequestStep
<1> DEFINE q0 == Started("loaded", p, b)
           q == [q0 EXCEPT !.loaded = page[p]]
<1>1. q0 \in ReqType /\ q0.pc = "loaded" /\ q0.page = p /\ q0.body = b
  BY StartedFields
<1>2. page[p] \in RowType
  BY DEF TypeOK
<1>3. Begin(r, q) /\ page[p].exists /\ page' = page /\ links' = links
  BY DEF PatchLoad
<1> HIDE DEF q0
<1>4. q \in ReqType /\ q.pc = "loaded" /\ q.page = p /\ q.body = b /\ q.loaded = page[p]
  BY <1>1, <1>2 DEF ReqType
<1> HIDE DEF q
<1>5. Shape(q)
  BY <1>4 DEF Shape
<1>6. RequestInv'
  BY <1>3, <1>4, <1>5, RequestBegins
<1>7. req' \in [Requests -> ReqType] /\ begun' \in 0 .. MaxRequests
  BY <1>3, <1>4, BeginFields
<1> QED
  BY <1>6, <1>7 DEF PatchLoad, RequestStep, TypeOK

LEMMA DeleteLoadStep ==
  ASSUME TypeOK, RequestInv, NEW r \in Requests, NEW p \in Pages, DeleteLoad(r, p)
  PROVE  RequestStep
<1> DEFINE q0 == Started("removing", p, Unset)
           q == [q0 EXCEPT !.loaded = page[p]]
<1>1. q0 \in ReqType /\ q0.pc = "removing" /\ q0.page = p
  BY StartedFields
<1>2. page[p] \in RowType
  BY DEF TypeOK
<1>3. Begin(r, q) /\ page' = page /\ links' = links
  BY DEF DeleteLoad
<1> HIDE DEF q0
<1>4. q \in ReqType /\ q.pc = "removing" /\ q.page = p
  BY <1>1, <1>2 DEF ReqType
<1> HIDE DEF q
<1>5. Shape(q)
  BY <1>4 DEF Shape
<1>6. RequestInv'
  BY <1>3, <1>4, <1>5, RequestBegins
<1>7. req' \in [Requests -> ReqType] /\ begun' \in 0 .. MaxRequests
  BY <1>3, <1>4, BeginFields
<1> QED
  BY <1>6, <1>7 DEF DeleteLoad, RequestStep, TypeOK

LEMMA CreateFlushStep ==
  ASSUME TypeOK, RequestInv, NEW r \in Requests, CreateFlush(r)
  PROVE  RequestStep
<1> DEFINE q == [req[r] EXCEPT !.pc = "flushed"]
<1>0. req[r] \in ReqType /\ Shape(req[r]) /\ req[r].pc = "validated"
  BY RequestTypes DEF CreateFlush
<1>1. q \in ReqType /\ q.pc = "flushed" /\ q.page = req[r].page /\ q.body = req[r].body
      /\ q.overlapped = req[r].overlapped
  BY <1>0 DEF ReqType
<1>2. req' = [req EXCEPT ![r] = q] /\ UnderWay(r)
  BY <1>0 DEF CreateFlush, UnderWay
<1> HIDE DEF q
<1>3. Shape(q)
  BY <1>0, <1>1 DEF Shape
<1>4. Moves(r, q)
  BY <1>1, <1>2, RecordMoves
<1>5. RequestInv'
  BY <1>1, <1>3, <1>4, RequestMoves
<1> QED
  BY <1>4, <1>5 DEF CreateFlush, RequestStep, TypeOK, Moves

\* A step of a PATCH that touches no table.
LEMMA PatchMoveStep ==
  ASSUME TypeOK, RequestInv, NEW r \in Requests, NEW q \in ReqType, UnderWay(r),
         req' = [req EXCEPT ![r] = q], Shape(q), Seen(q), q.pc # "idle",
         q.overlapped = req[r].overlapped,
         UNCHANGED <<page, links, monitor, incident, read, begun, failures>>
  PROVE  RequestStep
<1>1. Moves(r, q)
  BY RecordMoves
<1>2. RequestInv'
  BY <1>1, RequestMoves
<1> QED
  BY <1>1, <1>2 DEF RequestStep, TypeOK, Moves

LEMMA PatchKeepStep ==
  ASSUME TypeOK, RequestInv, NEW r \in Requests, PatchKeep(r)
  PROVE  RequestStep
<1> DEFINE q == [req[r] EXCEPT !.pc = "ready"]
<1>0. req[r] \in ReqType /\ Shape(req[r]) /\ Seen(req[r]) /\ req[r].pc = "loaded"
      /\ ~Replaces(req[r])
  BY RequestTypes DEF PatchKeep
<1>1. q \in ReqType /\ q.pc = "ready" /\ Same([q EXCEPT !.pc = "loaded"], req[r])
      /\ q.page = req[r].page /\ q.body = req[r].body /\ q.loaded = req[r].loaded
      /\ q.overlapped = req[r].overlapped
  BY <1>0 DEF ReqType, Same
<1>2. req' = [req EXCEPT ![r] = q] /\ UnderWay(r)
      /\ UNCHANGED <<page, links, monitor, incident, read, begun, failures>>
  BY <1>0 DEF PatchKeep, UnderWay
<1> HIDE DEF q
<1>3. Shape(q) /\ Seen(q)
  BY <1>0, <1>1 DEF Shape, Seen, Replaces
<1> QED
  BY <1>1, <1>2, <1>3, PatchMoveStep

LEMMA PatchDeleteStep ==
  ASSUME TypeOK, RequestInv, NEW r \in Requests, PatchDelete(r)
  PROVE  RequestStep
<1> DEFINE seen == links[req[r].page]
           q == [req[r] EXCEPT !.pc = "deleting", !.rows = seen]
<1>0. req[r] \in ReqType /\ Shape(req[r]) /\ Seen(req[r]) /\ req[r].pc = "loaded"
  BY RequestTypes DEF PatchDelete
<1>a. seen \in SUBSET Monitors
  BY <1>0 DEF TypeOK, Shape
<1>2. req' = [req EXCEPT ![r] = q] /\ UnderWay(r)
      /\ UNCHANGED <<page, links, monitor, incident, read, begun, failures>>
  BY <1>0 DEF PatchDelete, UnderWay, TypeOK
<1> HIDE DEF seen
<1>1. q \in ReqType /\ q.pc = "deleting" /\ q.rows = seen
      /\ q.page = req[r].page /\ q.body = req[r].body /\ q.loaded = req[r].loaded
      /\ q.overlapped = req[r].overlapped
  BY <1>0, <1>a DEF ReqType
<1> HIDE DEF q
<1>3. Shape(q) /\ Seen(q)
  BY <1>0, <1>1 DEF Shape, Seen, seen
<1> QED
  BY <1>1, <1>2, <1>3, PatchMoveStep

LEMMA PatchDeletedStep ==
  ASSUME TypeOK, RequestInv, NEW r \in Requests, PatchDeleted(r)
  PROVE  RequestStep
<1> DEFINE q == [req[r] EXCEPT !.pc = "ready"]
<1>0. req[r] \in ReqType /\ Shape(req[r]) /\ Seen(req[r]) /\ req[r].pc = "deleting"
  BY RequestTypes DEF PatchDeleted
<1>1. q \in ReqType /\ q.pc = "ready" /\ q.rows = req[r].rows
      /\ q.page = req[r].page /\ q.body = req[r].body /\ q.loaded = req[r].loaded
      /\ q.overlapped = req[r].overlapped
  BY <1>0 DEF ReqType
<1>2. req' = [req EXCEPT ![r] = q] /\ UnderWay(r)
      /\ UNCHANGED <<page, links, monitor, incident, read, begun, failures>>
  BY <1>0 DEF PatchDeleted, UnderWay
<1> HIDE DEF q
<1>3. Shape(q) /\ Seen(q)
  BY <1>0, <1>1 DEF Shape, Seen, Replaces
<1> QED
  BY <1>1, <1>2, <1>3, PatchMoveStep

\* A transaction on a page commits.
LEMMA CommitStep ==
  ASSUME TypeOK, RequestInv, NEW r \in Requests, UnderWay(r), NEW gone,
         Committed(r, req[r].page, gone),
         page' \in [Pages -> RowType], links' \in [Pages -> SUBSET Monitors],
         UNCHANGED <<monitor, incident, read, begun, failures>>
  PROVE  RequestStep
<1>1. Moves(r, NoRequest)
  BY CommitMoves
<1>2. RequestInv'
  BY <1>1, RequestMoves, NothingHeld
<1>3. req' \in [Requests -> ReqType]
  BY <1>1 DEF Moves
<1> QED
  BY <1>2, <1>3 DEF RequestStep, TypeOK

\* The columns and links that a body writes.
LEMMA BodyFields ==
  ASSUME NEW q \in ReqType, q.body \in Bodies
  PROVE  /\ q.body \in BodyType /\ NewLinks(q.body) \in SUBSET Monitors
         /\ NewSlug(q) \in Slugs \cup {NoSlug} /\ NewPublic(q) \in BOOLEAN
         /\ q.body.slug # Unset => NewSlug(q) = q.body.slug /\ q.body.slug \in Slugs
         /\ q.body.is_public # Unset => q.body.is_public \in BOOLEAN
<1>1. q.body \in BodyType
  BY PageBodyAssumption
<1>2. q.loaded.slug \in Slugs \cup {NoSlug} /\ q.loaded.is_public \in BOOLEAN
  BY DEF ReqType, RowType
<1> QED
  BY <1>1, <1>2, NewLinksType DEF NewSlug, NewPublic, Given, BodyType

LEMMA CreateCommitStep ==
  ASSUME TypeOK, RequestInv, NEW r \in Requests, CreateCommit(r)
  PROVE  RequestStep
<1> DEFINE q == req[r]
           row == [exists |-> TRUE, slug |-> q.body.slug, is_public |-> q.body.is_public]
<1>1. q \in ReqType /\ q.page \in Pages /\ q.body \in Bodies /\ UnderWay(r)
      /\ Unset \notin {q.body.slug, q.body.is_public, q.body.monitor_ids}
  BY RequestTypes DEF CreateCommit, Shape, UnderWay
<1>2. row \in RowType /\ NewLinks(q.body) \in SUBSET Monitors
  BY <1>1, BodyFields DEF RowType
<1>3. page' = [page EXCEPT ![q.page] = row] /\ links' = [links EXCEPT ![q.page] = NewLinks(q.body)]
      /\ Committed(r, q.page, {}) /\ UNCHANGED <<monitor, incident, read, begun, failures>>
  BY DEF CreateCommit
<1> HIDE DEF row
<1>4. page' \in [Pages -> RowType] /\ links' \in [Pages -> SUBSET Monitors]
  BY <1>1, <1>2, <1>3 DEF TypeOK
<1> QED
  BY <1>1, <1>3, <1>4, CommitStep

\* The row a PATCH leaves.
LEMMA WrittenType ==
  ASSUME NEW q \in ReqType, q.body \in Bodies, NEW row \in RowType
  PROVE  [row EXCEPT !.slug = Written(row.slug, q.loaded.slug, NewSlug(q)),
                     !.is_public = Written(row.is_public, q.loaded.is_public, NewPublic(q))]
           \in RowType
BY BodyFields DEF Written, RowType

LEMMA PatchCommitStep ==
  ASSUME TypeOK, RequestInv, NEW r \in Requests, PatchCommit(r)
  PROVE  RequestStep
<1> DEFINE q == req[r]
           row == page[q.page]
           new == [row EXCEPT !.slug = Written(row.slug, q.loaded.slug, NewSlug(q)),
                              !.is_public = Written(row.is_public, q.loaded.is_public, NewPublic(q))]
           kept == (links[q.page] \ q.rows) \cup NewLinks(q.body)
<1>1. q \in ReqType /\ q.page \in Pages /\ q.body \in Bodies /\ UnderWay(r)
  BY RequestTypes DEF PatchCommit, Shape, UnderWay
<1>2. new \in RowType
  BY <1>1, WrittenType DEF TypeOK
<1>3. kept \in SUBSET Monitors
  BY <1>1, BodyFields DEF TypeOK
<1>4. page' = [page EXCEPT ![q.page] = new] /\ links' = [links EXCEPT ![q.page] = kept]
      /\ Committed(r, q.page, q.rows) /\ UNCHANGED <<monitor, incident, read, begun, failures>>
  BY DEF PatchCommit
<1> HIDE DEF new, kept
<1>5. page' \in [Pages -> RowType] /\ links' \in [Pages -> SUBSET Monitors]
  BY <1>1, <1>2, <1>3, <1>4 DEF TypeOK
<1> QED
  BY <1>1, <1>4, <1>5, CommitStep

LEMMA DeleteCommitStep ==
  ASSUME TypeOK, RequestInv, NEW r \in Requests, DeleteCommit(r)
  PROVE  RequestStep
<1>1. req[r].page \in Pages /\ UnderWay(r)
  BY RequestTypes DEF DeleteCommit, Shape, UnderWay
<1>2. page' = [page EXCEPT ![req[r].page] = NoRow] /\ links' = [links EXCEPT ![req[r].page] = {}]
      /\ Committed(r, req[r].page, links[req[r].page]) /\ UNCHANGED <<monitor, incident, read, begun, failures>>
  BY DEF DeleteCommit
<1>3. page' \in [Pages -> RowType] /\ links' \in [Pages -> SUBSET Monitors]
  BY <1>1, <1>2, EmptyRecords DEF TypeOK
<1> QED
  BY <1>1, <1>2, <1>3, CommitStep

\* Every step of a request.
Requesting(r) ==
  \/ \E p \in Pages, b \in Bodies : CreateBegin(r, p, b) \/ PatchLoad(r, p, b)
  \/ \E p \in Pages : DeleteLoad(r, p)
  \/ CreateFlush(r) \/ CreateConflict(r) \/ CreateCommit(r)
  \/ PatchInvalid(r) \/ PatchKeep(r) \/ PatchDelete(r) \/ PatchDeleted(r)
  \/ PatchConflict(r) \/ PatchGone(r) \/ PatchCommit(r) \/ DeleteCommit(r)
  \/ DatabaseFails(r)

LEMMA RequestingStep ==
  ASSUME TypeOK, RequestInv, NEW r \in Requests, Requesting(r)
  PROVE  RequestStep
<1>1. CASE CreateConflict(r) \/ PatchInvalid(r) \/ PatchConflict(r) \/ PatchGone(r)
  <2>1. UnderWay(r) /\ Refuse(r)
    BY <1>1 DEF CreateConflict, PatchInvalid, PatchConflict, PatchGone, UnderWay
  <2> QED
    BY <2>1, RefuseStep
<1> QED
  BY <1>1, CreateBeginStep, PatchLoadStep, DeleteLoadStep, CreateFlushStep, CreateCommitStep,
     PatchKeepStep, PatchDeleteStep, PatchDeletedStep, PatchCommitStep, DeleteCommitStep,
     DatabaseFailsStep DEF Requesting

-----------------------------------------------------------------------------
(* Monitors and their incidents                                             *)

IncidentRow == [monitor : Monitors, open : BOOLEAN]

\* What a reader relies on: incidents are only added, and stay with their monitor.
IncidentsStay ==
  /\ 1 .. Len(incident) \subseteq 1 .. Len(incident')
  /\ \A k \in 1 .. Len(incident) : incident'[k].monitor = incident[k].monitor

\* The tables of the monitors after a step of theirs.
MonitorStep ==
  /\ monitor' \in [Monitors -> [down : BOOLEAN, deleted : BOOLEAN]]
  /\ incident' \in Seq(IncidentRow) /\ Len(incident') <= MaxIncidents
  /\ OutageInv' /\ IncidentsStay

LEMMA IncidentRows ==
  ASSUME TypeOK
  PROVE  /\ incident \in Seq(IncidentRow) /\ Len(incident) \in Nat /\ Len(incident) <= MaxIncidents
         /\ DOMAIN incident = 1 .. Len(incident)
         /\ \A k \in 1 .. Len(incident) : incident[k] \in IncidentRow
         /\ monitor \in [Monitors -> [down : BOOLEAN, deleted : BOOLEAN]]
<1>1. incident \in Seq(IncidentRow) /\ Len(incident) <= MaxIncidents
      /\ monitor \in [Monitors -> [down : BOOLEAN, deleted : BOOLEAN]]
  BY DEF TypeOK, IncidentRow
<1> QED
  BY <1>1, LenProperties, ElementOfSeq

LEMMA FailsStep ==
  ASSUME TypeOK, OutageInv, NEW m \in Monitors, Fails(m)
  PROVE  MonitorStep
<1>0. /\ incident \in Seq(IncidentRow) /\ Len(incident) \in Nat /\ Len(incident) <= MaxIncidents
      /\ DOMAIN incident = 1 .. Len(incident)
      /\ monitor \in [Monitors -> [down : BOOLEAN, deleted : BOOLEAN]]
  BY IncidentRows
<1>1. /\ monitor' \in [Monitors -> [down : BOOLEAN, deleted : BOOLEAN]]
      /\ \A n \in Monitors : monitor'[n].down => n = m \/ monitor[n].down
  BY <1>0 DEF Fails
<1>2. CASE HasOpen(m)
  <2>1. incident' = incident
    BY <1>2 DEF Fails
  <2>2. OutageInv'
    BY <1>1, <1>2, <2>1 DEF OutageInv, HasOpen
  <2> QED
    BY <1>0, <1>1, <2>1, <2>2 DEF MonitorStep, IncidentsStay
<1>3. CASE ~HasOpen(m)
  <2> DEFINE row == [monitor |-> m, open |-> TRUE]
  <2>1. incident' = Append(incident, row) /\ Len(incident) < MaxIncidents /\ row \in IncidentRow
    BY <1>3 DEF Fails, IncidentRow
  <2>2. row.monitor = m /\ row.open
    OBVIOUS
  <2> HIDE DEF row
  <2>3. /\ incident' \in Seq(IncidentRow) /\ Len(incident') = Len(incident) + 1
        /\ \A k \in 1 .. Len(incident) : incident'[k] = incident[k]
        /\ incident'[Len(incident) + 1] = row
    BY <1>0, <2>1, AppendProperties
  <2>4. DOMAIN incident' = 1 .. Len(incident) + 1
    BY <2>3
  <2>5. HasOpen(m)'
    BY <1>0, <2>2, <2>3, <2>4 DEF HasOpen
  <2>6. \A n \in Monitors : HasOpen(n) => HasOpen(n)'
    BY <1>0, <2>3, <2>4 DEF HasOpen
  <2>7. OutageInv'
    BY <1>1, <2>5, <2>6 DEF OutageInv
  <2>8. Len(incident') <= MaxIncidents /\ IncidentsStay
    BY <1>0, <2>1, <2>3, PageAssumption DEF IncidentsStay
  <2> QED
    BY <1>1, <2>3, <2>7, <2>8 DEF MonitorStep
<1> QED
  BY <1>2, <1>3

LEMMA RecoversStep ==
  ASSUME TypeOK, OutageInv, NEW m \in Monitors, Recovers(m)
  PROVE  MonitorStep
<1>0. /\ incident \in Seq(IncidentRow) /\ Len(incident) \in Nat /\ Len(incident) <= MaxIncidents
      /\ DOMAIN incident = 1 .. Len(incident)
      /\ \A k \in 1 .. Len(incident) : incident[k] \in IncidentRow
      /\ monitor \in [Monitors -> [down : BOOLEAN, deleted : BOOLEAN]]
  BY IncidentRows
<1>1. /\ monitor' \in [Monitors -> [down : BOOLEAN, deleted : BOOLEAN]]
      /\ \A n \in Monitors : monitor'[n].down => n # m /\ monitor[n].down
  BY <1>0 DEF Recovers
<1> DEFINE row(k) == IF incident[k].monitor = m THEN [incident[k] EXCEPT !.open = FALSE]
                                                ELSE incident[k]
<1>2. incident' = [k \in 1 .. Len(incident) |-> row(k)]
  BY <1>0 DEF Recovers
<1>3. \A k \in 1 .. Len(incident) :
        /\ row(k) \in IncidentRow /\ row(k).monitor = incident[k].monitor
        /\ incident[k].monitor # m => row(k).open = incident[k].open
  BY <1>0 DEF IncidentRow
<1> HIDE DEF row
<1>4. /\ incident' \in Seq(IncidentRow) /\ Len(incident') = Len(incident)
      /\ DOMAIN incident' = 1 .. Len(incident)
      /\ \A k \in 1 .. Len(incident) : incident'[k] = row(k)
  <2>1. incident' \in [1 .. Len(incident) -> IncidentRow]
    BY <1>2, <1>3
  <2>2. incident' \in Seq(IncidentRow)
    BY <1>0, <2>1, SeqDef
  <2>3. Len(incident') = Len(incident)
    BY <1>0, <2>1, <2>2, LenProperties
  <2> QED
    BY <1>2, <2>1, <2>2, <2>3
<1>5. \A n \in Monitors : n # m /\ HasOpen(n) => HasOpen(n)'
  BY <1>0, <1>3, <1>4 DEF HasOpen
<1>6. OutageInv'
  BY <1>1, <1>5 DEF OutageInv
<1> QED
  BY <1>0, <1>1, <1>3, <1>4, <1>6 DEF MonitorStep, IncidentsStay

LEMMA OtherMonitorStep ==
  ASSUME TypeOK, OutageInv, NEW m \in Monitors, Pauses(m) \/ DeleteMonitor(m)
  PROVE  MonitorStep
<1>0. /\ incident \in Seq(IncidentRow) /\ Len(incident) <= MaxIncidents
      /\ monitor \in [Monitors -> [down : BOOLEAN, deleted : BOOLEAN]]
  BY IncidentRows
<1>1. /\ monitor' \in [Monitors -> [down : BOOLEAN, deleted : BOOLEAN]]
      /\ \A n \in Monitors : monitor'[n].down => monitor[n].down
      /\ incident' = incident
  BY <1>0 DEF Pauses, DeleteMonitor
<1>2. OutageInv'
  BY <1>1 DEF OutageInv, HasOpen
<1> QED
  BY <1>0, <1>1, <1>2 DEF MonitorStep, IncidentsStay

\* A step that leaves the tables of the monitors alone.
LEMMA MonitorsRest ==
  ASSUME TypeOK, OutageInv, monitor' = monitor, incident' = incident
  PROVE  MonitorStep
<1>1. OutageInv'
  BY DEF OutageInv, HasOpen
<1> QED
  BY <1>1 DEF MonitorStep, IncidentsStay, TypeOK, IncidentRow

-----------------------------------------------------------------------------
(* The newest incidents                                                     *)

\* Of more incidents than the limit, as many as the limit are the newest.  The
\* number of later ones ranks them without ties, from 0 on.  So the list of the
\* public page is full whenever it can be, whatever is left out of it.
LEMMA NewestAreLimit ==
  ASSUME NEW set, set \in SUBSET Nat, IsFiniteSet(set), IncidentLimit <= Cardinality(set)
  PROVE  Cardinality(Newest(set)) = IncidentLimit
<1> DEFINE later(k) == {j \in set : j > k}
           n == Cardinality(set)
           rank == [k \in set |-> Cardinality(later(k))]
<1>1. n \in Nat /\ IncidentLimit \in Nat /\ IncidentLimit # 0
  BY FS_CardinalityType, PageAssumption
<1>2. ASSUME NEW k \in set
      PROVE  IsFiniteSet(later(k)) /\ Cardinality(later(k)) \in 0 .. n - 1
  <2>1. later(k) \in SUBSET (set \ {k})
    OBVIOUS
  <2>2. IsFiniteSet(set \ {k}) /\ Cardinality(set \ {k}) = n - 1
    BY FS_RemoveElement
  <2>3. IsFiniteSet(later(k)) /\ Cardinality(later(k)) <= n - 1
    BY <2>1, <2>2, FS_Subset
  <2>4. Cardinality(later(k)) \in Nat
    BY <2>3, FS_CardinalityType
  <2> QED
    BY <1>1, <2>3, <2>4
<1>3. ASSUME NEW j \in set, NEW k \in set, j < k
      PROVE  Cardinality(later(k)) < Cardinality(later(j))
  <2>a. j \in Nat /\ k \in Nat /\ \A l \in set : l \in Nat
    OBVIOUS
  <2>b. ~(k > k) /\ k > j /\ \A l \in set : l > k => l > j
    BY <1>3, <2>a
  <2>1. later(k) \in SUBSET later(j) /\ k \in later(j) /\ k \notin later(k)
    BY <2>b
  <2> HIDE DEF later, n
  <2>2. IsFiniteSet(later(j)) /\ IsFiniteSet(later(k))
    BY <1>2
  <2>3. Cardinality(later(k)) <= Cardinality(later(j)) /\ Cardinality(later(k)) # Cardinality(later(j))
    BY <2>1, <2>2, FS_Subset
  <2>4. Cardinality(later(k)) \in Nat /\ Cardinality(later(j)) \in Nat
    BY <2>2, FS_CardinalityType
  <2> QED
    BY <2>3, <2>4
<1> HIDE DEF later
<1>4. rank \in [set -> 0 .. n - 1]
  BY <1>2
<1>5. \A j, k \in set : rank[j] = rank[k] => j = k
  <2> SUFFICES ASSUME NEW j \in set, NEW k \in set, rank[j] = rank[k] PROVE j = k
    OBVIOUS
  <2>1. rank[j] \in Nat /\ rank[k] \in Nat
    BY <1>4
  <2>2. ~(rank[k] < rank[j]) /\ ~(rank[j] < rank[k])
    BY <2>1
  <2>3. ~(j < k) /\ ~(k < j)
    BY <1>3, <2>2
  <2>4. j \in Nat /\ k \in Nat
    OBVIOUS
  <2> QED
    BY <2>3, <2>4
<1>6. rank \in Injection(set, 0 .. n - 1)
  BY <1>4, <1>5 DEF Injection, IsInjective
<1>7. IsFiniteSet(0 .. n - 1) /\ Cardinality(0 .. n - 1) = n
  <2> HIDE DEF n
  <2>1. 0 \in Int /\ n - 1 \in Int
    BY <1>1
  <2>2. IsFiniteSet(0 .. n - 1) /\ Cardinality(0 .. n - 1) = IF 0 > n - 1 THEN 0 ELSE n - 1 - 0 + 1
    BY <2>1, FS_Interval
  <2> QED
    BY <1>1, <2>2
<1>8. rank \in Surjection(set, 0 .. n - 1)
  <2> HIDE DEF rank
  <2> QED
    BY <1>6, <1>7, FS_Injection
<1> DEFINE first == [k \in Newest(set) |-> rank[k]]
<1>9. Newest(set) = {k \in set : rank[k] < IncidentLimit}
  BY DEF Newest, later
<1> HIDE DEF rank
<1>10. first \in [Newest(set) -> 0 .. IncidentLimit - 1]
  <2>1. ASSUME NEW k \in Newest(set) PROVE rank[k] \in 0 .. IncidentLimit - 1
    <3>1. rank[k] \in 0 .. n - 1 /\ rank[k] < IncidentLimit
      BY <1>4, <1>9
    <3> HIDE DEF n
    <3> QED
      BY <1>1, <3>1
  <2> QED
    BY <2>1
<1>11. first \in Injection(Newest(set), 0 .. IncidentLimit - 1)
  BY <1>5, <1>9, <1>10 DEF Injection, IsInjective
<1>12. \A t \in 0 .. IncidentLimit - 1 : \E k \in Newest(set) : first[k] = t
  <2> SUFFICES ASSUME NEW t \in 0 .. IncidentLimit - 1
               PROVE  \E k \in Newest(set) : first[k] = t
    OBVIOUS
  <2>1. t \in 0 .. n - 1 /\ t < IncidentLimit
    BY <1>1
  <2>2. PICK k \in set : rank[k] = t
    BY <1>8, <2>1 DEF Surjection
  <2> QED
    BY <1>9, <2>1, <2>2
<1>13. first \in Bijection(Newest(set), 0 .. IncidentLimit - 1)
  BY <1>10, <1>11, <1>12 DEF Bijection, Surjection
<1>14. IsFiniteSet(Newest(set))
  BY <1>9, FS_Subset
<1>15. Cardinality(0 .. IncidentLimit - 1) = IncidentLimit
  BY <1>1, FS_Interval
<1> QED
  BY <1>13, <1>14, <1>15, FS_Bijection DEF ExistsBijection

-----------------------------------------------------------------------------
(* The reader of a public page                                              *)

ReaderInv == FoundInv /\ ReadInv /\ DownMonitorHasItsIncident

\* What has been read stands while incidents are added or closed.
LEMMA ReaderRests ==
  ASSUME ReaderInv, read' = read, IncidentsStay
  PROVE  ReaderInv'
<1>1. ReadInv'
  <2> SUFFICES ASSUME read.pc \in {"monitors", "answered"}
               PROVE  /\ read.down \subseteq read.shown
                      /\ read.open \subseteq 1 .. Len(incident')
                      /\ \A m \in read.down : \E k \in read.open : incident'[k].monitor = m
    BY DEF ReadInv
  <2> QED
    BY DEF ReaderInv, ReadInv, IncidentsStay
<1>2. DownMonitorHasItsIncident'
  <2> SUFFICES ASSUME read.pc = "answered", NEW m \in read.down
               PROVE  \E k \in read.open :
                        /\ incident'[k].monitor = m
                        /\ \/ k \in read.incidents
                           \/ /\ Cardinality(read.incidents) = IncidentLimit
                              /\ \A j \in read.incidents : j > k
    BY DEF DownMonitorHasItsIncident
  <2>1. PICK k \in read.open :
          /\ incident[k].monitor = m
          /\ \/ k \in read.incidents
             \/ /\ Cardinality(read.incidents) = IncidentLimit
                /\ \A j \in read.incidents : j > k
    BY DEF ReaderInv, DownMonitorHasItsIncident
  <2>2. incident'[k].monitor = m
    BY <2>1 DEF ReaderInv, ReadInv, IncidentsStay
  <2> QED
    BY <2>1, <2>2
<1>3. FoundInv'
  BY DEF ReaderInv, FoundInv
<1> QED
  BY <1>1, <1>2, <1>3 DEF ReaderInv

LEMMA ReadPageStep ==
  ASSUME TypeOK, ReaderInv, NEW p \in Pages, ReadPage(p)
  PROVE  read' \in ReadType /\ ReaderInv'
<1>1. read' = [NoRead EXCEPT !.pc = "found", !.page = p]
  BY DEF ReadPage
<1>2. read' \in ReadType /\ read'.pc = "found" /\ read'.page = p
  BY <1>1, EmptyRecords DEF NoRead, ReadType
<1> QED
  BY <1>2 DEF ReaderInv, FoundInv, ReadInv, DownMonitorHasItsIncident

LEMMA ReadMonitorsStep ==
  ASSUME TypeOK, OutageInv, ReaderInv, ReadMonitors
  PROVE  read' \in ReadType /\ ReaderInv'
<1> DEFINE visible == {m \in links[read.page] : ~monitor[m].deleted}
           down == {m \in visible : monitor[m].down}
           open == {k \in DOMAIN incident : /\ incident[k].open
                                            /\ incident[k].monitor \in visible
                                            /\ monitor[incident[k].monitor].down}
<1>0. /\ DOMAIN incident = 1 .. Len(incident) /\ Len(incident) \in Nat
      /\ Len(incident) <= MaxIncidents /\ MaxIncidents \in Nat
  BY IncidentRows, PageAssumption
<1>1. visible \in SUBSET Monitors
  BY DEF TypeOK, ReadMonitors, ReaderInv, FoundInv
<1>2. down \in SUBSET visible /\ down \in SUBSET Monitors
  BY <1>1
<1>3. open \in SUBSET (1 .. Len(incident)) /\ open \in SUBSET (1 .. MaxIncidents)
  BY <1>0
<1>4. ASSUME NEW m \in down PROVE \E k \in open : incident[k].monitor = m
  <2>1. HasOpen(m)
    BY <1>1 DEF OutageInv
  <2>2. PICK k \in DOMAIN incident : incident[k].monitor = m /\ incident[k].open
    BY <2>1 DEF HasOpen
  <2> QED
    BY <2>2
<1>5. read' = [read EXCEPT !.pc = "monitors", !.shown = visible, !.down = down, !.open = open]
      /\ incident' = incident
  BY DEF ReadMonitors
<1> HIDE DEF visible, down, open
<1>6. /\ read' \in ReadType /\ read'.pc = "monitors"
      /\ read'.shown = visible /\ read'.down = down /\ read'.open = open
      /\ read'.page = read.page /\ read.pc = "found"
  <2>1. read \in ReadType
    BY DEF TypeOK
  <2> QED
    BY <1>1, <1>2, <1>3, <1>5, <2>1 DEF ReadType, ReadMonitors
<1>7. ReadInv'
  BY <1>2, <1>3, <1>4, <1>5, <1>6 DEF ReadInv
<1>8. FoundInv'
  BY <1>6 DEF ReaderInv, FoundInv
<1> QED
  BY <1>6, <1>7, <1>8 DEF ReaderInv, DownMonitorHasItsIncident

LEMMA ReadIncidentsStep ==
  ASSUME TypeOK, ReaderInv, ReadIncidents
  PROVE  read' \in ReadType /\ ReaderInv'
<1> DEFINE all == IncidentsOf(read.shown)
           new == Newest(all)
<1>0. /\ DOMAIN incident = 1 .. Len(incident) /\ Len(incident) \in Nat
      /\ Len(incident) <= MaxIncidents /\ MaxIncidents \in Nat
  BY IncidentRows, PageAssumption
<1>1. all \in SUBSET (1 .. Len(incident)) /\ all \in SUBSET (1 .. MaxIncidents)
      /\ all \in SUBSET Nat
  BY <1>0 DEF IncidentsOf
<1>2. IsFiniteSet(all)
  <2>1. IsFiniteSet(1 .. Len(incident))
    BY <1>0, FS_Interval
  <2> QED
    BY <1>1, <2>1, FS_Subset
<1>3. new \in SUBSET all
  BY DEF Newest
<1>4. read' = [read EXCEPT !.pc = "answered", !.incidents = new] /\ incident' = incident
      /\ read.pc = "monitors"
  BY DEF ReadIncidents
<1>5. /\ read.down \subseteq read.shown /\ read.open \subseteq 1 .. Len(incident)
      /\ \A m \in read.down : \E k \in read.open : incident[k].monitor = m
  BY <1>4 DEF ReaderInv, ReadInv
<1>6. ASSUME NEW m \in read.down
      PROVE  \E k \in read.open :
               /\ incident[k].monitor = m
               /\ \/ k \in new
                  \/ Cardinality(new) = IncidentLimit /\ \A j \in new : j > k
  <2>1. PICK k \in read.open : incident[k].monitor = m
    BY <1>5
  <2>2. k \in all
    BY <1>0, <1>5, <2>1 DEF IncidentsOf
  <2> HIDE DEF all
  <2>3. ASSUME k \notin new PROVE Cardinality(new) = IncidentLimit /\ \A j \in new : j > k
    <3> DEFINE later(j) == {l \in all : l > j}
    <3>1. ~(Cardinality(later(k)) < IncidentLimit)
          /\ \A j \in new : Cardinality(later(j)) < IncidentLimit
      BY <2>2, <2>3 DEF Newest
    <3>2. \A j \in all : later(j) \in SUBSET all
      OBVIOUS
    <3>3. \A j \in all : IsFiniteSet(later(j)) /\ Cardinality(later(j)) <= Cardinality(all)
      BY <1>2, <3>2, FS_Subset
    <3>4. Cardinality(all) \in Nat /\ \A j \in all : Cardinality(later(j)) \in Nat
      BY <1>2, <3>3, FS_CardinalityType
    <3>5. IncidentLimit \in Nat
      BY PageAssumption
    <3>6. IncidentLimit <= Cardinality(later(k)) /\ Cardinality(later(k)) <= Cardinality(all)
      <4> HIDE DEF later
      <4>1. Cardinality(later(k)) \in Nat /\ Cardinality(later(k)) <= Cardinality(all)
        BY <2>2, <3>3, <3>4
      <4> QED
        BY <3>1, <3>5, <4>1
    <3>7. IncidentLimit <= Cardinality(all)
      <4> HIDE DEF later
      <4>1. Cardinality(later(k)) \in Nat
        BY <2>2, <3>4
      <4> QED
        BY <3>4, <3>5, <3>6, <4>1
    <3>8. Cardinality(new) = IncidentLimit
      BY <1>1, <1>2, <3>7, NewestAreLimit
    <3>9. ASSUME NEW j \in new PROVE j > k
      <4>1. j \in all /\ j \in Nat /\ k \in Nat
        BY <1>1, <1>3, <2>2
      <4>2. ASSUME ~(j > k) PROVE FALSE
        <5>0. ASSUME NEW l \in all, l > k PROVE l > j
          <6>1. l \in Nat /\ j \in Nat /\ k \in Nat /\ ~(j > k)
            BY <1>1, <4>1, <4>2
          <6> QED
            BY ONLY <5>0, <6>1
        <5>1. later(k) \in SUBSET later(j)
          BY <5>0
        <5> HIDE DEF later
        <5>2. Cardinality(later(k)) <= Cardinality(later(j))
          BY <3>3, <4>1, <5>1, FS_Subset
        <5>3. Cardinality(later(j)) < IncidentLimit
          BY <3>1
        <5>4. Cardinality(later(j)) \in Nat /\ Cardinality(later(k)) \in Nat
          BY <2>2, <3>4, <4>1
        <5> QED
          BY <3>5, <3>6, <5>2, <5>3, <5>4
      <4> QED
        BY <4>2
    <3> QED
      BY <3>8, <3>9
  <2> QED
    BY <2>1, <2>3
<1> HIDE DEF new, all
<1>7. /\ read' \in ReadType /\ read'.pc = "answered" /\ read'.incidents = new
      /\ read'.shown = read.shown /\ read'.down = read.down /\ read'.open = read.open
      /\ read'.page = read.page
  <2>1. read \in ReadType
    BY DEF TypeOK
  <2>2. new \in SUBSET (1 .. MaxIncidents)
    BY <1>1, <1>3
  <2> QED
    BY <1>4, <2>1, <2>2 DEF ReadType
<1>8. ReadInv'
  BY <1>4, <1>5, <1>7 DEF ReadInv
<1>9. DownMonitorHasItsIncident'
  BY <1>4, <1>6, <1>7 DEF DownMonitorHasItsIncident
<1>10. FoundInv'
  BY <1>4, <1>7 DEF ReaderInv, FoundInv
<1> QED
  BY <1>7, <1>8, <1>9, <1>10 DEF ReaderInv

-----------------------------------------------------------------------------
(* Theorems                                                                 *)

PagesInv == TypeOK /\ RequestInv /\ OutageInv /\ ReaderInv

\* A step of a request, of a monitor or of the reader; the other two rest.
LEMMA PagesAssemble ==
  ASSUME TypeOK, RequestInv', page' \in [Pages -> RowType],
         links' \in [Pages -> SUBSET Monitors], req' \in [Requests -> ReqType],
         begun' \in 0 .. MaxRequests, failures' \in 0 .. MaxFailures, MonitorStep,
         read' \in ReadType, ReaderInv'
  PROVE  PagesInv'
BY DEF PagesInv, TypeOK, MonitorStep, IncidentRow

LEMMA PagesStep == PagesInv /\ [Next]_vars => PagesInv'
<1> SUFFICES ASSUME PagesInv, [Next]_vars PROVE PagesInv'
  OBVIOUS
<1>0. TypeOK /\ RequestInv /\ OutageInv /\ ReaderInv
  BY DEF PagesInv
<1>1. ASSUME NEW r \in Requests, Requesting(r) PROVE PagesInv'
  <2>1. RequestStep
    BY <1>0, <1>1, RequestingStep
  <2>2. MonitorStep
    BY <1>0, <2>1, MonitorsRest DEF RequestStep
  <2>3. ReaderInv'
    BY <1>0, <2>1, <2>2, ReaderRests DEF RequestStep, MonitorStep
  <2> QED
    BY <1>0, <2>1, <2>2, <2>3, PagesAssemble DEF RequestStep, TypeOK
<1>2. ASSUME NEW m \in Monitors, Fails(m) \/ Pauses(m) \/ Recovers(m) \/ DeleteMonitor(m)
      PROVE  PagesInv'
  <2>1. MonitorStep
    BY <1>0, <1>2, FailsStep, RecoversStep, OtherMonitorStep
  <2>2. UNCHANGED <<page, links, req, read, begun, failures>>
    BY <1>2 DEF Fails, Pauses, Recovers, DeleteMonitor
  <2>3. RequestInv'
    BY <1>0, <2>2, RequestsRest
  <2>4. ReaderInv'
    BY <1>0, <2>1, <2>2, ReaderRests DEF MonitorStep
  <2> QED
    BY <1>0, <2>1, <2>2, <2>3, <2>4, PagesAssemble DEF TypeOK
<1>3. ASSUME (\E p \in Pages : ReadPage(p)) \/ ReadMonitors \/ ReadIncidents PROVE PagesInv'
  <2>1. UNCHANGED <<page, links, monitor, incident, req, begun, failures>>
    BY <1>3 DEF ReadPage, ReadMonitors, ReadIncidents
  <2>2. RequestInv'
    BY <1>0, <2>1, RequestsRest
  <2>3. MonitorStep
    BY <1>0, <2>1, MonitorsRest
  <2>4. read' \in ReadType /\ ReaderInv'
    BY <1>0, <1>3, ReadPageStep, ReadMonitorsStep, ReadIncidentsStep
  <2> QED
    BY <1>0, <2>1, <2>2, <2>3, <2>4, PagesAssemble DEF TypeOK
<1>4. CASE UNCHANGED vars
  <2>1. RequestInv'
    BY <1>0, <1>4, RequestsRest DEF vars
  <2>2. MonitorStep
    BY <1>0, <1>4, MonitorsRest DEF vars
  <2>3. ReaderInv'
    BY <1>0, <1>4, <2>2, ReaderRests DEF vars, MonitorStep
  <2> QED
    BY <1>0, <1>4, <2>1, <2>2, <2>3, PagesAssemble DEF TypeOK, vars
<1>5. \/ \E r \in Requests : Requesting(r)
      \/ \E m \in Monitors : Fails(m) \/ Pauses(m) \/ Recovers(m) \/ DeleteMonitor(m)
      \/ (\E p \in Pages : ReadPage(p)) \/ ReadMonitors \/ ReadIncidents
      \/ UNCHANGED vars
  BY DEF Next, Requesting
<1> QED
  BY <1>1, <1>2, <1>3, <1>4, <1>5

LEMMA PagesInit == Init => PagesInv
<1> SUFFICES ASSUME Init PROVE PagesInv
  OBVIOUS
<1>1. /\ page \in [Pages -> RowType] /\ links \in [Pages -> SUBSET Monitors]
      /\ req \in [Requests -> ReqType] /\ read \in ReadType
      /\ monitor \in [Monitors -> [down : BOOLEAN, deleted : BOOLEAN]]
  BY EmptyRecords DEF Init
<1>2. incident \in Seq(IncidentRow) /\ Len(incident) <= MaxIncidents /\ begun \in 0 .. MaxRequests
      /\ failures \in 0 .. MaxFailures
  BY PageAssumption DEF Init
<1>3. TypeOK
  BY <1>1, <1>2 DEF TypeOK, IncidentRow
<1>4. RequestInv
  BY NothingHeld DEF Init, RequestInv, ShapeInv, SeenInv, Seen, LoneInv, UnderWay
<1>5. OutageInv /\ ReaderInv
  BY DEF Init, OutageInv, ReaderInv, FoundInv, ReadInv, DownMonitorHasItsIncident, NoRead
<1> QED
  BY <1>3, <1>4, <1>5 DEF PagesInv

LEMMA PagesAlways == Spec => []PagesInv
BY PagesInit, PagesStep, PTL DEF Spec

\* Pages, links, monitors, incidents and requests keep their types.
THEOREM PagesTypeCorrect == Spec => []TypeOK
<1>1. PagesInv => TypeOK
  BY DEF PagesInv
<1> QED
  BY <1>1, PagesAlways, PTL

\* The three statements of the public page agree on what is down: the incident
\* of each outage shown is in the answer, or newer ones fill it up.
THEOREM OutageIsExplained == Spec => []DownMonitorHasItsIncident
<1>1. PagesInv => DownMonitorHasItsIncident
  BY DEF PagesInv, ReaderInv
<1> QED
  BY <1>1, PagesAlways, PTL

\* A list that is answered with success is linked as it is given, whatever was
\* linked before; requests that overlap it may only add to it.
THEOREM ListReplacesLinks == Spec => ReplacementIsExact
<1>1. PagesInv /\ [Next]_vars => [\A r \in Requests :
        (CreateCommit(r) \/ PatchCommit(r)) /\ Replaces(req[r]) =>
          LET p == req[r].page IN
          /\ NewLinks(req[r].body) \subseteq links'[p]
          /\ ~req[r].overlapped => links'[p] = NewLinks(req[r].body)]_vars
  <2> SUFFICES ASSUME PagesInv, NEW r \in Requests, CreateCommit(r) \/ PatchCommit(r),
                      Replaces(req[r])
               PROVE  /\ NewLinks(req[r].body) \subseteq links'[req[r].page]
                      /\ ~req[r].overlapped => links'[req[r].page] = NewLinks(req[r].body)
    OBVIOUS
  <2>1. /\ req[r] \in ReqType /\ Shape(req[r]) /\ Seen(req[r])
        /\ links \in [Pages -> SUBSET Monitors]
    BY RequestTypes DEF PagesInv
  <2>2. req[r].page \in Pages
    BY <2>1 DEF Shape, CreateCommit, PatchCommit
  <2>3. CASE CreateCommit(r)
    BY <2>1, <2>2, <2>3 DEF CreateCommit
  <2>4. CASE PatchCommit(r)
    <3>1. links'[req[r].page] = (links[req[r].page] \ req[r].rows) \cup NewLinks(req[r].body)
      BY <2>1, <2>2, <2>4 DEF PatchCommit
    <3>2. ~req[r].overlapped => req[r].rows = links[req[r].page]
      BY <2>1, <2>4 DEF PatchCommit, Seen
    <3> QED
      BY <3>1, <3>2
  <2> QED
    BY <2>3, <2>4
<1> QED
  BY <1>1, PagesAlways, PTL DEF Spec, ReplacementIsExact

\* Every exception of a flush or commit is answered "slug already exists".  With
\* no request that overlaps it and no failure of the database itself, a taken slug
\* is the only way to get that answer.
THEOREM ConflictIsTheSlug == Spec => ConflictMeansSlugTaken
<1>1. PagesInv /\ [Next]_vars => [\A r \in Requests :
        AnswersConflict(r) /\ ~req[r].overlapped =>
          Taken(NewSlug(req[r]), req[r].page) \/ failures' > failures]_vars
  <2> SUFFICES ASSUME PagesInv, NEW r \in Requests, AnswersConflict(r), ~req[r].overlapped
               PROVE  Taken(NewSlug(req[r]), req[r].page) \/ failures' > failures
    OBVIOUS
  <2>1. req[r] \in ReqType /\ Shape(req[r]) /\ Seen(req[r]) /\ failures \in 0 .. MaxFailures
    BY RequestTypes DEF PagesInv
  <2>2. CASE CreateConflict(r)
    <3>1. req[r].body \in Bodies /\ req[r].body.slug # Unset
          /\ Taken(req[r].body.slug, req[r].page)
      BY <2>1, <2>2 DEF CreateConflict, Shape
    <3>2. NewSlug(req[r]) = req[r].body.slug
      BY <2>1, <3>1, BodyFields
    <3> QED
      BY <3>1, <3>2
  <2>3. CASE PatchConflict(r)
    <3>1. req[r].pc = "ready" /\ CommitFails(req[r])
      BY <2>3 DEF PatchConflict
    <3>2. page[req[r].page].exists
      BY <2>1, <3>1 DEF Seen
    <3>3. Duplicates(req[r]) = {}
      <4>1. CASE Replaces(req[r])
        BY <2>1, <3>1, <4>1 DEF Seen, Duplicates
      <4>2. CASE ~Replaces(req[r])
        BY <4>2 DEF Replaces, Duplicates, NewLinks
      <4> QED
        BY <4>1, <4>2
    <3> QED
      BY <3>1, <3>2, <3>3 DEF CommitFails
  <2>4. CASE DatabaseFails(r)
    <3>1. failures' = failures + 1 /\ failures \in Nat
      BY <2>1, <2>4 DEF DatabaseFails
    <3> QED
      BY <3>1
  <2> QED
    BY <2>2, <2>3, <2>4 DEF AnswersConflict
<1> QED
  BY <1>1, PagesAlways, PTL DEF Spec, ConflictMeansSlugTaken

-----------------------------------------------------------------------------
(***************************************************************************)
(* Runtime health: for any limits, workers and loads.  The invariant       *)
(* follows a ping into Redis, its time out of Redis into an answer, and    *)
(* the answer into the panel.                                              *)
(***************************************************************************)

\* The latest time that was written to a key, expired or not.
Latest(k) == IF k = "beat" THEN lastPing ELSE completed

\* Times come from the past: a ping sets "beat" to it before "worker".
PingInv ==
  /\ now >= 1
  /\ completed <= lastPing /\ lastPing <= now
  /\ \A w \in Workers : ping[w].pc # "idle" => ping[w].at >= 1 /\ ping[w].at <= now
  /\ \A w \in Workers : ping[w].pc = "half" => ping[w].at <= lastPing

\* A key holds no time later than the latest, outlives it by its lifetime, and is
\* not missed before.
KeyInv ==
  \A k \in Keys :
    /\ key[k].at <= Latest(k)
    /\ key[k].at # Never => key[k].until >= Latest(k) + KeyLife
    /\ key[k].at = Never => Latest(k) = Never \/ Latest(k) + KeyLife <= now

\* While no two pings meet the keys hold the latest times.
LonePingInv ==
  ~pingsMet =>
    /\ \A v, w \in Workers : ping[v].pc # "idle" /\ ping[w].pc # "idle" => v = w
    /\ \A w \in Workers : /\ ping[w].pc = "began" => ping[w].at >= lastPing
                          /\ ping[w].pc = "half" => ping[w].at = lastPing
    /\ \A k \in Keys : key[k].at # Never => key[k].at = Latest(k)

\* What a request has read, against what the keys have held since it began.
AskedInv(q) ==
  /\ q.base <= completed
  /\ \A k \in Keys : q.seen[k] <= Latest(k)
  /\ "worker" \notin q.pending /\ ~q.failed /\ q.seen["worker"] = Never =>
       q.base = Never \/ q.base + KeyLife <= now
  /\ ~pingsMet /\ ~q.failed /\ q.base # Never /\ q.checked < q.base + Limit =>
       \A k \in Keys \ q.pending : q.seen[k] # Never /\ q.checked < q.seen[k] + Limit

\* A request between its reads; AskedInv is what they have told it so far.
RequestsInv ==
  \A l \in Loads :
    /\ load[l].pc # "reading" => load[l].pending = {} /\ load[l].seen = Idle.seen
    /\ load[l].pending # {} => now <= load[l].checked + ReadTime
    /\ load[l].pc = "reading" => AskedInv(load[l])

\* What the answers promise.
AnswerInv == OkMeansRecentPing /\ DegradedHasAReason

InFlight(l) == load[l].pc # "idle"

\* Loads are numbered, and no two in flight have the same number.
SeqInv ==
  /\ \A l \in Loads : InFlight(l) => load[l].seq <= seq
  /\ \A l, m \in Loads : InFlight(l) /\ InFlight(m) /\ load[l].seq = load[m].seq => l = m

\* The panel shows nothing of the newest load before it settles, and nothing
\* newer than what it answers.
NewestInv ==
  \A l \in Loads :
    InFlight(l) /\ load[l].seq = seq =>
      IF load[l].pc = "settled" THEN load[l].checked # Never => shown <= load[l].checked
      ELSE shown = Never

\* Without late answers the cache is as new as the panel and as every answer.
CacheInv ==
  ~lateAnswer =>
    /\ shown <= cache.checked
    /\ \A l \in Loads : load[l].pc = "settled" => load[l].checked <= cache.checked

PanelInv == SeqInv /\ NewestInv /\ CacheInv

ServerInv == PingInv /\ KeyInv /\ LonePingInv
HealthInv == HealthTypeOK /\ ServerInv /\ RequestsInv /\ AnswerInv /\ PanelInv

-----------------------------------------------------------------------------
LEMMA HealthBounds ==
  /\ KeyLife \in Nat /\ ReadTime \in Nat /\ CacheTTL \in Nat /\ Horizon \in Nat
  /\ MaxTimeouts \in Nat /\ MaxLoads \in Nat /\ MaxPings \in Nat
  /\ Limit \in Nat /\ Limit > 0
  /\ Limit + ReadTime <= KeyLife /\ 1 <= Horizon
<1>1. Stale \in Nat /\ Second \in Nat /\ Second > 0
  BY HealthAssumption
<1>2. Limit \in Nat /\ Limit > 0
  BY <1>1 DEF Limit
<1> QED
  BY <1>2, HealthAssumption

\* An age that is cut to whole seconds passes as long as the limit and a second
\* have not gone by.
LEMMA FreshIsWithinLimit ==
  ASSUME NEW t \in Nat, NEW at \in Nat
  PROVE  /\ Fresh(t, at) \in BOOLEAN
         /\ Fresh(t, at) <=> t # Never /\ at < t + Limit
<1>1. Stale \in Nat /\ Second \in Nat /\ Second > 0 /\ Limit \in Nat /\ Limit > 0
  BY HealthAssumption, HealthBounds
<1>2. CASE at <= t
  BY <1>1, <1>2 DEF Fresh, Age
<1>3. CASE ~(at <= t)
  <2>1. PICK d \in Nat : d = at - t
    BY <1>3
  <2>2. Age(t, at) = d \div Second
    BY <1>3, <2>1 DEF Age
  <2>3. PICK s \in Nat : s = d \div Second
    BY <1>1, <2>1
  <2>4. s * Second <= d /\ d < (s + 1) * Second
    BY <1>1, <2>1, <2>3
  <2>5. s <= Stale <=> d < Limit
    <3>1. ASSUME s <= Stale PROVE d < Limit
      <4>1. (s + 1) * Second <= (Stale + 1) * Second
        BY <1>1, <3>1
      <4> QED
        BY <1>1, <2>4, <4>1 DEF Limit
    <3>2. ASSUME ~(s <= Stale) PROVE ~(d < Limit)
      <4>1. (Stale + 1) * Second <= s * Second
        BY <1>1, <3>2
      <4> QED
        BY <1>1, <2>4, <4>1 DEF Limit
    <3> QED
      BY <3>1, <3>2
  <2>6. d < Limit <=> at < t + Limit
    BY <1>1, <2>1
  <2>7. Fresh(t, at) <=> t # Never /\ s <= Stale
    BY <2>2, <2>3 DEF Fresh
  <2> QED
    BY <2>5, <2>6, <2>7 DEF Fresh
<1> QED
  BY <1>2, <1>3

LEMMA LaterBySame == \A s, t, d \in Nat : s <= t => t + d >= s + d
OBVIOUS

LEMMA HealthNumbers ==
  ASSUME HealthTypeOK
  PROVE  /\ now \in Nat /\ now <= Horizon /\ lastPing \in Nat /\ completed \in Nat
         /\ shown \in Nat /\ seq \in Nat /\ pings \in Nat /\ timeouts \in Nat
         /\ cache.checked \in Nat /\ cache.at \in Nat
         /\ \A k \in Keys : key[k].at \in Nat /\ key[k].until \in Nat /\ Latest(k) \in Nat
         /\ \A w \in Workers : ping[w].at \in Nat
         /\ \A l \in Loads : /\ load[l].seq \in Nat /\ load[l].checked \in Nat /\ load[l].base \in Nat
                             /\ \A k \in Keys : load[l].seen[k] \in Nat
<1>1. Times \subseteq Nat /\ 0 .. MaxLoads \subseteq Nat /\ 0 .. MaxPings \subseteq Nat
      /\ 0 .. MaxTimeouts \subseteq Nat /\ 0 .. Horizon + KeyLife \subseteq Nat
  BY HealthBounds DEF Times
<1>2. now \in Nat /\ now <= Horizon
  BY HealthBounds DEF HealthTypeOK, Times
<1>3. lastPing \in Nat /\ completed \in Nat /\ shown \in Nat /\ seq \in Nat /\ pings \in Nat
      /\ timeouts \in Nat /\ cache.checked \in Nat /\ cache.at \in Nat
  BY <1>1 DEF HealthTypeOK
<1>4. \A k \in Keys : key[k].at \in Nat /\ key[k].until \in Nat /\ Latest(k) \in Nat
  BY <1>1, <1>3 DEF HealthTypeOK, Latest
<1>5. \A w \in Workers : ping[w].at \in Nat
  BY <1>1 DEF HealthTypeOK
<1>6. ASSUME NEW l \in Loads
      PROVE  /\ load[l].seq \in Nat /\ load[l].checked \in Nat /\ load[l].base \in Nat
             /\ \A k \in Keys : load[l].seen[k] \in Nat
  <2>1. load[l] \in LoadType
    BY DEF HealthTypeOK
  <2>2. load[l].seq \in 0 .. MaxLoads /\ load[l].checked \in Times /\ load[l].base \in Times
        /\ load[l].seen \in [Keys -> Times]
    BY <2>1 DEF LoadType
  <2> QED
    BY <2>2, <1>1
<1> QED
  BY <1>2, <1>3, <1>4, <1>5, <1>6

LEMMA IdleLoad ==
  /\ Idle \in LoadType /\ Idle.pc = "idle" /\ Idle.pending = {} /\ Idle.seen = [k \in Keys |-> Never]
  /\ \A n \in 0 .. MaxLoads, t \in Times :
       /\ Settled(n, t) \in LoadType /\ Settled(n, t).pc = "settled" /\ Settled(n, t).seq = n
       /\ Settled(n, t).checked = t /\ Settled(n, t).pending = {} /\ Settled(n, t).seen = Idle.seen
<1>1. 0 \in 0 .. MaxLoads /\ Never \in Times
  BY HealthBounds DEF Times, Never
<1>2. Idle \in LoadType /\ Idle.pc = "idle" /\ Idle.pending = {} /\ Idle.seen = [k \in Keys |-> Never]
  BY <1>1 DEF Idle, LoadType
<1>3. ASSUME NEW n \in 0 .. MaxLoads, NEW t \in Times
      PROVE  /\ Settled(n, t) \in LoadType /\ Settled(n, t).pc = "settled" /\ Settled(n, t).seq = n
             /\ Settled(n, t).checked = t /\ Settled(n, t).pending = {}
             /\ Settled(n, t).seen = Idle.seen
  BY <1>2 DEF Settled, LoadType
<1> QED
  BY <1>2, <1>3

LEMMA HealthStarts ==
  ASSUME HealthInit
  PROVE  HealthInv
<1>1. HealthTypeOK
  <2>1. /\ 1 \in Times /\ Never \in Times /\ 0 \in 0 .. Horizon + KeyLife /\ Never = 0
        /\ 0 \in 0 .. MaxPings /\ 0 \in 0 .. MaxLoads /\ 0 \in 0 .. MaxTimeouts
    BY HealthBounds DEF Times, Never
  <2>2. NoKey \in [at : Times, until : 0 .. Horizon + KeyLife]
    BY <2>1 DEF NoKey
  <2>3. [checked |-> Never, at |-> Never] \in [checked : Times, at : Times]
        /\ [pc |-> "idle", at |-> Never] \in [pc : {"idle", "began", "half"}, at : Times]
    BY <2>1
  <2> QED
    BY <2>1, <2>2, <2>3, IdleLoad DEF HealthInit, HealthTypeOK
<1>2. ServerInv
  BY HealthBounds DEF HealthInit, ServerInv, PingInv, KeyInv, LonePingInv, Latest, NoKey, Never
<1>3. RequestsInv /\ AnswerInv
  BY IdleLoad DEF HealthInit, RequestsInv, AnswerInv, OkMeansRecentPing, DegradedHasAReason
<1>4. PanelInv
  BY IdleLoad DEF HealthInit, PanelInv, SeqInv, NewestInv, CacheInv, InFlight, Never
<1> QED
  BY <1>1, <1>2, <1>3, <1>4 DEF HealthInv

-----------------------------------------------------------------------------
(* The server's steps                                                       *)

ServerStep ==
  \/ Tick
  \/ \E w \in Workers : PingBegins(w) \/ WriteBeat(w) \/ WriteWorker(w) \/ PingFails(w)

ServerTypeOK ==
  /\ now \in Times
  /\ pings \in 0 .. MaxPings
  /\ ping \in [Workers -> [pc : {"idle", "began", "half"}, at : Times]]
  /\ key \in [Keys -> [at : Times, until : 0 .. Horizon + KeyLife]]
  /\ lastPing \in Times /\ completed \in Times
  /\ pingsMet \in BOOLEAN

\* What the requests and the browser see of the server's steps.
ServerGrows ==
  /\ load' = load /\ cache' = cache /\ shown' = shown /\ seq' = seq /\ lateAnswer' = lateAnswer
  /\ timeouts' = timeouts
  /\ now' \in Nat /\ lastPing' \in Nat /\ completed' \in Nat
  /\ now <= now' /\ lastPing <= lastPing' /\ completed <= completed'
  /\ pingsMet => pingsMet'
  /\ \A l \in Loads : load[l].pending # {} /\ now # now' => now' <= load[l].checked + ReadTime

ServerHolds == ServerTypeOK' /\ PingInv' /\ KeyInv' /\ LonePingInv' /\ ServerGrows

\* Time passes: keys expire.
LEMMA TickServer ==
  ASSUME HealthTypeOK, ServerInv, Tick
  PROVE  ServerHolds
<1>0. /\ now \in Nat /\ lastPing \in Nat /\ completed \in Nat /\ KeyLife \in Nat /\ Horizon \in Nat
      /\ \A k \in Keys : key[k].at \in Nat /\ key[k].until \in Nat /\ Latest(k) \in Nat
      /\ \A w \in Workers : ping[w].at \in Nat
      /\ \A l \in Loads : load[l].checked \in Nat
  BY HealthNumbers, HealthBounds
<1>1. /\ now' = now + 1 /\ now' <= Horizon
      /\ key' = [k \in Keys |-> IF key[k].until <= now + 1 THEN NoKey ELSE key[k]]
      /\ pings' = pings /\ ping' = ping /\ lastPing' = lastPing /\ completed' = completed
      /\ pingsMet' = pingsMet
      /\ load' = load /\ cache' = cache /\ shown' = shown /\ seq' = seq
      /\ lateAnswer' = lateAnswer /\ timeouts' = timeouts
      /\ \A l \in Loads : load[l].pending # {} => now < load[l].checked + ReadTime
  BY <1>0 DEF Tick
<1>2. \A k \in Keys : Latest(k)' = Latest(k)
  BY <1>1 DEF Latest
<1>3. ServerTypeOK'
  <2>1. NoKey \in [at : Times, until : 0 .. Horizon + KeyLife]
    BY <1>0 DEF NoKey, Never, Times
  <2>2. key' \in [Keys -> [at : Times, until : 0 .. Horizon + KeyLife]]
    BY <1>1, <2>1 DEF HealthTypeOK
  <2>3. now' \in Times
    BY <1>0, <1>1 DEF Times
  <2> QED
    BY <1>1, <2>2, <2>3 DEF HealthTypeOK, ServerTypeOK
<1>4. PingInv'
  BY <1>0, <1>1 DEF ServerInv, PingInv
<1>5. KeyInv'
  <2> SUFFICES ASSUME NEW k \in Keys
               PROVE  /\ key'[k].at <= Latest(k)
                      /\ key'[k].at # Never => key'[k].until >= Latest(k) + KeyLife
                      /\ key'[k].at = Never => Latest(k) = Never \/ Latest(k) + KeyLife <= now'
    BY <1>2 DEF KeyInv
  <2>1. /\ key[k].at <= Latest(k)
        /\ key[k].at # Never => key[k].until >= Latest(k) + KeyLife
        /\ key[k].at = Never => Latest(k) = Never \/ Latest(k) + KeyLife <= now
    BY DEF ServerInv, KeyInv
  <2>2. CASE key[k].until <= now + 1
    <3>1. key'[k] = NoKey
      BY <1>1, <2>2
    <3>2. key'[k].at = 0 /\ Never = 0
      BY <3>1 DEF NoKey, Never
    <3> QED
      BY <1>0, <1>1, <2>1, <2>2, <3>2
  <2>3. CASE ~(key[k].until <= now + 1)
    <3>1. key'[k] = key[k]
      BY <1>1, <2>3
    <3> QED
      BY <1>0, <1>1, <2>1, <3>1
  <2> QED
    BY <2>2, <2>3
<1>6. LonePingInv'
  <2>1. \A k \in Keys : key'[k].at = key[k].at \/ key'[k].at = Never
    BY <1>1 DEF NoKey
  <2> QED
    BY <1>1, <1>2, <2>1 DEF ServerInv, LonePingInv
<1>7. ServerGrows
  BY <1>0, <1>1, HealthBounds DEF ServerGrows
<1> QED
  BY <1>3, <1>4, <1>5, <1>6, <1>7 DEF ServerHolds

\* A ping is taken: two that meet are noted.
LEMMA PingBeginsServer ==
  ASSUME HealthTypeOK, ServerInv, NEW w \in Workers, PingBegins(w)
  PROVE  ServerHolds
<1>0. /\ now \in Nat /\ lastPing \in Nat /\ completed \in Nat /\ pings \in Nat /\ MaxPings \in Nat
      /\ now \in Times
  BY HealthNumbers, HealthBounds DEF HealthTypeOK
<1>1. /\ ping[w].pc = "idle" /\ pings < MaxPings /\ pings' = pings + 1
      /\ ping' = [ping EXCEPT ![w] = [pc |-> "began", at |-> now]]
      /\ pingsMet' = (pingsMet \/ \E v \in Workers : ping[v].pc # "idle")
      /\ now' = now /\ key' = key /\ lastPing' = lastPing /\ completed' = completed
      /\ load' = load /\ cache' = cache /\ shown' = shown /\ seq' = seq
      /\ lateAnswer' = lateAnswer /\ timeouts' = timeouts
  BY DEF PingBegins, browser
<1>2. /\ ping' \in [Workers -> [pc : {"idle", "began", "half"}, at : Times]]
      /\ ping'[w].pc = "began" /\ ping'[w].at = now
      /\ \A v \in Workers \ {w} : ping'[v] = ping[v]
  BY <1>0, <1>1 DEF HealthTypeOK
<1>3. \A k \in Keys : Latest(k)' = Latest(k)
  BY <1>1 DEF Latest
<1>4. ServerTypeOK'
  BY <1>0, <1>1, <1>2 DEF HealthTypeOK, ServerTypeOK
<1>5. PingInv'
  BY <1>0, <1>1, <1>2 DEF ServerInv, PingInv
<1>6. KeyInv'
  BY <1>1, <1>3 DEF ServerInv, KeyInv
<1>7. LonePingInv'
  <2> SUFFICES ASSUME ~pingsMet' PROVE LonePingInv'
    BY DEF LonePingInv
  <2>1. ~pingsMet /\ \A v \in Workers : ping[v].pc = "idle"
    BY <1>1
  <2>2. \A v \in Workers : ping'[v].pc # "idle" => v = w
    BY <1>2, <2>1
  <2>3. now >= lastPing
    BY DEF ServerInv, PingInv
  <2>4. \A k \in Keys : key'[k].at # Never => key'[k].at = Latest(k)'
    BY <1>1, <1>3, <2>1 DEF ServerInv, LonePingInv
  <2>5. \A v \in Workers : /\ ping'[v].pc = "began" => ping'[v].at >= lastPing'
                           /\ ping'[v].pc = "half" => ping'[v].at = lastPing'
    BY <1>1, <1>2, <2>2, <2>3
  <2>6. \A u, v \in Workers : ping'[u].pc # "idle" /\ ping'[v].pc # "idle" => u = v
    BY <2>2
  <2> QED
    BY <2>4, <2>5, <2>6 DEF LonePingInv
<1>8. ServerGrows
  <2>1. /\ now' = now /\ lastPing' = lastPing /\ completed' = completed /\ (pingsMet => pingsMet')
        /\ load' = load /\ cache' = cache /\ shown' = shown /\ seq' = seq
        /\ lateAnswer' = lateAnswer /\ timeouts' = timeouts
    BY <1>1
  <2> QED
    BY <1>0, <2>1 DEF ServerGrows
<1> QED
  BY <1>4, <1>5, <1>6, <1>7, <1>8 DEF ServerHolds

\* The first command of a ping: nobody else has changed a key since it was taken,
\* or two pings have met.
LEMMA WriteBeatServer ==
  ASSUME HealthTypeOK, ServerInv, NEW w \in Workers, WriteBeat(w)
  PROVE  ServerHolds
<1>0. /\ now \in Nat /\ now <= Horizon /\ lastPing \in Nat /\ completed \in Nat /\ KeyLife \in Nat
      /\ Horizon \in Nat /\ ping[w].at \in Nat /\ ping[w].at \in Times
      /\ \A k \in Keys : key[k].at \in Nat /\ key[k].until \in Nat
      /\ Never = 0
  BY HealthNumbers, HealthBounds DEF HealthTypeOK, Never
<1>1. /\ ping[w].pc = "began"
      /\ key' = [key EXCEPT !["beat"] = [at |-> ping[w].at, until |-> now + KeyLife]]
      /\ lastPing' = Later(lastPing, ping[w].at)
      /\ ping' = [ping EXCEPT ![w].pc = "half"]
      /\ now' = now /\ pings' = pings /\ completed' = completed /\ pingsMet' = pingsMet
      /\ load' = load /\ cache' = cache /\ shown' = shown /\ seq' = seq
      /\ lateAnswer' = lateAnswer /\ timeouts' = timeouts
  BY DEF WriteBeat, browser
<1>2. /\ ping' \in [Workers -> [pc : {"idle", "began", "half"}, at : Times]]
      /\ ping'[w].pc = "half" /\ ping'[w].at = ping[w].at
      /\ \A v \in Workers \ {w} : ping'[v] = ping[v]
  BY <1>1 DEF HealthTypeOK
<1>3. lastPing' \in Nat /\ lastPing' >= lastPing /\ lastPing' >= ping[w].at
      /\ (lastPing' = lastPing \/ lastPing' = ping[w].at)
  BY <1>0, <1>1 DEF Later
<1>4. /\ key'["beat"].at = ping[w].at /\ key'["beat"].until = now + KeyLife
      /\ key'["worker"] = key["worker"]
      /\ key' \in [Keys -> [at : Times, until : 0 .. Horizon + KeyLife]]
  <2>1. now + KeyLife \in 0 .. Horizon + KeyLife
    BY <1>0
  <2>2. [at |-> ping[w].at, until |-> now + KeyLife] \in [at : Times, until : 0 .. Horizon + KeyLife]
    BY <1>0, <2>1
  <2>3. key \in [Keys -> [at : Times, until : 0 .. Horizon + KeyLife]] /\ Keys = {"beat", "worker"}
    BY DEF HealthTypeOK, Keys
  <2> QED
    BY <1>1, <2>2, <2>3
<1>5. Latest("beat") = lastPing /\ Latest("beat")' = lastPing'
      /\ Latest("worker") = completed /\ Latest("worker")' = completed
      /\ \A k \in Keys : k = "beat" \/ k = "worker"
  BY <1>1 DEF Latest, Keys
<1>6. ping[w].at >= 1 /\ ping[w].at <= now /\ lastPing <= now /\ completed <= lastPing
  BY <1>1 DEF ServerInv, PingInv
<1>7. ServerTypeOK'
  <2>1. lastPing' \in Times
    BY <1>0, <1>1 DEF Later, HealthTypeOK
  <2> QED
    BY <1>1, <1>2, <1>4, <2>1 DEF HealthTypeOK, ServerTypeOK
<1>8. PingInv'
  <2>1. \A v \in Workers : /\ ping[v].at \in Nat
                           /\ ping[v].pc # "idle" => ping[v].at >= 1 /\ ping[v].at <= now
                           /\ ping[v].pc = "half" => ping[v].at <= lastPing
    BY HealthNumbers DEF ServerInv, PingInv
  <2>2. \A v \in Workers : ping'[v].pc # "idle" => ping'[v].at >= 1 /\ ping'[v].at <= now
    BY <1>2, <1>6, <2>1
  <2>3. \A v \in Workers : ping'[v].pc = "half" => ping'[v].at <= lastPing'
    BY <1>0, <1>2, <1>3, <2>1
  <2>4. now >= 1 /\ completed <= lastPing' /\ lastPing' <= now
    BY <1>0, <1>3, <1>6
  <2> QED
    BY <1>1, <2>2, <2>3, <2>4 DEF PingInv
<1>9. KeyInv'
  <2>1. key'["beat"].at <= lastPing' /\ key'["beat"].at # Never
        /\ key'["beat"].until >= lastPing' + KeyLife
    <3>1. ping[w].at <= lastPing' /\ ping[w].at # Never
      BY <1>0, <1>3, <1>6
    <3>2. lastPing' <= now
      BY <1>3, <1>6
    <3>3. now \in Nat /\ KeyLife \in Nat /\ lastPing' \in Nat
      BY <1>0, <1>3
    <3>4. now + KeyLife >= lastPing' + KeyLife
      BY <3>2, <3>3, LaterBySame
    <3> QED
      BY <1>4, <3>1, <3>4
  <2>2. /\ key["worker"].at <= completed
        /\ key["worker"].at # Never => key["worker"].until >= completed + KeyLife
        /\ key["worker"].at = Never => completed = Never \/ completed + KeyLife <= now
    BY <1>5 DEF ServerInv, KeyInv, Keys
  <2> QED
    BY <1>1, <1>4, <1>5, <2>1, <2>2 DEF KeyInv
<1>10. LonePingInv'
  <2> SUFFICES ASSUME ~pingsMet PROVE LonePingInv'
    BY <1>1 DEF LonePingInv
  <2>1. /\ \A v \in Workers : ping[v].pc # "idle" => v = w
        /\ ping[w].at >= lastPing
        /\ key["worker"].at # Never => key["worker"].at = completed
    BY <1>1, <1>5 DEF ServerInv, LonePingInv, Keys
  <2>2. \A v \in Workers : ping'[v].pc # "idle" => v = w
    BY <1>2, <2>1
  <2>3. lastPing' = ping[w].at
    BY <1>0, <1>3, <2>1
  <2>4. \A k \in Keys : key'[k].at # Never => key'[k].at = Latest(k)'
    BY <1>4, <1>5, <2>1, <2>3
  <2> QED
    BY <1>2, <2>2, <2>3, <2>4 DEF LonePingInv
<1>11. ServerGrows
  BY <1>0, <1>1, <1>3 DEF ServerGrows
<1> QED
  BY <1>7, <1>8, <1>9, <1>10, <1>11 DEF ServerHolds

\* The second command: a worker has completed a ping.
LEMMA WriteWorkerServer ==
  ASSUME HealthTypeOK, ServerInv, NEW w \in Workers, WriteWorker(w)
  PROVE  ServerHolds
<1>0. /\ now \in Nat /\ now <= Horizon /\ lastPing \in Nat /\ completed \in Nat /\ KeyLife \in Nat
      /\ Horizon \in Nat /\ ping[w].at \in Nat /\ ping[w].at \in Times
      /\ \A k \in Keys : key[k].at \in Nat /\ key[k].until \in Nat
      /\ Never = 0 /\ Never \in Times
  BY HealthNumbers, HealthBounds DEF HealthTypeOK, Never, Times
<1>1. /\ ping[w].pc = "half"
      /\ key' = [key EXCEPT !["worker"] = [at |-> ping[w].at, until |-> now + KeyLife]]
      /\ completed' = Later(completed, ping[w].at)
      /\ ping' = [ping EXCEPT ![w] = [pc |-> "idle", at |-> Never]]
  BY DEF WriteWorker
<1>2. /\ now' = now /\ pings' = pings /\ lastPing' = lastPing /\ pingsMet' = pingsMet
      /\ load' = load /\ cache' = cache /\ shown' = shown /\ seq' = seq
      /\ lateAnswer' = lateAnswer /\ timeouts' = timeouts
  BY DEF WriteWorker, browser
<1>3. /\ ping' \in [Workers -> [pc : {"idle", "began", "half"}, at : Times]]
      /\ ping'[w].pc = "idle"
      /\ \A v \in Workers \ {w} : ping'[v] = ping[v]
  BY <1>0, <1>1 DEF HealthTypeOK
<1>4. completed' \in Nat /\ completed' >= completed /\ completed' >= ping[w].at
      /\ (completed' = completed \/ completed' = ping[w].at)
  BY <1>0, <1>1 DEF Later
<1>5. /\ key'["worker"].at = ping[w].at /\ key'["worker"].until = now + KeyLife
      /\ key'["beat"] = key["beat"]
      /\ key' \in [Keys -> [at : Times, until : 0 .. Horizon + KeyLife]]
  <2>1. now + KeyLife \in 0 .. Horizon + KeyLife
    BY <1>0
  <2>2. [at |-> ping[w].at, until |-> now + KeyLife] \in [at : Times, until : 0 .. Horizon + KeyLife]
    BY <1>0, <2>1
  <2>3. key \in [Keys -> [at : Times, until : 0 .. Horizon + KeyLife]] /\ Keys = {"beat", "worker"}
    BY DEF HealthTypeOK, Keys
  <2> QED
    BY <1>1, <2>2, <2>3
<1>6. /\ Latest("beat") = lastPing /\ Latest("beat")' = lastPing
      /\ Latest("worker") = completed /\ Latest("worker")' = completed'
      /\ \A k \in Keys : k = "beat" \/ k = "worker"
  BY <1>2 DEF Latest, Keys
<1>7. /\ now >= 1 /\ ping[w].at >= 1 /\ ping[w].at <= lastPing
      /\ lastPing <= now /\ completed <= lastPing
  BY <1>1 DEF ServerInv, PingInv
<1>8. ServerTypeOK'
  <2>1. completed' \in Times
    BY <1>0, <1>1 DEF Later, HealthTypeOK
  <2> QED
    BY <1>2, <1>3, <1>5, <2>1 DEF HealthTypeOK, ServerTypeOK
<1>9. PingInv'
  <2>1. \A v \in Workers : /\ ping[v].pc # "idle" => ping[v].at >= 1 /\ ping[v].at <= now
                           /\ ping[v].pc = "half" => ping[v].at <= lastPing
    BY DEF ServerInv, PingInv
  <2>2. \A v \in Workers : /\ ping'[v].pc # "idle" => ping'[v].at >= 1 /\ ping'[v].at <= now
                           /\ ping'[v].pc = "half" => ping'[v].at <= lastPing
    BY <1>3, <2>1
  <2>3. completed' <= lastPing
    BY <1>4, <1>7
  <2> QED
    BY <1>2, <1>7, <2>2, <2>3 DEF PingInv
<1>10. KeyInv'
  <2>1. ping[w].at <= completed' /\ ping[w].at # 0 /\ now + KeyLife >= completed' + KeyLife
    BY <1>0, <1>4, <1>7
  <2>2. key'["worker"].at <= completed' /\ key'["worker"].at # Never
        /\ key'["worker"].until >= completed' + KeyLife
    BY <1>0, <1>5, <2>1
  <2>3. /\ key["beat"].at <= lastPing
        /\ key["beat"].at # Never => key["beat"].until >= lastPing + KeyLife
        /\ key["beat"].at = Never => lastPing = Never \/ lastPing + KeyLife <= now
    BY <1>6 DEF ServerInv, KeyInv, Keys
  <2> QED
    BY <1>2, <1>5, <1>6, <2>2, <2>3 DEF KeyInv
<1>11. LonePingInv'
  <2> SUFFICES ASSUME ~pingsMet PROVE LonePingInv'
    BY <1>2 DEF LonePingInv
  <2>1. /\ \A v \in Workers : ping[v].pc # "idle" => v = w
        /\ ping[w].at = lastPing
        /\ key["beat"].at # Never => key["beat"].at = lastPing
    BY <1>1, <1>6 DEF ServerInv, LonePingInv, Keys
  <2>2. \A v \in Workers : ping'[v].pc = "idle"
    BY <1>3, <2>1
  <2>3. completed' = ping[w].at
    BY <1>0, <1>4, <1>7, <2>1
  <2>4. \A k \in Keys : key'[k].at # Never => key'[k].at = Latest(k)'
    BY <1>5, <1>6, <2>1, <2>3
  <2> QED
    BY <2>2, <2>4 DEF LonePingInv
<1>12. ServerGrows
  BY <1>0, <1>2, <1>4 DEF ServerGrows
<1> QED
  BY <1>8, <1>9, <1>10, <1>11, <1>12 DEF ServerHolds

\* A ping that dies, before or between its commands.
LEMMA PingFailsServer ==
  ASSUME HealthTypeOK, ServerInv, NEW w \in Workers, PingFails(w)
  PROVE  ServerHolds
<1>0. now \in Nat /\ lastPing \in Nat /\ completed \in Nat /\ Never \in Times
  BY HealthNumbers, HealthBounds DEF Never, Times
<1>1. ping' = [ping EXCEPT ![w] = [pc |-> "idle", at |-> Never]]
  BY DEF PingFails
<1>2. /\ now' = now /\ pings' = pings /\ key' = key /\ lastPing' = lastPing
      /\ completed' = completed /\ pingsMet' = pingsMet
      /\ load' = load /\ cache' = cache /\ shown' = shown /\ seq' = seq
      /\ lateAnswer' = lateAnswer /\ timeouts' = timeouts
  BY DEF PingFails, browser
<1>3. /\ ping' \in [Workers -> [pc : {"idle", "began", "half"}, at : Times]]
      /\ ping'[w].pc = "idle"
      /\ \A v \in Workers \ {w} : ping'[v] = ping[v]
  BY <1>0, <1>1 DEF HealthTypeOK
<1>4. \A k \in Keys : Latest(k)' = Latest(k)
  BY <1>2 DEF Latest
<1>5. ServerTypeOK'
  BY <1>2, <1>3 DEF HealthTypeOK, ServerTypeOK
<1>6. PingInv'
  BY <1>2, <1>3 DEF ServerInv, PingInv
<1>7. KeyInv'
  BY <1>2, <1>4 DEF ServerInv, KeyInv
<1>8. LonePingInv'
  <2> SUFFICES ASSUME ~pingsMet PROVE LonePingInv'
    BY <1>2 DEF LonePingInv
  <2>1. \A u, v \in Workers : ping'[u].pc # "idle" /\ ping'[v].pc # "idle" => u = v
    BY <1>3 DEF ServerInv, LonePingInv
  <2>2. \A v \in Workers : /\ ping'[v].pc = "began" => ping'[v].at >= lastPing
                           /\ ping'[v].pc = "half" => ping'[v].at = lastPing
    BY <1>3 DEF ServerInv, LonePingInv
  <2>3. \A k \in Keys : key[k].at # Never => key[k].at = Latest(k)
    BY DEF ServerInv, LonePingInv
  <2> QED
    BY <1>2, <1>4, <2>1, <2>2, <2>3 DEF LonePingInv
<1>9. ServerGrows
  BY <1>0, <1>2 DEF ServerGrows
<1> QED
  BY <1>5, <1>6, <1>7, <1>8, <1>9 DEF ServerHolds

\* Whatever the server does, an answer keeps its reason.
LEMMA ServerKeepsAnswers ==
  ASSUME HealthTypeOK, ServerGrows, RequestsInv, AnswerInv, PanelInv
  PROVE  RequestsInv' /\ AnswerInv' /\ PanelInv'
<1>0. /\ now \in Nat /\ lastPing \in Nat /\ completed \in Nat /\ Limit \in Nat /\ KeyLife \in Nat
      /\ ReadTime \in Nat /\ Never = 0
      /\ \A l \in Loads : /\ load[l].checked \in Nat /\ load[l].base \in Nat
                          /\ \A k \in Keys : load[l].seen[k] \in Nat
  BY HealthNumbers, HealthBounds DEF Never
<1>1. /\ load' = load /\ cache' = cache /\ shown' = shown /\ seq' = seq /\ lateAnswer' = lateAnswer
      /\ now' \in Nat /\ lastPing' \in Nat /\ completed' \in Nat
      /\ now <= now' /\ lastPing <= lastPing' /\ completed <= completed'
      /\ pingsMet => pingsMet'
      /\ \A l \in Loads : load[l].pending # {} /\ now # now' => now' <= load[l].checked + ReadTime
  BY DEF ServerGrows
<1>2. \A k \in Keys : Latest(k) \in Nat /\ Latest(k)' \in Nat /\ Latest(k) <= Latest(k)'
  BY <1>0, <1>1 DEF Latest
<1>3. RequestsInv'
  <2> SUFFICES ASSUME NEW l \in Loads
               PROVE  /\ load[l].pc # "reading" => load[l].pending = {} /\ load[l].seen = Idle.seen
                      /\ load[l].pending # {} => now' <= load[l].checked + ReadTime
                      /\ load[l].pc = "reading" => AskedInv(load[l])'
    BY <1>1 DEF RequestsInv
  <2>1. load[l].pc # "reading" => load[l].pending = {} /\ load[l].seen = Idle.seen
    BY DEF RequestsInv
  <2>2. load[l].pending # {} => now' <= load[l].checked + ReadTime
    BY <1>1 DEF RequestsInv
  <2>3. ASSUME load[l].pc = "reading"
        PROVE  /\ load[l].base <= completed'
               /\ \A k \in Keys : load[l].seen[k] <= Latest(k)'
               /\ "worker" \notin load[l].pending /\ ~load[l].failed /\ load[l].seen["worker"] = Never =>
                    load[l].base = Never \/ load[l].base + KeyLife <= now'
               /\ ~pingsMet' /\ ~load[l].failed /\ load[l].base # Never
                    /\ load[l].checked < load[l].base + Limit =>
                    \A k \in Keys \ load[l].pending :
                      load[l].seen[k] # Never /\ load[l].checked < load[l].seen[k] + Limit
    <3>1. AskedInv(load[l])
      BY <2>3 DEF RequestsInv
    <3>2. load[l].base <= completed'
      BY <1>0, <1>1, <3>1 DEF AskedInv
    <3>3. \A k \in Keys : load[l].seen[k] <= Latest(k)'
      BY <1>0, <1>2, <3>1 DEF AskedInv
    <3>4. "worker" \notin load[l].pending /\ ~load[l].failed /\ load[l].seen["worker"] = Never =>
            load[l].base = Never \/ load[l].base + KeyLife <= now'
      BY <1>0, <1>1, <3>1 DEF AskedInv
    <3>5. ~pingsMet' /\ ~load[l].failed /\ load[l].base # Never
            /\ load[l].checked < load[l].base + Limit =>
            \A k \in Keys \ load[l].pending :
              load[l].seen[k] # Never /\ load[l].checked < load[l].seen[k] + Limit
      BY <1>1, <3>1 DEF AskedInv
    <3> QED
      BY <3>2, <3>3, <3>4, <3>5
  <2>4. load[l].pc = "reading" => AskedInv(load[l])'
    BY <1>1, <2>3 DEF AskedInv
  <2> QED
    BY <2>1, <2>2, <2>4
<1>4. OkMeansRecentPing'
  <2> SUFFICES ASSUME NEW l \in Loads, load[l].pc = "answered", load[l].ok
               PROVE  /\ lastPing' # Never /\ load[l].checked < lastPing' + Limit
                      /\ \/ completed' # Never /\ load[l].checked < completed' + Limit
                         \/ load[l].base = Never \/ load[l].base + KeyLife <= now'
                         \/ load[l].failed
    BY <1>1 DEF OkMeansRecentPing
  <2>1. /\ lastPing # Never /\ load[l].checked < lastPing + Limit
        /\ \/ completed # Never /\ load[l].checked < completed + Limit
           \/ load[l].base = Never \/ load[l].base + KeyLife <= now
           \/ load[l].failed
    BY DEF AnswerInv, OkMeansRecentPing
  <2> QED
    BY <1>0, <1>1, <2>1
<1>5. DegradedHasAReason'
  BY <1>1 DEF AnswerInv, DegradedHasAReason
<1>6. PanelInv'
  BY <1>1 DEF PanelInv, SeqInv, NewestInv, CacheInv, InFlight
<1> QED
  BY <1>3, <1>4, <1>5, <1>6 DEF AnswerInv

LEMMA ServerKeepsHealth ==
  ASSUME HealthInv, ServerStep
  PROVE  HealthInv'
<1>1. HealthTypeOK /\ ServerInv /\ RequestsInv /\ AnswerInv /\ PanelInv
  BY DEF HealthInv
<1>2. ServerHolds
  BY <1>1, TickServer, PingBeginsServer, WriteBeatServer, WriteWorkerServer, PingFailsServer
     DEF ServerStep
<1>3. HealthTypeOK'
  BY <1>1, <1>2 DEF ServerHolds, ServerTypeOK, ServerGrows, HealthTypeOK
<1>4. RequestsInv' /\ AnswerInv' /\ PanelInv'
  BY <1>1, <1>2, ServerKeepsAnswers DEF ServerHolds
<1> QED
  BY <1>2, <1>3, <1>4 DEF ServerHolds, ServerInv, HealthInv

-----------------------------------------------------------------------------
(* GET /runtime/health                                                      *)

\* One request moves, and the server stands still.
LoadMoves(l, new) ==
  /\ load' = [load EXCEPT ![l] = new]
  /\ now' = now /\ pings' = pings /\ ping' = ping /\ key' = key /\ lastPing' = lastPing
  /\ completed' = completed /\ pingsMet' = pingsMet
  /\ timeouts' \in 0 .. MaxTimeouts

MovesAtApi(l, new) ==
  /\ LoadMoves(l, new)
  /\ cache' = cache /\ shown' = shown /\ seq' = seq /\ lateAnswer' = lateAnswer
  /\ load[l].pc # "idle" /\ load[l].pc # "settled" /\ new.pc # "idle" /\ new.pc # "settled"
  /\ new.seq = load[l].seq

RequestHolds(q) ==
  /\ q.pc # "reading" => q.pending = {} /\ q.seen = Idle.seen
  /\ q.pending # {} => now <= q.checked + ReadTime
  /\ q.pc = "reading" => AskedInv(q)

OkHolds(q) ==
  q.pc = "answered" /\ q.ok =>
    /\ lastPing # Never /\ q.checked < lastPing + Limit
    /\ \/ completed # Never /\ q.checked < completed + Limit
       \/ q.base = Never \/ q.base + KeyLife <= now
       \/ q.failed

DegradedHolds(q) ==
  q.pc = "answered" /\ ~q.ok /\ ~pingsMet =>
    q.failed \/ q.base = Never \/ q.base + Limit <= q.checked

LEMMA MovedLoad ==
  ASSUME HealthTypeOK, NEW l \in Loads, NEW new \in LoadType, LoadMoves(l, new)
  PROVE  /\ load' \in [Loads -> LoadType] /\ load'[l] = new
         /\ \A m \in Loads \ {l} : load'[m] = load[m]
  BY DEF HealthTypeOK, LoadMoves

\* What holds of the request that moves holds of all.
LEMMA MovedRequest ==
  ASSUME HealthTypeOK, ServerInv, RequestsInv, AnswerInv,
         NEW l \in Loads, NEW new \in LoadType, LoadMoves(l, new),
         RequestHolds(new), OkHolds(new), DegradedHolds(new)
  PROVE  ServerInv' /\ RequestsInv' /\ AnswerInv'
<1>1. /\ now' = now /\ pings' = pings /\ ping' = ping /\ key' = key /\ lastPing' = lastPing
      /\ completed' = completed /\ pingsMet' = pingsMet
  BY DEF LoadMoves
<1>2. load'[l] = new /\ \A m \in Loads \ {l} : load'[m] = load[m]
  BY MovedLoad
<1>3. \A k \in Keys : Latest(k)' = Latest(k)
  BY <1>1 DEF Latest
<1>4. ServerInv'
  BY <1>1, <1>3 DEF ServerInv, PingInv, KeyInv, LonePingInv
<1>5. \A m \in Loads : RequestHolds(load'[m]) /\ OkHolds(load'[m]) /\ DegradedHolds(load'[m])
  <2>1. \A m \in Loads : RequestHolds(load[m])
    BY DEF RequestHolds, RequestsInv
  <2>2. \A m \in Loads : OkHolds(load[m]) /\ DegradedHolds(load[m])
    BY DEF OkHolds, DegradedHolds, AnswerInv, OkMeansRecentPing, DegradedHasAReason
  <2> QED
    BY <1>2, <2>1, <2>2
<1>6. RequestsInv'
  <2> SUFFICES ASSUME NEW m \in Loads
               PROVE  /\ load'[m].pc # "reading" => load'[m].pending = {} /\ load'[m].seen = Idle.seen
                      /\ load'[m].pending # {} => now' <= load'[m].checked + ReadTime
                      /\ load'[m].pc = "reading" => AskedInv(load[m])'
    BY DEF RequestsInv
  <2>1. RequestHolds(load'[m])
    BY <1>5
  <2>2. AskedInv(load'[m]) => AskedInv(load[m])'
    BY <1>1, <1>3 DEF AskedInv
  <2> QED
    BY <1>1, <2>1, <2>2 DEF RequestHolds
<1>7. AnswerInv'
  BY <1>1, <1>5 DEF OkHolds, DegradedHolds, AnswerInv, OkMeansRecentPing, DegradedHasAReason
<1> QED
  BY <1>4, <1>6, <1>7

LEMMA ApiKeepsPanel ==
  ASSUME HealthTypeOK, PanelInv, NEW l \in Loads, NEW new \in LoadType, MovesAtApi(l, new)
  PROVE  PanelInv'
<1>1. /\ cache' = cache /\ shown' = shown /\ seq' = seq /\ lateAnswer' = lateAnswer
      /\ load[l].pc # "idle" /\ load[l].pc # "settled" /\ new.pc # "idle" /\ new.pc # "settled"
      /\ new.seq = load[l].seq
  BY DEF MovesAtApi
<1>2. load'[l] = new /\ \A m \in Loads \ {l} : load'[m] = load[m]
  BY MovedLoad DEF MovesAtApi
<1>3. \A m \in Loads : InFlight(m)' = InFlight(m) /\ load'[m].seq = load[m].seq
  BY <1>1, <1>2 DEF InFlight
<1>4. SeqInv'
  BY <1>1, <1>3 DEF PanelInv, SeqInv
<1>5. NewestInv'
  BY <1>1, <1>2, <1>3 DEF PanelInv, NewestInv
<1>6. CacheInv'
  BY <1>1, <1>2 DEF PanelInv, CacheInv
<1> QED
  BY <1>4, <1>5, <1>6 DEF PanelInv

LEMMA ApiKeepsHealth ==
  ASSUME HealthInv, NEW l \in Loads, NEW new \in LoadType, MovesAtApi(l, new),
         RequestHolds(new), OkHolds(new), DegradedHolds(new)
  PROVE  HealthInv'
<1>1. HealthTypeOK /\ ServerInv /\ RequestsInv /\ AnswerInv /\ PanelInv /\ LoadMoves(l, new)
  BY DEF HealthInv, MovesAtApi
<1>2. HealthTypeOK'
  BY <1>1, MovedLoad DEF HealthTypeOK, LoadMoves, MovesAtApi
<1>3. ServerInv' /\ RequestsInv' /\ AnswerInv'
  BY <1>1, MovedRequest
<1>4. PanelInv'
  BY <1>1, ApiKeepsPanel
<1> QED
  BY <1>2, <1>3, <1>4 DEF HealthInv

\* The time is taken, the reads begin.
LEMMA HealthBeginsStep ==
  ASSUME HealthInv, NEW l \in Loads, HealthBegins(l)
  PROVE  HealthInv'
<1> DEFINE new == [load[l] EXCEPT !.pc = "reading", !.checked = now, !.pending = Keys,
                                  !.base = completed]
<1>1. HealthTypeOK /\ load[l] \in LoadType /\ load[l].pc = "asked"
  BY DEF HealthInv, HealthTypeOK, HealthBegins
<1>2. /\ new \in LoadType /\ new.pc = "reading" /\ new.checked = now /\ new.pending = Keys
      /\ new.base = completed /\ new.seen = load[l].seen /\ new.seq = load[l].seq
  BY <1>1 DEF LoadType, HealthTypeOK
<1>3. MovesAtApi(l, new)
  BY <1>1, <1>2 DEF HealthBegins, server, MovesAtApi, LoadMoves, HealthTypeOK
<1> HIDE DEF new
<1>4. now \in Nat /\ completed \in Nat /\ ReadTime \in Nat /\ \A k \in Keys : Latest(k) \in Nat
  BY <1>1, HealthNumbers, HealthBounds
<1>5. new.seen = [k \in Keys |-> Never]
  BY <1>1, <1>2, IdleLoad DEF HealthInv, RequestsInv
<1>6. AskedInv(new)
  BY <1>2, <1>4, <1>5 DEF AskedInv, Never, Keys
<1>7. RequestHolds(new) /\ OkHolds(new) /\ DegradedHolds(new)
  BY <1>2, <1>4, <1>6 DEF RequestHolds, OkHolds, DegradedHolds
<1> QED
  BY <1>2, <1>3, <1>7, ApiKeepsHealth

\* A key is read: a time that is fresh by completed is there to be read, since the
\* key outlives the limit and the time the read may take.
LEMMA ReadStep ==
  ASSUME HealthInv, NEW l \in Loads, NEW k \in Keys, Read(l, k)
  PROVE  HealthInv'
<1> DEFINE new == [load[l] EXCEPT !.pending = load[l].pending \ {k},
                     !.seen = [j \in Keys |-> IF j = k THEN key[j].at ELSE load[l].seen[j]]]
<1>1. HealthTypeOK /\ load[l] \in LoadType /\ load[l].pc = "reading" /\ k \in load[l].pending
  BY DEF HealthInv, HealthTypeOK, Read
<1>2. /\ new \in LoadType /\ new.pc = "reading" /\ new.checked = load[l].checked
      /\ new.pending = load[l].pending \ {k} /\ new.failed = load[l].failed
      /\ new.base = load[l].base /\ new.seq = load[l].seq
      /\ new.seen = [j \in Keys |-> IF j = k THEN key[j].at ELSE load[l].seen[j]]
  <2>1. \A j \in Keys : key[j].at \in Times /\ load[l].seen[j] \in Times
    BY <1>1 DEF HealthTypeOK, LoadType
  <2>2. [j \in Keys |-> IF j = k THEN key[j].at ELSE load[l].seen[j]] \in [Keys -> Times]
    BY <2>1
  <2> QED
    BY <1>1, <2>2 DEF LoadType
<1>3. MovesAtApi(l, new)
  BY <1>1, <1>2 DEF Read, server, MovesAtApi, LoadMoves, HealthTypeOK
<1> HIDE DEF new
<1>4. /\ now \in Nat /\ completed \in Nat /\ lastPing \in Nat /\ ReadTime \in Nat /\ Limit \in Nat
      /\ KeyLife \in Nat /\ Limit + ReadTime <= KeyLife /\ Never = 0
      /\ load[l].checked \in Nat /\ load[l].base \in Nat
      /\ key[k].at \in Nat /\ key[k].until \in Nat
      /\ \A j \in Keys : Latest(j) \in Nat
      /\ completed <= lastPing
  BY <1>1, HealthNumbers, HealthBounds DEF Never, HealthInv, ServerInv, PingInv
<1>5. AskedInv(load[l]) /\ now <= load[l].checked + ReadTime
  BY <1>1 DEF HealthInv, RequestsInv
<1>6. /\ key[k].at <= Latest(k)
      /\ key[k].at # Never => key[k].until >= Latest(k) + KeyLife
      /\ key[k].at = Never => Latest(k) = Never \/ Latest(k) + KeyLife <= now
  BY DEF HealthInv, ServerInv, KeyInv
<1>7. load[l].base <= completed /\ load[l].base <= Latest(k) /\ (k = "worker" => Latest(k) = completed)
  BY <1>4, <1>5 DEF AskedInv, Latest
<1>8. \A j \in Keys : new.seen[j] <= Latest(j)
  BY <1>2, <1>5, <1>6 DEF AskedInv
<1>9. "worker" \notin new.pending /\ ~new.failed /\ new.seen["worker"] = Never =>
        new.base = Never \/ new.base + KeyLife <= now
  <2>1. CASE k = "worker"
    BY <1>2, <1>4, <1>6, <1>7, <2>1
  <2>2. CASE k # "worker"
    BY <1>2, <1>5, <2>2 DEF AskedInv, Keys
  <2> QED
    BY <2>1, <2>2
<1>10. ASSUME ~pingsMet, ~new.failed, new.base # Never, new.checked < new.base + Limit
       PROVE  \A j \in Keys \ new.pending : new.seen[j] # Never /\ new.checked < new.seen[j] + Limit
  <2>1. key[k].at # Never
    BY <1>2, <1>4, <1>5, <1>6, <1>7, <1>10
  <2>2. key[k].at = Latest(k)
    BY <1>10, <2>1 DEF HealthInv, ServerInv, LonePingInv
  <2>3. load[l].checked < key[k].at + Limit
    BY <1>2, <1>4, <1>7, <1>10, <2>2
  <2>4. \A j \in Keys \ load[l].pending :
          load[l].seen[j] # Never /\ load[l].checked < load[l].seen[j] + Limit
    BY <1>2, <1>5, <1>10 DEF AskedInv
  <2> QED
    BY <1>2, <2>1, <2>3, <2>4
<1>11. AskedInv(new)
  BY <1>2, <1>7, <1>8, <1>9, <1>10 DEF AskedInv
<1>12. RequestHolds(new) /\ OkHolds(new) /\ DegradedHolds(new)
  BY <1>2, <1>5, <1>11 DEF RequestHolds, OkHolds, DegradedHolds
<1> QED
  BY <1>2, <1>3, <1>12, ApiKeepsHealth

\* A read that times out is remembered as a failure.
LEMMA ReadTimesOutStep ==
  ASSUME HealthInv, NEW l \in Loads, NEW k \in Keys, ReadTimesOut(l, k)
  PROVE  HealthInv'
<1> DEFINE new == [load[l] EXCEPT !.pending = load[l].pending \ {k}, !.failed = TRUE]
<1>1. HealthTypeOK /\ load[l] \in LoadType /\ load[l].pc = "reading" /\ k \in load[l].pending
  BY DEF HealthInv, HealthTypeOK, ReadTimesOut
<1>2. /\ new \in LoadType /\ new.pc = "reading" /\ new.checked = load[l].checked
      /\ new.pending = load[l].pending \ {k} /\ new.failed
      /\ new.base = load[l].base /\ new.seq = load[l].seq /\ new.seen = load[l].seen
  BY <1>1 DEF LoadType
<1>3. timeouts' \in 0 .. MaxTimeouts
  <2>1. timeouts \in Nat /\ MaxTimeouts \in Nat /\ timeouts < MaxTimeouts /\ timeouts' = timeouts + 1
    BY <1>1, HealthNumbers, HealthBounds DEF ReadTimesOut
  <2> QED
    BY <2>1
<1>4. MovesAtApi(l, new)
  BY <1>1, <1>2, <1>3 DEF ReadTimesOut, server, MovesAtApi, LoadMoves
<1> HIDE DEF new
<1>5. AskedInv(load[l]) /\ now <= load[l].checked + ReadTime
  BY <1>1 DEF HealthInv, RequestsInv
<1>6. AskedInv(new)
  BY <1>2, <1>5 DEF AskedInv
<1>7. RequestHolds(new) /\ OkHolds(new) /\ DegradedHolds(new)
  BY <1>2, <1>5, <1>6 DEF RequestHolds, OkHolds, DegradedHolds
<1> QED
  BY <1>2, <1>4, <1>7, ApiKeepsHealth

\* The verdict.
LEMMA HealthAnswersStep ==
  ASSUME HealthInv, NEW l \in Loads, NEW redisOk \in BOOLEAN, HealthAnswers(l, redisOk)
  PROVE  HealthInv'
<1> DEFINE ok == redisOk /\ WorkerOk(load[l]) /\ BeatOk(load[l])
           new == [load[l] EXCEPT !.pc = "answered", !.failed = load[l].failed \/ ~redisOk,
                                  !.seen = Idle.seen, !.ok = ok]
<1>1. HealthTypeOK /\ load[l] \in LoadType /\ load[l].pc = "reading" /\ load[l].pending = {}
  BY DEF HealthInv, HealthTypeOK, HealthAnswers
<1>2. /\ new \in LoadType /\ new.pc = "answered" /\ new.checked = load[l].checked
      /\ new.pending = {} /\ new.failed = (load[l].failed \/ ~redisOk)
      /\ new.base = load[l].base /\ new.seq = load[l].seq /\ new.seen = Idle.seen /\ new.ok = ok
  <2>1. Idle.seen \in [Keys -> Times] /\ ok \in BOOLEAN /\ (load[l].failed \/ ~redisOk) \in BOOLEAN
    BY IdleLoad DEF LoadType, WorkerOk, BeatOk, Fresh
  <2> HIDE DEF ok
  <2> QED
    BY <1>1, <2>1 DEF LoadType
<1>3. timeouts' \in 0 .. MaxTimeouts
  <2>1. /\ timeouts \in Nat /\ MaxTimeouts \in Nat
        /\ redisOk \/ timeouts < MaxTimeouts
        /\ timeouts' = IF redisOk THEN timeouts ELSE timeouts + 1
        /\ timeouts <= MaxTimeouts
    BY <1>1, HealthNumbers, HealthBounds DEF HealthAnswers, HealthTypeOK
  <2> QED
    BY <2>1
<1>4. MovesAtApi(l, new)
  BY <1>1, <1>2, <1>3 DEF HealthAnswers, server, MovesAtApi, LoadMoves
<1> HIDE DEF new
<1>5. /\ now \in Nat /\ completed \in Nat /\ lastPing \in Nat /\ Limit \in Nat /\ KeyLife \in Nat
      /\ Never = 0 /\ load[l].checked \in Nat /\ load[l].base \in Nat
      /\ load[l].seen["beat"] \in Nat /\ load[l].seen["worker"] \in Nat
  BY <1>1, HealthNumbers, HealthBounds DEF Never, Keys
<1>6. AskedInv(load[l])
  BY <1>1 DEF HealthInv, RequestsInv
<1>7. load[l].seen["beat"] <= lastPing /\ load[l].seen["worker"] <= completed
  BY <1>6 DEF AskedInv, Keys, Latest
<1>8. OkHolds(new)
  <2> SUFFICES ASSUME ok PROVE OkHolds(new)
    BY <1>2 DEF OkHolds
  <2>1. redisOk /\ WorkerOk(load[l]) /\ BeatOk(load[l])
    OBVIOUS
  <2>2. lastPing # Never /\ load[l].checked < lastPing + Limit
    <3>1. load[l].seen["beat"] # Never /\ load[l].checked < load[l].seen["beat"] + Limit
      BY <1>5, <2>1, FreshIsWithinLimit DEF BeatOk
    <3> QED
      BY <1>5, <1>7, <3>1
  <2>3. CASE Fresh(load[l].seen["worker"], load[l].checked)
    <3>1. completed # Never /\ load[l].checked < completed + Limit
      <4>1. load[l].seen["worker"] # Never /\ load[l].checked < load[l].seen["worker"] + Limit
        BY <1>5, <2>3, FreshIsWithinLimit
      <4> QED
        BY <1>5, <1>7, <4>1
    <3> QED
      BY <1>2, <2>2, <3>1 DEF OkHolds
  <2>4. CASE load[l].seen["worker"] = Never
    <3>1. load[l].failed \/ load[l].base = Never \/ load[l].base + KeyLife <= now
      BY <1>1, <1>6, <2>4 DEF AskedInv
    <3> QED
      BY <1>2, <2>2, <3>1 DEF OkHolds
  <2> QED
    BY <2>1, <2>3, <2>4 DEF WorkerOk
<1>9. DegradedHolds(new)
  <2> SUFFICES ASSUME ~pingsMet, ~load[l].failed, redisOk, load[l].base # Never,
                      ~(load[l].base + Limit <= load[l].checked)
               PROVE  ok
    BY <1>2 DEF DegradedHolds
  <2>1. load[l].checked < load[l].base + Limit
    BY <1>5
  <2>2. \A k \in Keys : load[l].seen[k] # Never /\ load[l].checked < load[l].seen[k] + Limit
    BY <1>1, <1>6, <2>1 DEF AskedInv
  <2> QED
    <3>1. Fresh(load[l].seen["beat"], load[l].checked) /\ Fresh(load[l].seen["worker"], load[l].checked)
      BY <1>5, <2>2, FreshIsWithinLimit DEF Keys
    <3> QED
      BY <3>1 DEF WorkerOk, BeatOk
<1>10. RequestHolds(new)
  BY <1>2 DEF RequestHolds
<1> QED
  BY <1>2, <1>4, <1>8, <1>9, <1>10, ApiKeepsHealth

-----------------------------------------------------------------------------
(* The browser                                                              *)

\* A load that is not at the API has nothing to show for what it has read.
LEMMA BrowserKeepsHealth ==
  ASSUME HealthInv, NEW l \in Loads, NEW new \in LoadType, LoadMoves(l, new),
         new.pc \in {"idle", "asked", "settled"}, new.pending = {}, new.seen = Idle.seen,
         cache' \in [checked : Times, at : Times], shown' \in Times, seq' \in 0 .. MaxLoads,
         lateAnswer' \in BOOLEAN, PanelInv'
  PROVE  HealthInv'
<1>1. HealthTypeOK /\ ServerInv /\ RequestsInv /\ AnswerInv
  BY DEF HealthInv
<1>2. HealthTypeOK'
  BY <1>1, MovedLoad DEF HealthTypeOK, LoadMoves
<1>3. RequestHolds(new) /\ OkHolds(new) /\ DegradedHolds(new)
  BY DEF RequestHolds, OkHolds, DegradedHolds
<1>4. ServerInv' /\ RequestsInv' /\ AnswerInv'
  BY <1>1, <1>3, MovedRequest
<1> QED
  BY <1>2, <1>4 DEF HealthInv

\* The panel shows what is cached, and the load is the newest.
LEMMA LoadRuntimePanelsStep ==
  ASSUME HealthInv, NEW l \in Loads, LoadRuntimePanels(l)
  PROVE  HealthInv'
<1> DEFINE new == IF Cached = Never THEN [load[l] EXCEPT !.pc = "asked", !.seq = seq + 1]
                  ELSE Settled(seq + 1, Cached)
<1>1. HealthTypeOK /\ load[l] \in LoadType /\ load[l].pc = "idle" /\ seq < MaxLoads
      /\ SeqInv /\ NewestInv /\ CacheInv
  BY DEF HealthInv, PanelInv, HealthTypeOK, LoadRuntimePanels
<1>2. /\ seq' = seq + 1 /\ shown' = Cached /\ cache' = cache /\ lateAnswer' = lateAnswer
      /\ seq \in Nat /\ seq + 1 \in 0 .. MaxLoads /\ seq' \in 0 .. MaxLoads
  BY <1>1, HealthNumbers, HealthBounds DEF LoadRuntimePanels
<1>3. Cached \in Times /\ Never \in Times
  BY <1>1, HealthBounds DEF Cached, HealthTypeOK, Times, Never
<1>4. load[l].pending = {} /\ load[l].seen = Idle.seen
  BY <1>1 DEF HealthInv, RequestsInv
<1>5. /\ new \in LoadType /\ new.seq = seq + 1 /\ new.pending = {} /\ new.seen = Idle.seen
      /\ \/ new.pc = "asked" /\ Cached = Never
         \/ new.pc = "settled" /\ new.checked = Cached /\ Cached # Never
  <2>1. CASE Cached = Never
    BY <1>1, <1>2, <1>4, <2>1 DEF LoadType
  <2>2. CASE Cached # Never
    BY <1>2, <1>3, <2>2, IdleLoad
  <2> QED
    BY <2>1, <2>2
<1>6. LoadMoves(l, new)
  BY <1>1 DEF LoadRuntimePanels, server, LoadMoves, HealthTypeOK
<1> HIDE DEF new
<1>7. load'[l] = new /\ \A m \in Loads \ {l} : load'[m] = load[m]
  BY <1>1, <1>5, <1>6, MovedLoad
<1>8. \A m \in Loads : m # l /\ InFlight(m)' => InFlight(m) /\ load'[m].seq \in Nat /\ load'[m].seq <= seq
  BY <1>1, <1>7, HealthNumbers DEF SeqInv, InFlight
<1>9. SeqInv'
  <2>1. \A m \in Loads : InFlight(m)' => load'[m].seq <= seq'
    BY <1>2, <1>5, <1>7, <1>8
  <2>2. ASSUME NEW m \in Loads, NEW n \in Loads, InFlight(m)', InFlight(n)',
               load'[m].seq = load'[n].seq
        PROVE  m = n
    <3>1. CASE m = l \/ n = l
      BY <1>2, <1>5, <1>7, <1>8, <2>2, <3>1
    <3>2. CASE m # l /\ n # l
      BY <1>1, <1>7, <1>8, <2>2, <3>2 DEF SeqInv
    <3> QED
      BY <3>1, <3>2
  <2> QED
    BY <2>1, <2>2 DEF SeqInv
<1>10. NewestInv'
  <2> SUFFICES ASSUME NEW m \in Loads, InFlight(m)', load'[m].seq = seq'
               PROVE  IF load'[m].pc = "settled" THEN load'[m].checked # Never => shown' <= load'[m].checked
                      ELSE shown' = Never
    BY DEF NewestInv
  <2>1. m = l
    BY <1>2, <1>8
  <2>2. Cached \in Nat
    BY <1>3 DEF Times
  <2> QED
    BY <1>2, <1>5, <1>7, <2>1, <2>2
<1>11. CacheInv'
  <2> SUFFICES ASSUME ~lateAnswer PROVE CacheInv'
    BY <1>2 DEF CacheInv
  <2>1. cache.checked \in Nat /\ Cached \in {cache.checked, 0} /\ Cached <= cache.checked
    BY <1>1, HealthNumbers DEF Cached, Never
  <2>2. \A m \in Loads : load'[m].pc = "settled" => load'[m].checked <= cache.checked
    BY <1>1, <1>5, <1>7, <2>1 DEF CacheInv
  <2> QED
    BY <1>2, <2>1, <2>2 DEF CacheInv
<1>12. PanelInv' /\ new.pc \in {"idle", "asked", "settled"}
  BY <1>5, <1>9, <1>10, <1>11 DEF PanelInv
<1> QED
  BY <1>1, <1>2, <1>3, <1>5, <1>6, <1>12, BrowserKeepsHealth DEF HealthTypeOK

\* A load that settles keeps its number.
LEMMA SettledSeq ==
  ASSUME SeqInv, NEW l \in Loads, InFlight(l), seq' = seq,
         load'[l].seq = load[l].seq, \A m \in Loads \ {l} : load'[m] = load[m]
  PROVE  SeqInv'
  BY DEF SeqInv, InFlight

LEMMA AnswerArrivesStep ==
  ASSUME HealthInv, NEW l \in Loads, AnswerArrives(l)
  PROVE  HealthInv'
<1> DEFINE new == Settled(load[l].seq, load[l].checked)
<1>1. /\ HealthTypeOK /\ load[l] \in LoadType /\ load[l].pc = "answered" /\ InFlight(l)
      /\ SeqInv /\ NewestInv /\ CacheInv
  BY DEF HealthInv, PanelInv, HealthTypeOK, AnswerArrives, InFlight
<1>2. /\ cache' = [checked |-> load[l].checked, at |-> now]
      /\ lateAnswer' = (lateAnswer \/ load[l].checked < cache.checked)
      /\ shown' = shown /\ seq' = seq
      /\ load[l].seq \in 0 .. MaxLoads /\ load[l].checked \in Times
  BY <1>1 DEF AnswerArrives, LoadType
<1>3. /\ new \in LoadType /\ new.pc = "settled" /\ new.seq = load[l].seq
      /\ new.checked = load[l].checked /\ new.pending = {} /\ new.seen = Idle.seen
  BY <1>2, IdleLoad
<1>4. LoadMoves(l, new)
  BY <1>1 DEF AnswerArrives, server, LoadMoves, HealthTypeOK
<1> HIDE DEF new
<1>5. load'[l] = new /\ \A m \in Loads \ {l} : load'[m] = load[m]
  BY <1>1, <1>3, <1>4, MovedLoad
<1>6. /\ cache.checked \in Nat /\ load[l].checked \in Nat /\ shown \in Nat /\ Never = 0
      /\ \A m \in Loads : load[m].checked \in Nat
      /\ cache'.checked = load[l].checked
  BY <1>1, <1>2, HealthNumbers DEF Never
<1>7. SeqInv'
  BY <1>1, <1>2, <1>3, <1>5, SettledSeq
<1>8. NewestInv'
  <2> SUFFICES ASSUME NEW m \in Loads, InFlight(m)', load'[m].seq = seq
               PROVE  IF load'[m].pc = "settled" THEN load'[m].checked # Never => shown <= load'[m].checked
                      ELSE shown = Never
    BY <1>2 DEF NewestInv
  <2>1. CASE m = l
    <3>1. shown = 0
      BY <1>1, <1>3, <1>5, <1>6, <2>1 DEF NewestInv
    <3> QED
      BY <1>3, <1>5, <1>6, <2>1, <3>1
  <2>2. CASE m # l
    BY <1>1, <1>5, <2>2 DEF NewestInv, InFlight
  <2> QED
    BY <2>1, <2>2
<1>9. CacheInv'
  <2> SUFFICES ASSUME ~lateAnswer, ~(load[l].checked < cache.checked) PROVE CacheInv'
    BY <1>2 DEF CacheInv
  <2>1. cache.checked <= load[l].checked
    BY <1>6
  <2>2. shown <= cache.checked
        /\ \A m \in Loads : load[m].pc = "settled" => load[m].checked <= cache.checked
    BY <1>1 DEF CacheInv
  <2>3. shown <= load[l].checked
        /\ \A m \in Loads : load[m].pc = "settled" => load[m].checked <= load[l].checked
    BY <1>6, <2>1, <2>2
  <2>4. \A m \in Loads : load'[m].pc = "settled" => load'[m].checked <= load[l].checked
    BY <1>3, <1>5, <1>6, <2>3
  <2> QED
    BY <1>2, <1>6, <2>3, <2>4 DEF CacheInv
<1>10. PanelInv' /\ cache' \in [checked : Times, at : Times] /\ lateAnswer' \in BOOLEAN
  BY <1>1, <1>2, <1>7, <1>8, <1>9 DEF PanelInv, HealthTypeOK
<1> QED
  BY <1>1, <1>2, <1>3, <1>4, <1>10, BrowserKeepsHealth DEF HealthTypeOK

LEMMA AnswerLostStep ==
  ASSUME HealthInv, NEW l \in Loads, AnswerLost(l)
  PROVE  HealthInv'
<1> DEFINE new == Settled(load[l].seq, Never)
<1>1. /\ HealthTypeOK /\ load[l] \in LoadType /\ InFlight(l)
      /\ SeqInv /\ NewestInv /\ CacheInv
  BY DEF HealthInv, PanelInv, HealthTypeOK, AnswerLost, InFlight
<1>2. /\ cache' = cache /\ lateAnswer' = lateAnswer /\ shown' = shown /\ seq' = seq
      /\ load[l].seq \in 0 .. MaxLoads /\ Never \in Times /\ Never = 0
  BY <1>1, HealthBounds DEF AnswerLost, LoadType, Times, Never
<1>3. /\ new \in LoadType /\ new.pc = "settled" /\ new.seq = load[l].seq
      /\ new.checked = Never /\ new.pending = {} /\ new.seen = Idle.seen
  BY <1>2, IdleLoad
<1>4. LoadMoves(l, new)
  BY <1>1 DEF AnswerLost, server, LoadMoves, HealthTypeOK
<1> HIDE DEF new
<1>5. load'[l] = new /\ \A m \in Loads \ {l} : load'[m] = load[m]
  BY <1>1, <1>3, <1>4, MovedLoad
<1>6. SeqInv'
  BY <1>1, <1>2, <1>3, <1>5, SettledSeq
<1>7. NewestInv'
  BY <1>1, <1>2, <1>3, <1>5 DEF NewestInv, InFlight
<1>8. CacheInv'
  <2>1. cache.checked \in Nat
    BY <1>1, HealthNumbers
  <2> QED
    BY <1>1, <1>2, <1>3, <1>5, <2>1 DEF CacheInv
<1>9. PanelInv'
  BY <1>6, <1>7, <1>8 DEF PanelInv
<1> QED
  BY <1>1, <1>2, <1>3, <1>4, <1>9, BrowserKeepsHealth DEF HealthTypeOK

LEMMA ShowPanelsStep ==
  ASSUME HealthInv, NEW l \in Loads, ShowPanels(l)
  PROVE  HealthInv'
<1>1. /\ HealthTypeOK /\ load[l] \in LoadType /\ load[l].pc = "settled" /\ InFlight(l)
      /\ SeqInv /\ NewestInv /\ CacheInv
  BY DEF HealthInv, PanelInv, HealthTypeOK, ShowPanels, InFlight
<1>2. /\ cache' = cache /\ lateAnswer' = lateAnswer /\ seq' = seq
      /\ shown' = IF load[l].seq = seq /\ load[l].checked # Never THEN load[l].checked ELSE shown
      /\ load[l].checked \in Times
  BY <1>1 DEF ShowPanels, LoadType
<1>3. Idle \in LoadType /\ Idle.pc = "idle" /\ Idle.pending = {}
  BY IdleLoad
<1>4. LoadMoves(l, Idle)
  BY <1>1 DEF ShowPanels, server, LoadMoves, HealthTypeOK
<1>5. load'[l] = Idle /\ \A m \in Loads \ {l} : load'[m] = load[m]
  BY <1>1, <1>3, <1>4, MovedLoad
<1>6. SeqInv'
  BY <1>1, <1>2, <1>3, <1>5 DEF SeqInv, InFlight
<1>7. NewestInv'
  <2> SUFFICES ASSUME NEW m \in Loads, InFlight(m)', load'[m].seq = seq
               PROVE  IF load'[m].pc = "settled" THEN load'[m].checked # Never => shown' <= load'[m].checked
                      ELSE shown' = Never
    BY <1>2 DEF NewestInv
  <2>1. m # l /\ load'[m] = load[m] /\ InFlight(m) /\ load[m].seq = seq
    BY <1>3, <1>5 DEF InFlight
  <2>2. load[l].seq # seq
    BY <1>1, <2>1 DEF SeqInv
  <2> QED
    BY <1>1, <1>2, <2>1, <2>2 DEF NewestInv
<1>8. CacheInv'
  BY <1>1, <1>2, <1>3, <1>5 DEF CacheInv
<1>9. PanelInv' /\ shown' \in Times
  BY <1>1, <1>2, <1>6, <1>7, <1>8 DEF PanelInv, HealthTypeOK
<1> QED
  BY <1>1, <1>2, <1>3, <1>4, <1>9, BrowserKeepsHealth DEF HealthTypeOK

-----------------------------------------------------------------------------
LEMMA HealthStep ==
  ASSUME HealthInv, [HealthNext]_HealthVars
  PROVE  HealthInv'
<1>1. CASE UNCHANGED HealthVars
  <2>1. /\ now' = now /\ pings' = pings /\ ping' = ping /\ key' = key /\ load' = load
        /\ cache' = cache /\ shown' = shown /\ seq' = seq /\ lastPing' = lastPing
        /\ completed' = completed /\ pingsMet' = pingsMet /\ lateAnswer' = lateAnswer
        /\ timeouts' = timeouts
    BY <1>1 DEF HealthVars
  <2>2. HealthTypeOK'
    BY <2>1 DEF HealthInv, HealthTypeOK
  <2>3. ServerInv'
    BY <2>1 DEF HealthInv, ServerInv, PingInv, KeyInv, LonePingInv, Latest
  <2>4. RequestsInv'
    BY <2>1 DEF HealthInv, RequestsInv, AskedInv, Latest
  <2>5. AnswerInv'
    BY <2>1 DEF HealthInv, AnswerInv, OkMeansRecentPing, DegradedHasAReason
  <2>6. PanelInv'
    BY <2>1 DEF HealthInv, PanelInv, SeqInv, NewestInv, CacheInv, InFlight
  <2> QED
    BY <2>2, <2>3, <2>4, <2>5, <2>6 DEF HealthInv
<1>2. CASE ServerStep
  BY <1>2, ServerKeepsHealth
<1>3. CASE HealthNext /\ ~ServerStep
  <2>1. \E l \in Loads :
          \/ LoadRuntimePanels(l) \/ HealthBegins(l)
          \/ \E redisOk \in BOOLEAN : HealthAnswers(l, redisOk)
          \/ \E k \in Keys : Read(l, k) \/ ReadTimesOut(l, k)
          \/ AnswerArrives(l) \/ AnswerLost(l) \/ ShowPanels(l)
    BY <1>3 DEF HealthNext, ServerStep
  <2> QED
    BY <2>1, LoadRuntimePanelsStep, HealthBeginsStep, HealthAnswersStep, ReadStep,
       ReadTimesOutStep, AnswerArrivesStep, AnswerLostStep, ShowPanelsStep
<1> QED
  BY <1>1, <1>2, <1>3

LEMMA HealthInvariant == HealthSpec => []HealthInv
<1>1. HealthInit => HealthInv
  BY HealthStarts
<1>2. HealthInv /\ [HealthNext]_HealthVars => HealthInv'
  BY HealthStep
<1> QED
  BY <1>1, <1>2, PTL DEF HealthSpec

\* The state of the health panel is well formed: what worker, API and browser hold
\* are the times and numbers that the code expects.
THEOREM HealthTypeCorrect == HealthSpec => []HealthTypeOK
<1>1. HealthInv => HealthTypeOK
  BY DEF HealthInv
<1> QED
  BY <1>1, HealthInvariant, PTL

\* However many workers, loads and timeouts there are, an answer "ok" of
\* GET /runtime/health rests on a recent ping.
THEOREM OkIsBacked == HealthSpec => []OkMeansRecentPing
<1>1. HealthInv => OkMeansRecentPing
  BY DEF HealthInv, AnswerInv
<1> QED
  BY <1>1, HealthInvariant, PTL

\* And "degraded" has its reason, whatever the lifetimes and limits are.
THEOREM DegradedIsBacked == HealthSpec => []DegradedHasAReason
<1>1. HealthInv => DegradedHasAReason
  BY DEF HealthInv, AnswerInv
<1> QED
  BY <1>1, HealthInvariant, PTL

LEMMA PanelStep ==
  ASSUME HealthInv, [HealthNext]_HealthVars, ~lateAnswer, shown' # Never
  PROVE  shown' >= shown
<1>1. HealthTypeOK /\ SeqInv /\ NewestInv /\ CacheInv
  BY DEF HealthInv, PanelInv
<1>2. shown \in Nat /\ cache.checked \in Nat
  BY <1>1, HealthNumbers
<1>3. CASE \E l \in Loads : LoadRuntimePanels(l)
  <2>1. shown' = Cached /\ Cached = cache.checked
    BY <1>3 DEF LoadRuntimePanels, Cached
  <2> QED
    BY <1>1, <1>2, <2>1 DEF CacheInv
<1>4. CASE \E l \in Loads : ShowPanels(l)
  <2>1. PICK l \in Loads : ShowPanels(l)
    BY <1>4
  <2>2. CASE shown' = shown
    BY <1>2, <2>2
  <2>3. CASE shown' # shown
    <3>1. load[l].pc = "settled" /\ load[l].seq = seq /\ load[l].checked # Never
          /\ shown' = load[l].checked
      BY <2>1, <2>3 DEF ShowPanels
    <3>2. shown <= load[l].checked
      BY <1>1, <3>1 DEF NewestInv, InFlight
    <3>3. load[l].checked \in Nat
      BY <1>1, HealthNumbers
    <3> QED
      BY <1>2, <3>1, <3>2, <3>3
  <2> QED
    BY <2>2, <2>3
<1>5. CASE ~(\E l \in Loads : LoadRuntimePanels(l) \/ ShowPanels(l))
  <2>1. shown' = shown
    BY <1>5 DEF HealthNext, HealthVars, Tick, PingBegins, WriteBeat, WriteWorker, PingFails,
      HealthBegins, Read, ReadTimesOut, HealthAnswers, AnswerArrives, AnswerLost, browser
  <2> QED
    BY <1>2, <2>1
<1> QED
  BY <1>3, <1>4, <1>5

\* The panel of the dashboard never shows an older answer after a newer one, unless
\* the cache did: whatever overlaps, settles late or is lost.
THEOREM PanelMovesForward == HealthSpec => PanelNeverGoesBack
<1>1. HealthInv /\ [HealthNext]_HealthVars =>
        [~lateAnswer /\ shown' # Never => shown' >= shown]_HealthVars
  BY PanelStep
<1> QED
  BY <1>1, HealthInvariant, PTL DEF HealthSpec, PanelNeverGoesBack
=============================================================================
