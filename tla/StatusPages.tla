---------------------------- MODULE StatusPages ----------------------------
(***************************************************************************)
(* The status pages of one user: table status_pages with its unique slug,   *)
(* table status_page_monitors with the monitors of each page, the requests   *)
(* that create, change and delete pages, and the public page, which is read  *)
(* by three statements while requests and checks go on.  PATCH replaces the  *)
(* monitors of a page by a DELETE, executed at once, and by INSERTs that are *)
(* sent by the commit.  Everything runs at READ COMMITTED.                   *)
(***************************************************************************)
EXTENDS Naturals, Sequences, FiniteSets

CONSTANTS
  Pages,          \* identifiers of pages
  Slugs,
  Monitors,       \* the monitors of the user
  Requests,       \* requests in flight at once
  Bodies,         \* bound: the request bodies that occur
  NoPage, NoSlug,
  Unset,          \* a field that is not in the body
  IncidentLimit,  \* query parameter incident_limit
  MaxIncidents,   \* bound: incidents opened
  MaxRequests,    \* bound: requests begun
  MaxFailures     \* bound: requests that fail at the database for reasons of its own

ASSUME PageAssumption == /\ NoPage \notin Pages
                         /\ NoSlug \notin Slugs
                         /\ Unset \notin Slugs \cup BOOLEAN \cup Seq(Monitors)
                         /\ IncidentLimit \in Nat \ {0}
                         /\ {MaxIncidents, MaxRequests, MaxFailures} \subseteq Nat

BodyType == [slug : Slugs \cup {Unset}, is_public : BOOLEAN \cup {Unset},
             monitor_ids : Seq(Monitors) \cup {Unset}]

ASSUME PageBodyAssumption == \A b \in Bodies : b \in BodyType

VARIABLES
  page,      \* the committed rows of status_pages
  links,     \* the committed rows of status_page_monitors
  monitor,   \* what a page shows of each monitor
  incident,  \* the committed incidents, oldest first
  req,       \* what each request is doing
  read,      \* the reader of a public page
  begun,
  failures

vars == <<page, links, monitor, incident, req, read, begun, failures>>

NoRow == [exists |-> FALSE, slug |-> NoSlug, is_public |-> FALSE]

RowType == [exists : BOOLEAN, slug : Slugs \cup {NoSlug}, is_public : BOOLEAN]

\* loaded: the row the session holds; rows: the rows of status_page_monitors its
\* DELETE is about to remove or has removed; overlapped: history, another request
\* was under way at some moment of this one.
ReqType == [pc : {"idle", "validated", "flushed", "loaded", "deleting", "ready", "removing"},
            page : Pages \cup {NoPage}, body : Bodies \cup {Unset}, loaded : RowType,
            rows : SUBSET Monitors, overlapped : BOOLEAN]

NoRequest == [pc |-> "idle", page |-> NoPage, body |-> Unset, loaded |-> NoRow,
              rows |-> {}, overlapped |-> FALSE]

\* down: the monitors shown as DOWN; open: history, their incidents that were open
\* when they were read.
ReadType == [pc : {"idle", "found", "monitors", "answered"}, page : Pages \cup {NoPage},
             shown : SUBSET Monitors, down : SUBSET Monitors,
             open : SUBSET (1 .. MaxIncidents), incidents : SUBSET (1 .. MaxIncidents)]

NoRead == [pc |-> "idle", page |-> NoPage, shown |-> {}, down |-> {}, open |-> {}, incidents |-> {}]

TypeOK ==
  /\ page \in [Pages -> RowType]
  /\ links \in [Pages -> SUBSET Monitors]
  /\ monitor \in [Monitors -> [down : BOOLEAN, deleted : BOOLEAN]]
  /\ incident \in Seq([monitor : Monitors, open : BOOLEAN]) /\ Len(incident) <= MaxIncidents
  /\ req \in [Requests -> ReqType]
  /\ read \in ReadType
  /\ begun \in 0 .. MaxRequests
  /\ failures \in 0 .. MaxFailures

-----------------------------------------------------------------------------
Given(field, otherwise) == IF field = Unset THEN otherwise ELSE field

\* dict.fromkeys: a repeated monitor is inserted once.
NewLinks(b) == IF b.monitor_ids = Unset THEN {} ELSE {b.monitor_ids[k] : k \in DOMAIN b.monitor_ids}

\* _validate_monitor_ownership.
Valid(b) == \A m \in NewLinks(b) : ~monitor[m].deleted

Taken(slug, p) == \E q \in Pages \ {p} : page[q].exists /\ page[q].slug = slug

\* The unique index makes a writer wait for whoever has inserted the slug and
\* not yet committed.
SlugHeld(slug, r) ==
  \E s \in Requests \ {r} : req[s].pc = "flushed" /\ req[s].body.slug = slug

UnderWay(r) == req[r].pc # "idle"

\* A request begins; whoever is under way has been overlapped by it.
Begin(r, started) ==
  /\ ~UnderWay(r)
  /\ begun < MaxRequests
  /\ begun' = begun + 1
  /\ req' = [s \in Requests |->
       IF s = r THEN [started EXCEPT !.overlapped = \E q \in Requests : UnderWay(q)]
       ELSE [req[s] EXCEPT !.overlapped = @ \/ UnderWay(s)]]

Started(pc, p, b) == [NoRequest EXCEPT !.pc = pc, !.page = p, !.body = b]

\* An error is answered: ROLLBACK.
Refuse(r) == /\ req' = [req EXCEPT ![r] = NoRequest]
             /\ UNCHANGED <<page, links, monitor, incident, read, begun, failures>>

\* A statement or a commit fails although no constraint is violated: the connection
\* is lost, or the text of another field cannot be stored.  ROLLBACK.
DatabaseFails(r) ==
  /\ UnderWay(r)
  /\ failures < MaxFailures
  /\ failures' = failures + 1
  /\ req' = [req EXCEPT ![r] = NoRequest]
  /\ UNCHANGED <<page, links, monitor, incident, read, begun>>

\* The rows a DELETE that waits for this commit will no longer find.
WithoutRows(q, p, gone) ==
  IF q.pc = "deleting" /\ q.page = p THEN [q EXCEPT !.rows = @ \ gone] ELSE q

\* A transaction on page p ends and r has its answer.
Committed(r, p, gone) ==
  req' = [s \in Requests |-> IF s = r THEN NoRequest ELSE WithoutRows(req[s], p, gone)]

\* The locks of a DELETE are held until its transaction ends.
RowsFree(r, p, rows) ==
  \A s \in Requests \ {r} : req[s].pc = "ready" /\ req[s].page = p => req[s].rows \cap rows = {}

-----------------------------------------------------------------------------
(* POST /status-pages                                                       *)

\* A monitor that is not the user's, or is deleted, is answered 400 at once.
CreateBegin(r, p, b) ==
  /\ ~page[p].exists /\ \A s \in Requests : req[s].page # p
  /\ Unset \notin {b.slug, b.is_public, b.monitor_ids}
  /\ Valid(b)
  /\ Begin(r, Started("validated", p, b))
  /\ UNCHANGED <<page, links, monitor, incident, read, failures>>

\* The flush inserts the page; any exception is answered "slug already exists".
CreateFlush(r) ==
  /\ req[r].pc = "validated"
  /\ ~SlugHeld(req[r].body.slug, r)
  /\ ~Taken(req[r].body.slug, req[r].page)
  /\ req' = [req EXCEPT ![r].pc = "flushed"]
  /\ UNCHANGED <<page, links, monitor, incident, read, begun, failures>>

CreateConflict(r) ==
  /\ req[r].pc = "validated"
  /\ Taken(req[r].body.slug, req[r].page)
  /\ Refuse(r)

CreateCommit(r) ==
  LET q == req[r] IN
  /\ q.pc = "flushed"
  /\ page' = [page EXCEPT ![q.page] = [exists |-> TRUE, slug |-> q.body.slug,
                                       is_public |-> q.body.is_public]]
  /\ links' = [links EXCEPT ![q.page] = NewLinks(q.body)]
  /\ Committed(r, q.page, {})
  /\ UNCHANGED <<monitor, incident, read, begun, failures>>

-----------------------------------------------------------------------------
(* PATCH and DELETE /status-pages/{page_id}                                 *)

PatchLoad(r, p, b) ==
  /\ page[p].exists
  /\ Begin(r, [Started("loaded", p, b) EXCEPT !.loaded = page[p]])
  /\ UNCHANGED <<page, links, monitor, incident, read, failures>>

Replaces(q) == q.body.monitor_ids # Unset

PatchInvalid(r) ==
  /\ req[r].pc = "loaded"
  /\ ~Valid(req[r].body)
  /\ Refuse(r)

PatchKeep(r) ==
  /\ req[r].pc = "loaded"
  /\ ~Replaces(req[r])
  /\ req' = [req EXCEPT ![r].pc = "ready"]
  /\ UNCHANGED <<page, links, monitor, incident, read, begun, failures>>

\* The DELETE of _set_page_monitors sees the rows committed when it starts.
PatchDelete(r) ==
  /\ req[r].pc = "loaded"
  /\ Replaces(req[r]) /\ Valid(req[r].body)
  /\ req' = [req EXCEPT ![r].pc = "deleting", ![r].rows = links[req[r].page]]
  /\ UNCHANGED <<page, links, monitor, incident, read, begun, failures>>

PatchDeleted(r) ==
  /\ req[r].pc = "deleting"
  /\ RowsFree(r, req[r].page, req[r].rows)
  /\ req' = [req EXCEPT ![r].pc = "ready"]
  /\ UNCHANGED <<page, links, monitor, incident, read, begun, failures>>

NewSlug(q) == Given(q.body.slug, q.loaded.slug)

NewPublic(q) == Given(q.body.is_public, q.loaded.is_public)

\* The columns of the page that the flush of the commit has to write.
Updates(q) == NewSlug(q) # q.loaded.slug \/ NewPublic(q) # q.loaded.is_public

\* Mutation: a monitor that is listed twice is inserted twice.
LinkedOrRepeated(q) ==
  IF q.body.monitor_ids = Unset THEN {}
  ELSE {m \in NewLinks(q.body) :
          \/ m \in links[q.page] \ q.rows
          \/ Cardinality({k \in DOMAIN q.body.monitor_ids : q.body.monitor_ids[k] = m}) > 1}

\* Rows that are inserted although they are there.
Duplicates(q) == NewLinks(q.body) \cap (links[q.page] \ q.rows)

\* Every exception of the commit is answered "slug already exists": no row to
\* update or to refer to, the slug of another page, a link that is there.
CommitFails(q) ==
  \/ ~page[q.page].exists /\ (Updates(q) \/ NewLinks(q.body) # {})
  \/ NewSlug(q) # q.loaded.slug /\ Taken(NewSlug(q), q.page)
  \/ Duplicates(q) # {}

\* The commit waits for a slug or a link that another transaction is writing.
CommitWaits(q, r) ==
  \/ NewSlug(q) # q.loaded.slug /\ SlugHeld(NewSlug(q), r)
  \/ ~RowsFree(r, q.page, NewLinks(q.body))

PatchConflict(r) ==
  /\ req[r].pc = "ready"
  /\ ~CommitWaits(req[r], r)
  /\ CommitFails(req[r])
  /\ Refuse(r)

\* Nothing to write, and no row to refresh: the exception is taken by nobody.
PatchGone(r) ==
  /\ req[r].pc = "ready"
  /\ ~page[req[r].page].exists /\ ~CommitFails(req[r])
  /\ Refuse(r)

\* The column an ORM flush leaves in the row: only a change is written.
Written(stored, loaded, new) == IF new = loaded THEN stored ELSE new

\* Mutation: what is no longer in the list stays linked.
AddOnly(r) ==
  LET q == req[r]
      row == page[q.page]
  IN
  /\ q.pc = "ready"
  /\ ~CommitWaits(q, r)
  /\ row.exists /\ ~CommitFails(q)
  /\ page' = [page EXCEPT ![q.page] = [row EXCEPT
       !.slug = Written(row.slug, q.loaded.slug, NewSlug(q)),
       !.is_public = Written(row.is_public, q.loaded.is_public, NewPublic(q))]]
  /\ links' = [links EXCEPT ![q.page] = @ \cup NewLinks(q.body)]
  /\ Committed(r, q.page, {})
  /\ UNCHANGED <<monitor, incident, read, begun, failures>>

PatchCommit(r) ==
  LET q == req[r]
      row == page[q.page]
  IN
  /\ q.pc = "ready"
  /\ ~CommitWaits(q, r)
  /\ row.exists /\ ~CommitFails(q)
  /\ page' = [page EXCEPT ![q.page] = [row EXCEPT
       !.slug = Written(row.slug, q.loaded.slug, NewSlug(q)),
       !.is_public = Written(row.is_public, q.loaded.is_public, NewPublic(q))]]
  /\ links' = [links EXCEPT ![q.page] = (@ \ q.rows) \cup NewLinks(q.body)]
  /\ Committed(r, q.page, q.rows)
  /\ UNCHANGED <<monitor, incident, read, begun, failures>>

DeleteLoad(r, p) ==
  /\ page[p].exists
  /\ Begin(r, [Started("removing", p, Unset) EXCEPT !.loaded = page[p]])
  /\ UNCHANGED <<page, links, monitor, incident, read, failures>>

\* The links go with the page, also those inserted since it was loaded; a page
\* that is gone by now is no error.
DeleteCommit(r) ==
  LET p == req[r].page IN
  /\ req[r].pc = "removing"
  /\ RowsFree(r, p, links[p])
  /\ page' = [page EXCEPT ![p] = NoRow]
  /\ links' = [links EXCEPT ![p] = {}]
  /\ Committed(r, p, links[p])
  /\ UNCHANGED <<monitor, incident, read, begun, failures>>

-----------------------------------------------------------------------------
(* The monitors of the user, as CheckPipeline commits them                  *)

HasOpen(m) == \E k \in DOMAIN incident : incident[k].monitor = m /\ incident[k].open

Fails(m) ==
  /\ ~monitor[m].down /\ ~monitor[m].deleted
  /\ HasOpen(m) \/ Len(incident) < MaxIncidents
  /\ monitor' = [monitor EXCEPT ![m].down = TRUE]
  /\ incident' = IF HasOpen(m) THEN incident
                 ELSE Append(incident, [monitor |-> m, open |-> TRUE])
  /\ UNCHANGED <<page, links, req, read, begun, failures>>

\* A pause leaves the incident open.
Pauses(m) ==
  /\ monitor[m].down /\ ~monitor[m].deleted
  /\ monitor' = [monitor EXCEPT ![m].down = FALSE]
  /\ UNCHANGED <<page, links, incident, req, read, begun, failures>>

Recovers(m) ==
  /\ HasOpen(m) /\ ~monitor[m].deleted
  /\ monitor' = [monitor EXCEPT ![m].down = FALSE]
  /\ incident' = [k \in DOMAIN incident |->
       IF incident[k].monitor = m THEN [incident[k] EXCEPT !.open = FALSE] ELSE incident[k]]
  /\ UNCHANGED <<page, links, req, read, begun, failures>>

DeleteMonitor(m) ==
  /\ ~monitor[m].deleted
  /\ monitor' = [monitor EXCEPT ![m].deleted = TRUE]
  /\ UNCHANGED <<page, links, incident, req, read, begun, failures>>

-----------------------------------------------------------------------------
(* GET /public/status-pages/{slug}                                          *)

\* 404 for a page that is not there or not public.
ReadPage(p) ==
  /\ read.pc \in {"idle", "answered"}
  /\ page[p].exists /\ page[p].is_public
  /\ read' = [NoRead EXCEPT !.pc = "found", !.page = p]
  /\ UNCHANGED <<page, links, monitor, incident, req, begun, failures>>

\* _load_monitors_for_page.
ReadMonitors ==
  LET visible == {m \in links[read.page] : ~monitor[m].deleted} IN
  /\ read.pc = "found"
  /\ read' = [read EXCEPT !.pc = "monitors", !.shown = visible,
                          !.down = {m \in visible : monitor[m].down},
                          !.open = {k \in DOMAIN incident : /\ incident[k].open
                                                         /\ incident[k].monitor \in visible
                                                         /\ monitor[incident[k].monitor].down}]
  /\ UNCHANGED <<page, links, monitor, incident, req, begun, failures>>

Newest(set) ==
  {k \in set : Cardinality({j \in set : j > k}) < IncidentLimit}

\* Mutation: only the incidents that are open are read.
OpenIncidentsOf(visible) ==
  {k \in DOMAIN incident : incident[k].monitor \in visible /\ incident[k].open}

IncidentsOf(visible) == {k \in DOMAIN incident : incident[k].monitor \in visible}

ReadIncidents ==
  /\ read.pc = "monitors"
  /\ read' = [read EXCEPT !.pc = "answered", !.incidents = Newest(IncidentsOf(read.shown))]
  /\ UNCHANGED <<page, links, monitor, incident, req, begun, failures>>

-----------------------------------------------------------------------------
Init ==
  /\ page = [p \in Pages |-> NoRow]
  /\ links = [p \in Pages |-> {}]
  /\ monitor = [m \in Monitors |-> [down |-> FALSE, deleted |-> FALSE]]
  /\ incident = <<>>
  /\ req = [r \in Requests |-> NoRequest]
  /\ read = NoRead
  /\ begun = 0
  /\ failures = 0

Next ==
  \/ \E r \in Requests :
       \/ \E p \in Pages, b \in Bodies : CreateBegin(r, p, b) \/ PatchLoad(r, p, b)
       \/ \E p \in Pages : DeleteLoad(r, p)
       \/ CreateFlush(r) \/ CreateConflict(r) \/ CreateCommit(r)
       \/ PatchInvalid(r) \/ PatchKeep(r) \/ PatchDelete(r) \/ PatchDeleted(r)
       \/ PatchConflict(r) \/ PatchGone(r) \/ PatchCommit(r) \/ DeleteCommit(r)
       \/ DatabaseFails(r)
  \/ \E m \in Monitors : Fails(m) \/ Pauses(m) \/ Recovers(m) \/ DeleteMonitor(m)
  \/ \E p \in Pages : ReadPage(p)
  \/ ReadMonitors \/ ReadIncidents

Spec == Init /\ [][Next]_vars

-----------------------------------------------------------------------------
\* Whatever overtakes it, a PATCH or POST that is answered 200 has linked every
\* monitor of its list, and nothing else unless another request was under way:
\* what earlier requests left, also what two of them have mixed, is replaced.
\* status_pages.py:76.
ReplacementIsExact ==
  [][\A r \in Requests :
       (CreateCommit(r) \/ PatchCommit(r)) /\ Replaces(req[r]) =>
         LET p == req[r].page IN
         /\ NewLinks(req[r].body) \subseteq links'[p]
         /\ ~req[r].overlapped => links'[p] = NewLinks(req[r].body)]_vars

\* The flush of a POST, or the commit of a PATCH, raises: "slug already exists".
AnswersConflict(r) ==
  \/ CreateConflict(r) \/ PatchConflict(r)
  \/ req[r].pc \in {"validated", "ready"} /\ DatabaseFails(r)

\* "slug already exists", the answer to every exception of a flush or commit, is
\* true when no other request was under way and the database has not failed for
\* reasons of its own: neither the list of monitors nor the other fields of the
\* request can be the reason.  status_pages.py:130, :172.
ConflictMeansSlugTaken ==
  [][\A r \in Requests :
       AnswersConflict(r) /\ ~req[r].overlapped =>
         Taken(NewSlug(req[r]), req[r].page) \/ failures' > failures]_vars

\* A monitor shown as DOWN has the incident of its outage in the answer, also
\* when it recovers, is paused or deleted between the two statements, unless
\* newer incidents fill the limit.  status_pages.py:209-217.
DownMonitorHasItsIncident ==
  read.pc = "answered" =>
    \A m \in read.down : \E k \in read.open :
      /\ incident[k].monitor = m
      /\ \/ k \in read.incidents
         \/ /\ Cardinality(read.incidents) = IncidentLimit
            /\ \A j \in read.incidents : j > k
=============================================================================
