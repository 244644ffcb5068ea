--------------------------- MODULE MonitorConfig ---------------------------
(***************************************************************************)
(* The configuration of one monitor: its timing, the regions it is mapped   *)
(* to (table monitor_regions) and the active one of them.  POST creates the  *)
(* three together; a PATCH loads the monitor, validates what it was given    *)
(* against what it loaded, replaces the mapped regions by DELETE and INSERT, *)
(* and commits.  PATCHes of one monitor run concurrently, at READ COMMITTED: *)
(* a DELETE sees the rows committed when it starts, waits for a transaction  *)
(* that is deleting one of them, and then finds those rows gone.             *)
(***************************************************************************)
EXTENDS Naturals, Sequences

CONSTANTS
  Requests,    \* PATCH requests in flight at once
  Regions,     \* region codes
  Catalogue,   \* the active rows of table probe_regions
  NoRegion,    \* None
  Unset,       \* a field that is not in the body
  Bodies       \* bound: the request bodies that occur

ASSUME RegionAssumption == /\ Catalogue \subseteq Regions
                           /\ NoRegion \notin Regions
                           /\ Unset \notin Regions \cup {NoRegion} \cup Seq(Regions) \cup Nat

BodyType == [probe_regions : Seq(Regions) \cup {Unset},
             active_region : Regions \cup {NoRegion, Unset},
             interval : Nat \cup {Unset}, timeout : Nat \cup {Unset}]

ASSUME BodyAssumption == \A b \in Bodies : b \in BodyType

VARIABLES
  monitor,  \* the committed row, once it exists
  mapped,   \* the committed rows of monitor_regions
  patch     \* what each PATCH is doing

vars == <<monitor, mapped, patch>>

NoMonitor == [exists |-> FALSE, active_region |-> NoRegion, interval |-> 0, timeout |-> 0]

MonitorType == [exists : BOOLEAN, active_region : Regions \cup {NoRegion},
                interval : Nat, timeout : Nat]

\* loaded: the row the session holds; rows: the rows of monitor_regions its
\* DELETE is about to remove or has removed; overlapped: history, another PATCH
\* was under way at some moment of this one.
PatchType == [pc : {"idle", "loaded", "deleting", "replaced", "ready"}, body : Bodies \cup {Unset},
              loaded : MonitorType, rows : SUBSET Regions,
              active_region : Regions \cup {NoRegion}, overlapped : BOOLEAN]

NoPatch == [pc |-> "idle", body |-> Unset, loaded |-> NoMonitor, rows |-> {},
            active_region |-> NoRegion, overlapped |-> FALSE]

TypeOK == /\ monitor \in MonitorType
          /\ mapped \subseteq Regions
          /\ patch \in [Requests -> PatchType]

-----------------------------------------------------------------------------
(* Validation                                                               *)

Given(field, otherwise) == IF field = Unset THEN otherwise ELSE field

\* The regions a list names: blanks and repetitions are dropped.
Named(list) == {list[k] : k \in DOMAIN list}

\* Mutation: only the field that is in the body is looked at.
TimingOfBody(b, row) ==
  Given(b.timeout, 0) <= Given(b.interval, Given(b.timeout, 0))

TimingAllowed(b, row) == Given(b.timeout, row.timeout) <= Given(b.interval, row.interval)

\* normalize_probe_regions and validate_probe_regions_exist do not raise.
RegionsAllowed(list) == Named(list) # {} /\ Named(list) \subseteq Catalogue

\* resolve_active_region on a list that names it, or on no choice at all.
Resolved(active, list) == IF active = NoRegion THEN Head(list) ELSE active

\* Mutation: the active region a replaced list no longer names is kept.
AlwaysResolvable(active, regions) == TRUE

Resolvable(active, regions) == active = NoRegion \/ active \in regions

Replaces(b) == b.probe_regions # Unset

NewRegions(p) == IF Replaces(p.body) THEN Named(p.body.probe_regions) ELSE {}

\* The region a PATCH that replaces the list has to resolve.
Desired(p) == Given(p.body.active_region, p.loaded.active_region)

-----------------------------------------------------------------------------
\* create_monitor: nobody knows the monitor before its one commit.
Create(b) ==
  /\ ~monitor.exists
  /\ Unset \notin {b.probe_regions, b.active_region, b.interval, b.timeout}
  /\ b.timeout <= b.interval
  /\ RegionsAllowed(b.probe_regions)
  /\ Resolvable(b.active_region, Named(b.probe_regions))
  /\ monitor' = [exists |-> TRUE, interval |-> b.interval, timeout |-> b.timeout,
                 active_region |-> Resolved(b.active_region, b.probe_regions)]
  /\ mapped' = Named(b.probe_regions)
  /\ UNCHANGED patch

UnderWay(r) == patch[r].pc # "idle"

\* A body that does not pass the validation is answered 400 at once.
PatchLoad(r, b) ==
  /\ ~UnderWay(r)
  /\ monitor.exists
  /\ TimingAllowed(b, monitor)
  /\ Replaces(b) => RegionsAllowed(b.probe_regions)
  /\ patch' = [s \in Requests |->
       IF s = r THEN [pc |-> "loaded", body |-> b, loaded |-> monitor, rows |-> {},
                      active_region |-> monitor.active_region,
                      overlapped |-> \E q \in Requests : UnderWay(q)]
       ELSE [patch[s] EXCEPT !.overlapped = @ \/ UnderWay(s)]]
  /\ UNCHANGED <<monitor, mapped>>

\* A field that is absent leaves the regions alone, and so does a null one.
PatchNoRegion(r) ==
  /\ patch[r].pc = "loaded"
  /\ ~Replaces(patch[r].body)
  /\ patch[r].body.active_region \in {Unset, NoRegion}
  /\ patch' = [patch EXCEPT ![r].pc = "ready"]
  /\ UNCHANGED <<monitor, mapped>>

\* Only the active region: it is looked up in the rows committed by now.
PatchActive(r) ==
  LET active == patch[r].body.active_region IN
  /\ patch[r].pc = "loaded"
  /\ ~Replaces(patch[r].body)
  /\ active \in mapped
  /\ patch' = [patch EXCEPT ![r].pc = "ready", ![r].active_region = active]
  /\ UNCHANGED <<monitor, mapped>>

PatchDelete(r) ==
  /\ patch[r].pc = "loaded"
  /\ Replaces(patch[r].body)
  /\ patch' = [patch EXCEPT ![r].pc = "deleting", ![r].rows = mapped]
  /\ UNCHANGED <<monitor, mapped>>

\* The row locks of another DELETE are held until its transaction ends.
PatchDeleted(r) ==
  /\ patch[r].pc = "deleting"
  /\ \A s \in Requests \ {r} :
       patch[s].pc \in {"replaced", "ready"} => patch[s].rows \cap patch[r].rows = {}
  /\ patch' = [patch EXCEPT ![r].pc = "replaced"]
  /\ UNCHANGED <<monitor, mapped>>

PatchResolve(r) ==
  LET p == patch[r] IN
  /\ p.pc = "replaced"
  /\ Resolvable(Desired(p), NewRegions(p))
  /\ patch' = [patch EXCEPT ![r].pc = "ready",
                            ![r].active_region = Resolved(Desired(p), p.body.probe_regions)]
  /\ UNCHANGED <<monitor, mapped>>

\* 400, active_region must be one of probe_regions: the session is rolled back.
PatchReject(r) ==
  LET p == patch[r] IN
  /\ \/ p.pc = "loaded" /\ ~Replaces(p.body) /\ p.body.active_region \in Regions \ mapped
     \/ p.pc = "replaced" /\ ~Resolvable(Desired(p), NewRegions(p))
  /\ patch' = [patch EXCEPT ![r] = NoPatch]
  /\ UNCHANGED <<monitor, mapped>>

\* The column an ORM flush leaves in the row: only a change is written.
Written(stored, loaded, new) == IF new = loaded THEN stored ELSE new

\* The rows a DELETE that waits for this commit will no longer find.
WithoutRows(p, gone) == IF p.pc = "deleting" THEN [p EXCEPT !.rows = @ \ gone] ELSE p

\* Mutation: the rows are deleted after the new ones are inserted.
InsertThenDelete(r) ==
  LET p == patch[r] IN
  /\ p.pc = "ready"
  /\ mapped' = (mapped \cup NewRegions(p)) \ p.rows
  /\ monitor' = [monitor EXCEPT
       !.interval = Given(p.body.interval, @), !.timeout = Given(p.body.timeout, @),
       !.active_region = p.active_region]
  /\ patch' = [s \in Requests |-> IF s = r THEN NoPatch ELSE WithoutRows(patch[s], p.rows)]

PatchCommit(r) ==
  LET p == patch[r] IN
  /\ p.pc = "ready"
  /\ NewRegions(p) \cap (mapped \ p.rows) = {}
  /\ monitor' = [monitor EXCEPT
       !.interval = Written(@, p.loaded.interval, Given(p.body.interval, p.loaded.interval)),
       !.timeout = Written(@, p.loaded.timeout, Given(p.body.timeout, p.loaded.timeout)),
       !.active_region = Written(@, p.loaded.active_region, p.active_region)]
  /\ mapped' = (mapped \ p.rows) \cup NewRegions(p)
  /\ patch' = [s \in Requests |-> IF s = r THEN NoPatch ELSE WithoutRows(patch[s], p.rows)]

\* An INSERT of a region that is mapped, or that another PATCH deletes only to
\* insert it again: the primary key is violated, or a deadlock is broken.  500.
PatchConflict(r) ==
  LET p == patch[r] IN
  /\ p.pc = "ready"
  /\ \E c \in NewRegions(p) \cap (mapped \ p.rows) :
       \A s \in Requests \ {r} :
         patch[s].pc \in {"replaced", "ready"} /\ c \in patch[s].rows => c \in NewRegions(patch[s])
  /\ patch' = [patch EXCEPT ![r] = NoPatch]
  /\ UNCHANGED <<monitor, mapped>>

-----------------------------------------------------------------------------
Init == /\ monitor = NoMonitor
        /\ mapped = {}
        /\ patch = [r \in Requests |-> NoPatch]

Next ==
  \/ \E b \in Bodies : Create(b)
  \/ \E r \in Requests :
       \/ \E b \in Bodies : PatchLoad(r, b)
       \/ PatchNoRegion(r) \/ PatchActive(r)
       \/ PatchDelete(r) \/ PatchDeleted(r) \/ PatchResolve(r)
       \/ PatchReject(r) \/ PatchCommit(r) \/ PatchConflict(r)

Spec == Init /\ [][Next]_vars

-----------------------------------------------------------------------------
\* A monitor always has a region, also while DELETEs and INSERTs of several
\* PATCHes overtake each other.  MONITOR-REGION-RESOURCE-SAVING-PLAN.md:42.
AtLeastOneRegion == monitor.exists => mapped # {}

ActiveRegionMapped == monitor.exists => monitor.active_region \in mapped

\* The worker runs its probe in the active region: only a PATCH that overlapped
\* another one makes it a region that is not mapped.
\* MONITOR-REGION-RESOURCE-SAVING-PLAN.md:41 allows no exception.
ActiveRegionStaysMapped ==
  [][ActiveRegionMapped /\ ~ActiveRegionMapped' =>
       \E r \in Requests : patch[r].overlapped /\ patch'[r].pc = "idle"]_vars

TimeoutWithinInterval == monitor.exists => monitor.timeout <= monitor.interval

\* A probe ends before the next one is due: only a PATCH that overlapped another
\* one makes the timeout longer than the interval.  monitor_service.py:86 and
\* PROJECT-PLAN.md:239 allow no exception.
TimeoutStaysWithinInterval ==
  [][TimeoutWithinInterval /\ ~TimeoutWithinInterval' =>
       \E r \in Requests : patch[r].overlapped /\ patch'[r].pc = "idle"]_vars
=============================================================================
