------------------------ MODULE MonitorConfigProofs ------------------------
(***************************************************************************)
(* Machine-checked proofs about MonitorConfig, for any catalogue of regions, *)
(* any request bodies and any number of PATCHes at once.                     *)
(***************************************************************************)
EXTENDS MonitorConfig, TLAPS

LEMMA IdleTypes == NoMonitor \in MonitorType /\ NoPatch \in PatchType /\ NoPatch.pc = "idle"
<1>1. NoMonitor \in MonitorType
  BY DEF NoMonitor, MonitorType
<1> QED
  BY <1>1 DEF NoPatch, PatchType

\* The fields of a body, and what they leave of a row.
LEMMA BodyFields ==
  ASSUME NEW b \in Bodies
  PROVE  /\ b.probe_regions = Unset \/ b.probe_regions \in Seq(Regions)
         /\ b.active_region \in Regions \cup {NoRegion, Unset}
         /\ \A row \in MonitorType : /\ Given(b.interval, row.interval) \in Nat
                                     /\ Given(b.timeout, row.timeout) \in Nat
<1>1. b \in BodyType
  BY BodyAssumption
<1>2. \A n \in Nat : Given(b.interval, n) \in Nat /\ Given(b.timeout, n) \in Nat
  BY <1>1 DEF BodyType, Given
<1>3. \A row \in MonitorType : row.interval \in Nat /\ row.timeout \in Nat
  BY DEF MonitorType
<1> QED
  BY <1>1, <1>2, <1>3 DEF BodyType

LEMMA NamedRegions ==
  ASSUME NEW list \in Seq(Regions)
  PROVE  /\ Named(list) \subseteq Regions
         /\ Named(list) # {} => Head(list) \in Named(list)
<1>1. DOMAIN list = 1 .. Len(list) /\ Len(list) \in Nat
  OBVIOUS
<1>2. Named(list) \subseteq Regions
  BY <1>1 DEF Named
<1>3. ASSUME Named(list) # {} PROVE Head(list) \in Named(list)
  <2>1. 1 \in DOMAIN list
    BY <1>1, <1>3 DEF Named
  <2>2. Head(list) = list[1]
    BY <1>1, <2>1
  <2> QED
    BY <2>1, <2>2 DEF Named
<1> QED
  BY <1>2, <1>3

\* A PATCH that moves on is a PATCH.
LEMMA PatchTypes ==
  ASSUME NEW p \in PatchType, NEW c \in {"loaded", "deleting", "replaced", "ready"},
         NEW rows \in SUBSET Regions, NEW a \in Regions \cup {NoRegion}, NEW o \in BOOLEAN
  PROVE  /\ [p EXCEPT !.pc = c] \in PatchType
         /\ [p EXCEPT !.pc = c, !.rows = rows] \in PatchType
         /\ [p EXCEPT !.pc = c, !.active_region = a] \in PatchType
         /\ [p EXCEPT !.rows = rows] \in PatchType
         /\ [p EXCEPT !.overlapped = o] \in PatchType
BY DEF PatchType

LEMMA LoadedType ==
  ASSUME NEW b \in Bodies, NEW row \in MonitorType, NEW o \in BOOLEAN
  PROVE  [pc |-> "loaded", body |-> b, loaded |-> row, rows |-> {},
          active_region |-> row.active_region, overlapped |-> o] \in PatchType
BY DEF PatchType, MonitorType

-----------------------------------------------------------------------------
(* Types, and what a PATCH under way has passed                             *)

Passed(p) ==
  /\ p.body \in Bodies
  /\ TimingAllowed(p.body, p.loaded)
  /\ Replaces(p.body) => RegionsAllowed(p.body.probe_regions)
  /\ ~Replaces(p.body) => p.rows = {} /\ p.pc \in {"loaded", "ready"}

Base == TypeOK /\ \A r \in Requests : UnderWay(r) => Passed(patch[r])

LEMMA PassedRegions ==
  ASSUME Base, NEW r \in Requests, UnderWay(r)
  PROVE  /\ NewRegions(patch[r]) \subseteq Regions
         /\ Replaces(patch[r].body) => NewRegions(patch[r]) # {}
BY BodyFields, NamedRegions DEF Base, Passed, NewRegions, Replaces, RegionsAllowed

\* The region that a PATCH resolves is one that it names.
LEMMA ResolvedNamed ==
  ASSUME Base, NEW r \in Requests, PatchResolve(r)
  PROVE  /\ Resolved(Desired(patch[r]), patch[r].body.probe_regions) \in NewRegions(patch[r])
         /\ Resolved(Desired(patch[r]), patch[r].body.probe_regions) \in Regions
<1> DEFINE p == patch[r]
           list == patch[r].body.probe_regions
<1>1. p.pc = "replaced" /\ Resolvable(Desired(p), NewRegions(p)) /\ UnderWay(r)
  BY DEF PatchResolve, UnderWay
<1>2. Passed(p) /\ Replaces(p.body)
  BY <1>1 DEF Base, Passed
<1>3. list \in Seq(Regions) /\ NewRegions(p) = Named(list) /\ Named(list) # {}
  BY <1>2, BodyFields DEF Passed, Replaces, NewRegions, RegionsAllowed
<1>4. Resolved(Desired(p), list) \in Named(list)
  BY <1>1, <1>3, NamedRegions DEF Resolved, Resolvable
<1> QED
  BY <1>3, <1>4, NamedRegions

LEMMA CommittedType ==
  ASSUME Base, NEW r \in Requests, PatchCommit(r)
  PROVE  monitor' \in MonitorType /\ mapped' \subseteq Regions
<1> DEFINE p == patch[r]
           interval == Written(monitor.interval, p.loaded.interval,
                               Given(p.body.interval, p.loaded.interval))
           timeout == Written(monitor.timeout, p.loaded.timeout,
                              Given(p.body.timeout, p.loaded.timeout))
           active == Written(monitor.active_region, p.loaded.active_region, p.active_region)
<1>1. p \in PatchType /\ p.body \in Bodies /\ monitor \in MonitorType
  BY DEF Base, TypeOK, Passed, UnderWay, PatchCommit
<1>2. p.loaded \in MonitorType /\ p.active_region \in Regions \cup {NoRegion}
  BY <1>1 DEF PatchType
<1>3. interval \in Nat /\ timeout \in Nat /\ active \in Regions \cup {NoRegion}
  BY <1>1, <1>2, BodyFields DEF Written, MonitorType
<1>4. monitor' = [monitor EXCEPT !.interval = interval, !.timeout = timeout,
                                 !.active_region = active]
  BY DEF PatchCommit
<1> HIDE DEF interval, timeout, active
<1>5. monitor' \in MonitorType
  BY ONLY <1>1, <1>3, <1>4 DEF MonitorType
<1>6. mapped' \subseteq Regions
  BY PassedRegions DEF PatchCommit, UnderWay, Base, TypeOK
<1> QED
  BY <1>5, <1>6

\* The other PATCHes when one commits: at most their rows become fewer.
LEMMA CommittedPatch ==
  ASSUME Base, NEW r \in Requests, PatchCommit(r)
  PROVE  /\ patch'[r] = NoPatch
         /\ patch' = [s \in Requests |-> patch'[s]]
         /\ \A s \in Requests \ {r} :
              /\ patch'[s] \in PatchType
              /\ patch'[s].rows \subseteq patch[s].rows
              /\ patch'[s].pc = patch[s].pc /\ patch'[s].body = patch[s].body
              /\ patch'[s].loaded = patch[s].loaded
              /\ patch'[s].active_region = patch[s].active_region
              /\ patch'[s].overlapped = patch[s].overlapped
<1>1. patch' = [s \in Requests |-> IF s = r THEN NoPatch ELSE WithoutRows(patch[s], patch[r].rows)]
  BY DEF PatchCommit
<1>2. ASSUME NEW s \in Requests \ {r}
      PROVE  LET q == WithoutRows(patch[s], patch[r].rows)
             IN /\ q \in PatchType /\ q.rows \subseteq patch[s].rows
                /\ q.pc = patch[s].pc /\ q.body = patch[s].body /\ q.loaded = patch[s].loaded
                /\ q.active_region = patch[s].active_region /\ q.overlapped = patch[s].overlapped
  <2>1. patch[s] \in PatchType
    BY DEF Base, TypeOK
  <2>2. CASE patch[s].pc = "deleting"
    <3>1. WithoutRows(patch[s], patch[r].rows) = [patch[s] EXCEPT !.rows = @ \ patch[r].rows]
      BY <2>2 DEF WithoutRows
    <3> QED
      BY <2>1, <3>1 DEF PatchType
  <2>3. CASE patch[s].pc # "deleting"
    BY <2>1, <2>3 DEF WithoutRows
  <2> QED
    BY <2>2, <2>3
<1> QED
  BY <1>1, <1>2

\* A PATCH begins: the others learn that they have been overlapped.
LEMMA LoadedPatch ==
  ASSUME Base, NEW r \in Requests, NEW b \in Bodies, PatchLoad(r, b)
  PROVE  /\ ~UnderWay(r) /\ monitor' = monitor /\ mapped' = mapped
         /\ patch' = [s \in Requests |-> patch'[s]]
         /\ patch'[r] \in PatchType /\ patch'[r].pc = "loaded" /\ patch'[r].rows = {}
         /\ patch'[r].body = b /\ patch'[r].loaded = monitor
         /\ patch'[r].active_region = monitor.active_region
         /\ ~patch'[r].overlapped => \A s \in Requests : ~UnderWay(s)
         /\ TimingAllowed(b, monitor) /\ (Replaces(b) => RegionsAllowed(b.probe_regions))
         /\ \A s \in Requests \ {r} :
              /\ patch'[s] \in PatchType /\ patch'[s].rows = patch[s].rows
              /\ patch'[s].pc = patch[s].pc /\ patch'[s].body = patch[s].body
              /\ patch'[s].loaded = patch[s].loaded
              /\ patch'[s].active_region = patch[s].active_region
              /\ UnderWay(s) => patch'[s].overlapped
<1> DEFINE o == \E q \in Requests : UnderWay(q)
           new == [pc |-> "loaded", body |-> b, loaded |-> monitor, rows |-> {},
                   active_region |-> monitor.active_region, overlapped |-> o]
           told(s) == [patch[s] EXCEPT !.overlapped = @ \/ UnderWay(s)]
<1>1. patch' = [s \in Requests |-> IF s = r THEN new ELSE told(s)]
  BY DEF PatchLoad
<1>2. new \in PatchType /\ new.pc = "loaded" /\ new.rows = {} /\ new.body = b
      /\ new.loaded = monitor /\ new.active_region = monitor.active_region
      /\ (~new.overlapped => \A s \in Requests : ~UnderWay(s))
  <2>1. o \in BOOLEAN /\ monitor \in MonitorType
    BY DEF Base, TypeOK
  <2>2. ~o => \A s \in Requests : ~UnderWay(s)
    OBVIOUS
  <2> HIDE DEF o
  <2> QED
    BY <2>1, <2>2, LoadedType
<1>3. ASSUME NEW s \in Requests
      PROVE  /\ told(s) \in PatchType /\ told(s).rows = patch[s].rows
             /\ told(s).pc = patch[s].pc /\ told(s).body = patch[s].body
             /\ told(s).loaded = patch[s].loaded /\ told(s).active_region = patch[s].active_region
             /\ UnderWay(s) => told(s).overlapped
  <2> DEFINE v == patch[s].overlapped \/ UnderWay(s)
  <2>1. patch[s] \in PatchType /\ v \in BOOLEAN /\ (UnderWay(s) => v)
    BY DEF Base, TypeOK
  <2>2. told(s) = [patch[s] EXCEPT !.overlapped = v]
    OBVIOUS
  <2> HIDE DEF v, told
  <2> QED
    BY <2>1, <2>2 DEF PatchType
<1>4. /\ ~UnderWay(r) /\ monitor' = monitor /\ mapped' = mapped
      /\ TimingAllowed(b, monitor) /\ (Replaces(b) => RegionsAllowed(b.probe_regions))
  BY DEF PatchLoad
<1> HIDE DEF new, told
<1>5. patch' = [s \in Requests |-> patch'[s]]
  BY <1>1
<1>6. patch'[r] = new
  BY <1>1
<1>7. \A s \in Requests \ {r} : patch'[s] = told(s)
  BY <1>1
<1>8. \A s \in Requests \ {r} :
        /\ patch'[s] \in PatchType /\ patch'[s].rows = patch[s].rows
        /\ patch'[s].pc = patch[s].pc /\ patch'[s].body = patch[s].body
        /\ patch'[s].loaded = patch[s].loaded
        /\ patch'[s].active_region = patch[s].active_region
        /\ UnderWay(s) => patch'[s].overlapped
  BY <1>3, <1>7
<1> QED
  BY <1>2, <1>4, <1>5, <1>6, <1>8

\* A PATCH that goes on keeps its body and what it has loaded.
LEMMA MovedPatch ==
  ASSUME Base, NEW r \in Requests,
         PatchNoRegion(r) \/ PatchActive(r) \/ PatchDelete(r) \/ PatchDeleted(r) \/ PatchResolve(r)
  PROVE  /\ monitor' = monitor /\ mapped' = mapped /\ UnderWay(r)
         /\ patch' = [patch EXCEPT ![r] = patch'[r]]
         /\ \A s \in Requests \ {r} : patch'[s] = patch[s]
         /\ patch'[r] \in PatchType /\ patch'[r].body = patch[r].body
         /\ patch'[r].loaded = patch[r].loaded /\ patch'[r].overlapped = patch[r].overlapped
         /\ \/ /\ PatchNoRegion(r) /\ patch'[r].pc = "ready" /\ patch'[r].rows = patch[r].rows
               /\ patch'[r].active_region = patch[r].active_region
            \/ /\ PatchActive(r) /\ patch'[r].pc = "ready" /\ patch'[r].rows = patch[r].rows
               /\ patch'[r].active_region = patch[r].body.active_region
            \/ /\ PatchDelete(r) /\ patch'[r].pc = "deleting" /\ patch'[r].rows = mapped
            \/ /\ PatchDeleted(r) /\ patch'[r].pc = "replaced" /\ patch'[r].rows = patch[r].rows
            \/ /\ PatchResolve(r) /\ patch'[r].pc = "ready" /\ patch'[r].rows = patch[r].rows
               /\ patch'[r].active_region = Resolved(Desired(patch[r]), patch[r].body.probe_regions)
<1>0. /\ patch \in [Requests -> PatchType] /\ mapped \subseteq Regions
      /\ patch[r] \in PatchType
  BY DEF Base, TypeOK
<1>1. CASE PatchNoRegion(r)
  <2> DEFINE new == [patch[r] EXCEPT !.pc = "ready"]
  <2>1. /\ new \in PatchType /\ new.body = patch[r].body /\ new.pc = "ready"
        /\ new.loaded = patch[r].loaded /\ new.overlapped = patch[r].overlapped
        /\ new.rows = patch[r].rows /\ new.active_region = patch[r].active_region
    BY <1>0 DEF PatchType
  <2>2. /\ patch' = [patch EXCEPT ![r] = new] /\ UnderWay(r)
        /\ monitor' = monitor /\ mapped' = mapped
    BY <1>1 DEF PatchNoRegion, UnderWay
  <2> HIDE DEF new
  <2> QED
    BY <1>0, <1>1, <2>1, <2>2
<1>2. CASE PatchActive(r)
  <2> DEFINE a == patch[r].body.active_region
             new == [patch[r] EXCEPT !.pc = "ready", !.active_region = a]
  <2>1. a \in Regions
    BY <1>0, <1>2 DEF PatchActive
  <2>2. /\ patch' = [patch EXCEPT ![r] = new] /\ UnderWay(r)
        /\ monitor' = monitor /\ mapped' = mapped
    BY <1>2 DEF PatchActive, UnderWay
  <2>3. /\ new \in PatchType /\ new.body = patch[r].body /\ new.pc = "ready"
        /\ new.loaded = patch[r].loaded /\ new.overlapped = patch[r].overlapped
        /\ new.rows = patch[r].rows /\ new.active_region = a
    BY <1>0, <2>1 DEF PatchType
  <2> HIDE DEF new
  <2> QED
    BY <1>0, <1>2, <2>2, <2>3
<1>3. CASE PatchDelete(r)
  <2> DEFINE new == [patch[r] EXCEPT !.pc = "deleting", !.rows = mapped]
  <2>1. /\ new \in PatchType /\ new.body = patch[r].body /\ new.pc = "deleting"
        /\ new.loaded = patch[r].loaded /\ new.overlapped = patch[r].overlapped
        /\ new.rows = mapped
    BY <1>0 DEF PatchType
  <2>2. /\ patch' = [patch EXCEPT ![r] = new] /\ UnderWay(r)
        /\ monitor' = monitor /\ mapped' = mapped
    BY <1>3 DEF PatchDelete, UnderWay
  <2> HIDE DEF new
  <2> QED
    BY <1>0, <1>3, <2>1, <2>2
<1>4. CASE PatchDeleted(r)
  <2> DEFINE new == [patch[r] EXCEPT !.pc = "replaced"]
  <2>1. /\ new \in PatchType /\ new.body = patch[r].body /\ new.pc = "replaced"
        /\ new.loaded = patch[r].loaded /\ new.overlapped = patch[r].overlapped
        /\ new.rows = patch[r].rows
    BY <1>0 DEF PatchType
  <2>2. /\ patch' = [patch EXCEPT ![r] = new] /\ UnderWay(r)
        /\ monitor' = monitor /\ mapped' = mapped
    BY <1>4 DEF PatchDeleted, UnderWay
  <2> HIDE DEF new
  <2> QED
    BY <1>0, <1>4, <2>1, <2>2
<1>5. CASE PatchResolve(r)
  <2> DEFINE a == Resolved(Desired(patch[r]), patch[r].body.probe_regions)
             new == [patch[r] EXCEPT !.pc = "ready", !.active_region = a]
  <2>1. a \in Regions
    BY <1>5, ResolvedNamed
  <2>2. /\ patch' = [patch EXCEPT ![r] = new] /\ UnderWay(r)
        /\ monitor' = monitor /\ mapped' = mapped
    BY <1>5 DEF PatchResolve, UnderWay
  <2> HIDE DEF a
  <2>3. /\ new \in PatchType /\ new.body = patch[r].body /\ new.pc = "ready"
        /\ new.loaded = patch[r].loaded /\ new.overlapped = patch[r].overlapped
        /\ new.rows = patch[r].rows /\ new.active_region = a
    BY <1>0, <2>1 DEF PatchType
  <2> HIDE DEF new
  <2> QED
    BY <1>0, <1>5, <2>2, <2>3 DEF a
<1> QED
  BY <1>1, <1>2, <1>3, <1>4, <1>5

LEMMA RefusedPatch ==
  ASSUME Base, NEW r \in Requests, PatchReject(r) \/ PatchConflict(r)
  PROVE  /\ monitor' = monitor /\ mapped' = mapped
         /\ patch' = [patch EXCEPT ![r] = NoPatch]
         /\ patch'[r].pc = "idle" /\ \A s \in Requests \ {r} : patch'[s] = patch[s]
BY IdleTypes DEF PatchReject, PatchConflict, Base, TypeOK

LEMMA BaseStep == Base /\ [Next]_vars => Base'
<1> SUFFICES ASSUME Base, [Next]_vars PROVE Base'
  OBVIOUS
<1>0. /\ patch \in [Requests -> PatchType] /\ monitor \in MonitorType /\ mapped \subseteq Regions
      /\ \A r \in Requests : UnderWay(r) => Passed(patch[r])
  BY DEF Base, TypeOK
<1>1. ASSUME NEW b \in Bodies, Create(b) PROVE Base'
  <2>1. b.timeout \in Nat /\ b.interval \in Nat /\ b.probe_regions \in Seq(Regions)
        /\ b.active_region \in Regions \cup {NoRegion}
    BY <1>1, BodyAssumption DEF BodyType, Create
  <2>2. Resolved(b.active_region, b.probe_regions) \in Regions /\ Named(b.probe_regions) \subseteq Regions
    BY <1>1, <2>1, NamedRegions DEF Create, RegionsAllowed, Resolved
  <2>3. monitor' \in MonitorType
    BY <1>1, <2>1, <2>2 DEF Create, MonitorType
  <2> QED
    BY <1>0, <1>1, <2>2, <2>3 DEF Create, Base, TypeOK, UnderWay
<1>2. ASSUME NEW r \in Requests, NEW b \in Bodies, PatchLoad(r, b) PROVE Base'
  <2>1. \A s \in Requests : patch'[s] \in PatchType
    BY <1>2, LoadedPatch
  <2>2. ASSUME NEW s \in Requests, UnderWay(s)' PROVE Passed(patch'[s])
    <3>1. CASE s = r
      BY <1>2, <3>1, LoadedPatch DEF Passed
    <3>2. CASE s # r
      <4>1. UnderWay(s)
        BY <1>2, <2>2, <3>2, LoadedPatch DEF UnderWay
      <4> QED
        BY <1>0, <1>2, <3>2, <4>1, LoadedPatch DEF Passed
    <3> QED
      BY <3>1, <3>2
  <2>3. TypeOK'
    BY <1>0, <1>2, <2>1, LoadedPatch DEF TypeOK
  <2> QED
    BY <2>2, <2>3 DEF Base
<1>3. ASSUME NEW r \in Requests,
             PatchNoRegion(r) \/ PatchActive(r) \/ PatchDelete(r) \/ PatchDeleted(r) \/ PatchResolve(r)
      PROVE  Base'
  <2>1. TypeOK'
    BY <1>0, <1>3, MovedPatch DEF TypeOK
  <2>2. ASSUME NEW s \in Requests, UnderWay(s)' PROVE Passed(patch'[s])
    <3>1. CASE s = r
      <4>1. Passed(patch[r]) /\ patch'[r].body = patch[r].body /\ patch'[r].loaded = patch[r].loaded
        BY <1>0, <1>3, MovedPatch
      <4>2. ~Replaces(patch[r].body) => patch'[r].rows = {} /\ patch'[r].pc \in {"loaded", "ready"}
        BY <1>3, <4>1, MovedPatch DEF Passed, PatchDelete, PatchDeleted, PatchResolve
      <4> QED
        BY <3>1, <4>1, <4>2 DEF Passed
    <3>2. CASE s # r
      BY <1>0, <1>3, <2>2, <3>2, MovedPatch DEF UnderWay
    <3> QED
      BY <3>1, <3>2
  <2> QED
    BY <2>1, <2>2 DEF Base
<1>4. ASSUME NEW r \in Requests, PatchReject(r) \/ PatchConflict(r) PROVE Base'
  <2>1. TypeOK'
    BY <1>0, <1>4, RefusedPatch, IdleTypes DEF TypeOK
  <2>2. ASSUME NEW s \in Requests, UnderWay(s)' PROVE Passed(patch'[s])
    BY <1>0, <1>4, <2>2, RefusedPatch DEF UnderWay
  <2> QED
    BY <2>1, <2>2 DEF Base
<1>5. ASSUME NEW r \in Requests, PatchCommit(r) PROVE Base'
  <2>1. \A s \in Requests : patch'[s] \in PatchType
    BY <1>5, CommittedPatch, IdleTypes
  <2>2. ASSUME NEW s \in Requests, UnderWay(s)' PROVE Passed(patch'[s])
    <3>1. s # r
      BY <1>5, <2>2, CommittedPatch, IdleTypes DEF UnderWay
    <3>2. UnderWay(s)
      BY <1>5, <2>2, <3>1, CommittedPatch DEF UnderWay
    <3>3. Passed(patch[s]) /\ patch'[s].rows \subseteq patch[s].rows
      BY <1>0, <1>5, <3>1, <3>2, CommittedPatch
    <3> QED
      BY <1>5, <3>1, <3>3, CommittedPatch DEF Passed
  <2>3. TypeOK'
    BY <1>5, <2>1, CommittedPatch, CommittedType DEF TypeOK
  <2> QED
    BY <2>2, <2>3 DEF Base
<1>6. CASE UNCHANGED vars
  BY <1>0, <1>6 DEF vars, Base, TypeOK, UnderWay
<1> QED
  BY <1>1, <1>2, <1>3, <1>4, <1>5, <1>6 DEF Next

LEMMA BaseInit == Init => Base
BY IdleTypes DEF Init, Base, TypeOK, UnderWay

\* Every variable keeps its type: the row, its regions and the PATCHes.
THEOREM TypeCorrect == Spec => []TypeOK
<1>1. Base => TypeOK
  BY DEF Base
<1> QED
  BY <1>1, BaseInit, BaseStep, PTL DEF Spec

-----------------------------------------------------------------------------
\* A monitor always has a region: a PATCH that replaces the list inserts the ones
\* it names in the transaction that deletes the old ones, and one that does not
\* deletes none, whatever it waits for.
THEOREM RegionsRemain == Spec => []AtLeastOneRegion
<1>1. Init => AtLeastOneRegion
  BY DEF Init, AtLeastOneRegion, NoMonitor
<1>2. Base /\ AtLeastOneRegion /\ [Next]_vars => AtLeastOneRegion'
  <2> SUFFICES ASSUME Base, AtLeastOneRegion, [Next]_vars PROVE AtLeastOneRegion'
    OBVIOUS
  <2>1. ASSUME NEW b \in Bodies, Create(b) PROVE AtLeastOneRegion'
    BY <2>1 DEF Create, RegionsAllowed, AtLeastOneRegion
  <2>2. ASSUME NEW r \in Requests, PatchCommit(r) PROVE AtLeastOneRegion'
    <3>1. UnderWay(r) /\ mapped' = (mapped \ patch[r].rows) \cup NewRegions(patch[r])
      BY <2>2 DEF UnderWay, PatchCommit
    <3>2. CASE Replaces(patch[r].body)
      BY <3>1, <3>2, PassedRegions DEF AtLeastOneRegion
    <3>3. CASE ~Replaces(patch[r].body)
      <4>1. patch[r].rows = {}
        BY <3>1, <3>3 DEF Base, Passed
      <4>2. monitor'.exists = monitor.exists
        BY <2>2 DEF PatchCommit, Base, TypeOK, MonitorType
      <4> QED
        BY <3>1, <4>1, <4>2 DEF AtLeastOneRegion
    <3> QED
      BY <3>2, <3>3
  <2>3. CASE monitor' = monitor /\ mapped' = mapped
    BY <2>3 DEF AtLeastOneRegion
  <2> QED
    BY <2>1, <2>2, <2>3, LoadedPatch, MovedPatch, RefusedPatch DEF Next, vars
<1> QED
  BY <1>1, <1>2, BaseInit, BaseStep, PTL DEF Spec

-----------------------------------------------------------------------------
(* What a PATCH that nobody overlapped relies on                            *)

\* It has loaded the row that is there, deletes the rows that are there, and has
\* chosen an active region among those that will be.
Undisturbed(r) ==
  LET p == patch[r] IN
  /\ \A s \in Requests \ {r} : ~UnderWay(s)
  /\ p.loaded = monitor /\ monitor.exists
  /\ p.pc # "ready" => p.active_region = monitor.active_region
  /\ p.pc # "loaded" /\ Replaces(p.body) => p.rows = mapped
  /\ p.pc = "ready" => p.active_region \in IF Replaces(p.body) THEN NewRegions(p)
                                           ELSE mapped \cup {monitor.active_region}

AloneInv == \A r \in Requests : UnderWay(r) /\ ~patch[r].overlapped => Undisturbed(r)

LEMMA AloneStep == Base /\ AloneInv /\ [Next]_vars => AloneInv'
<1> SUFFICES ASSUME Base, AloneInv, [Next]_vars,
                    NEW r \in Requests, UnderWay(r)', ~patch'[r].overlapped
             PROVE  Undisturbed(r)'
  BY DEF AloneInv
<1>0. patch \in [Requests -> PatchType]
  BY DEF Base, TypeOK
<1>1. ASSUME NEW b \in Bodies, Create(b) PROVE Undisturbed(r)'
  BY <1>1 DEF Create, AloneInv, Undisturbed, UnderWay
<1>2. ASSUME NEW q \in Requests, NEW b \in Bodies, PatchLoad(q, b) PROVE Undisturbed(r)'
  <2>1. q = r
    BY <1>2, LoadedPatch DEF UnderWay
  <2>2. \A s \in Requests \ {r} : ~UnderWay(s)'
    BY <1>2, <2>1, LoadedPatch DEF UnderWay
  <2>3. monitor.exists /\ mapped' = mapped /\ monitor' = monitor
    BY <1>2 DEF PatchLoad
  <2> QED
    BY <1>2, <2>1, <2>2, <2>3, LoadedPatch DEF Undisturbed
<1>3. ASSUME NEW q \in Requests,
             PatchNoRegion(q) \/ PatchActive(q) \/ PatchDelete(q) \/ PatchDeleted(q) \/ PatchResolve(q)
      PROVE  Undisturbed(r)'
  <2>1. UnderWay(q) /\ monitor' = monitor /\ mapped' = mapped
        /\ \A s \in Requests : UnderWay(s)' => UnderWay(s)
        /\ patch'[r].overlapped = patch[r].overlapped
    BY <1>3, MovedPatch DEF UnderWay
  <2>2. Undisturbed(r)
    BY <2>1 DEF AloneInv
  <2>3. q = r /\ \A s \in Requests \ {r} : ~UnderWay(s)'
    BY <2>1, <2>2 DEF Undisturbed
  <2>4. /\ patch'[r].loaded = monitor /\ monitor.exists
        /\ patch'[r].body = patch[r].body /\ NewRegions(patch'[r]) = NewRegions(patch[r])
    BY <1>3, <2>2, <2>3, MovedPatch DEF Undisturbed, NewRegions
  <2>5. CASE PatchNoRegion(r)
    <3>1. /\ patch'[r].pc = "ready" /\ patch'[r].active_region = patch[r].active_region
          /\ ~Replaces(patch[r].body) /\ patch[r].pc = "loaded"
      BY <1>0, <2>5 DEF PatchNoRegion, PatchType
    <3>2. patch[r].active_region = monitor.active_region
      BY <2>2, <3>1 DEF Undisturbed
    <3> QED
      BY <2>1, <2>3, <2>4, <3>1, <3>2 DEF Undisturbed
  <2>6. CASE PatchActive(r)
    <3>1. /\ patch'[r].pc = "ready" /\ patch'[r].active_region = patch[r].body.active_region
          /\ ~Replaces(patch[r].body) /\ patch[r].body.active_region \in mapped
      BY <1>0, <2>6 DEF PatchActive, PatchType
    <3> QED
      BY <2>1, <2>3, <2>4, <3>1 DEF Undisturbed
  <2>7. CASE PatchDelete(r)
    <3>1. /\ patch'[r].pc = "deleting" /\ patch'[r].rows = mapped
          /\ patch'[r].active_region = patch[r].active_region
          /\ patch[r].pc = "loaded"
      BY <1>0, <2>7 DEF PatchDelete, PatchType
    <3> QED
      BY <2>1, <2>2, <2>3, <2>4, <3>1 DEF Undisturbed
  <2>8. CASE PatchDeleted(r)
    <3>1. /\ patch'[r].pc = "replaced" /\ patch'[r].rows = patch[r].rows
          /\ patch'[r].active_region = patch[r].active_region
          /\ patch[r].pc = "deleting"
      BY <1>0, <2>8 DEF PatchDeleted, PatchType
    <3> QED
      BY <2>1, <2>2, <2>3, <2>4, <3>1 DEF Undisturbed
  <2>9. CASE PatchResolve(r)
    <3>1. /\ patch'[r].pc = "ready" /\ patch'[r].rows = patch[r].rows /\ patch[r].pc = "replaced"
          /\ patch'[r].active_region = Resolved(Desired(patch[r]), patch[r].body.probe_regions)
      BY <2>9, MovedPatch DEF PatchNoRegion, PatchActive, PatchDelete, PatchDeleted, PatchResolve
    <3>2. patch'[r].active_region \in NewRegions(patch[r]) /\ Replaces(patch[r].body)
      BY <2>1, <2>9, <3>1, ResolvedNamed DEF Base, Passed
    <3> QED
      BY <2>1, <2>2, <2>3, <2>4, <3>1, <3>2 DEF Undisturbed
  <2> QED
    BY <1>3, <2>3, <2>5, <2>6, <2>7, <2>8, <2>9
<1>4. ASSUME NEW q \in Requests, PatchReject(q) \/ PatchConflict(q) PROVE Undisturbed(r)'
  <2>1. r # q /\ UnderWay(q)
    BY <1>4, RefusedPatch DEF UnderWay, PatchReject, PatchConflict
  <2>2. patch'[r] = patch[r]
    BY <1>4, <2>1, RefusedPatch
  <2> QED
    BY <2>1, <2>2 DEF AloneInv, Undisturbed, UnderWay
<1>5. ASSUME NEW q \in Requests, PatchCommit(q) PROVE Undisturbed(r)'
  <2>1. UnderWay(q) /\ r # q
    BY <1>5, CommittedPatch, IdleTypes DEF UnderWay, PatchCommit
  <2>2. UnderWay(r) /\ ~patch[r].overlapped
    BY <1>5, <2>1, CommittedPatch DEF UnderWay
  <2> QED
    BY <2>1, <2>2 DEF AloneInv, Undisturbed
<1>6. CASE UNCHANGED vars
  BY <1>6 DEF vars, AloneInv, Undisturbed, UnderWay
<1> QED
  BY <1>1, <1>2, <1>3, <1>4, <1>5, <1>6 DEF Next

LEMMA AloneInit == Init => AloneInv
BY IdleTypes DEF Init, AloneInv, UnderWay

\* What the commit of a PATCH that nobody overlapped leaves.
LEMMA AloneCommit ==
  ASSUME Base, AloneInv, NEW r \in Requests, PatchCommit(r), ~patch[r].overlapped
  PROVE  /\ monitor.exists
         /\ monitor'.interval = Given(patch[r].body.interval, monitor.interval)
         /\ monitor'.timeout = Given(patch[r].body.timeout, monitor.timeout)
         /\ monitor'.active_region = patch[r].active_region
         /\ TimingAllowed(patch[r].body, monitor)
         /\ mapped' = IF Replaces(patch[r].body) THEN NewRegions(patch[r]) ELSE mapped
         /\ patch[r].active_region \in IF Replaces(patch[r].body) THEN NewRegions(patch[r])
                                       ELSE mapped \cup {monitor.active_region}
<1> DEFINE p == patch[r]
<1>1. UnderWay(r) /\ p.pc = "ready"
  BY DEF UnderWay, PatchCommit
<1>2. Undisturbed(r) /\ Passed(p)
  BY <1>1 DEF AloneInv, Base
<1>3. monitor' = [monitor EXCEPT
        !.interval = Given(p.body.interval, monitor.interval),
        !.timeout = Given(p.body.timeout, monitor.timeout),
        !.active_region = p.active_region]
  BY <1>2 DEF PatchCommit, Written, Undisturbed
<1>4. /\ monitor'.interval = Given(p.body.interval, monitor.interval)
      /\ monitor'.timeout = Given(p.body.timeout, monitor.timeout)
      /\ monitor'.active_region = p.active_region
  BY <1>3 DEF Base, TypeOK, MonitorType
<1>5. mapped' = IF Replaces(p.body) THEN NewRegions(p) ELSE mapped
  <2>1. mapped' = (mapped \ p.rows) \cup NewRegions(p)
    BY DEF PatchCommit
  <2>2. CASE Replaces(p.body)
    BY <1>1, <1>2, <2>1, <2>2 DEF Undisturbed
  <2>3. CASE ~Replaces(p.body)
    BY <1>2, <2>1, <2>3 DEF Passed, NewRegions
  <2> QED
    BY <2>2, <2>3
<1> QED
  BY <1>1, <1>2, <1>4, <1>5 DEF Undisturbed, Passed

\* Only a PATCH that overlapped another one makes the timeout longer than the
\* interval: any other has validated its body against the row it changes.
THEOREM TimeoutStays == Spec => TimeoutStaysWithinInterval
<1>1. Base /\ AloneInv /\ [Next]_vars =>
        (TimeoutWithinInterval /\ ~TimeoutWithinInterval' =>
           \E r \in Requests : patch[r].overlapped /\ patch'[r].pc = "idle")
  <2> SUFFICES ASSUME Base, AloneInv, [Next]_vars, TimeoutWithinInterval, ~TimeoutWithinInterval'
               PROVE  \E r \in Requests : patch[r].overlapped /\ patch'[r].pc = "idle"
    OBVIOUS
  <2>1. ASSUME NEW b \in Bodies, Create(b) PROVE FALSE
    BY <2>1 DEF Create, TimeoutWithinInterval
  <2>2. PICK r \in Requests : PatchCommit(r)
    <3>1. monitor' # monitor
      BY DEF TimeoutWithinInterval
    <3> QED
      BY <2>1, <3>1, LoadedPatch, MovedPatch, RefusedPatch DEF Next, vars
  <2>3. patch[r].overlapped
    BY <2>2, AloneCommit DEF TimeoutWithinInterval, TimingAllowed
  <2>4. patch'[r].pc = "idle"
    BY <2>2, CommittedPatch, IdleTypes
  <2> QED
    BY <2>3, <2>4
<1> QED
  BY <1>1, BaseInit, BaseStep, AloneInit, AloneStep, PTL DEF Spec, TimeoutStaysWithinInterval

\* Only a PATCH that overlapped another one makes a region active that is not
\* mapped: any other deletes the rows it has seen and inserts its active region.
THEOREM ActiveRegionStays == Spec => ActiveRegionStaysMapped
<1>1. Base /\ AloneInv /\ [Next]_vars =>
        (ActiveRegionMapped /\ ~ActiveRegionMapped' =>
           \E r \in Requests : patch[r].overlapped /\ patch'[r].pc = "idle")
  <2> SUFFICES ASSUME Base, AloneInv, [Next]_vars, ActiveRegionMapped, ~ActiveRegionMapped'
               PROVE  \E r \in Requests : patch[r].overlapped /\ patch'[r].pc = "idle"
    OBVIOUS
  <2>1. ASSUME NEW b \in Bodies, Create(b) PROVE FALSE
    <3>1. b.probe_regions \in Seq(Regions) /\ Named(b.probe_regions) # {}
      BY <2>1, BodyFields DEF Create, RegionsAllowed
    <3>2. Resolved(b.active_region, b.probe_regions) \in Named(b.probe_regions)
      BY <2>1, <3>1, NamedRegions DEF Create, Resolvable, Resolved
    <3> QED
      BY <2>1, <3>2 DEF Create, ActiveRegionMapped
  <2>2. PICK r \in Requests : PatchCommit(r)
    <3>1. monitor' # monitor \/ mapped' # mapped
      BY DEF ActiveRegionMapped
    <3> QED
      BY <2>1, <3>1, LoadedPatch, MovedPatch, RefusedPatch DEF Next, vars
  <2>3. patch[r].overlapped
    BY <2>2, AloneCommit DEF ActiveRegionMapped
  <2>4. patch'[r].pc = "idle"
    BY <2>2, CommittedPatch, IdleTypes
  <2> QED
    BY <2>3, <2>4
<1> QED
  BY <1>1, BaseInit, BaseStep, AloneInit, AloneStep, PTL DEF Spec, ActiveRegionStaysMapped
=============================================================================
