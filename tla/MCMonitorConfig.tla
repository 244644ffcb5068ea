-------------------------- MODULE MCMonitorConfig --------------------------
(* MonitorConfig with three regions, one of them not in the catalogue, and two
   values of each timing field. *)
EXTENDS MonitorConfig

CONSTANTS a, b, c

NoFields == [probe_regions |-> Unset, active_region |-> Unset, interval |-> Unset, timeout |-> Unset]

Lists == {<<>>, <<a>>, <<b, a>>, <<c>>}

NewMonitors == {[probe_regions |-> l, active_region |-> r, interval |-> 60, timeout |-> t] :
                  l \in Lists, r \in {a, NoRegion}, t \in {10, 60}}

RegionBodies ==
  {[NoFields EXCEPT !.probe_regions = l, !.active_region = r] :
     l \in Lists \cup {Unset}, r \in {a, b, NoRegion, Unset}}

TimingBodies ==
  {[NoFields EXCEPT !.interval = i, !.timeout = t] :
     i \in {30, 60, Unset}, t \in {10, 60, Unset}}

MCBodies == NewMonitors \cup RegionBodies \cup TimingBodies
=============================================================================
