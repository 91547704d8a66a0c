------------------------- MODULE MCServiceDiscovery -------------------------
(***************************************************************************)
(* Zones of up to three targets with weights below, at and above the scale *)
(* of two: three light entries raise the scale to three, and two entries   *)
(* may share a target.                                                     *)
(***************************************************************************)
EXTENDS ServiceDiscovery

CONSTANTS r1, r2

Entry(t, p, w) == [target |-> t, priority |-> p, weight |-> w]

MCZones ==
  {{},
   {Entry(1, 0, 0)},
   {Entry(1, 0, 1), Entry(2, 1, 1)},
   {Entry(1, 0, 1), Entry(1, 0, 2), Entry(2, 0, 0)},
   {Entry(1, 0, 2), Entry(2, 0, 0)},
   {Entry(1, 0, 1), Entry(2, 0, 2), Entry(3, 0, 0)},
   {Entry(1, 0, 1), Entry(2, 0, 5)},
   {Entry(1, 0, 4), Entry(2, 0, 4), Entry(3, 0, 4)}}
MCRequests == {r1, r2}
=============================================================================
