------------------------------- MODULE MCTools --------------------------------
(***************************************************************************)
(* Instances of Tools for TLC: the routes of two towns, not sorted by town.*)
(***************************************************************************)
EXTENDS Tools

RoutesOfTwoTowns == <<"Town01", "Town02", "Town01">>

(* Two resets fit into the first launch, with a tick to spare, one into the   *)
(* second; the sweeps' stack runs long enough for a whole run.                *)
TicksPerLaunch == <<3, 1, 5>>
===============================================================================
