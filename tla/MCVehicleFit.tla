----------------------------- MODULE MCVehicleFit ------------------------------
(***************************************************************************)
(* Instances of VehicleFit for TLC: three speeds with one pedal level, so   *)
(* that a bin has neighbours on both sides, and two speeds with two levels. *)
(***************************************************************************)
EXTENDS VehicleFit

SmallShapes == {<<3, 1>>, <<2, 2>>}
FewMeans == {Empty, -2, 1}
===============================================================================
