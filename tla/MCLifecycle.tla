------------------------------ MODULE MCLifecycle ------------------------------
(***************************************************************************)
(* Instances of WorldLifecycle for TLC: a town, one that the server also    *)
(* has under a longer name (CARLA boots Town10HD_Opt), and two versions of  *)
(* a generated map, which are exported under one name.                      *)
(***************************************************************************)
EXTENDS WorldLifecycle

Maps == {"Town03", "Town10HD", "Town10HD_Opt", "straight_v1", "straight_v2"}
Straights == {"straight_v1", "straight_v2"}

NameOf == [w \in Maps |-> IF w \in Straights THEN "OpenDriveMap" ELSE w]

(* carla.town: each map of its own name; the file's two versions. *)
AllTowns == {"Town03", "Town10HD"} \cup Straights
OneTown == {"Town03"}

Itself(towns) == [a \in towns |-> a]
StemOf(towns) == [a \in towns |-> IF a \in Straights THEN "sysid_straight" ELSE a]
OpensAll == Itself(AllTowns)
StemAll == StemOf(AllTowns)
OpensOne == Itself(OneTown)
StemOne == StemOf(OneTown)

Substrings == {<<w, w>> : w \in Maps} \cup {<<"Town10HD", "Town10HD_Opt">>}
NoFile == {}
===============================================================================
