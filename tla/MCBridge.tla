------------------------------- MODULE MCBridge --------------------------------
(***************************************************************************)
(* Instances of Bridge for TLC: each of its parts next to the tick loop.   *)
(***************************************************************************)
EXTENDS Bridge

Scene(lts, ags, nds, tks, rsts, grs) ==
  [lights |-> lts, agents |-> ags, nodes |-> nds,
   ticks |-> tks, resets |-> rsts, graphs |-> grs]

OnlyLights == {Scene(Lights, {}, {}, 3, 0, 2)}

EachPart == OnlyLights \cup
  {Scene({}, Agents, {}, 6, 1, 0), Scene({}, {}, {"twin"}, 4, 1, 0),
   Scene({}, {}, {"twin"}, 2, 0, 1), Scene({}, {}, {"adapter"}, 5, 0, 0)}
===============================================================================
