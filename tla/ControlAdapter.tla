----------------------------- MODULE ControlAdapter ----------------------------
(***************************************************************************)
(* control_adapter.py: every ControlCommand becomes one CARLA control, with *)
(* pedals for the speed of the command's own tick, or for the latest speed  *)
(* when that of its tick is not known.  A speed stands for its tick.        *)
(***************************************************************************)
EXTENDS NodeInbox

CONSTANT SpeedHistoryTicks   \* SPEED_HISTORY_TICKS

ASSUME AdapterAssumption == SpeedHistoryTicks \in Nat

VARIABLES
  speedByTick,   \* _speed_by_tick: the ticks whose speed is kept
  latestSpeed,   \* _latest_speed: the tick it is of, 0 for the initial 0.0
  speedsSeen,    \* (history) every vehicle_state handled so far
  applied        \* the control CARLA was sent last

adapterVars == <<speedByTick, latestSpeed, speedsSeen, applied>>

NothingApplied == [k |-> 0, brake |-> FALSE, speed |-> 0]

AdapterTypeOK ==
  /\ \A k \in speedByTick : k \in Nat
  /\ latestSpeed \in Nat
  /\ applied \in [k : Nat, brake : BOOLEAN, speed : Nat]

AdapterInit ==
  /\ speedByTick = {} /\ latestSpeed = 0 /\ speedsSeen = {}
  /\ applied = NothingApplied

(* Mutant: only the newest speed is kept. *)
OnVehicleStateTight ==
  LET k == Head(inbox["vehicle_state"]).k
  IN  /\ TakeFrom("vehicle_state")
      /\ speedByTick' = {k}
      /\ latestSpeed' = k
      /\ speedsSeen' = speedsSeen \cup {k}
      /\ UNCHANGED applied

(* _on_vehicle_state *)
OnVehicleState ==
  LET k == Head(inbox["vehicle_state"]).k
  IN  /\ TakeFrom("vehicle_state")
      /\ speedByTick' = {t \in speedByTick \cup {k} : t >= k - SpeedHistoryTicks}
      /\ latestSpeed' = k
      /\ speedsSeen' = speedsSeen \cup {k}
      /\ UNCHANGED applied

(* The control of a command: an emergency stop is full brake whatever the speed. *)
ControlFrom(c) ==
  [k |-> c.k, brake |-> c.stop,
   speed |-> IF c.stop THEN 0 ELSE IF c.k \in speedByTick THEN c.k ELSE latestSpeed]

(* _on_control_command *)
OnControlCommand ==
  /\ TakeFrom("command")
  /\ applied' = ControlFrom(Head(inbox["command"]))
  /\ UNCHANGED <<speedByTick, latestSpeed, speedsSeen>>

AdapterNext == OnVehicleState \/ OnControlCommand
===============================================================================
