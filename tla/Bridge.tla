-------------------------------- MODULE Bridge ---------------------------------
(***************************************************************************)
(* world_manager's tick loop as the nodes around the ground truth see it:   *)
(* gt_publisher on the tick thread, the perception twin and control_adapter *)
(* in processes of their own.  Localization and control are the nodes of    *)
(* Stack; here they are what they do to their neighbours: a pose for each   *)
(* tick and a command for each pose or timeout, in tick order, at any time. *)
(***************************************************************************)
EXTENDS GtPublisher, GtTwinNode, ControlAdapter, FiniteSets

CONSTANTS
  Scenes,       \* what a launch may consist of: the lights, agents and nodes, and
                \* the bounds on its ticks, resets and lane graphs
  MaxTimeouts   \* bound: gate timeouts

ASSUME BridgeAssumption ==
  /\ MaxTimeouts \in Nat
  /\ Scenes \subseteq [lights : SUBSET Lights, agents : SUBSET Agents,
                       nodes : SUBSET {"twin", "adapter"},
                       ticks : Nat, resets : Nat, graphs : Nat]

VARIABLES
  scene,      \* what is launched here
  now,        \* tick index of the last simulated frame
  episode,    \* _episode_id
  step,       \* the tick thread: "loop", "reset" announced, or "gate", where it
              \* publishes the lights and then waits for the command
  posed,      \* the newest tick localization has published a pose for
  poseOk,     \* whether that pose is valid
  commanded,  \* the newest tick that has its command
  timedOut    \* the ticks whose gate gave up

tickVars == <<scene, now, episode, step, posed, poseOk, commanded, timedOut>>
vars == <<tickVars, gtVars, inbox, twinVars, adapterVars>>

TypeOK ==
  /\ scene \in Scenes
  /\ now \in 0 .. scene.ticks /\ episode \in 0 .. scene.resets
  /\ step \in {"loop", "reset", "gate"}
  /\ posed \in 0 .. now /\ poseOk \in BOOLEAN /\ commanded \in 0 .. now
  /\ timedOut \subseteq 1 .. now /\ Cardinality(timedOut) <= MaxTimeouts
  /\ DOMAIN inbox = Subs
  /\ GtTypeOK /\ TwinTypeOK /\ AdapterTypeOK

Init ==
  /\ scene \in Scenes
  /\ now = 0 /\ episode = 0 /\ step = "loop"
  /\ posed = 0 /\ poseOk = FALSE /\ commanded = 0 /\ timedOut = {}
  /\ inbox = [s \in Subs |-> IF s = "reset_event" /\ "twin" \in scene.nodes
                             THEN <<[k |-> 1]>> ELSE <<>>]
  /\ GtInit /\ TwinInit /\ AdapterInit

(* _apply_reset up to its tick. *)
ApplyReset ==
  /\ step = "loop" /\ episode < scene.resets /\ now < scene.ticks
  /\ episode' = episode + 1
  /\ ResetHistory
  /\ inbox' = Deliver(inbox, scene.nodes, "reset_event", [k |-> now + 1])
  /\ step' = "reset"
  /\ UNCHANGED <<scene, now, posed, poseOk, commanded, timedOut>>
  /\ UNCHANGED <<lightVars, twinVars, adapterVars>>

(* _tick_once and publish, up to the lights. *)
TickWorld ==
  /\ step \in {"loop", "reset"} /\ now < scene.ticks
  /\ now' = now + 1
  /\ inbox' = Deliver(Deliver(inbox, scene.nodes, "vehicle_state", [k |-> now + 1]),
                      scene.nodes, "gt", [k |-> now + 1, valid |-> TRUE])
  /\ \E seen \in SUBSET scene.agents : PublishAgents(now + 1, seen)
  /\ todo' = scene.lights
  /\ step' = "gate"
  /\ UNCHANGED <<scene, episode, posed, poseOk, commanded, timedOut>>
  /\ UNCHANGED <<graph, lanes, clearing, tlStatic, resolving, twinVars, adapterVars>>

(* _publish_traffic_lights, one light at a time. *)
PublishLights ==
  /\ step = "gate" /\ LightsNext
  /\ UNCHANGED <<tickVars, inbox, twinVars, adapterVars>>

PassGate ==
  /\ step = "gate" /\ todo = {} /\ commanded >= now
  /\ step' = "loop"
  /\ UNCHANGED <<scene, now, episode, posed, poseOk, commanded, timedOut>>
  /\ UNCHANGED <<gtVars, inbox, twinVars, adapterVars>>

TimeOutGate ==
  /\ step = "gate" /\ todo = {} /\ commanded < now
  /\ Cardinality(timedOut) < MaxTimeouts
  /\ timedOut' = timedOut \cup {now}
  /\ inbox' = Deliver(inbox, scene.nodes, "tick_timeout", [k |-> now])
  /\ step' = "loop"
  /\ UNCHANGED <<scene, now, episode, posed, poseOk, commanded>>
  /\ UNCHANGED <<gtVars, twinVars, adapterVars>>

Executor ==
  /\ ExecutorNext(scene.graphs)
  /\ UNCHANGED <<tickVars, inbox, twinVars, adapterVars>>

(* Localization: the pose of a tick, valid or not; it may skip a tick. *)
Localize ==
  /\ \E k \in posed + 1 .. now, ok \in BOOLEAN :
       /\ posed' = k /\ poseOk' = ok
       /\ inbox' = Deliver(inbox, scene.nodes, "pose", [k |-> k, valid |-> ok])
  /\ UNCHANGED <<scene, now, episode, step, commanded, timedOut>>
  /\ UNCHANGED <<gtVars, twinVars, adapterVars>>

(* Control: follow the newest pose, or stop for a tick that timed out. *)
Command ==
  /\ \E k \in commanded + 1 .. now :
       /\ k = posed \/ k \in timedOut
       /\ commanded' = k
       /\ inbox' = Deliver(inbox, scene.nodes, "command", [k |-> k, stop |-> k # posed \/ ~ poseOk])
  /\ UNCHANGED <<scene, now, episode, step, posed, poseOk, timedOut>>
  /\ UNCHANGED <<gtVars, twinVars, adapterVars>>

Twin ==
  /\ "twin" \in scene.nodes
  /\ TwinNext \/ TwinOnLaneGraph(graph)
  /\ UNCHANGED <<tickVars, gtVars, adapterVars>>

Adapter ==
  /\ "adapter" \in scene.nodes
  /\ AdapterNext
  /\ UNCHANGED <<tickVars, gtVars, twinVars>>

Next ==
  \/ ApplyReset \/ TickWorld \/ PublishLights \/ PassGate \/ TimeOutGate
  \/ Executor \/ Localize \/ Command \/ Twin \/ Adapter

Spec == Init /\ [][Next]_vars

(* The tick thread and the executors of the nodes run; the stack answers. *)
Fairness ==
  /\ WF_vars(TickWorld) /\ WF_vars(PublishLights)
  /\ WF_vars(PassGate) /\ WF_vars(Localize) /\ WF_vars(Command)
  /\ WF_vars(Executor)
  /\ WF_vars("twin" \in scene.nodes /\ TwinOnResetEvent
             /\ UNCHANGED <<tickVars, gtVars, adapterVars>>)
  /\ WF_vars("twin" \in scene.nodes /\ TwinOnTickTimeout
             /\ UNCHANGED <<tickVars, gtVars, adapterVars>>)
  /\ \A i \in TwinInputs :
       WF_vars("twin" \in scene.nodes /\ TwinOnInput(i)
               /\ UNCHANGED <<tickVars, gtVars, adapterVars>>)

FairSpec == Spec /\ Fairness

(* ---- properties --------------------------------------------------------- *)

(* history[i] of an agent is where it was 2 i ticks ago, in this episode and  *)
(* on this visit, and no pose that is old enough is left out: a pose may never *)
(* survive a reset, an absence or the wrap of the ring.                        *)
EvenlySpacedHistory ==
  \A a \in DOMAIN agentsMsg \cap DOMAIN stay :
    LET past == agentsMsg[a]
        ticks == now - stay[a]
    IN  /\ Len(past) = IF ticks \div 2 > HistoryLen THEN HistoryLen ELSE ticks \div 2
        /\ \A i \in DOMAIN past : past[i] = now - 2 * i

(* The twin does without the pose or the ground truth of a tick only after    *)
(* the gate gave up on that tick or on an earlier one of the same episode.     *)
FallbackOnlyAfterTimeout ==
  \A i \in DOMAIN outputs :
    outputs[i].what \in {"no_pose", "no_gt"} =>
      \E t \in timedOut : outputs[i].start <= t /\ t <= outputs[i].k

(* Pedals for a speed of another tick are used only when the vehicle_state of *)
(* the command's tick was not handled before it: the window never drops one   *)
(* that is still needed, however the adapter lags behind the gate.             *)
OwnSpeedOnceSeen ==
  [][applied' # applied /\ ~ applied'.brake /\ applied'.speed # applied'.k
       => applied'.k \notin speedsSeen]_vars

(* The twin's messages of the last tick are still to be handled, and every     *)
(* ResetEvent has been.                                                        *)
LastTickAhead ==
  /\ now = scene.ticks /\ "twin" \in scene.nodes
  /\ inbox["reset_event"] = <<>>
  /\ \E i \in DOMAIN inbox["gt"] : inbox["gt"][i].k = now
  /\ posed < now \/ \E i \in DOMAIN inbox["pose"] : inbox["pose"][i].k = now

(* However far the twin has fallen behind, and whatever was dropped from its   *)
(* queues on the way, it answers the last (planning) tick.                      *)
LastTickAnswered == LastTickAhead ~> twinLast = scene.ticks
===============================================================================
