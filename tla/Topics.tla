------------------------------- MODULE Topics --------------------------------
(***************************************************************************)
(* The ROS 2 topics that carry one tick through the M0 stack, as the nodes *)
(* use them: every (topic, node) subscription is a FIFO that keeps the     *)
(* last Depth(topic) messages and drops the oldest beyond that (qos.h).    *)
(* Nothing orders two subscriptions of one node: the middleware may hand   *)
(* over the newer message of one topic before the older message of         *)
(* another.  A message is a record; its field "tick" is the tick index of  *)
(* its header stamp, 0 for a message that carries no stamp.                *)
(***************************************************************************)
EXTENDS Naturals, Sequences

CONSTANTS
  Nodes,       \* the nodes this profile launches besides world_manager
  ResetFirst   \* TRUE: a ResetEvent overtakes no data, that is, every node
               \* handles it before any message of the new episode, which is
               \* what docs/02 section 7 takes for granted.  FALSE: what
               \* separate topics guarantee, no order at all.

AllNodes == {"gt_pose", "controller", "route_planner"}

VARIABLE queue   \* subscription -> the messages its callback has not taken yet

ASSUME NodesAssumption == Nodes \subseteq AllNodes

ASSUME ResetFirstAssumption == ResetFirst \in BOOLEAN

(* Who subscribes to what, from the constructors of the nodes. *)
Subscribers(topic) ==
  CASE topic = "ego_odom"       -> {"gt_pose"}
    [] topic = "vehicle_state"  -> {"gt_pose"}
    [] topic = "pose"           -> {"controller", "route_planner"}
    [] topic = "lane_graph"     -> {"route_planner"}
    [] topic = "waypoints"      -> {"route_planner"}
    [] topic = "reference_line" -> {"controller"}
    [] topic = "tick_timeout"   -> {"gt_pose", "controller"}
    [] topic = "reset_event"    -> AllNodes
    [] topic = "command"        -> {"world_manager"}

TopicNames == {"ego_odom", "vehicle_state", "pose", "lane_graph", "waypoints",
               "reference_line", "tick_timeout", "reset_event", "command"}

Subscriptions ==
  {s \in TopicNames \X (Nodes \cup {"world_manager"}) :
     s[2] \in Subscribers(s[1])}

StreamDepth  == 2
LatchedDepth == 1
EventDepth   == 10

Depth(topic) ==
  CASE topic \in {"tick_timeout", "reset_event"}               -> EventDepth
    [] topic \in {"lane_graph", "waypoints", "reference_line"} -> LatchedDepth
    [] OTHER                                                   -> StreamDepth

KeepLast(q, depth) == IF Len(q) > depth THEN Tail(q) ELSE q

(* What is published on each topic: the fields that some subscriber reads. *)
StampMsg == [tick : Nat]
PoseMsg  == [tick : Nat, valid : BOOLEAN, steering : BOOLEAN]
ResetMsg == [tick : Nat, episode : Nat]
RouteMsg == [tick : Nat, route : Nat]

Message == StampMsg \cup PoseMsg \cup ResetMsg \cup RouteMsg

Payload(topic) ==
  CASE topic = "pose"                              -> PoseMsg
    [] topic = "reset_event"                       -> ResetMsg
    [] topic \in {"waypoints", "reference_line"}   -> RouteMsg
    [] OTHER                                       -> StampMsg

(* The messages of a subscription, in no particular order. *)
Contents(q) == {q[i] : i \in DOMAIN q}

QueueTypeOK ==
  /\ queue \in [Subscriptions -> Seq(Message)]
  /\ \A s \in Subscriptions : queue[s] \in Seq(Payload(s[1]))

NoMessages == [s \in Subscriptions |-> <<>>]

(* The subscriptions q with message m published on the topic. *)
Send(q, topic, m) ==
  [s \in Subscriptions |->
     IF s[1] = topic THEN KeepLast(Append(q[s], m), Depth(topic)) ELSE q[s]]

(* queue with the oldest message of subscription s taken by its callback. *)
Take(s) == [queue EXCEPT ![s] = Tail(@)]

(* The executor of node s[2] may call the callback of s now. *)
Ready(s) ==
  /\ s \in Subscriptions
  /\ queue[s] # <<>>
  /\ (ResetFirst /\ s[1] \notin {"reset_event", "command"}) =>
       LET resets == queue[<<"reset_event", s[2]>>]
       IN  \A i \in 1 .. Len(resets) : Head(queue[s]).tick < resets[i].tick
==============================================================================
