----------------------------- MODULE GtPublisher ------------------------------
(***************************************************************************)
(* gt_publisher.py inside world_manager: on every tick it publishes the    *)
(* ground truth, with a ring buffer of past poses per agent and a cache of *)
(* the static part of every traffic light.  The tick thread fills both;    *)
(* the executor thread replaces the lane graph that the cache is built     *)
(* from, and nothing locks the two against each other.                     *)
(* A pose stands for the tick it was taken at, a lane graph for its        *)
(* version, and a cached light for the version it was resolved with.       *)
(***************************************************************************)
EXTENDS Integers, Sequences

CONSTANTS
  Lights,      \* CARLA's traffic lights
  Agents,      \* the actors that may come within agent_radius_m of the hero
  HistoryLen   \* Agent.HISTORY_LEN

ASSUME HistoryLenAssumption == HistoryLen \in Nat \ {0}

VARIABLES
  graph,      \* the version of the lane graph map_server published last, 0: none
  lanes,      \* _lanes: the version indexed here, NoGraph for None
  clearing,   \* _on_lane_graph has set _lanes and not yet cleared the cache
  tlStatic,   \* _tl_static: the version each light is cached with
  todo,       \* lights of this tick that are not yet in the message
  resolving,  \* the light whose cache entry is being built
  history,    \* _history: the ring of past poses of every tracked agent
  agentsMsg,  \* gt/agents as published last: the past poses of every agent
  stay        \* (history) since which tick each agent has been in range

lightVars == <<graph, lanes, clearing, tlStatic, todo, resolving>>
agentVars == <<history, agentsMsg, stay>>
gtVars == <<lightVars, agentVars>>

NoGraph == 0       \* the id of a light resolved without one carries the unmapped flag
NotCached == -1
NoLight == [light |-> {}, version |-> NoGraph]
NoAgents == [a \in {} |-> <<>>]

GtTypeOK ==
  /\ graph \in Nat /\ lanes \in NoGraph .. graph
  /\ clearing \in BOOLEAN
  /\ tlStatic \in [Lights -> (NoGraph .. lanes) \cup {NotCached}]
  /\ todo \subseteq Lights
  /\ resolving = NoLight \/ resolving \in [light : {{t} : t \in Lights}, version : NoGraph .. lanes]
  /\ \A a \in DOMAIN history : history[a] \in Seq(Nat) /\ Len(history[a]) <= 2 * HistoryLen
  /\ DOMAIN history \subseteq Agents /\ DOMAIN agentsMsg \subseteq Agents
  /\ DOMAIN stay \subseteq Agents

GtInit ==
  /\ graph = NoGraph /\ lanes = NoGraph /\ clearing = FALSE
  /\ tlStatic = [t \in Lights |-> NotCached]
  /\ todo = {} /\ resolving = NoLight
  /\ history = NoAgents /\ agentsMsg = NoAgents /\ stay = NoAgents

(* ---- the ring buffers: written and read by the tick thread only --------- *)

(* reset: a new episode starts without a past. *)
ResetHistory ==
  /\ history' = NoAgents
  /\ stay' = NoAgents
  /\ UNCHANGED agentsMsg

(* Mutant: the ring is unbounded. *)
KeepAll(ring) == ring

(* deque(maxlen=2 * HISTORY_LEN) *)
KeepRing(ring) ==
  IF Len(ring) > 2 * HistoryLen THEN Tail(ring) ELSE ring

RingOf(a) == IF a \in DOMAIN history THEN history[a] ELSE <<>>

(* list(history)[-2::-2], at most HISTORY_LEN of them: 2, 4, 6 ... ticks ago. *)
Past(ring) ==
  LET n == IF Len(ring) \div 2 > HistoryLen THEN HistoryLen ELSE Len(ring) \div 2
  IN  [i \in 1 .. n |-> ring[Len(ring) - 2 * i + 1]]

(* Mutant: an agent out of range keeps its ring until the next reset. *)
PublishAgentsKeeping(k, seen) ==
  /\ agentsMsg' = [a \in seen |-> Past(RingOf(a))]
  /\ history' = [a \in seen \cup DOMAIN history |->
                   IF a \in seen THEN KeepRing(Append(RingOf(a), k)) ELSE history[a]]
  /\ stay' = [a \in seen |-> IF a \in DOMAIN stay THEN stay[a] ELSE k]

(* _publish_agents: the agents of `seen` are in range; the others are forgotten. *)
PublishAgents(k, seen) ==
  /\ agentsMsg' = [a \in seen |-> Past(RingOf(a))]
  /\ history' = [a \in seen |-> KeepRing(Append(RingOf(a), k))]
  /\ stay' = [a \in seen |-> IF a \in DOMAIN stay THEN stay[a] ELSE k]

(* ---- the cache of the lights: two threads ------------------------------- *)

(* map_server latches a lane graph; it may come late, and again. *)
GraphPublished(maxGraphs) ==
  /\ graph < maxGraphs
  /\ graph' = graph + 1
  /\ UNCHANGED <<lanes, clearing, tlStatic, todo, resolving, agentVars>>

(* _on_lane_graph, executor thread: first the index ... *)
SetLanes ==
  /\ ~ clearing /\ lanes < graph
  /\ lanes' = graph
  /\ clearing' = TRUE
  /\ UNCHANGED <<graph, tlStatic, todo, resolving, agentVars>>

(* Mutant: the cache survives a new lane graph. *)
ClearNoStatic ==
  /\ clearing
  /\ clearing' = FALSE
  /\ UNCHANGED <<graph, lanes, tlStatic, todo, resolving, agentVars>>

(* ... then the cache that was built without it. *)
ClearStatic ==
  /\ clearing
  /\ clearing' = FALSE
  /\ tlStatic' = [t \in Lights |-> NotCached]
  /\ UNCHANGED <<graph, lanes, todo, resolving, agentVars>>

(* _tl_static_for, tick thread: a light that is cached is published as cached. *)
TlCached(t) ==
  /\ t \in todo /\ resolving = NoLight /\ tlStatic[t] # NotCached
  /\ todo' = todo \ {t}
  /\ UNCHANGED <<graph, lanes, clearing, tlStatic, resolving, agentVars>>

(* Otherwise it is resolved with the lane graph that is there now, if any. *)
TlResolve(t) ==
  /\ t \in todo /\ resolving = NoLight /\ tlStatic[t] = NotCached
  /\ resolving' = [light |-> {t}, version |-> lanes]
  /\ UNCHANGED <<graph, lanes, clearing, tlStatic, todo, agentVars>>

(* And cached, if there is a lane graph when _lanes is looked at once more. *)
TlStore(t) ==
  /\ resolving.light = {t}
  /\ tlStatic' = IF lanes # NoGraph
                 THEN [tlStatic EXCEPT ![t] = resolving.version] ELSE tlStatic
  /\ resolving' = NoLight
  /\ todo' = todo \ {t}
  /\ UNCHANGED <<graph, lanes, clearing, agentVars>>

ExecutorNext(maxGraphs) == GraphPublished(maxGraphs) \/ SetLanes \/ ClearStatic
LightsNext == \E t \in Lights : TlCached(t) \/ TlResolve(t) \/ TlStore(t)

(* ---- properties --------------------------------------------------------- *)

(* Cached although the lane graph it was resolved with is not the one in use. *)
Stale(t) == tlStatic[t] # NotCached /\ tlStatic[t] < lanes

(* Whatever the two threads do, a new lane graph leaves at most one light    *)
(* with an id from before: the one the tick thread was resolving meanwhile.   *)
OneStaleLight ==
  ~ clearing => \A s, t \in Lights : Stale(s) /\ Stale(t) => s = t
===============================================================================
