----------------------------- MODULE BridgeProofs ------------------------------
(***************************************************************************)
(* What holds of the ground truth and the nodes around it for every scene: *)
(* any number of ticks, resets, timeouts, lane graphs, lights and agents,  *)
(* any capacity of the rings, buffers and windows.                         *)
(***************************************************************************)
EXTENDS Bridge, GtPublisherProofs, FiniteSetTheorems

(* ---- ticks and stamps --------------------------------------------------- *)
(* The models speak of ticks where the code compares stamps.  These facts    *)
(* are why that is the same: a tick survives the way into a message and      *)
(* back, and so it does when the stamp is off by less than half a tick, as   *)
(* the one CARLA adds up in floating point is.                               *)

(* tick_index rounds away an error of less than half a tick (25 ms). *)
THEOREM JitterSafe ==
  ASSUME NEW k \in Nat \ {0}, NEW error \in Int,
         - 25000000 < error, error < 25000000
  PROVE  TickIndex(k * TickNanos + error) = k
<1>1. k * 50000000 + error >= 0
  OBVIOUS
<1>2. (k * 50000000 + error + 25000000) \div 50000000 = k
  OBVIOUS
<1> QED  BY <1>1, <1>2 DEF TickIndex, TickNanos

(* tick_index(tick_stamp(k)) = k, for the tick of any message. *)
THEOREM StampRoundTrip ==
  ASSUME NEW k \in Nat
  PROVE  TickIndex(Nanos(TickStamp(k))) = k
<1>1. Nanos(TickStamp(k)) = k * 50000000
  BY DEF Nanos, TickStamp, TickNanos, NanosPerSecond
<1>2. (k * 50000000 + 25000000) \div 50000000 = k
  OBVIOUS
<1> QED  BY <1>1, <1>2 DEF TickIndex, TickNanos

(* A later stamp never has an earlier tick: comparing ticks, as every node    *)
(* does, orders messages as comparing their stamps would.                      *)
THEOREM TicksOrdered ==
  ASSUME NEW m \in Nat, NEW n \in Nat, m <= n
  PROVE  TickIndex(m) <= TickIndex(n)
<1>1. (m + 25000000) \div 50000000 <= (n + 25000000) \div 50000000
  OBVIOUS
<1> QED  BY <1>1 DEF TickIndex, TickNanos

(* Ticks that are stamped as planning ticks are planning ticks for every node. *)
THEOREM PlanningTicksAlternate ==
  ASSUME NEW k \in Nat
  PROVE  IsPlanningTick(k) <=> ~ IsPlanningTick(k + 1)
BY DEF IsPlanningTick

(* ---- the subscriptions -------------------------------------------------- *)
(* What delivering and taking a message do to their types, whatever nodes    *)
(* are launched.  T is the set of ticks that have timed out, the only ones a *)
(* TickTimeout may carry.                                                    *)

InputMsg == [k : Nat \ {0}, valid : BOOLEAN]

MsgOf(sub, T) ==
  CASE sub \in {"pose", "gt"} -> InputMsg
    [] sub = "tick_timeout" -> [k : T]
    [] sub \in {"reset_event", "vehicle_state"} -> [k : Nat \ {0}]
    [] sub = "command" -> [k : Nat \ {0}, stop : BOOLEAN]

InboxType(box, T) ==
  /\ box = [s \in Subs |-> box[s]]
  /\ \A s \in Subs : box[s] \in Seq(MsgOf(s, T))

(* Delivering a message of its subscription, dropped or not, keeps the types. *)
LEMMA DeliverType ==
  ASSUME NEW T, NEW box, InboxType(box, T), NEW nodes,
         NEW sub \in Subs, NEW m \in MsgOf(sub, T)
  PROVE  InboxType(Deliver(box, nodes, sub, m), T)
<1> DEFINE all == Append(box[sub], m)
           depth == IF sub \in {"tick_timeout", "reset_event"} THEN 10 ELSE 2
           kept == IF Len(all) > depth THEN Tail(all) ELSE all
<1>1. all \in Seq(MsgOf(sub, T)) /\ all # <<>>
  BY DEF InboxType
<1>2. kept \in Seq(MsgOf(sub, T))
  BY <1>1
<1>3. Deliver(box, nodes, sub, m)
        = IF Subscriber(sub) \notin nodes THEN box ELSE [box EXCEPT ![sub] = kept]
  BY DEF Deliver
<1> HIDE DEF kept
<1>4. InboxType([box EXCEPT ![sub] = kept], T)
  BY <1>2 DEF InboxType
<1> QED  BY <1>3, <1>4

(* A message that is taken is of its subscription, and the rest keep theirs. *)
LEMMA TakeType ==
  ASSUME NEW T, NEW sub \in Subs, InboxType(inbox, T), TakeFrom(sub)
  PROVE  Head(inbox[sub]) \in MsgOf(sub, T) /\ InboxType(inbox', T)
<1>1. inbox[sub] \in Seq(MsgOf(sub, T)) /\ inbox[sub] # <<>>
  BY DEF InboxType, TakeFrom
<1>2. Head(inbox[sub]) \in MsgOf(sub, T) /\ Tail(inbox[sub]) \in Seq(MsgOf(sub, T))
  BY <1>1
<1>3. InboxType([inbox EXCEPT ![sub] = Tail(inbox[sub])], T)
  BY <1>2 DEF InboxType
<1> QED  BY <1>2, <1>3 DEF TakeFrom

(* A tick that has timed out stays so. *)
LEMMA MoreTimeouts ==
  ASSUME NEW T, NEW U, T \subseteq U, NEW box, InboxType(box, T)
  PROVE  InboxType(box, U)
<1>1. \A s \in Subs : MsgOf(s, T) \subseteq MsgOf(s, U)
  BY DEF MsgOf, Subs
<1>2. \A s \in Subs : Seq(MsgOf(s, T)) \subseteq Seq(MsgOf(s, U))
  BY <1>1
<1> QED  BY <1>2 DEF InboxType

(* ---- the inductive invariant -------------------------------------------- *)

TickType ==
  /\ scene \in Scenes
  /\ now \in 0 .. scene.ticks /\ episode \in 0 .. scene.resets
  /\ step \in {"loop", "reset", "gate"}
  /\ posed \in 0 .. now /\ poseOk \in BOOLEAN /\ commanded \in 0 .. now
  /\ timedOut \subseteq 1 .. now /\ Cardinality(timedOut) <= MaxTimeouts

(* The ring of an agent in range holds the newest ticks of its visit, as many *)
(* as fit: one after the other, up to the last one.                            *)
RingInv ==
  /\ DOMAIN history = DOMAIN stay /\ DOMAIN stay \subseteq Agents
  /\ DOMAIN agentsMsg \subseteq Agents
  /\ \A a \in DOMAIN stay :
       /\ stay[a] \in 1 .. now
       /\ history[a] \in Seq(Nat)
       /\ Len(history[a]) = Least(2 * HistoryLen, now - stay[a] + 1)
       /\ \A i \in 1 .. Len(history[a]) : history[a][i] = now - Len(history[a]) + i

OutputRec == [k : Nat, start : Nat, what : {"no_pose", "invalid_pose", "no_gt", "full"},
              grid : Nat]

(* The arrivals that the barrier b has recorded are in the buffers. *)
Buffered(b, bufs) ==
  \A i \in TwinInputs : b.latest[i] # B!NoTick => \E m \in bufs[i] : m.k = b.latest[i]

(* FallbackOnlyAfterTimeout needs that an input is degraded only by a timeout  *)
(* of this episode that is already behind, and what the barrier remembers.      *)
TwinInv ==
  /\ barrier \in B!Barrier(Nat)
  /\ buffers \in [TwinInputs -> SUBSET InputMsg]
  /\ twinStart \in Nat /\ twinLast \in Int /\ raster \in Nat
  /\ outputs \in Seq(OutputRec)
  /\ \A i \in DOMAIN outputs : outputs[i].grid <= raster
  /\ Buffered(barrier, buffers)
  /\ barrier.degraded # {} => \E t \in timedOut : twinStart <= t /\ t <= twinLast
  /\ FallbackOnlyAfterTimeout

BridgeInv ==
  /\ TickType
  /\ InboxType(inbox, timedOut)
  /\ LightInv
  /\ RingInv /\ EvenlySpacedHistory
  /\ TwinInv
  /\ AdapterTypeOK

(* ---- it implies the properties ------------------------------------------ *)

(* The types of Bridge are among its conjuncts. *)
LEMMA BridgeInvType == BridgeInv => TypeOK
<1> SUFFICES ASSUME BridgeInv PROVE TypeOK
  OBVIOUS
<1>1. DOMAIN inbox = Subs
  BY DEF BridgeInv, InboxType
<1>2. GtTypeOK
  <2>1. \A a \in DOMAIN history : history[a] \in Seq(Nat) /\ Len(history[a]) <= 2 * HistoryLen
    BY HistoryLenAssumption DEF BridgeInv, RingInv, TickType, Least
  <2> QED  BY <2>1 DEF BridgeInv, LightInv, LightType, RingInv, GtTypeOK
<1>3. TwinTypeOK
  <2>1. \A i \in TwinInputs : \A m \in buffers[i] : m.k \in Nat /\ m.valid \in BOOLEAN
    BY DEF BridgeInv, TwinInv, InputMsg
  <2>2. \A i \in DOMAIN outputs :
          /\ outputs[i].k \in Nat
          /\ outputs[i].what \in {"no_pose", "invalid_pose", "no_gt", "full"}
          /\ outputs[i].grid \in 0 .. raster
    <3>1. \A i \in DOMAIN outputs : outputs[i] \in OutputRec
      BY DEF BridgeInv, TwinInv
    <3>2. \A i \in DOMAIN outputs : outputs[i].grid <= raster
      BY DEF BridgeInv, TwinInv
    <3> QED  BY <3>1, <3>2 DEF BridgeInv, TwinInv, OutputRec
  <2> QED  BY <2>1, <2>2 DEF BridgeInv, TwinInv, TwinTypeOK
<1> QED  BY <1>1, <1>2, <1>3 DEF BridgeInv, TickType, TypeOK

(* ---- it holds at first -------------------------------------------------- *)

(* Nothing was published, cached or answered at first. *)
LEMMA BridgeInvInit == Init => BridgeInv
<1> SUFFICES ASSUME Init PROVE BridgeInv
  OBVIOUS
<1>1. TickType
  <2>1. scene.ticks \in Nat /\ scene.resets \in Nat
    BY BridgeAssumption DEF Init
  <2>2. Cardinality(timedOut) <= MaxTimeouts
    BY BridgeAssumption, FS_EmptySet DEF Init
  <2>3. poseOk \in BOOLEAN
    BY DEF Init
  <2> QED  BY <2>1, <2>2, <2>3 DEF Init, TickType
<1>2. InboxType(inbox, timedOut)
  <2>1. inbox = [s \in Subs |-> IF s = "reset_event" /\ "twin" \in scene.nodes
                                THEN <<[k |-> 1]>> ELSE <<>>]
    BY DEF Init
  <2>2. \A s \in Subs : <<>> \in Seq(MsgOf(s, timedOut))
    OBVIOUS
  <2>3. <<[k |-> 1]>> \in Seq(MsgOf("reset_event", timedOut))
    BY DEF MsgOf
  <2> QED  BY <2>1, <2>2, <2>3 DEF InboxType
<1>3. LightInv
  BY LightInit DEF Init
<1>4. RingInv /\ EvenlySpacedHistory
  BY DEF Init, GtInit, NoAgents, RingInv, EvenlySpacedHistory
<1>5. TwinInv
  <2>1. barrier \in B!Barrier(Nat) /\ barrier.degraded = {} /\ Buffered(barrier, buffers)
    BY DEF Init, TwinInit, B!Barrier, B!BarrierReset, B!NoTick, Buffered
  <2>2. buffers \in [TwinInputs -> SUBSET InputMsg]
    BY DEF Init, TwinInit, EmptyBuffers
  <2>3. outputs = <<>> /\ twinStart \in Nat /\ twinLast \in Int /\ raster \in Nat
    BY DEF Init, TwinInit
  <2> QED  BY <2>1, <2>2, <2>3 DEF TwinInv, FallbackOnlyAfterTimeout
<1>6. AdapterTypeOK
  BY DEF Init, AdapterInit, AdapterTypeOK, NothingApplied
<1> QED  BY <1>1, <1>2, <1>3, <1>4, <1>5, <1>6 DEF BridgeInv

(* ---- every step keeps it: the tick thread ------------------------------- *)

(* A bound of a scene is a number. *)
LEMMA SceneBounds ==
  ASSUME TickType
  PROVE  /\ scene.ticks \in Nat /\ scene.resets \in Nat
         /\ scene.lights \subseteq Lights /\ scene.agents \subseteq Agents
         /\ now \in Nat
BY BridgeAssumption DEF TickType

(* Gate timeouts are never taken back. *)
LEMMA TimeoutsGrow == Next => timedOut \subseteq timedOut'
BY DEF Next, ApplyReset, TickWorld, PublishLights, PassGate, TimeOutGate, Executor,
       Localize, Command, Twin, Adapter, tickVars

(* The types of the tick loop, and of localization and control. *)
LEMMA TickStep == TickType /\ Next => TickType'
<1> SUFFICES ASSUME TickType, Next PROVE TickType'
  OBVIOUS
<1> USE SceneBounds DEF TickType
<1>1. CASE ApplyReset
  BY <1>1 DEF ApplyReset
<1>2. CASE TickWorld
  BY <1>2 DEF TickWorld
<1>3. CASE PublishLights \/ Executor \/ Twin \/ Adapter
  BY <1>3 DEF PublishLights, Executor, Twin, Adapter, tickVars
<1>4. CASE PassGate
  BY <1>4 DEF PassGate
<1>5. CASE TimeOutGate
  <2>1. /\ timedOut' = timedOut \cup {now} /\ Cardinality(timedOut) < MaxTimeouts
        /\ commanded < now /\ step' = "loop"
        /\ UNCHANGED <<scene, now, episode, posed, poseOk, commanded>>
    BY <1>5 DEF TimeOutGate
  <2>2. IsFiniteSet(timedOut)
    <3>1. now \in Int /\ 1 \in Int
      OBVIOUS
    <3>2. IsFiniteSet(1 .. now)
      BY <3>1, FS_Interval
    <3> QED  BY <3>2, FS_Subset
  <2>3. Cardinality(timedOut') <= MaxTimeouts
    <3>1. Cardinality(timedOut) \in Nat /\ MaxTimeouts \in Nat
      BY <2>2, FS_CardinalityType, BridgeAssumption
    <3>2. Cardinality(timedOut \cup {now})
            = IF now \in timedOut THEN Cardinality(timedOut) ELSE Cardinality(timedOut) + 1
      BY <2>2, FS_AddElement
    <3> QED  BY <2>1, <3>1, <3>2
  <2>4. timedOut' \subseteq 1 .. now
    BY <2>1
  <2> QED  BY <2>1, <2>3, <2>4
<1>6. CASE Localize
  BY <1>6 DEF Localize
<1>7. CASE Command
  BY <1>7 DEF Command
<1> QED  BY <1>1, <1>2, <1>3, <1>4, <1>5, <1>6, <1>7 DEF Next

(* Every message is of its subscription; a TickTimeout is of a tick that timed out. *)
LEMMA InboxStep == TickType /\ InboxType(inbox, timedOut) /\ Next => InboxType(inbox', timedOut')
<1> SUFFICES ASSUME TickType, InboxType(inbox, timedOut), Next
             PROVE  InboxType(inbox', timedOut')
  OBVIOUS
<1>1. InboxType(inbox, timedOut')
  BY TimeoutsGrow, MoreTimeouts
<1>2. now + 1 \in Nat \ {0} /\ \A k \in 1 .. now : k \in Nat \ {0}
  BY SceneBounds
<1>3. CASE ApplyReset
  <2>1. [k |-> now + 1] \in MsgOf("reset_event", timedOut')
    BY <1>2 DEF MsgOf
  <2> QED  BY <1>1, <1>3, <2>1, DeliverType DEF ApplyReset, Subs
<1>4. CASE TickWorld
  <2>1. [k |-> now + 1] \in MsgOf("vehicle_state", timedOut')
    BY <1>2 DEF MsgOf
  <2>2. [k |-> now + 1, valid |-> TRUE] \in MsgOf("gt", timedOut')
    BY <1>2 DEF MsgOf, InputMsg
  <2>3. InboxType(Deliver(inbox, scene.nodes, "vehicle_state", [k |-> now + 1]), timedOut')
    BY <1>1, <2>1, DeliverType DEF Subs
  <2> QED  BY <1>4, <2>2, <2>3, DeliverType DEF TickWorld, Subs
<1>5. CASE TimeOutGate
  <2>1. [k |-> now] \in MsgOf("tick_timeout", timedOut')
    BY <1>5 DEF TimeOutGate, MsgOf
  <2> QED  BY <1>1, <1>5, <2>1, DeliverType DEF TimeOutGate, Subs
<1>6. CASE Localize
  <2>1. PICK k \in posed + 1 .. now, ok \in BOOLEAN :
          inbox' = Deliver(inbox, scene.nodes, "pose", [k |-> k, valid |-> ok])
    BY <1>6 DEF Localize
  <2>2. [k |-> k, valid |-> ok] \in MsgOf("pose", timedOut')
    BY <1>2 DEF MsgOf, InputMsg, TickType
  <2> QED  BY <1>1, <2>1, <2>2, DeliverType DEF Subs
<1>7. CASE Command
  <2>1. PICK k \in commanded + 1 .. now :
          inbox' = Deliver(inbox, scene.nodes, "command",
                           [k |-> k, stop |-> k # posed \/ ~ poseOk])
    BY <1>7 DEF Command
  <2>2. [k |-> k, stop |-> k # posed \/ ~ poseOk] \in MsgOf("command", timedOut')
    BY <1>2 DEF MsgOf, TickType
  <2> QED  BY <1>1, <2>1, <2>2, DeliverType DEF Subs
<1>8. CASE Twin
  <2>1. CASE TwinOnLaneGraph(graph)
    BY <1>1, <2>1 DEF TwinOnLaneGraph
  <2>2. CASE TwinNext
    BY <1>1, <2>2, TakeType
       DEF TwinNext, TwinOnResetEvent, TwinOnTickTimeout, TwinOnInput, TwinInputs, Subs
  <2> QED  BY <1>8, <2>1, <2>2 DEF Twin
<1>9. CASE Adapter
  BY <1>1, <1>9, TakeType DEF Adapter, AdapterNext, OnVehicleState, OnControlCommand, Subs
<1>10. CASE PublishLights \/ PassGate \/ Executor
  BY <1>1, <1>10 DEF PublishLights, PassGate, Executor
<1> QED
  BY <1>3, <1>4, <1>5, <1>6, <1>7, <1>8, <1>9, <1>10 DEF Next

(* The cache of the lights. *)
LEMMA LightNext == TickType /\ LightInv /\ Next => LightInv'
<1> SUFFICES ASSUME TickType, LightInv, Next PROVE LightInv'
  OBVIOUS
<1>1. CASE TickWorld
  BY <1>1, SceneBounds DEF TickWorld, LightInv, LightType, OneStaleLight, Stale
<1>2. CASE PublishLights
  BY <1>2, LightStep DEF PublishLights
<1>3. CASE Executor
  BY <1>3, LightStep DEF Executor
<1>4. CASE ~ (TickWorld \/ PublishLights \/ Executor)
  <2>1. UNCHANGED lightVars
    BY <1>4 DEF Next, ApplyReset, PassGate, TimeOutGate, Localize, Command, Twin, Adapter, gtVars
  <2> QED  BY <2>1 DEF lightVars, LightInv, LightType, OneStaleLight, Stale
<1> QED  BY <1>1, <1>2, <1>3, <1>4

(* The rings, and the past poses that are published from them. *)
LEMMA RingOfVisit ==
  ASSUME TickType, RingInv, NEW seen \in SUBSET Agents, PublishAgents(now + 1, seen),
         now' = now + 1, NEW a \in seen
  PROVE  /\ stay'[a] \in 1 .. now'
         /\ history'[a] \in Seq(Nat)
         /\ Len(history'[a]) = Least(2 * HistoryLen, now' - stay'[a] + 1)
         /\ \A i \in 1 .. Len(history'[a]) : history'[a][i] = now' - Len(history'[a]) + i
         /\ Len(agentsMsg'[a]) = Least(HistoryLen, (now' - stay'[a]) \div 2)
         /\ \A i \in DOMAIN agentsMsg'[a] : agentsMsg'[a][i] = now' - 2 * i
<1> DEFINE ring == RingOf(a)
           cap == 2 * HistoryLen
<1>1. now \in Nat /\ HistoryLen \in Nat \ {0} /\ cap \in Nat \ {0}
  BY SceneBounds, HistoryLenAssumption
<1>2. /\ history'[a] = KeepRing(Append(ring, now + 1))
      /\ agentsMsg'[a] = Past(ring)
      /\ stay'[a] = IF a \in DOMAIN stay THEN stay[a] ELSE now + 1
  BY DEF PublishAgents
<1>3. /\ ring \in Seq(Nat)
      /\ stay'[a] \in 1 .. now + 1
      /\ Len(ring) = Least(cap, now + 1 - stay'[a])
      /\ \A i \in 1 .. Len(ring) : ring[i] = now - Len(ring) + i
  <2>1. CASE a \in DOMAIN stay
    <3>1. ring = history[a] /\ stay'[a] = stay[a]
      BY <1>2, <2>1 DEF RingOf, RingInv
    <3>2. stay[a] \in 1 .. now
      BY <2>1 DEF RingInv
    <3>3. now - stay[a] + 1 = now + 1 - stay[a]
      BY <1>1, <3>2
    <3> QED  BY <1>1, <2>1, <3>1, <3>2, <3>3 DEF RingInv
  <2>2. CASE a \notin DOMAIN stay
    <3>1. ring = <<>> /\ stay'[a] = now + 1
      BY <1>2, <2>2 DEF RingOf, RingInv
    <3> QED  BY <1>1, <3>1 DEF Least
  <2> QED  BY <2>1, <2>2
<1> HIDE DEF ring
<1>4. stay'[a] \in Int /\ now + 1 - stay'[a] \in Nat /\ Len(ring) \in Nat /\ Len(ring) <= cap
  BY <1>1, <1>3 DEF Least
<1>5. /\ history'[a] \in Seq(Nat)
      /\ Len(history'[a]) = Least(cap, Len(ring) + 1)
      /\ \A i \in 1 .. Len(history'[a]) : history'[a][i] = now + 1 - Len(history'[a]) + i
  <2>1. ring \in Seq(Nat) /\ Len(ring) <= 2 * HistoryLen /\ now \in Nat
    BY <1>1, <1>3, <1>4
  <2>2. \A i \in 1 .. Len(ring) : ring[i] = now - Len(ring) + i
    BY <1>3
  <2>3. history'[a] = KeepRing(Append(ring, now + 1))
    BY <1>2
  <2>4. LET new == KeepRing(Append(ring, now + 1))
        IN  /\ new \in Seq(Nat)
            /\ Len(new) = Least(2 * HistoryLen, Len(ring) + 1)
            /\ \A i \in 1 .. Len(new) : new[i] = now + 1 - Len(new) + i
    BY <2>1, <2>2, KeepRingOfAppend, Zenon
  <2> QED  BY <2>3, <2>4
<1>6. /\ Len(agentsMsg'[a]) = Least(HistoryLen, Len(ring) \div 2)
      /\ \A i \in DOMAIN agentsMsg'[a] : agentsMsg'[a][i] = now + 1 - 2 * i
  <2>1. ring \in Seq(Nat) /\ now \in Nat
    BY <1>1, <1>3
  <2>2. \A i \in 1 .. Len(ring) : ring[i] = now - Len(ring) + i
    BY <1>3
  <2>3. agentsMsg'[a] = Past(ring)
    BY <1>2
  <2>4. /\ Len(Past(ring)) = Least(HistoryLen, Len(ring) \div 2)
        /\ \A i \in DOMAIN Past(ring) : Past(ring)[i] = now + 1 - 2 * i
    BY <2>1, <2>2, PastOfRing, Zenon
  <2> QED  BY <2>3, <2>4
<1>7. Least(cap, Len(ring) + 1) = Least(cap, now + 1 - stay'[a] + 1)
  <2> DEFINE n == now + 1 - stay'[a]
  <2> HIDE DEF cap, n
  <2>1. cap \in Nat /\ n \in Nat /\ Len(ring) = Least(cap, n)
    BY <1>1, <1>3, <1>4 DEF n
  <2>2. Least(cap, Len(ring) + 1) = Least(cap, n + 1)
    BY <2>1 DEF Least
  <2> QED  BY <2>2 DEF n
<1>8. Least(HistoryLen, Len(ring) \div 2) = Least(HistoryLen, (now + 1 - stay'[a]) \div 2)
  <2> DEFINE n == now + 1 - stay'[a]
  <2> HIDE DEF n
  <2>1. HistoryLen \in Nat /\ n \in Nat /\ Len(ring) = Least(2 * HistoryLen, n)
    BY <1>1, <1>3, <1>4 DEF n
  <2>2. Least(HistoryLen, Len(ring) \div 2) = Least(HistoryLen, n \div 2)
    BY <2>1 DEF Least
  <2> QED  BY <2>2 DEF n
<1>9. now' = now + 1 /\ now' \in Nat /\ now' - stay'[a] = now + 1 - stay'[a]
  BY <1>1, <1>4
<1>10. stay'[a] \in 1 .. now'
  BY <1>3, <1>9
<1>11. Len(history'[a]) = Least(2 * HistoryLen, now' - stay'[a] + 1)
  BY <1>5, <1>7, <1>9
<1>12. \A i \in 1 .. Len(history'[a]) : history'[a][i] = now' - Len(history'[a]) + i
  <2>1. Len(history'[a]) \in Nat
    BY <1>5
  <2>2. now' - Len(history'[a]) = now + 1 - Len(history'[a])
    BY <1>1, <1>9, <2>1
  <2> QED  BY <1>5, <2>2
<1>13. Len(agentsMsg'[a]) = Least(HistoryLen, (now' - stay'[a]) \div 2)
  BY <1>6, <1>8, <1>9
<1>14. \A i \in DOMAIN agentsMsg'[a] : agentsMsg'[a][i] = now' - 2 * i
  <2>1. \A i \in DOMAIN agentsMsg'[a] : i \in Nat
    <3>1. \A i \in 1 .. Len(ring) : ring[i] = now - Len(ring) + i
      BY <1>3
    <3>2. Past(ring) \in Seq(Nat)
      BY <1>1, <1>3, <3>1, PastOfRing, Zenon
    <3> QED  BY <1>2, <3>2
  <2>2. \A i \in Nat : now' - 2 * i = now + 1 - 2 * i
    BY <1>1, <1>9
  <2> QED  BY <1>6, <2>1, <2>2
<1> QED  BY <1>5, <1>10, <1>11, <1>12, <1>13, <1>14

(* Every step keeps the rings and what was published from them. *)
LEMMA RingNext ==
  TickType /\ RingInv /\ EvenlySpacedHistory /\ Next => RingInv' /\ EvenlySpacedHistory'
<1> SUFFICES ASSUME TickType, RingInv, EvenlySpacedHistory, Next
             PROVE  RingInv' /\ EvenlySpacedHistory'
  OBVIOUS
<1>1. CASE TickWorld
  <2>1. PICK seen \in SUBSET Agents : PublishAgents(now + 1, seen)
    BY <1>1, SceneBounds DEF TickWorld
  <2>2. now' = now + 1
    BY <1>1 DEF TickWorld
  <2>3. DOMAIN history' = seen /\ DOMAIN stay' = seen /\ DOMAIN agentsMsg' = seen
    BY <2>1 DEF PublishAgents
  <2>4. RingInv'
    BY <2>1, <2>2, <2>3, RingOfVisit DEF RingInv
  <2>5. EvenlySpacedHistory'
    BY <2>1, <2>2, <2>3, RingOfVisit DEF EvenlySpacedHistory, Least
  <2> QED  BY <2>4, <2>5
<1>2. CASE ApplyReset
  <2>1. history' = NoAgents /\ stay' = NoAgents /\ UNCHANGED <<agentsMsg, now>>
    BY <1>2 DEF ApplyReset, ResetHistory
  <2> QED  BY <2>1 DEF RingInv, EvenlySpacedHistory, NoAgents
<1>3. CASE ~ (TickWorld \/ ApplyReset)
  <2>1. UNCHANGED <<agentVars, now>>
    BY <1>3 DEF Next, PublishLights, PassGate, TimeOutGate, Executor, Localize, Command,
                Twin, Adapter, gtVars, tickVars, LightsNext, TlCached, TlResolve, TlStore,
                ExecutorNext, GraphPublished, SetLanes, ClearStatic
  <2> QED  BY <2>1 DEF agentVars, RingInv, EvenlySpacedHistory
<1> QED  BY <1>1, <1>2, <1>3

(* ---- every step keeps it: control_adapter ------------------------------- *)

(* The window of speeds keeps its type. *)
LEMMA AdapterStep ==
  InboxType(inbox, timedOut) /\ AdapterTypeOK /\ Next => AdapterTypeOK'
<1> SUFFICES ASSUME InboxType(inbox, timedOut), AdapterTypeOK, Next
             PROVE  AdapterTypeOK'
  OBVIOUS
<1>1. CASE OnVehicleState
  <2>1. Head(inbox["vehicle_state"]).k \in Nat
    <3>1. Head(inbox["vehicle_state"]) \in MsgOf("vehicle_state", timedOut)
      BY <1>1, TakeType DEF OnVehicleState, Subs
    <3> QED  BY <3>1 DEF MsgOf
  <2> QED  BY <1>1, <2>1 DEF OnVehicleState, AdapterTypeOK
<1>2. CASE OnControlCommand
  <2>1. Head(inbox["command"]) \in [k : Nat \ {0}, stop : BOOLEAN]
    <3>1. Head(inbox["command"]) \in MsgOf("command", timedOut)
      BY <1>2, TakeType DEF OnControlCommand, Subs
    <3> QED  BY <3>1 DEF MsgOf
  <2>2. applied' \in [k : Nat, brake : BOOLEAN, speed : Nat]
    BY <1>2, <2>1 DEF OnControlCommand, ControlFrom, AdapterTypeOK
  <2> QED  BY <1>2, <2>2 DEF OnControlCommand, AdapterTypeOK
<1>3. CASE ~ Adapter
  <2>1. UNCHANGED adapterVars
    BY <1>3 DEF Next, ApplyReset, TickWorld, PublishLights, PassGate, TimeOutGate,
                Executor, Localize, Command, Twin
  <2> QED  BY <2>1 DEF adapterVars, AdapterTypeOK
<1> QED  BY <1>1, <1>2, <1>3 DEF Adapter, AdapterNext

(* ---- every step keeps it: the twin -------------------------------------- *)

(* An output of tick k, explained by a timeout if it lacks an input. *)
LEMMA RunKeeps ==
  ASSUME TwinInv, timedOut \subseteq Nat, timedOut' = timedOut,
         NEW k \in Nat, NEW bufs, Run(k, bufs), twinStart' = twinStart, raster' = raster,
         k > twinLast /\ OutputOf(k, bufs) \in {"no_pose", "no_gt"} =>
           \E t \in timedOut : twinStart <= t /\ t <= k
  PROVE  /\ twinLast' \in Int /\ twinLast <= twinLast' /\ k <= twinLast'
         /\ outputs' \in Seq(OutputRec)
         /\ \A i \in DOMAIN outputs' : outputs'[i].grid <= raster
         /\ FallbackOnlyAfterTimeout'
<1> USE DEF TwinInv
<1>1. CASE k <= twinLast
  <2>1. UNCHANGED <<twinLast, outputs>>
    BY <1>1 DEF Run
  <2> QED  BY <1>1, <2>1 DEF FallbackOnlyAfterTimeout
<1>2. CASE ~ (k <= twinLast)
  <2> DEFINE what == OutputOf(k, bufs)
             out == [k |-> k, start |-> twinStart, what |-> what, grid |-> GridOf(what)]
  <2>1. twinLast' = k /\ outputs' = Append(outputs, out)
    BY <1>2 DEF Run
  <2>2. what \in {"no_pose", "invalid_pose", "no_gt", "full"}
    BY DEF OutputOf
  <2>3. GridOf(what) \in Nat /\ GridOf(what) <= raster
    BY DEF GridOf
  <2> HIDE DEF what
  <2>4. out \in OutputRec /\ out.grid <= raster /\ out.k = k
        /\ out.start = twinStart /\ out.what = what
    BY <2>2, <2>3 DEF OutputRec
  <2> HIDE DEF out
  <2>5. outputs' \in Seq(OutputRec)
    BY <2>1, <2>4
  <2>6. /\ Len(outputs) \in Nat /\ DOMAIN outputs = 1 .. Len(outputs)
        /\ DOMAIN outputs' = 1 .. Len(outputs) + 1
        /\ outputs'[Len(outputs) + 1] = out
        /\ \A i \in 1 .. Len(outputs) : outputs'[i] = outputs[i]
    BY <2>1, <2>4
  <2>7. \A i \in DOMAIN outputs' : i \in DOMAIN outputs \/ outputs'[i] = out
    BY <2>6
  <2>8. \A i \in DOMAIN outputs' : outputs'[i].grid <= raster
    BY <2>4, <2>6, <2>7
  <2>9. out.what \in {"no_pose", "no_gt"} =>
          \E t \in timedOut : out.start <= t /\ t <= out.k
    BY <1>2, <2>4 DEF what
  <2>10. FallbackOnlyAfterTimeout'
    BY <2>6, <2>7, <2>9 DEF FallbackOnlyAfterTimeout
  <2> QED  BY <1>2, <2>1, <2>5, <2>8, <2>10
<1> QED  BY <1>1, <1>2

(* A ResetEvent leaves nothing behind. *)
LEMMA TwinReset ==
  ASSUME TwinInv, InboxType(inbox, timedOut), timedOut' = timedOut, TwinOnResetEvent
  PROVE  TwinInv'
<1>1. Head(inbox["reset_event"]).k \in Nat \ {0}
  <2>1. Head(inbox["reset_event"]) \in MsgOf("reset_event", timedOut)
    BY TakeType DEF TwinOnResetEvent, Subs
  <2> QED  BY <2>1 DEF MsgOf
<1>2. /\ twinStart' \in Nat /\ twinLast' \in Int
      /\ barrier' = B!BarrierReset /\ buffers' = EmptyBuffers
      /\ UNCHANGED <<raster, outputs>>
  BY <1>1 DEF TwinOnResetEvent
<1>3. barrier' \in B!Barrier(Nat) /\ barrier'.degraded = {} /\ Buffered(barrier', buffers')
  BY <1>2 DEF B!Barrier, B!BarrierReset, B!NoTick, Buffered
<1>4. buffers' \in [TwinInputs -> SUBSET InputMsg]
  BY <1>2 DEF EmptyBuffers
<1>5. FallbackOnlyAfterTimeout'
  BY <1>2 DEF TwinInv, FallbackOnlyAfterTimeout
<1> QED  BY <1>2, <1>3, <1>4, <1>5 DEF TwinInv, Buffered

(* What a TickTimeout degrades has its timeout, now behind. *)
LEMMA TwinTimeout ==
  ASSUME TwinInv, InboxType(inbox, timedOut), timedOut \subseteq Nat,
         timedOut' = timedOut, TwinOnTickTimeout
  PROVE  TwinInv'
<1> DEFINE k == Head(inbox["tick_timeout"]).k
<1>1. k \in timedOut /\ k \in Nat
  <2>1. Head(inbox["tick_timeout"]) \in MsgOf("tick_timeout", timedOut)
    BY TakeType DEF TwinOnTickTimeout, Subs
  <2> QED  BY <2>1 DEF MsgOf
<1>2. UNCHANGED <<buffers, twinStart, raster>>
  BY DEF TwinOnTickTimeout
<1>3. CASE UNCHANGED <<barrier, twinLast, outputs>>
  BY <1>2, <1>3 DEF TwinInv, Buffered, FallbackOnlyAfterTimeout
<1>4. CASE /\ ~ NotForTwin(k)
           /\ barrier' = B!Degrade(barrier, B!Missing(barrier, k))
           /\ Run(k, buffers)
  <2>1. twinStart <= k
    BY <1>1, <1>4 DEF NotForTwin, TwinInv
  <2>2. /\ twinLast' \in Int /\ twinLast <= twinLast' /\ k <= twinLast'
        /\ outputs' \in Seq(OutputRec)
        /\ \A i \in DOMAIN outputs' : outputs'[i].grid <= raster
        /\ FallbackOnlyAfterTimeout'
    BY <1>1, <1>2, <1>4, <2>1, RunKeeps
  <2>3. barrier' \in B!Barrier(Nat) /\ barrier'.latest = barrier.latest
    BY <1>4 DEF TwinInv, B!Degrade, B!Missing, B!Barrier
  <2>4. Buffered(barrier', buffers')
    BY <1>2, <2>3 DEF TwinInv, Buffered
  <2>5. \E t \in timedOut' : twinStart' <= t /\ t <= twinLast'
    BY <1>1, <1>2, <2>1, <2>2
  <2> QED  BY <1>2, <2>2, <2>3, <2>4, <2>5 DEF TwinInv, Buffered
<1> QED  BY <1>3, <1>4 DEF TwinOnTickTimeout

(* A message completes the barrier only with the other input of its tick, or *)
(* without one that a timeout has degraded.                                   *)
LEMMA TwinInput ==
  ASSUME TwinInv, InboxType(inbox, timedOut), timedOut \subseteq Nat,
         timedOut' = timedOut, NEW i \in TwinInputs, TwinOnInput(i)
  PROVE  TwinInv'
<1> DEFINE m == Head(inbox[i])
           bufs == [buffers EXCEPT ![i] =
                      {o \in @ : o.k >= m.k - BufferTicks /\ o.k # m.k} \cup {m}]
           b == B!Arrive(barrier, i, m.k)
<1>1. m \in InputMsg /\ m.k \in Nat \ {0}
  <2>1. m \in MsgOf(i, timedOut)
    BY TakeType DEF TwinOnInput, TwinInputs, Subs
  <2> QED  BY <2>1 DEF MsgOf, TwinInputs, InputMsg
<1>2. UNCHANGED <<twinStart, raster>>
  BY DEF TwinOnInput
<1>3. CASE UNCHANGED <<barrier, buffers, twinLast, outputs>>
  BY <1>2, <1>3 DEF TwinInv, Buffered, FallbackOnlyAfterTimeout
<1>4. CASE /\ ~ NotForTwin(m.k)
           /\ barrier' = b /\ buffers' = bufs
           /\ IF B!IsComplete(b, m.k) THEN Run(m.k, bufs) ELSE NoRun
  <2>1. /\ b \in B!Barrier(Nat) /\ b.degraded = barrier.degraded
        /\ b.latest[i] = m.k /\ \A j \in TwinInputs \ {i} : b.latest[j] = barrier.latest[j]
    BY <1>1 DEF TwinInv, B!Arrive, B!Barrier
  <2>2. /\ bufs \in [TwinInputs -> SUBSET InputMsg]
        /\ m \in bufs[i] /\ \A j \in TwinInputs \ {i} : bufs[j] = buffers[j]
    BY <1>1 DEF TwinInv
  <2> HIDE DEF b, bufs, m
  <2>3. Buffered(b, bufs)
    BY <2>1, <2>2 DEF TwinInv, Buffered
  <2>4. CASE B!IsComplete(b, m.k)
    <3>1. OutputOf(m.k, bufs) \in {"no_pose", "no_gt"} => barrier.degraded # {}
      <4>1. \A j \in TwinInputs : j \notin b.degraded => \E o \in bufs[j] : o.k = m.k
        BY <1>1, <2>3, <2>4 DEF B!IsComplete, B!HasArrived, B!NoTick, Buffered
      <4> QED  BY <2>1, <4>1 DEF OutputOf, TwinInputs
    <3>2. m.k > twinLast /\ OutputOf(m.k, bufs) \in {"no_pose", "no_gt"} =>
            \E t \in timedOut : twinStart <= t /\ t <= m.k
      BY <1>1, <3>1 DEF TwinInv
    <3>3. /\ twinLast' \in Int /\ twinLast <= twinLast'
          /\ outputs' \in Seq(OutputRec)
          /\ \A j \in DOMAIN outputs' : outputs'[j].grid <= raster
          /\ FallbackOnlyAfterTimeout'
      BY <1>1, <1>2, <1>4, <2>4, <3>2, RunKeeps
    <3>4. barrier'.degraded # {} =>
            \E t \in timedOut' : twinStart' <= t /\ t <= twinLast'
      BY <1>2, <1>4, <2>1, <3>3 DEF TwinInv
    <3> QED  BY <1>2, <1>4, <2>1, <2>2, <2>3, <3>3, <3>4 DEF TwinInv, Buffered
  <2>5. CASE ~ B!IsComplete(b, m.k)
    <3>1. UNCHANGED <<twinLast, outputs>>
      BY <1>4, <2>5 DEF NoRun
    <3> QED
      BY <1>2, <1>4, <2>1, <2>2, <2>3, <3>1 DEF TwinInv, Buffered, FallbackOnlyAfterTimeout
  <2> QED  BY <2>4, <2>5
<1> QED  BY <1>3, <1>4 DEF TwinOnInput

(* Every callback of the twin keeps TwinInv. *)
LEMMA TwinStep ==
  TickType /\ InboxType(inbox, timedOut) /\ LightInv /\ TwinInv /\ Next => TwinInv'
<1> SUFFICES ASSUME TickType, InboxType(inbox, timedOut), LightInv, TwinInv, Next
             PROVE  TwinInv'
  OBVIOUS
<1>1. timedOut \subseteq Nat
  BY DEF TickType
<1>2. CASE Twin
  <2>1. timedOut' = timedOut
    BY <1>2 DEF Twin, tickVars
  <2>2. CASE TwinOnLaneGraph(graph)
    <3>1. /\ raster < raster' /\ raster' \in Nat
          /\ UNCHANGED <<barrier, buffers, twinStart, twinLast, outputs>>
      BY <2>2 DEF TwinOnLaneGraph, LightInv, LightType
    <3>2. \A i \in DOMAIN outputs : outputs[i].grid <= raster'
      <4>1. \A i \in DOMAIN outputs : outputs[i] \in OutputRec /\ outputs[i].grid <= raster
        BY DEF TwinInv
      <4> QED  BY <3>1, <4>1 DEF TwinInv, OutputRec
    <3> QED
      BY <2>1, <3>1, <3>2 DEF TwinInv, Buffered, FallbackOnlyAfterTimeout
  <2>3. CASE TwinNext
    BY <1>1, <2>1, <2>3, TwinReset, TwinTimeout, TwinInput DEF TwinNext
  <2> QED  BY <1>2, <2>2, <2>3 DEF Twin
<1>3. CASE ~ Twin
  <2>1. UNCHANGED twinVars
    BY <1>3 DEF Next, ApplyReset, TickWorld, PublishLights, PassGate, TimeOutGate,
                Executor, Localize, Command, Adapter
  <2> QED
    BY <2>1, TimeoutsGrow DEF twinVars, TwinInv, Buffered, FallbackOnlyAfterTimeout
<1> QED  BY <1>2, <1>3

(* ---- the theorems ------------------------------------------------------- *)

(* Stuttering changes nothing. *)
LEMMA BridgeInvStutter == BridgeInv /\ UNCHANGED vars => BridgeInv'
BY DEF vars, tickVars, gtVars, lightVars, agentVars, twinVars, adapterVars, BridgeInv,
       TickType, LightInv, LightType, OneStaleLight, Stale, RingInv, EvenlySpacedHistory,
       TwinInv, Buffered, FallbackOnlyAfterTimeout, AdapterTypeOK

(* The inductive invariant holds. *)
LEMMA BridgeInvHolds == Spec => []BridgeInv
<1>1. BridgeInv /\ [Next]_vars => BridgeInv'
  BY BridgeInvStutter, TickStep, InboxStep, LightNext, RingNext, TwinStep, AdapterStep
     DEF BridgeInv
<1> QED  BY BridgeInvInit, <1>1, PTL DEF Spec

(* Type correctness, with the bounds of the rings and of the timeouts. *)
THEOREM BridgeTypeOK == Spec => []TypeOK
<1> QED  BY BridgeInvHolds, BridgeInvType, PTL

(* gt_publisher.py, _on_lane_graph and _tl_static_for: however the two threads *)
(* interleave, a new lane graph leaves at most one light with an old id.       *)
THEOREM OneStaleLightHolds == Spec => []OneStaleLight
<1>1. BridgeInv => OneStaleLight
  BY DEF BridgeInv, LightInv
<1> QED  BY BridgeInvHolds, <1>1, PTL

(* gt_publisher.py, _publish_agents: the past poses of an agent are those of   *)
(* every second tick of its visit, across resets, absences and full rings.     *)
THEOREM EvenlySpacedHistoryHolds == Spec => []EvenlySpacedHistory
<1>1. BridgeInv => EvenlySpacedHistory
  BY DEF BridgeInv
<1> QED  BY BridgeInvHolds, <1>1, PTL

(* gt_twin_node.py: an output without its pose or its ground truth is explained *)
(* by a timeout of that tick or of an earlier one of the episode.               *)
THEOREM FallbackOnlyAfterTimeoutHolds == Spec => []FallbackOnlyAfterTimeout
<1>1. BridgeInv => FallbackOnlyAfterTimeout
  BY DEF BridgeInv, TwinInv
<1> QED  BY BridgeInvHolds, <1>1, PTL

-------------------------------------------------------------------------------
(* ---- the speed a command is converted with ------------------------------- *)

Commands == inbox["command"]
Speeds == inbox["vehicle_state"]

(* A tick whose command has not come is waited for, or its gate gave up. *)
GateInv ==
  \A t \in commanded + 1 .. now : t \in timedOut \/ (t = now /\ step = "gate")

(* The newest command is the last in the queue; when another waits before it, *)
(* the gate gave up on every tick between the two.                              *)
CommandsInv ==
  /\ "adapter" \notin scene.nodes => Commands = <<>>
  /\ Len(Commands) <= 2
  /\ Commands # <<>> => Commands[Len(Commands)].k = commanded
  /\ Len(Commands) = 2 =>
       /\ Commands[1].k < Commands[2].k
       /\ \A t \in Commands[1].k + 1 .. Commands[2].k - 1 : t \in timedOut

(* Speeds come in tick order, and one is forgotten for its age only. *)
SpeedsInv ==
  /\ latestSpeed \in Nat /\ latestSpeed <= now
  /\ \A i \in 1 .. Len(Speeds) : latestSpeed <= Speeds[i].k /\ Speeds[i].k <= now
  /\ \A i, j \in 1 .. Len(Speeds) : i < j => Speeds[i].k <= Speeds[j].k
  /\ \A t \in speedsSeen :
       t \in Nat /\ (t \in speedByTick \/ t < latestSpeed - SpeedHistoryTicks)

AdapterInv == GateInv /\ CommandsInv /\ SpeedsInv

(* The first of a queue, and what stays when it is taken. *)
LEMMA Popped ==
  ASSUME NEW S, NEW q \in Seq(S), q # <<>>
  PROVE  /\ Len(q) \in Nat \ {0} /\ Head(q) = q[1] /\ q[1] \in S
         /\ Tail(q) \in Seq(S) /\ Len(Tail(q)) = Len(q) - 1
         /\ \A i \in 1 .. Len(q) - 1 : Tail(q)[i] = q[i + 1]
         /\ Len(q) = 1 => Tail(q) = <<>>
<1>1. Len(q) \in Nat \ {0}
  BY EmptySeq
<1>2. Head(q) = q[1] /\ q[1] \in S
  BY <1>1
<1>3. /\ Tail(q) \in Seq(S) /\ Len(Tail(q)) = Len(q) - 1
      /\ \A i \in 1 .. Len(Tail(q)) : Tail(q)[i] = q[i + 1]
  BY HeadTailProperties
<1>4. Len(q) = 1 => Tail(q) = <<>>
  <2>1. Tail(q) # <<>> => Len(Tail(q)) \in Nat \ {0}
    BY <1>3, EmptySeq
  <2> QED  BY <1>3, <2>1
<1> QED  BY <1>1, <1>2, <1>3, <1>4

(* A queue of two that gets one more keeps its last and the new one. *)
LEMMA KeptTwo ==
  ASSUME NEW S, NEW q \in Seq(S), Len(q) <= 2, NEW m \in S, NEW new,
         \/ new = Append(q, m) /\ Len(q) < 2
         \/ new = Append(Tail(q), m) /\ Len(q) >= 2
  PROVE  /\ q = <<>> => Len(new) = 1 /\ new[1] = m
         /\ q # <<>> => /\ Len(new) = 2 /\ new[1] = q[Len(q)] /\ new[2] = m
                        /\ q[Len(q)] \in S
<1>1. CASE q = <<>>
  <2>1. Len(q) = 0
    BY <1>1
  <2>2. new = Append(q, m)
    BY <2>1
  <2> QED  BY <1>1, <2>1, <2>2, AppendProperties
<1>2. CASE q # <<>>
  <2>1. Len(q) = 1 \/ Len(q) = 2
    <3> DEFINE n == Len(q)
    <3>1. n \in Nat /\ n # 0 /\ n <= 2
      BY <1>2, EmptySeq
    <3> HIDE DEF n
    <3>2. n = 1 \/ n = 2
      BY ONLY <3>1
    <3> QED  BY ONLY <3>2 DEF n
  <2>2. q[Len(q)] \in S
    <3>1. Len(q) \in 1 .. Len(q)
      BY <2>1
    <3> QED  BY <3>1, ElementOfSeq
  <2>3. CASE Len(q) = 1
    <3>1. new = Append(q, m)
      BY <2>3
    <3>2. /\ Len(new) = Len(q) + 1 /\ new[Len(q) + 1] = m
          /\ \A i \in 1 .. Len(q) : new[i] = q[i]
      BY ONLY q \in Seq(S), m \in S, <3>1, AppendProperties
    <3>3. Len(new) = 2 /\ new[1] = q[1] /\ new[2] = m
      BY ONLY <2>3, <3>2
    <3> QED  BY <1>2, <2>2, <2>3, <3>3
  <2>4. CASE Len(q) = 2
    <3>1. new = Append(Tail(q), m)
      BY <2>4
    <3>2. Tail(q) \in Seq(S) /\ Len(Tail(q)) = 1 /\ Tail(q)[1] = q[2]
      <4> DEFINE t == Tail(q)
      <4>1. /\ t \in Seq(S) /\ Len(t) = Len(q) - 1
            /\ \A i \in 1 .. Len(q) - 1 : t[i] = q[i + 1]
        BY ONLY q \in Seq(S), <1>2, Popped
      <4> HIDE DEF t
      <4>2. Len(q) - 1 = 1 /\ 1 \in 1 .. Len(q) - 1
        BY ONLY <2>4
      <4>3. t \in Seq(S) /\ Len(t) = 1 /\ t[1] = q[2]
        BY ONLY <4>1, <4>2
      <4> QED  BY ONLY <4>3 DEF t
    <3>3. Len(new) = 2 /\ new[1] = q[2] /\ new[2] = m
      <4> DEFINE t == Tail(q)
      <4> HIDE DEF t
      <4>1. t \in Seq(S) /\ Len(t) = 1 /\ t[1] = q[2] /\ new = Append(t, m)
        BY <3>1, <3>2 DEF t
      <4> QED  BY <4>1, AppendProperties
    <3> QED  BY <1>2, <2>2, <2>4, <3>3
  <2> QED  BY <2>1, <2>3, <2>4
<1> QED  BY <1>1, <1>2

AdapterSubs == {"command", "vehicle_state"}

(* What a delivery does to the queue of its subscription, and to the others. *)
LEMMA DeliverOne ==
  ASSUME InboxType(inbox, timedOut), NEW nodes, NEW sub \in AdapterSubs,
         NEW m \in MsgOf(sub, timedOut), NEW box, box = Deliver(inbox, nodes, sub, m)
  PROVE  /\ \A s \in Subs \ {sub} : box[s] = inbox[s]
         /\ "adapter" \notin nodes => box[sub] = inbox[sub]
         /\ "adapter" \in nodes =>
              \/ box[sub] = Append(inbox[sub], m) /\ Len(inbox[sub]) < 2
              \/ box[sub] = Append(Tail(inbox[sub]), m) /\ Len(inbox[sub]) >= 2
<1> DEFINE all == Append(inbox[sub], m)
           kept == IF Len(all) > 2 THEN Tail(all) ELSE all
<1>1. box = IF "adapter" \notin nodes THEN inbox ELSE [inbox EXCEPT ![sub] = kept]
  BY DEF Deliver, Subscriber, AdapterSubs
<1>2. inbox = [s \in Subs |-> inbox[s]] /\ sub \in Subs
      /\ inbox[sub] \in Seq(MsgOf(sub, timedOut))
  BY DEF InboxType, Subs, AdapterSubs
<1>3. \/ kept = all /\ Len(inbox[sub]) < 2
      \/ kept = Append(Tail(inbox[sub]), m) /\ Len(inbox[sub]) >= 2
  <2>1. Len(all) = Len(inbox[sub]) + 1 /\ Len(inbox[sub]) \in Nat
    BY <1>2
  <2>2. Len(inbox[sub]) >= 2 => Tail(all) = Append(Tail(inbox[sub]), m)
    BY <1>2
  <2> QED  BY SMTT(30), <2>1, <2>2
<1> HIDE DEF kept
<1> QED  BY <1>1, <1>2, <1>3

(* The other subscriptions have queues of their own. *)
LEMMA DeliverElsewhere ==
  ASSUME NEW box, NEW nodes, NEW m, NEW sub \in Subs \ AdapterSubs
  PROVE  /\ Deliver(box, nodes, sub, m)["command"] = box["command"]
         /\ Deliver(box, nodes, sub, m)["vehicle_state"] = box["vehicle_state"]
BY DEF Deliver, AdapterSubs

(* Nothing was sent yet. *)
LEMMA AdapterInvInit == Init => AdapterInv
<1> SUFFICES ASSUME Init PROVE AdapterInv
  OBVIOUS
<1>1. Commands = <<>> /\ Speeds = <<>>
  BY DEF Init, Subs, Commands, Speeds
<1>2. now = 0 /\ commanded = 0 /\ latestSpeed = 0 /\ speedsSeen = {}
  BY DEF Init, AdapterInit
<1>3. Len(Commands) = 0 /\ Len(Speeds) = 0
  BY <1>1
<1> QED  BY <1>1, <1>2, <1>3 DEF AdapterInv, GateInv, CommandsInv, SpeedsInv

(* The steps that neither queue of the adapter sees. *)
LEMMA AdapterInvKept ==
  ASSUME TickType, AdapterInv, timedOut \subseteq timedOut',
         Commands' = Commands, Speeds' = Speeds, UNCHANGED adapterVars,
         UNCHANGED <<scene, now, commanded>>,
         \/ step' = step
         \/ step # "gate"
         \/ step' = "loop" /\ (commanded < now => now \in timedOut')
  PROVE  AdapterInv'
<1>1. GateInv'
  <2> SUFFICES ASSUME NEW t \in commanded + 1 .. now
               PROVE  t \in timedOut' \/ (t = now /\ step' = "gate")
    BY DEF GateInv
  <2>1. now \in Nat /\ commanded \in Nat
    BY SceneBounds DEF TickType
  <2>2. t \in timedOut \/ (t = now /\ step = "gate")
    BY DEF AdapterInv, GateInv
  <2> QED  BY <2>1, <2>2
<1>2. CommandsInv'
  <2>1. /\ Len(Commands') = Len(Commands) /\ commanded' = commanded
        /\ Commands'[1] = Commands[1] /\ Commands'[2] = Commands[2]
        /\ Commands'[Len(Commands')] = Commands[Len(Commands)]
    OBVIOUS
  <2> QED  BY <2>1 DEF AdapterInv, CommandsInv
<1>3. SpeedsInv'
  BY DEF AdapterInv, SpeedsInv, adapterVars
<1> QED  BY <1>1, <1>2, <1>3 DEF AdapterInv

(* A frame adds its speed behind the earlier ones. *)
LEMMA SpeedPublished ==
  ASSUME BridgeInv, AdapterInv, TickWorld
  PROVE  AdapterInv'
<1> DEFINE m == [k |-> now + 1]
           box == Deliver(inbox, scene.nodes, "vehicle_state", m)
           gt == [k |-> now + 1, valid |-> TRUE]
<1>1. now \in Nat /\ commanded \in 0 .. now /\ InboxType(inbox, timedOut)
  BY SceneBounds DEF BridgeInv, TickType
<1>2. /\ now' = now + 1 /\ scene' = scene /\ step' = "gate" /\ step \in {"loop", "reset"}
      /\ commanded' = commanded /\ timedOut' = timedOut
      /\ inbox' = Deliver(box, scene.nodes, "gt", gt)
      /\ UNCHANGED adapterVars
  BY DEF TickWorld
<1>3. m \in MsgOf("vehicle_state", timedOut) /\ m.k = now + 1
  BY <1>1 DEF MsgOf
<1>4. inbox'["vehicle_state"] = box["vehicle_state"] /\ inbox'["command"] = box["command"]
  <2> HIDE DEF box, gt
  <2> QED  BY <1>2, DeliverElsewhere DEF Subs, AdapterSubs
<1>5. box["command"] = inbox["command"]
  BY DEF Deliver
<1>6. \/ Speeds' = Speeds
      \/ Speeds' = Append(Speeds, m)
      \/ Speeds' = Append(Tail(Speeds), m) /\ Len(Speeds) >= 2
  <2> HIDE DEF box, m
  <2>1. \/ box["vehicle_state"] = inbox["vehicle_state"]
        \/ box["vehicle_state"] = Append(inbox["vehicle_state"], m)
        \/ /\ box["vehicle_state"] = Append(Tail(inbox["vehicle_state"]), m)
           /\ Len(inbox["vehicle_state"]) >= 2
    <3>1. box = Deliver(inbox, scene.nodes, "vehicle_state", m)
      BY DEF box
    <3>2. InboxType(inbox, timedOut) /\ m \in MsgOf("vehicle_state", timedOut)
      BY <1>1, <1>3
    <3>3. /\ "adapter" \notin scene.nodes => box["vehicle_state"] = inbox["vehicle_state"]
          /\ "adapter" \in scene.nodes =>
               \/ /\ box["vehicle_state"] = Append(inbox["vehicle_state"], m)
                  /\ Len(inbox["vehicle_state"]) < 2
               \/ /\ box["vehicle_state"] = Append(Tail(inbox["vehicle_state"]), m)
                  /\ Len(inbox["vehicle_state"]) >= 2
      <4>1. "vehicle_state" \in AdapterSubs
        BY DEF AdapterSubs
      <4> QED  BY ONLY <3>1, <3>2, <4>1, DeliverOne
    <3> QED  BY ONLY <3>3
  <2> QED  BY <1>4, <2>1 DEF Speeds
<1>7. GateInv'
  BY <1>1, <1>2 DEF AdapterInv, GateInv
<1>8. CommandsInv'
  BY <1>2, <1>4, <1>5 DEF AdapterInv, CommandsInv, Commands
<1>9. SpeedsInv'
  <2> DEFINE Good(q) ==
        /\ \A i \in 1 .. Len(q) : latestSpeed <= q[i].k /\ q[i].k <= now
        /\ \A i, j \in 1 .. Len(q) : i < j => q[i].k <= q[j].k
      Msg == MsgOf("vehicle_state", timedOut)
  <2>1. Speeds \in Seq(Msg) /\ Good(Speeds) /\ latestSpeed \in Nat /\ latestSpeed <= now
    BY <1>1 DEF InboxType, Subs, Speeds, AdapterInv, SpeedsInv
  <2>2. \A t \in Msg : t.k \in Nat
    BY DEF MsgOf
  <2>3. ASSUME NEW q \in Seq(Msg), Good(q)
        PROVE  /\ \A i \in 1 .. Len(Append(q, m)) :
                    latestSpeed <= Append(q, m)[i].k /\ Append(q, m)[i].k <= now + 1
               /\ \A i, j \in 1 .. Len(Append(q, m)) :
                    i < j => Append(q, m)[i].k <= Append(q, m)[j].k
    <3>1. /\ Len(Append(q, m)) = Len(q) + 1 /\ Len(q) \in Nat
          /\ \A i \in 1 .. Len(q) : Append(q, m)[i] = q[i] /\ q[i].k \in Nat
          /\ Append(q, m)[Len(q) + 1] = m
      BY <2>2, <2>3, <1>3
    <3> HIDE DEF m
    <3> QED  BY SMTT(30), <1>1, <1>3, <2>1, <2>3, <3>1
  <2>4. Len(Speeds) >= 2 => Tail(Speeds) \in Seq(Msg) /\ Good(Tail(Speeds))
    <3> SUFFICES ASSUME Len(Speeds) >= 2 PROVE Tail(Speeds) \in Seq(Msg) /\ Good(Tail(Speeds))
      OBVIOUS
    <3>1. Speeds # <<>>
      BY <2>1
    <3> DEFINE t == Tail(Speeds)
    <3>2. /\ Len(Speeds) \in Nat \ {0} /\ t \in Seq(Msg) /\ Len(t) = Len(Speeds) - 1
          /\ \A i \in 1 .. Len(Speeds) - 1 : t[i] = Speeds[i + 1]
      BY <2>1, <3>1, Popped
    <3> HIDE DEF t
    <3>3. \A i \in 1 .. Len(t) : t[i] = Speeds[i + 1] /\ i + 1 \in 1 .. Len(Speeds)
      BY <3>2
    <3>4. \A i \in 1 .. Len(t) : latestSpeed <= t[i].k /\ t[i].k <= now
      BY <2>1, <3>3
    <3>5. ASSUME NEW i \in 1 .. Len(t), NEW j \in 1 .. Len(t), i < j
          PROVE  t[i].k <= t[j].k
      <4>1. i + 1 < j + 1
        BY <3>5
      <4> QED  BY <2>1, <3>3, <4>1
    <3>6. Good(t)
      BY <3>4, <3>5
    <3> QED  BY <3>2, <3>6 DEF t
  <2>5. /\ \A i \in 1 .. Len(Speeds') : latestSpeed <= Speeds'[i].k /\ Speeds'[i].k <= now + 1
        /\ \A i, j \in 1 .. Len(Speeds') : i < j => Speeds'[i].k <= Speeds'[j].k
    <3>1. CASE Speeds' = Speeds
      <4>1. \A i \in 1 .. Len(Speeds) : Speeds[i].k \in Nat
        BY <2>1, <2>2
      <4> QED  BY <1>1, <2>1, <3>1, <4>1
    <3> QED  BY <1>6, <2>1, <2>3, <2>4, <3>1
  <2> QED  BY <1>1, <1>2, <2>1, <2>5 DEF AdapterInv, SpeedsInv, adapterVars
<1> QED  BY <1>7, <1>8, <1>9 DEF AdapterInv

(* A command is of a later tick than the last; in between the gate gave up. *)
LEMMA CommandSent ==
  ASSUME BridgeInv, AdapterInv, Command
  PROVE  AdapterInv'
<1>1. /\ now \in Nat /\ commanded \in 0 .. now /\ InboxType(inbox, timedOut)
  BY SceneBounds DEF BridgeInv, TickType
<1>2. PICK k \in commanded + 1 .. now :
        /\ commanded' = k
        /\ inbox' = Deliver(inbox, scene.nodes, "command",
                            [k |-> k, stop |-> k # posed \/ ~ poseOk])
  BY DEF Command
<1>3. UNCHANGED <<scene, now, step, timedOut>> /\ UNCHANGED adapterVars
  BY DEF Command
<1> DEFINE m == [k |-> k, stop |-> k # posed \/ ~ poseOk]
<1>4. m \in MsgOf("command", timedOut) /\ m.k = k
  BY <1>1 DEF MsgOf
<1> HIDE DEF m
<1>5. /\ inbox'["vehicle_state"] = inbox["vehicle_state"]
      /\ "adapter" \notin scene.nodes => Commands' = Commands
      /\ "adapter" \in scene.nodes =>
           \/ Commands' = Append(Commands, m) /\ Len(Commands) < 2
           \/ Commands' = Append(Tail(Commands), m) /\ Len(Commands) >= 2
  <2>1. InboxType(inbox, timedOut) /\ m \in MsgOf("command", timedOut)
        /\ inbox' = Deliver(inbox, scene.nodes, "command", m)
    BY <1>1, <1>2, <1>4 DEF m
  <2>2. "vehicle_state" \in Subs \ {"command"}
    BY DEF Subs
  <2>3. "command" \in AdapterSubs
    BY DEF AdapterSubs
  <2>4. /\ \A s \in Subs \ {"command"} : inbox'[s] = inbox[s]
        /\ "adapter" \notin scene.nodes => inbox'["command"] = inbox["command"]
        /\ "adapter" \in scene.nodes =>
             \/ inbox'["command"] = Append(inbox["command"], m) /\ Len(inbox["command"]) < 2
             \/ /\ inbox'["command"] = Append(Tail(inbox["command"]), m)
                /\ Len(inbox["command"]) >= 2
    BY ONLY <2>1, <2>3, DeliverOne
  <2> QED  BY ONLY <2>2, <2>4 DEF Commands
<1>6. scene' = scene /\ now' = now /\ step' = step /\ timedOut' = timedOut
      /\ commanded' = k /\ k > commanded /\ k <= now
  BY <1>1, <1>2, <1>3
<1>7. GateInv'
  BY <1>1, <1>6 DEF AdapterInv, GateInv
<1>8. CommandsInv'
  <2>1. Commands \in Seq(MsgOf("command", timedOut)) /\ Len(Commands) \in Nat
    BY <1>1 DEF InboxType, Subs, Commands
  <2>2. \A t \in commanded + 1 .. k - 1 : t \in timedOut
    BY <1>1, <1>6 DEF AdapterInv, GateInv
  <2>3. CASE "adapter" \notin scene.nodes
    BY <1>5, <1>6, <2>1, <2>3 DEF AdapterInv, CommandsInv
  <2>4. CASE "adapter" \in scene.nodes
    <3>0. /\ Commands = <<>> => Len(Commands') = 1 /\ Commands'[1] = m
          /\ Commands # <<>> =>
               /\ Len(Commands') = 2 /\ Commands'[1] = Commands[Len(Commands)]
               /\ Commands'[2] = m
               /\ Commands[Len(Commands)] \in MsgOf("command", timedOut)
      <4>1. Len(Commands) <= 2
        BY DEF AdapterInv, CommandsInv
      <4> QED  BY <1>4, <1>5, <2>1, <2>4, <4>1, KeptTwo
    <3>1. CASE Commands = <<>>
      <4>1. Len(Commands') = 1 /\ Commands'[1] = m
        BY <3>0, <3>1
      <4> QED  BY <1>4, <1>6, <2>4, <4>1 DEF CommandsInv
    <3>2. CASE Commands # <<>>
      <4>1. PICK c \in MsgOf("command", timedOut) :
              /\ c = Commands[Len(Commands)]
              /\ Len(Commands') = 2 /\ Commands'[1] = c /\ Commands'[2] = m
        BY <3>0, <3>2
      <4>2. c.k = commanded
        BY <3>2, <4>1 DEF AdapterInv, CommandsInv
      <4> QED  BY <1>4, <1>6, <2>2, <2>4, <4>1, <4>2 DEF CommandsInv
    <3> QED  BY <3>1, <3>2
  <2> QED  BY <1>5, <2>3, <2>4
<1>9. SpeedsInv'
  BY <1>3, <1>5, <1>6 DEF AdapterInv, SpeedsInv, Speeds, adapterVars
<1> QED  BY <1>7, <1>8, <1>9 DEF AdapterInv

(* The adapter takes a speed: what it forgets for it is too old. *)
LEMMA SpeedTaken ==
  ASSUME BridgeInv, AdapterInv, Adapter, OnVehicleState
  PROVE  AdapterInv'
<1> DEFINE Msg == MsgOf("vehicle_state", timedOut)
           k == Head(Speeds).k
<1>1. /\ now \in Nat /\ Speeds \in Seq(Msg) /\ Speeds # <<>>
      /\ inbox' = [inbox EXCEPT !["vehicle_state"] = Tail(@)]
      /\ "vehicle_state" \in DOMAIN inbox /\ "command" \in DOMAIN inbox
  BY SceneBounds DEF BridgeInv, InboxType, Subs, OnVehicleState, TakeFrom, Speeds
<1>2. /\ UNCHANGED <<scene, now, step, commanded, timedOut>>
      /\ speedByTick' = {t \in speedByTick \cup {k} : t >= k - SpeedHistoryTicks}
      /\ latestSpeed' = k
      /\ speedsSeen' = speedsSeen \cup {k}
  BY DEF Adapter, tickVars, OnVehicleState, Speeds
<1>3. Speeds' = Tail(Speeds) /\ Commands' = Commands
  BY <1>1 DEF Speeds, Commands
<1>4. /\ k = Speeds[1].k /\ k \in Nat /\ latestSpeed <= k /\ k <= now
      /\ Len(Speeds') = Len(Speeds) - 1 /\ Len(Speeds) \in Nat
      /\ \A i \in 1 .. Len(Speeds') : Speeds'[i] = Speeds[i + 1]
  <2>1. /\ Len(Speeds) \in Nat \ {0} /\ Speeds[1] \in Msg /\ Head(Speeds) = Speeds[1]
        /\ Len(Speeds') = Len(Speeds) - 1
        /\ \A i \in 1 .. Len(Speeds) - 1 : Speeds'[i] = Speeds[i + 1]
    BY <1>1, <1>3, Popped
  <2>2. Speeds[1].k \in Nat
    BY <2>1 DEF MsgOf
  <2> QED  BY <2>1, <2>2 DEF AdapterInv, SpeedsInv
<1> HIDE DEF k
<1>5. GateInv' /\ CommandsInv'
  BY <1>2, <1>3 DEF AdapterInv, GateInv, CommandsInv
<1>6. SpeedsInv'
  <2>1. \A i \in 1 .. Len(Speeds') : k <= Speeds'[i].k /\ Speeds'[i].k <= now
    BY <1>4 DEF AdapterInv, SpeedsInv
  <2>2. \A i, j \in 1 .. Len(Speeds') : i < j => Speeds'[i].k <= Speeds'[j].k
    <3> SUFFICES ASSUME NEW i \in 1 .. Len(Speeds'), NEW j \in 1 .. Len(Speeds'), i < j
                 PROVE  Speeds'[i].k <= Speeds'[j].k
      OBVIOUS
    <3>1. /\ i + 1 \in 1 .. Len(Speeds) /\ j + 1 \in 1 .. Len(Speeds) /\ i + 1 < j + 1
          /\ Speeds'[i] = Speeds[i + 1] /\ Speeds'[j] = Speeds[j + 1]
      BY <1>4
    <3> QED  BY <3>1 DEF AdapterInv, SpeedsInv
  <2>3. ASSUME NEW t \in speedsSeen'
        PROVE  t \in Nat /\ (t \in speedByTick' \/ t < k - SpeedHistoryTicks)
    <3>1. t \in Nat /\ (t = k \/ t \in speedByTick \/ t < latestSpeed - SpeedHistoryTicks)
      BY <1>2, <1>4, <2>3 DEF AdapterInv, SpeedsInv
    <3>2. latestSpeed \in Nat /\ SpeedHistoryTicks \in Nat
      BY AdapterAssumption DEF AdapterInv, SpeedsInv
    <3> QED  BY <1>2, <1>4, <3>1, <3>2
  <2> QED  BY <1>2, <1>4, <2>1, <2>2, <2>3 DEF SpeedsInv
<1> QED  BY <1>5, <1>6 DEF AdapterInv

(* The adapter takes a command: the one behind it is the newest. *)
LEMMA CommandTaken ==
  ASSUME BridgeInv, AdapterInv, Adapter, OnControlCommand
  PROVE  AdapterInv'
<1>1. /\ Commands \in Seq(MsgOf("command", timedOut)) /\ Commands # <<>>
      /\ inbox' = [inbox EXCEPT !["command"] = Tail(@)]
      /\ "vehicle_state" \in DOMAIN inbox /\ "command" \in DOMAIN inbox
  BY DEF BridgeInv, InboxType, Subs, OnControlCommand, TakeFrom, Commands
<1>2. /\ UNCHANGED <<scene, now, step, commanded, timedOut>>
      /\ UNCHANGED <<speedByTick, latestSpeed, speedsSeen>>
  BY DEF Adapter, tickVars, OnControlCommand
<1>3. Commands' = Tail(Commands) /\ Speeds' = Speeds
  BY <1>1 DEF Speeds, Commands
<1>4. /\ Len(Commands) \in 1 .. 2 /\ Len(Commands') = Len(Commands) - 1
      /\ Len(Commands) = 1 => Commands' = <<>>
      /\ Len(Commands) = 2 => Commands'[1] = Commands[2]
  <2> DEFINE q == Commands
             M == MsgOf("command", timedOut)
  <2>1. Len(q) <= 2
    BY DEF AdapterInv, CommandsInv
  <2>2. q \in Seq(M) /\ q # <<>>
    BY <1>1
  <2> HIDE DEF q, M
  <2>3. /\ Len(q) \in Nat \ {0} /\ Len(Tail(q)) = Len(q) - 1
        /\ \A i \in 1 .. Len(q) - 1 : Tail(q)[i] = q[i + 1]
        /\ Len(q) = 1 => Tail(q) = <<>>
    BY <2>2, Popped
  <2> QED  BY <1>3, <2>1, <2>3 DEF q
<1>5. CommandsInv'
  <2>1. CASE Len(Commands) = 1
    <3>1. Commands' = <<>> /\ Len(Commands') = 0
      BY <1>4, <2>1
    <3> QED  BY <3>1 DEF CommandsInv
  <2>2. CASE Len(Commands) = 2
    <3>1. Len(Commands') = 1 /\ Commands'[1] = Commands[2] /\ Commands' # <<>>
      BY <1>4, <2>2
    <3>2. Commands[2].k = commanded /\ "adapter" \in scene.nodes
      BY <1>1, <2>2 DEF AdapterInv, CommandsInv
    <3> QED  BY <1>2, <3>1, <3>2 DEF CommandsInv
  <2> QED  BY <1>4, <2>1, <2>2
<1>6. GateInv' /\ SpeedsInv'
  BY <1>2, <1>3 DEF AdapterInv, GateInv, SpeedsInv
<1> QED  BY <1>5, <1>6 DEF AdapterInv

(* Every step keeps it. *)
LEMMA AdapterInvStep == BridgeInv /\ AdapterInv /\ [Next]_vars => AdapterInv'
<1> SUFFICES ASSUME BridgeInv, AdapterInv, [Next]_vars PROVE AdapterInv'
  OBVIOUS
<1>0. TickType
  BY DEF BridgeInv
<1>1. CASE TickWorld
  BY <1>1, SpeedPublished
<1>2. CASE Command
  BY <1>2, CommandSent
<1>3. CASE Adapter
  BY <1>3, SpeedTaken, CommandTaken DEF Adapter, AdapterNext
<1>4. CASE ApplyReset
  <2>1. Commands' = Commands /\ Speeds' = Speeds
    BY <1>4, DeliverElsewhere DEF ApplyReset, Commands, Speeds, Subs, AdapterSubs
  <2> QED  BY <1>4, <1>0, <2>1, AdapterInvKept DEF ApplyReset, adapterVars
<1>5. CASE PassGate
  BY <1>0, <1>5, AdapterInvKept DEF PassGate, Commands, Speeds, adapterVars, TickType
<1>6. CASE TimeOutGate
  <2>1. Commands' = Commands /\ Speeds' = Speeds
    BY <1>6, DeliverElsewhere DEF TimeOutGate, Commands, Speeds, Subs, AdapterSubs
  <2> QED  BY <1>6, <1>0, <2>1, AdapterInvKept DEF TimeOutGate, adapterVars
<1>7. CASE Localize
  <2>1. Commands' = Commands /\ Speeds' = Speeds
    BY <1>7, DeliverElsewhere DEF Localize, Commands, Speeds, Subs, AdapterSubs
  <2> QED  BY <1>7, <1>0, <2>1, AdapterInvKept DEF Localize, adapterVars
<1>8. CASE Twin
  <2>1. inbox' = inbox \/ \E sub \in Subs \ AdapterSubs : TakeFrom(sub)
    BY <1>8 DEF Twin, TwinNext, TwinOnLaneGraph, TwinOnResetEvent, TwinOnTickTimeout,
                TwinOnInput, TwinInputs, Subs, AdapterSubs
  <2>2. Commands' = Commands /\ Speeds' = Speeds
    <3>1. CASE inbox' = inbox
      BY <3>1 DEF Commands, Speeds
    <3>2. ASSUME NEW sub \in Subs \ AdapterSubs, TakeFrom(sub)
          PROVE  Commands' = Commands /\ Speeds' = Speeds
      <4>1. inbox' = [inbox EXCEPT ![sub] = Tail(inbox[sub])] /\ DOMAIN inbox = Subs
        BY <3>2 DEF TakeFrom, BridgeInv, InboxType
      <4> QED  BY <4>1 DEF Commands, Speeds, Subs, AdapterSubs
    <3> QED  BY <2>1, <3>1, <3>2
  <2> QED  BY <1>8, <1>0, <2>2, AdapterInvKept DEF Twin, tickVars, adapterVars
<1>9. CASE PublishLights \/ Executor \/ UNCHANGED vars
  BY <1>0, <1>9, AdapterInvKept
     DEF PublishLights, Executor, vars, tickVars, Commands, Speeds, adapterVars
<1> QED
  BY <1>1, <1>2, <1>3, <1>4, <1>5, <1>6, <1>7, <1>8, <1>9 DEF Next

(* It holds of every behaviour. *)
LEMMA AdapterInvHolds == Spec => []AdapterInv
BY AdapterInvInit, AdapterInvStep, BridgeInvHolds, PTL DEF Spec

(* The gate gave up on all but one of the ticks that the window is long. *)
Behind(k) == Cardinality({t \in timedOut : k < t}) >= SpeedHistoryTicks - 1

(* A command whose speed was forgotten waited for that many gate timeouts. *)
LEMMA ForgottenBehind ==
  ASSUME BridgeInv, AdapterInv, OnControlCommand,
         ~ applied'.brake, applied'.speed # applied'.k, applied'.k \in speedsSeen
  PROVE  Behind(applied'.k)
<1> DEFINE k == Commands[1].k
<1>1. /\ Commands \in Seq(MsgOf("command", timedOut)) /\ Commands # <<>>
      /\ Head(Commands) = Commands[1] /\ (Len(Commands) = 1 \/ Len(Commands) = 2)
      /\ Commands[1] \in MsgOf("command", timedOut)
  <2>1. Commands \in Seq(MsgOf("command", timedOut)) /\ Commands # <<>>
    BY DEF BridgeInv, InboxType, Subs, OnControlCommand, TakeFrom, Commands
  <2>2. Len(Commands) <= 2
    BY DEF AdapterInv, CommandsInv
  <2>3. Len(Commands) \in Nat \ {0} /\ Head(Commands) = Commands[1]
        /\ Commands[1] \in MsgOf("command", timedOut)
    BY <2>1, Popped
  <2> DEFINE n == Len(Commands)
  <2>4. n \in Nat /\ n # 0 /\ n <= 2
    BY <2>2, <2>3
  <2> HIDE DEF n
  <2>5. n = 1 \/ n = 2
    BY <2>4
  <2> QED  BY <2>1, <2>3, <2>5 DEF n
<1>2. /\ now \in Nat /\ k \in Nat /\ commanded \in 0 .. now /\ timedOut \subseteq 1 .. now
      /\ latestSpeed \in Nat /\ latestSpeed <= now /\ SpeedHistoryTicks \in Nat
  BY <1>1, SceneBounds, AdapterAssumption DEF BridgeInv, TickType, MsgOf, AdapterInv, SpeedsInv
<1>3. applied'.k = k /\ k < latestSpeed - SpeedHistoryTicks
  <2>1. /\ applied' = [k |-> k, brake |-> Commands[1].stop,
                       speed |-> IF Commands[1].stop THEN 0
                                 ELSE IF k \in speedByTick THEN k ELSE latestSpeed]
    BY <1>1 DEF OnControlCommand, ControlFrom, Commands
  <2>2. applied'.k = k /\ k \notin speedByTick
    BY <2>1
  <2> QED  BY <2>2 DEF AdapterInv, SpeedsInv
<1> HIDE DEF k
(* Between the command and now every tick but the other command's timed out. *)
<1>4. PICK other \in Nat : \A t \in k + 1 .. now - 1 : t = other \/ t \in timedOut
  <2>1. \A t \in commanded + 1 .. now - 1 : t \in timedOut
    BY <1>2 DEF AdapterInv, GateInv
  <2>2. CASE Len(Commands) = 1
    <3>1. k = commanded
      BY <1>1, <2>2 DEF AdapterInv, CommandsInv, k
    <3> QED  BY <2>1, <3>1
  <2>3. CASE Len(Commands) = 2
    <3>1. Commands[2].k = commanded
      BY <1>1, <2>3 DEF AdapterInv, CommandsInv
    <3>2. \A t \in k + 1 .. commanded - 1 : t \in timedOut
      BY <2>3, <3>1 DEF AdapterInv, CommandsInv, k
    <3>3. commanded \in Nat /\ \A t \in k + 1 .. now - 1 : t = commanded \/ t \in timedOut
      BY <1>2, <2>1, <3>2
    <3> QED  BY <3>3
  <2> QED  BY <1>1, <2>2, <2>3
<1> DEFINE all == k + 1 .. now - 1
           late == {t \in timedOut : k < t}
<1>5. IsFiniteSet(all) /\ Cardinality(all) = now - 1 - k /\ Cardinality(all) >= SpeedHistoryTicks
  <2>1. k + 1 \in Int /\ now - 1 \in Int /\ k + 1 <= now - 1 + 1
    BY <1>2, <1>3
  <2>2. IsFiniteSet(all) /\ Cardinality(all) = (now - 1) - (k + 1) + 1
    BY <2>1, FS_Interval
  <2> QED  BY <1>2, <1>3, <2>2
<1>6. IsFiniteSet(late)
  <2>1. IsFiniteSet(1 .. now)
    <3>1. 1 \in Int /\ now \in Int
      BY <1>2
    <3> QED  BY <3>1, FS_Interval
  <2>2. late \subseteq 1 .. now
    BY <1>2
  <2> QED  BY <2>1, <2>2, FS_Subset
<1>7. all \ {other} \subseteq late
  BY <1>2, <1>4
<1>8. /\ IsFiniteSet(all \ {other})
      /\ Cardinality(all \ {other})
           = IF other \in all THEN Cardinality(all) - 1 ELSE Cardinality(all)
  <2> HIDE DEF all
  <2> QED  BY <1>5, FS_RemoveElement
<1>9. Cardinality(all \ {other}) <= Cardinality(late)
  <2> HIDE DEF all, late
  <2> QED  BY <1>6, <1>7, FS_Subset
<1>10. Cardinality(late) \in Nat /\ Cardinality(all) \in Nat
  BY <1>5, <1>6, FS_CardinalityType
<1>11. Cardinality(late) >= SpeedHistoryTicks - 1
  <2> HIDE DEF all, late
  <2> QED  BY <1>2, <1>5, <1>8, <1>9, <1>10
<1> QED  BY <1>3, <1>11 DEF Behind

(* control_adapter.py, _on_control_command: pedals are for the speed of another *)
(* tick only if that of the command's own was not handled yet, or if the gate   *)
(* has given up on SPEED_HISTORY_TICKS - 1 ticks since: a second of them.        *)
THEOREM OldSpeedOnlyBehind ==
  Spec => [][applied' # applied /\ ~ applied'.brake /\ applied'.speed # applied'.k
               /\ applied'.k \in speedsSeen => Behind(applied'.k)]_vars
<1>1. BridgeInv /\ AdapterInv /\ [Next]_vars =>
        [applied' # applied /\ ~ applied'.brake /\ applied'.speed # applied'.k
           /\ applied'.k \in speedsSeen => Behind(applied'.k)]_vars
  <2> SUFFICES ASSUME BridgeInv, AdapterInv, Next, applied' # applied, ~ applied'.brake,
                      applied'.speed # applied'.k, applied'.k \in speedsSeen
               PROVE  Behind(applied'.k)
    OBVIOUS
  <2>1. OnControlCommand
    BY DEF Next, ApplyReset, TickWorld, PublishLights, PassGate, TimeOutGate, Executor,
           Localize, Command, Twin, Adapter, AdapterNext, OnVehicleState, adapterVars
  <2> QED  BY <2>1, ForgottenBehind
<1> QED  BY <1>1, BridgeInvHolds, AdapterInvHolds, PTL DEF Spec

(* So with fewer timeouts than that the window never drops a speed that is   *)
(* still needed, however the adapter lags behind the gate.                     *)
THEOREM OwnSpeedOnceSeenHolds ==
  ASSUME MaxTimeouts + 2 <= SpeedHistoryTicks
  PROVE  Spec => OwnSpeedOnceSeen
<1>1. BridgeInv /\ AdapterInv /\ [Next]_vars =>
        [applied' # applied /\ ~ applied'.brake /\ applied'.speed # applied'.k
           => applied'.k \notin speedsSeen]_vars
  <2> SUFFICES ASSUME BridgeInv, AdapterInv, Next, applied' # applied, ~ applied'.brake,
                      applied'.speed # applied'.k, applied'.k \in speedsSeen
               PROVE  FALSE
    OBVIOUS
  <2>1. OnControlCommand
    BY DEF Next, ApplyReset, TickWorld, PublishLights, PassGate, TimeOutGate, Executor,
           Localize, Command, Twin, Adapter, AdapterNext, OnVehicleState, adapterVars
  <2>2. Behind(applied'.k)
    BY <2>1, ForgottenBehind
  <2> DEFINE late == {t \in timedOut : applied'.k < t}
  <2>3. IsFiniteSet(timedOut)
    <3>1. now \in Int /\ 1 \in Int /\ timedOut \subseteq 1 .. now
      BY SceneBounds DEF BridgeInv, TickType
    <3> QED  BY <3>1, FS_Interval, FS_Subset
  <2>4. /\ Cardinality(late) <= Cardinality(timedOut) /\ Cardinality(late) \in Nat
        /\ Cardinality(timedOut) \in Nat
    <3>1. late \subseteq timedOut
      OBVIOUS
    <3> HIDE DEF late
    <3> QED  BY <2>3, <3>1, FS_Subset, FS_CardinalityType
  <2>5. Cardinality(timedOut) <= MaxTimeouts /\ MaxTimeouts \in Nat /\ SpeedHistoryTicks \in Nat
    BY BridgeAssumption, AdapterAssumption DEF BridgeInv, TickType
  <2> QED  BY <2>2, <2>4, <2>5 DEF Behind
<1> QED  BY <1>1, BridgeInvHolds, AdapterInvHolds, PTL DEF Spec, OwnSpeedOnceSeen
===============================================================================
