----------------------------- MODULE TopicsLemmas -----------------------------
(***************************************************************************)
(* What publishing and taking do to the subscriptions, for every set of    *)
(* nodes: the facts that the proofs about the stack cite.                  *)
(***************************************************************************)
EXTENDS Topics, TLAPS

(* The type of the subscriptions q: each holds messages of its own topic. *)
QueueType(q) ==
  /\ q \in [Subscriptions -> Seq(Message)]
  /\ \A s \in Subscriptions : q[s] \in Seq(Payload(s[1]))

(* Payload(topic) is a kind of message, whatever the topic: qos.h and the *)
(* message definitions of nuway_msgs fix what is sent where.              *)
LEMMA PayloadType == \A topic : Payload(topic) \subseteq Message
BY DEF Payload, Message

(* The payload of each topic that a node or the tick thread publishes on. *)
LEMMA PayloadOf ==
  /\ Payload("ego_odom") = StampMsg /\ Payload("vehicle_state") = StampMsg
  /\ Payload("lane_graph") = StampMsg /\ Payload("tick_timeout") = StampMsg
  /\ Payload("command") = StampMsg
  /\ Payload("pose") = PoseMsg
  /\ Payload("reset_event") = ResetMsg
  /\ Payload("waypoints") = RouteMsg /\ Payload("reference_line") = RouteMsg
BY DEF Payload

(* Whatever a message carries, its tick is a number. *)
LEMMA TickType == \A m \in Message : m.tick \in Nat
<1>1. \A m \in PoseMsg : m.tick \in Nat
  BY ZenonT(20) DEF PoseMsg
<1>2. \A m \in StampMsg \cup ResetMsg \cup RouteMsg : m.tick \in Nat
  BY DEF StampMsg, ResetMsg, RouteMsg
<1> QED  BY <1>1, <1>2 DEF Message

(* A message that is nothing but its stamp. *)
LEMMA StampAt ==
  ASSUME NEW k \in Nat
  PROVE  [tick |-> k] \in StampMsg /\ [tick |-> k].tick = k
BY DEF StampMsg

(* Every topic keeps at least one message: the depths of qos.h are positive. *)
LEMMA DepthType == \A topic : Depth(topic) \in Nat \ {0}
BY DEF Depth, EventDepth, LatchedDepth, StreamDepth

(* Appending anything to a sequence of anything. *)
LEMMA AppendAt ==
  ASSUME NEW S, NEW q \in Seq(S), NEW a
  PROVE  /\ Len(q) \in Nat /\ DOMAIN q = 1 .. Len(q)
         /\ DOMAIN Append(q, a) = 1 .. Len(q) + 1
         /\ Append(q, a)[Len(q) + 1] = a
         /\ \A i \in 1 .. Len(q) : Append(q, a)[i] = q[i]
<1>1. q \in Seq(S \cup {a}) /\ a \in S \cup {a}
  OBVIOUS
<1> QED  BY <1>1

(* Keeping the last messages of a subscription neither invents messages nor *)
(* changes their type: it can only forget the oldest one.                   *)
LEMMA KeepLastOfAppend ==
  ASSUME NEW S, NEW q \in Seq(S), NEW m \in S, NEW depth \in Nat \ {0}
  PROVE  /\ KeepLast(Append(q, m), depth) \in Seq(S)
         /\ Contents(KeepLast(Append(q, m), depth)) \subseteq Contents(q) \cup {m}
<1> DEFINE a == Append(q, m)
<1>1. a \in Seq(S) /\ Len(a) = Len(q) + 1 /\ Len(q) \in Nat
  OBVIOUS
<1>2. \A i \in 1 .. Len(a) : a[i] \in Contents(q) \cup {m}
  BY DEF Contents
<1>3. CASE Len(a) > depth
  <2>1. Tail(a) \in Seq(S) /\ Len(Tail(a)) = Len(q)
    BY <1>1, <1>3
  <2>2. \A i \in 1 .. Len(q) : Tail(a)[i] = a[i + 1]
    BY <1>1, <1>3, <2>1
  <2>3. Contents(Tail(a)) \subseteq Contents(q) \cup {m}
    BY <1>1, <1>2, <2>1, <2>2 DEF Contents
  <2> QED  BY <1>3, <2>1, <2>3 DEF KeepLast
<1>4. CASE ~ (Len(a) > depth)
  BY <1>1, <1>2, <1>4 DEF KeepLast, Contents
<1> QED  BY <1>3, <1>4

(* Send publishes to the subscribers of one topic and leaves the others alone. *)
LEMMA SendType ==
  ASSUME NEW q, QueueType(q), NEW topic, NEW m \in Payload(topic)
  PROVE  QueueType(Send(q, topic, m))
<1> DEFINE r == Send(q, topic, m)
<1>1. \A s \in Subscriptions : r[s] \in Seq(Payload(s[1]))
  <2> TAKE s \in Subscriptions
  <2>1. q[s] \in Seq(Payload(s[1]))
    BY DEF QueueType
  <2>2. CASE s[1] = topic
    <3>1. r[s] = KeepLast(Append(q[s], m), Depth(topic))
      BY <2>2 DEF Send
    <3> QED  BY <2>1, <2>2, <3>1, KeepLastOfAppend, DepthType
  <2>3. CASE s[1] # topic
    BY <2>1, <2>3 DEF Send
  <2> QED  BY <2>2, <2>3
<1>2. \A s \in Subscriptions : Seq(Payload(s[1])) \subseteq Seq(Message)
  BY PayloadType
<1>3. r \in [Subscriptions -> Seq(Message)]
  BY <1>1, <1>2 DEF Send
<1> QED  BY <1>1, <1>3 DEF QueueType

(* What a subscription holds after a Send: what it held before, and on the *)
(* subscriptions of that topic perhaps the new message.                    *)
LEMMA SendContents ==
  ASSUME NEW q, QueueType(q), NEW topic, NEW m \in Payload(topic),
         NEW s \in Subscriptions
  PROVE  Contents(Send(q, topic, m)[s])
           \subseteq Contents(q[s]) \cup (IF s[1] = topic THEN {m} ELSE {})
<1>1. q[s] \in Seq(Payload(s[1]))
  BY DEF QueueType
<1>2. CASE s[1] = topic
  <2>1. Send(q, topic, m)[s] = KeepLast(Append(q[s], m), Depth(topic))
    BY <1>2 DEF Send
  <2> QED  BY <1>1, <1>2, <2>1, KeepLastOfAppend, DepthType
<1>3. CASE s[1] # topic
  BY <1>3 DEF Send
<1> QED  BY <1>2, <1>3

(* The message that a callback takes is one of its topic, and it was waiting. *)
LEMMA HeadType ==
  ASSUME NEW s, Ready(s), QueueTypeOK
  PROVE  /\ s \in Subscriptions
         /\ Head(queue[s]) \in Payload(s[1])
         /\ Head(queue[s]).tick \in Nat
         /\ Head(queue[s]) \in Contents(queue[s])
<1>1. s \in Subscriptions /\ queue[s] # <<>> /\ queue[s] \in Seq(Payload(s[1]))
  BY DEF Ready, QueueTypeOK
<1>2. 1 \in DOMAIN queue[s] /\ Head(queue[s]) = queue[s][1]
  BY <1>1
<1>3. Head(queue[s]) \in Payload(s[1])
  BY <1>1
<1>4. Head(queue[s]).tick \in Nat
  BY <1>3, PayloadType, TickType
<1> QED  BY <1>1, <1>2, <1>3, <1>4 DEF Contents

(* Taking a message leaves every subscription typed and adds nothing to any. *)
LEMMA TakeType ==
  ASSUME NEW s, Ready(s), QueueTypeOK
  PROVE  /\ QueueType(Take(s))
         /\ \A t \in Subscriptions : Contents(Take(s)[t]) \subseteq Contents(queue[t])
<1>1. /\ s \in Subscriptions /\ queue[s] # <<>>
      /\ queue \in [Subscriptions -> Seq(Message)]
      /\ \A t \in Subscriptions : queue[t] \in Seq(Payload(t[1]))
  BY DEF Ready, QueueTypeOK
<1>2. \A t \in Subscriptions : Take(s)[t] = IF t = s THEN Tail(queue[s]) ELSE queue[t]
  BY <1>1 DEF Take
<1>3. Tail(queue[s]) \in Seq(Payload(s[1])) /\ Tail(queue[s]) \in Seq(Message)
  BY <1>1
<1>4. \A i \in DOMAIN Tail(queue[s]) :
         i + 1 \in DOMAIN queue[s] /\ Tail(queue[s])[i] = queue[s][i + 1]
  BY <1>1
<1>5. Contents(Tail(queue[s])) \subseteq Contents(queue[s])
  BY <1>4 DEF Contents
<1>6. Take(s) \in [Subscriptions -> Seq(Message)]
  BY <1>1, <1>3 DEF Take
<1> QED  BY <1>1, <1>2, <1>3, <1>5, <1>6 DEF QueueType
===============================================================================
