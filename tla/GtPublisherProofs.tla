--------------------------- MODULE GtPublisherProofs ---------------------------
(***************************************************************************)
(* Lemmas about gt_publisher, for every number of lights, agents and lane  *)
(* graphs and every capacity of the rings: what the two threads do to the  *)
(* cache of the lights, and what a tick does to the rings of past poses.   *)
(***************************************************************************)
EXTENDS GtPublisher, SequenceTheorems, TLAPS

(* ---- the cache of the lights -------------------------------------------- *)

LightType ==
  /\ graph \in Nat /\ lanes \in NoGraph .. graph
  /\ clearing \in BOOLEAN
  /\ tlStatic \in [Lights -> (NoGraph .. lanes) \cup {NotCached}]
  /\ todo \subseteq Lights
  /\ resolving = NoLight \/ resolving \in [light : {{t} : t \in Lights}, version : NoGraph .. lanes]

(* OneStaleLight is not inductive: while the light being resolved has an old *)
(* version none may be cached with one, or storing it would make two.        *)
LightInv ==
  /\ LightType
  /\ OneStaleLight
  /\ ~ clearing /\ resolving # NoLight /\ resolving.version < lanes
       => \A t \in Lights : ~ Stale(t)

(* Nothing is cached at first. *)
LEMMA LightInit == GtInit => LightInv
<1> SUFFICES ASSUME GtInit PROVE LightInv
  OBVIOUS
<1>1. graph \in Nat /\ lanes \in NoGraph .. graph /\ resolving = NoLight /\ todo \subseteq Lights
  BY DEF GtInit, NoGraph
<1> clearing \in BOOLEAN
  BY DEF GtInit
<1>2. tlStatic \in [Lights -> (NoGraph .. lanes) \cup {NotCached}]
  BY DEF GtInit
<1>3. LightType
  BY <1>1, <1>2 DEF LightType
<1>4. \A t \in Lights : ~ Stale(t)
  BY DEF GtInit, Stale
<1> QED  BY <1>3, <1>4 DEF LightInv, OneStaleLight

(* A new lane graph changes nothing here until it is indexed. *)
LEMMA LightGraphPublished ==
  ASSUME NEW n, LightInv, GraphPublished(n)
  PROVE  LightInv'
BY DEF GraphPublished, LightInv, LightType, OneStaleLight, Stale, NoGraph, NotCached, NoLight

(* From the new index to the clear anything may be stale. *)
LEMMA LightSetLanes == LightInv /\ SetLanes => LightInv'
BY DEF SetLanes, LightInv, LightType, OneStaleLight, Stale, NoGraph, NotCached, NoLight

(* The clear leaves no stale light. *)
LEMMA LightClearStatic == LightInv /\ ClearStatic => LightInv'
BY DEF ClearStatic, LightInv, LightType, OneStaleLight, Stale, NoGraph, NotCached, NoLight

(* A cached light is only published. *)
LEMMA LightCached ==
  ASSUME NEW t \in Lights, LightInv, TlCached(t)
  PROVE  LightInv'
BY DEF TlCached, LightInv, LightType, OneStaleLight, Stale, NoGraph, NotCached, NoLight

(* A light is resolved with the lane graph in use. *)
LEMMA LightResolve ==
  ASSUME NEW t \in Lights, LightInv, TlResolve(t)
  PROVE  LightInv'
<1>1. resolving' = [light |-> {t}, version |-> lanes] /\ resolving'.version = lanes
  BY DEF TlResolve
<1>2. UNCHANGED <<graph, lanes, clearing, tlStatic, todo>>
  BY DEF TlResolve
<1>3. LightType'
  BY <1>1, <1>2 DEF LightInv, LightType, NoGraph
<1>4. OneStaleLight'
  BY <1>2 DEF LightInv, OneStaleLight, Stale
<1> QED  BY <1>1, <1>2, <1>3, <1>4 DEF LightInv, LightType, NoGraph

(* Storing it can make it the stale one, and no other. *)
LEMMA LightStore ==
  ASSUME NEW t \in Lights, LightInv, TlStore(t)
  PROVE  LightInv'
<1>1. /\ resolving # NoLight /\ resolving.version \in NoGraph .. lanes
      /\ resolving' = NoLight /\ todo' \subseteq Lights
      /\ UNCHANGED <<graph, lanes, clearing>>
  BY DEF TlStore, LightInv, LightType, NoLight
<1>2. CASE lanes = NoGraph
  <2>1. UNCHANGED tlStatic
    BY <1>2 DEF TlStore
  <2> QED  BY <1>1, <2>1 DEF LightInv, LightType, OneStaleLight, Stale
<1>3. CASE lanes # NoGraph
  <2>1. tlStatic' = [tlStatic EXCEPT ![t] = resolving.version]
    BY <1>3 DEF TlStore
  <2>2. LightType'
    BY <1>1, <2>1 DEF LightInv, LightType
  <2>3. \A s \in Lights : s # t => (Stale(s)' <=> Stale(s))
    BY <1>1, <2>1 DEF LightInv, LightType, Stale
  <2>4. Stale(t)' => resolving.version < lanes
    BY <1>1, <2>1 DEF LightInv, LightType, Stale
  <2>5. OneStaleLight'
    BY <1>1, <2>3, <2>4 DEF LightInv, OneStaleLight
  <2> QED  BY <1>1, <2>2, <2>5 DEF LightInv
<1> QED  BY <1>2, <1>3

(* Whatever the executor thread and the tick thread do to the lights. *)
LEMMA LightStep ==
  ASSUME NEW n, LightInv, ExecutorNext(n) \/ LightsNext
  PROVE  LightInv'
BY LightGraphPublished, LightSetLanes, LightClearStatic, LightCached, LightResolve, LightStore
   DEF ExecutorNext, LightsNext

(* ---- the rings of past poses -------------------------------------------- *)

Least(m, n) == IF m < n THEN m ELSE n

(* Appending the tick that follows keeps the ring as it should be. *)
LEMMA KeepRingOfAppend ==
  ASSUME NEW k \in Nat, NEW ring \in Seq(Nat), Len(ring) <= 2 * HistoryLen,
         \A i \in 1 .. Len(ring) : ring[i] = k - Len(ring) + i
  PROVE  LET new == KeepRing(Append(ring, k + 1))
         IN  /\ new \in Seq(Nat)
             /\ Len(new) = Least(2 * HistoryLen, Len(ring) + 1)
             /\ \A i \in 1 .. Len(new) : new[i] = k + 1 - Len(new) + i
<1> DEFINE all == Append(ring, k + 1)
           cap == 2 * HistoryLen
<1> SUFFICES /\ KeepRing(all) \in Seq(Nat)
             /\ Len(KeepRing(all)) = Least(cap, Len(ring) + 1)
             /\ \A i \in 1 .. Len(KeepRing(all)) :
                  KeepRing(all)[i] = k + 1 - Len(KeepRing(all)) + i
  OBVIOUS
<1>1. /\ all \in Seq(Nat) /\ Len(all) = Len(ring) + 1 /\ Len(ring) \in Nat
      /\ \A i \in 1 .. Len(all) : all[i] = k + 1 - Len(all) + i
  <2>1. all \in Seq(Nat) /\ Len(all) = Len(ring) + 1 /\ Len(ring) \in Nat
    OBVIOUS
  <2>2. all[Len(ring) + 1] = k + 1
    OBVIOUS
  <2>3. \A i \in 1 .. Len(ring) : all[i] = ring[i]
    OBVIOUS
  <2> HIDE DEF all
  <2>4. ASSUME NEW i \in 1 .. Len(all)
        PROVE  all[i] = k + 1 - Len(all) + i
    <3>1. CASE i = Len(ring) + 1
      BY <2>1, <2>2, <3>1
    <3>2. CASE i \in 1 .. Len(ring)
      BY <2>1, <2>3, <3>2
    <3> QED  BY <2>1, <3>1, <3>2
  <2> QED  BY <2>1, <2>4
<1>2. cap \in Nat /\ Len(ring) <= cap
  BY HistoryLenAssumption
<1>3. KeepRing(all) = IF Len(all) > cap THEN Tail(all) ELSE all
  BY DEF KeepRing
<1> HIDE DEF all, cap
<1>4. CASE Len(all) > cap
  <2>1. all # <<>>
    BY <1>1
  <2>2. /\ Tail(all) \in Seq(Nat) /\ Len(Tail(all)) = Len(all) - 1
        /\ \A i \in 1 .. Len(all) - 1 : Tail(all)[i] = all[i + 1]
    BY <1>1, <2>1
  <2>3. KeepRing(all) = Tail(all)
    BY <1>3, <1>4
  <2>4. Len(all) = cap + 1
    BY <1>1, <1>2, <1>4
  <2>5. Len(KeepRing(all)) = Least(cap, Len(ring) + 1)
    BY <1>1, <1>2, <2>2, <2>3, <2>4 DEF Least
  <2>6. ASSUME NEW i \in 1 .. Len(all) - 1
        PROVE  Tail(all)[i] = k + 1 - Len(Tail(all)) + i
    <3>1. Tail(all)[i] = all[i + 1] /\ i + 1 \in 1 .. Len(all)
      BY <1>1, <2>2
    <3>2. all[i + 1] = k + 1 - Len(all) + (i + 1)
      BY <1>1, <3>1
    <3>3. Len(all) \in Nat
      BY <1>1
    <3>4. k + 1 - Len(all) + (i + 1) = k + 1 - (Len(all) - 1) + i
      BY <3>3
    <3> QED  BY <2>2, <3>1, <3>2, <3>4
  <2>7. 1 .. Len(KeepRing(all)) = 1 .. Len(all) - 1
    BY <2>2, <2>3
  <2>8. \A i \in 1 .. Len(KeepRing(all)) :
          KeepRing(all)[i] = k + 1 - Len(KeepRing(all)) + i
    BY <2>3, <2>6, <2>7
  <2> QED  BY <2>2, <2>3, <2>5, <2>8
<1>5. CASE ~ (Len(all) > cap)
  <2>1. KeepRing(all) = all
    BY <1>3, <1>5
  <2>2. Len(all) = Least(cap, Len(ring) + 1)
    BY <1>1, <1>2, <1>5 DEF Least
  <2> QED  BY <1>1, <2>1, <2>2
<1> QED  BY <1>4, <1>5

(* Every second pose of such a ring, the newest one first. *)
LEMMA PastOfRing ==
  ASSUME NEW k \in Nat, NEW ring \in Seq(Nat),
         \A i \in 1 .. Len(ring) : ring[i] = k - Len(ring) + i
  PROVE  /\ Past(ring) \in Seq(Nat)
         /\ Len(Past(ring)) = Least(HistoryLen, Len(ring) \div 2)
         /\ \A i \in DOMAIN Past(ring) : Past(ring)[i] = k + 1 - 2 * i
<1> DEFINE n == IF Len(ring) \div 2 > HistoryLen THEN HistoryLen ELSE Len(ring) \div 2
<1>1. Len(ring) \in Nat /\ HistoryLen \in Nat
  BY HistoryLenAssumption
<1>2. n \in Nat /\ 2 * n <= Len(ring) /\ n = Least(HistoryLen, Len(ring) \div 2)
  BY <1>1 DEF Least
<1>3. Past(ring) = [i \in 1 .. n |-> ring[Len(ring) - 2 * i + 1]]
  BY DEF Past
<1> HIDE DEF n
<1>4. \A i \in 1 .. n : Len(ring) - 2 * i + 1 \in 1 .. Len(ring)
  BY <1>1, <1>2
<1>5. \A i \in 1 .. n : ring[Len(ring) - 2 * i + 1] \in Nat
  BY <1>4
<1>6. \A i \in 1 .. n : ring[Len(ring) - 2 * i + 1] = k + 1 - 2 * i
  BY <1>1, <1>2, <1>4
<1>7. Past(ring) \in [1 .. n -> Nat]
  BY <1>3, <1>5
<1>8. Past(ring) \in Seq(Nat) /\ DOMAIN Past(ring) = 1 .. n
  BY <1>2, <1>7, SeqDef
<1>9. Len(Past(ring)) = n
  BY <1>2, <1>8
<1> QED  BY <1>2, <1>3, <1>6, <1>8, <1>9
===============================================================================
