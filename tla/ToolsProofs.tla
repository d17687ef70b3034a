------------------------------ MODULE ToolsProofs ------------------------------
(***************************************************************************)
(* The programs that drive the stack, for every file of routes over any    *)
(* number of towns, any list of sweeps of any duration, and a stack that   *)
(* answers late, refuses, loses messages or dies at any moment.            *)
(*                                                                         *)
(* First what group_by_town makes of a file: the indices of a finite set   *)
(* in order, each once.  Then three invariants, one on the other:          *)
(*   HarnessInv  the types, where each of the two programs is, and which   *)
(*               routes have their row;                                    *)
(*   FirstInv    what the queues of the first stack hold, by episode;      *)
(*   SweepInv    which ticks the rows of a run are made of.                *)
(***************************************************************************)
EXTENDS Tools, TLAPS, FiniteSetTheorems, SequenceTheorems, WellFoundedInduction

(* ---- the indices of a finite set, in order ------------------------------ *)

(* A nonempty set of natural numbers has a least element. *)
LEMMA LeastElement ==
  ASSUME NEW S \in SUBSET Nat, S # {}
  PROVE  \E m \in S : \A n \in S : m <= n
<1> DEFINE R == {ss \in Nat \X Nat : ss[1] < ss[2]}
<1>1. IsWellFoundedOn(R, Nat)
  BY NatLessThanWellFounded DEF OpToRel
<1>2. PICK m \in S : \A n \in S : ~ (<<n, m>> \in R)
  <2> HIDE DEF R
  <2> QED  BY <1>1, WFMin
<1>3. \A n \in S : ~ (n < m)
  BY <1>2
<1> QED  BY <1>3

(* The rank of an index: how many of S come no later. *)
Rank(S, i) == Cardinality({j \in S : j <= i})

(* Two indices of S have different ranks, and all ranks lie in the right range. *)
LEMMA RankInjective ==
  ASSUME NEW m \in Nat, NEW S \in SUBSET (1 .. m)
  PROVE  /\ IsFiniteSet(S) /\ Cardinality(S) \in Nat
         /\ \A i \in S : Rank(S, i) \in 1 .. Cardinality(S)
         /\ \A i, j \in S : Rank(S, i) = Rank(S, j) => i = j
<1>0. IsFiniteSet(1 .. m)
  BY FS_Interval
<1>1. IsFiniteSet(S) /\ Cardinality(S) \in Nat
  BY <1>0, FS_Subset, FS_CardinalityType
<1> DEFINE Up(i) == {j \in S : j <= i}
<1>2. \A i \in S : Up(i) \in SUBSET S /\ i \in Up(i)
  OBVIOUS
<1>3. \A i \in S : /\ IsFiniteSet(Up(i)) /\ Cardinality(Up(i)) \in Nat
                   /\ Cardinality(Up(i)) <= Cardinality(S)
                   /\ Cardinality(Up(i)) # 0
  <2> HIDE DEF Up
  <2> QED  BY <1>1, <1>2, FS_Subset, FS_CardinalityType, FS_EmptySet
<1>4. ASSUME NEW i \in S, NEW j \in S, i < j
      PROVE  Up(i) \in SUBSET Up(j) /\ j \in Up(j) /\ j \notin Up(i)
  <2>1. i \in Int /\ j \in Int /\ \A x \in S : x \in Int
    OBVIOUS
  <2>2. \A x \in S : x <= i => x <= j
    BY <1>4, <2>1
  <2>3. Up(i) \in SUBSET Up(j)
    BY <2>2
  <2>4. j \in Up(j)
    BY <2>1
  <2>5. j \notin Up(i)
    BY <1>4, <2>1
  <2> QED  BY <2>3, <2>4, <2>5
<1>5. \A i, j \in S : Cardinality(Up(i)) = Cardinality(Up(j)) => i = j
  <2>1. \A i, j \in S : i < j \/ j < i \/ i = j
    OBVIOUS
  <2> HIDE DEF Up
  <2>2. \A i, j \in S : i < j => Cardinality(Up(i)) # Cardinality(Up(j))
    BY <1>3, <1>4, FS_Subset
  <2> QED  BY <2>1, <2>2
<1>6. \A i \in S : Cardinality(Up(i)) \in 1 .. Cardinality(S)
  <2> HIDE DEF Up
  <2> QED  BY <1>1, <1>3
<1> QED  BY <1>1, <1>5, <1>6 DEF Rank

(* InOrder(S) lists every index of S, once. *)
LEMMA InOrderLists ==
  ASSUME NEW m \in Nat, NEW S \in SUBSET (1 .. m)
  PROVE  /\ IsFiniteSet(S) /\ Cardinality(S) \in Nat
         /\ DOMAIN InOrder(S) = 1 .. Cardinality(S)
         /\ \A n \in 1 .. Cardinality(S) : InOrder(S)[n] \in S
         /\ \A a, b \in 1 .. Cardinality(S) : InOrder(S)[a] = InOrder(S)[b] => a = b
         /\ \A i \in S : \E n \in 1 .. Cardinality(S) : InOrder(S)[n] = i
<1>1. /\ IsFiniteSet(S) /\ Cardinality(S) \in Nat
      /\ \A i \in S : Rank(S, i) \in 1 .. Cardinality(S)
      /\ \A i, j \in S : Rank(S, i) = Rank(S, j) => i = j
  BY RankInjective
<1> DEFINE r == [i \in S |-> Rank(S, i)]
           N == 1 .. Cardinality(S)
<1>2. r \in Injection(S, N)
  BY <1>1 DEF Injection, IsInjective
<1>3. IsFiniteSet(N) /\ Cardinality(N) = Cardinality(S)
  BY <1>1, FS_Interval
<1>4. r \in Surjection(S, N)
  <2> HIDE DEF r, N
  <2> QED  BY <1>2, <1>3, FS_Injection
<1>5. \A n \in N : \E i \in S : Rank(S, i) = n
  BY <1>4 DEF Surjection
<1>6. \A n \in N : Nth(S, n) \in S /\ Rank(S, Nth(S, n)) = n
  BY <1>5 DEF Nth, Rank
<1>7. \A i \in S : Nth(S, Rank(S, i)) = i
  BY <1>1, <1>6
<1> QED  BY <1>1, <1>6, <1>7 DEF InOrder

(* A function on 1 .. n is a sequence of length n. *)
LEMMA FunctionIsSeq ==
  ASSUME NEW n \in Nat, NEW S, NEW f \in [1 .. n -> S]
  PROVE  f \in Seq(S) /\ Len(f) = n
OBVIOUS

(* The routes of a town are those of the file, each once. *)
LEMMA RoutesOfTown ==
  ASSUME NEW t
  PROVE  /\ Len(RoutesOf(t)) \in Nat
         /\ \A n \in 1 .. Len(RoutesOf(t)) :
              RoutesOf(t)[n] \in DOMAIN Routes /\ Routes[RoutesOf(t)[n]] = t
         /\ \A a, b \in 1 .. Len(RoutesOf(t)) : RoutesOf(t)[a] = RoutesOf(t)[b] => a = b
         /\ \A i \in DOMAIN Routes : Routes[i] = t =>
              \E n \in 1 .. Len(RoutesOf(t)) : RoutesOf(t)[n] = i
<1> DEFINE S == {i \in DOMAIN Routes : Routes[i] = t}
<1>1. Len(Routes) \in Nat /\ DOMAIN Routes = 1 .. Len(Routes)
  BY RoutesAssumption
<1>2. S \in SUBSET (1 .. Len(Routes)) /\ RoutesOf(t) = InOrder(S)
  BY <1>1 DEF RoutesOf
<1> HIDE DEF S
<1>3. /\ Cardinality(S) \in Nat
      /\ DOMAIN InOrder(S) = 1 .. Cardinality(S)
      /\ \A n \in 1 .. Cardinality(S) : InOrder(S)[n] \in S
      /\ \A a, b \in 1 .. Cardinality(S) : InOrder(S)[a] = InOrder(S)[b] => a = b
      /\ \A i \in S : \E n \in 1 .. Cardinality(S) : InOrder(S)[n] = i
  BY <1>1, <1>2, InOrderLists
<1>4. InOrder(S) \in [1 .. Cardinality(S) -> S]
  BY <1>3 DEF InOrder
<1>5. Len(InOrder(S)) = Cardinality(S)
  BY <1>3, <1>4, FunctionIsSeq
<1> QED  BY <1>2, <1>3, <1>5 DEF S

(* Every town of the file is driven, and once. *)
LEMMA TownsOfRoutes ==
  /\ Len(Towns) \in Nat
  /\ \A g, h \in 1 .. Len(Towns) : Towns[g] = Towns[h] => g = h
  /\ \A i \in DOMAIN Routes : \E g \in 1 .. Len(Towns) : Towns[g] = Routes[i]
<1> DEFINE S == FirstRoutes
           T == InOrder(S)
<1>1. Len(Routes) \in Nat /\ DOMAIN Routes = 1 .. Len(Routes)
  BY RoutesAssumption
<1>2. S \in SUBSET (1 .. Len(Routes))
  BY <1>1 DEF FirstRoutes
<1>3. /\ Cardinality(S) \in Nat
      /\ DOMAIN T = 1 .. Cardinality(S)
      /\ \A n \in 1 .. Cardinality(S) : T[n] \in S
      /\ \A a, b \in 1 .. Cardinality(S) : T[a] = T[b] => a = b
      /\ \A i \in S : \E n \in 1 .. Cardinality(S) : T[n] = i
  <2> HIDE DEF S
  <2> QED  BY <1>1, <1>2, InOrderLists
<1>4. /\ Len(Towns) = Cardinality(S)
      /\ \A n \in 1 .. Cardinality(S) : Towns[n] = Routes[T[n]]
  <2>1. Towns = [n \in 1 .. Cardinality(S) |-> Routes[T[n]]]
    BY <1>3 DEF Towns
  <2>2. Towns \in [1 .. Cardinality(S) -> {Routes[i] : i \in S}]
    BY <1>3, <2>1
  <2> QED  BY <1>3, <2>1, <2>2, FunctionIsSeq
<1>5. ASSUME NEW i \in DOMAIN Routes
      PROVE  \E f \in S : Routes[f] = Routes[i]
  <2> DEFINE Same == {j \in DOMAIN Routes : Routes[j] = Routes[i]}
  <2>1. Same \in SUBSET Nat /\ i \in Same
    BY <1>1
  <2>2. PICK f \in Same : \A j \in Same : f <= j
    BY <2>1, LeastElement
  <2>3. f \in DOMAIN Routes /\ Routes[f] = Routes[i]
    BY <2>2
  <2>4. \A j \in 1 .. f - 1 : j \in DOMAIN Routes /\ ~ (f <= j)
    BY <1>1, <2>3
  <2>5. f \in S
    BY <2>2, <2>3, <2>4 DEF FirstRoutes
  <2> QED  BY <2>3, <2>5
<1>6. \A f, g \in S : Routes[f] = Routes[g] => f = g
  <2>1. \A f, g \in S : f < g => Routes[f] # Routes[g]
    BY <1>1 DEF FirstRoutes
  <2>2. \A f, g \in S : f < g \/ g < f \/ f = g
    BY <1>2
  <2> QED  BY <2>1, <2>2
<1> HIDE DEF S, T
<1> QED  BY <1>3, <1>4, <1>5, <1>6

-------------------------------------------------------------------------------
(* ---- the invariants ------------------------------------------------------ *)

Msgs(s) == {s[i] : i \in 1 .. Len(s)}

EventMsg == [k : Nat, episode : Nat]
DataMsg == [k : Nat, of : Nat \X Nat]
MsgOf(topic) == IF topic = "reset_event" THEN EventMsg ELSE DataMsg

QueueType(q) ==
  /\ q \in [FeedTopics -> Seq(EventMsg \cup DataMsg)]
  /\ \A t \in FeedTopics : q[t] \in Seq(MsgOf(t))

Row == [route : DOMAIN Routes, launch : Nat, alien : SUBSET (Nat \X Nat)]
Sample == [k : Nat, of : Nat \X Nat, phase : {"settle", "reach", "hold", "done"}]
RunState == [phase : {"none", "settle", "reach", "hold", "done"}, start : Int,
             rows : Seq(Sample)]

FeedInv == FeedTypeOK /\ QueueType(queue)

HarnessTyped == HarnessTypeOK /\ rows \in Seq(Row)

SweepTyped ==
  /\ SweepTypeOK /\ state \in RunState /\ sheet \in Seq(Seq(Sample))
  /\ spc \in {"response", "run"} => run <= Runs

TypeInv == program \in Programs /\ FeedInv /\ HarnessTyped /\ SweepTyped

(* The program that was not chosen does nothing. *)
ProgramInv ==
  /\ program = "run_sweeps" =>
       hpc = "town" /\ rows = <<>> /\ code = -1 /\ launch = Len(MaxTicks)
  /\ program = "run_routes" => spc = "service" /\ state = NoRun /\ sheet = <<>>

InTown == hpc \notin {"town", "exit"}
TownRoutes == RoutesOf(Towns[group])

(* Where run_routes is, which stack runs, and what an interrupt changes. *)
ControlInv ==
  program = "run_routes" =>
    /\ group \in 1 .. Len(Towns) + 1 /\ route \in Nat \ {0}
    /\ InTown => group <= Len(Towns) /\ launch = group
    /\ hpc = "town" => launch = group - 1 /\ up = "down" /\ route = 1
    /\ code # -1 => hpc \in {"stop", "stopping", "exit"}
    /\ InTown => code \in {-1, 130}
    /\ hpc = "exit" => \/ up = "down"
                       \/ torn
    /\ hpc = "exit" /\ code # 130 => group = Len(Towns) + 1
    /\ InTown => route <= Len(TownRoutes) + 1
    /\ hpc \in {"service", "response", "event", "drive"} => route <= Len(TownRoutes)
    /\ hpc \in {"stop", "stopping"} /\ code = -1 => route = Len(TownRoutes) + 1

(* The rows of the towns so far: each route once, in its own town's launch. *)
RowsInv ==
  program = "run_routes" =>
    /\ \A i \in DOMAIN rows :
         /\ rows[i].launch \in 1 .. launch /\ rows[i].launch \in 1 .. Len(Towns)
         /\ Routes[rows[i].route] = Towns[rows[i].launch]
    /\ \A i, j \in DOMAIN rows : rows[i].route = rows[j].route => i = j
    /\ InTown => \A i \in DOMAIN rows : rows[i].launch = group =>
                   \E n \in 1 .. route - 1 : rows[i].route = TownRoutes[n]

Reported(rs, r) == \E i \in DOMAIN rs : rs[i].route = r

(* As long as nobody interrupts it, no route of the towns so far is left out. *)
NoneLeftOut ==
  program = "run_routes" /\ code # 130 =>
    /\ \A g \in 1 .. group - 1 : \A n \in 1 .. Len(RoutesOf(Towns[g])) :
         Reported(rows, RoutesOf(Towns[g])[n])
    /\ InTown => \A n \in 1 .. route - 1 : Reported(rows, TownRoutes[n])

HarnessInv == TypeInv /\ ProgramInv /\ ControlInv /\ RowsInv /\ NoneLeftOut

(* ---- the first stack ----- *)

Events == Msgs(queue["reset_event"])
Odoms == Msgs(queue["ego_odom"])

(* An event parts the data of earlier episodes from the rest. *)
Parts(k, e) == \A m \in Odoms : m.k >= k <=> m.of[2] >= e

(* Which call the world works on, and what an answer to the newest call says.   *)
Asked ==
  /\ launch = 0 => /\ calls = 0 /\ now = 0 /\ episode = 0 /\ trace = {}
                    /\ Odoms = {} /\ Events = {}
  /\ pending <= calls /\ answer.call <= calls
  /\ hpc = "response" => calls # 0
  /\ gate \in {"reset", "first"} => pending # 0
  /\ answer.ok /\ answer.call = calls /\ calls # 0
       => pending = 0 /\ answer.episode = episode
  /\ hpc \in {"event", "drive"} => pending = 0 /\ wanted = episode
  /\ hpc = "drive" => known >= wanted

(* The messages under way, and those recorded, sorted by the events. *)
Sorted ==
  /\ known <= episode /\ since <= now + 1
  /\ \A m \in Odoms : m.of[1] = launch /\ m.of[2] <= episode /\ m.k \in 1 .. now
  /\ \A e \in Events : e.episode <= episode /\ e.k <= now + 1 /\ Parts(e.k, e.episode)
  /\ known >= 0 => Parts(since, known)
  /\ \A o \in trace : o[1] = launch /\ known <= o[2] /\ o[2] <= episode

FirstStack == program = "run_routes" /\ launch <= 1 => Asked /\ Sorted

FirstInv == FirstStack /\ FirstTownRows

(* ---- the sweeps ---- *)

Holds(rs) == {j \in 1 .. Len(rs) : rs[j].phase = "hold"}

(* As long as no gate has timed out, a tick is under way to the node or answered, *)
(* and the next one is not simulated before.                                      *)
OneTick ==
  /\ gate \in {"loop", "reset"} =>
       /\ queue["ego_odom"] = <<>>
       /\ commanded = now \/ (commanded = -1 /\ now = 0)
  /\ gate \in {"gate", "first"} =>
       /\ now > 0
       /\ \/ queue["ego_odom"] = <<>> /\ commanded = now
          \/ /\ queue["ego_odom"] = <<Stamped(now)>>
             /\ commanded = now - 1 \/ (commanded = -1 /\ now = 1)

(* Which run the world is working for, and what was recorded before. *)
Before(e) == \A r \in DOMAIN sheet : \A i \in DOMAIN sheet[r] :
               sheet[r][i].of[1] = launch /\ sheet[r][i].of[2] < e

(* The reset of this run has been announced, answered ok or acted upon. *)
Begun ==
  \/ spc = "run"
  \/ answer.ok /\ answer.call = run
  \/ pending = run /\ gate \in {"reset", "first"}

SweepCalls ==
  /\ pending <= run /\ answer.call <= run
  /\ spc = "service" => pending < run /\ answer.call < run
  /\ gate \in {"reset", "first"} => pending # 0
  /\ spc = "run" \/ (answer.ok /\ answer.call = run) => pending = 0
  /\ Before(episode + 1)
  /\ Begun => Before(episode)
  /\ spc # "run" => state = NoRun

(* No event is announced for later than the next tick. *)
StampsPast ==
  /\ seen => stampFrom >= 0
  /\ stampFrom <= now + 1 /\ \A e \in Events : e.k <= now + 1
  /\ gate \in {"gate", "first"} => stampFrom <= now /\ \A e \in Events : e.k <= now

(* The phases of a run whose last row is of tick c. *)
RunShape(s, c) ==
  LET n == Len(s.rows) IN
  /\ s.phase # "none"
  /\ n = 0 => s.phase = "settle" /\ s.start = -1
  /\ s.phase = "settle" /\ n > 0 => s.start = c - n + 1 /\ n <= SettleTicks
  /\ s.phase # "settle" => n > SettleTicks
  /\ s.phase # "done" /\ n > 0 => s.start >= 0
  /\ \A i \in Holds(s.rows) : i > SettleTicks
  /\ s.phase \in {"settle", "reach"} => Holds(s.rows) = {}
  /\ s.phase = "hold" => Cardinality(Holds(s.rows)) <= c - s.start + 1
  /\ Cardinality(Holds(s.rows)) <= HoldTicks

(* The rows of a run are those of one episode, tick by tick. *)
RunRows(rs, c) ==
  \A i \in 1 .. Len(rs) : rs[i].of = Origin /\ rs[i].k = c - Len(rs) + i

RunInv ==
  spc = "run" =>
    /\ RunShape(state, commanded) /\ RunRows(state.rows, commanded)
    /\ state.rows # <<>> => stampFrom >= 0

SheetInv ==
  /\ \A r \in DOMAIN sheet : GoodRun(sheet[r])
  /\ \A q, r \in DOMAIN sheet : \A i \in DOMAIN sheet[q], j \in DOMAIN sheet[r] :
       sheet[q][i].of = sheet[r][j].of => q = r

SweepInv ==
  program = "run_sweeps" /\ timeouts = 0 =>
    OneTick /\ SweepCalls /\ StampsPast /\ RunInv /\ SheetInv

-------------------------------------------------------------------------------
(* ---- what a step does to the queues and the rest of the feed ------------- *)

(* Publishing keeps the types, and adds no message but its own. *)
LEMMA Published ==
  ASSUME NEW q, QueueType(q), NEW t \in FeedTopics, NEW m \in MsgOf(t)
  PROVE  /\ QueueType(Publish(q, t, m))
         /\ \A u \in FeedTopics \ {t} : Publish(q, t, m)[u] = q[u]
         /\ Msgs(Publish(q, t, m)[t]) \subseteq Msgs(q[t]) \cup {m}
         /\ q[t] = <<>> => Publish(q, t, m)[t] = <<m>>
<1> DEFINE all == Append(q[t], m)
           depth == IF t = "ego_odom" THEN 2 ELSE 10
           kept == IF Len(all) > depth THEN Tail(all) ELSE all
<1>1. q[t] \in Seq(MsgOf(t)) /\ depth \in Nat /\ depth > 1
  BY DEF QueueType
<1>2. /\ all \in Seq(MsgOf(t)) /\ Len(all) = Len(q[t]) + 1 /\ Len(q[t]) \in Nat
      /\ \A i \in 1 .. Len(all) : all[i] \in Msgs(q[t]) \cup {m}
  BY <1>1 DEF Msgs
<1>3. kept \in Seq(MsgOf(t)) /\ Msgs(kept) \subseteq Msgs(q[t]) \cup {m}
  <2>1. CASE Len(all) > depth
    <3>1. Tail(all) \in Seq(MsgOf(t)) /\ Len(Tail(all)) = Len(q[t])
      BY <1>2, <2>1
    <3>2. \A i \in 1 .. Len(q[t]) : Tail(all)[i] = all[i + 1]
      BY <1>2, <3>1
    <3> QED  BY <1>2, <2>1, <3>1, <3>2 DEF Msgs
  <2>2. CASE ~ (Len(all) > depth)
    BY <1>2, <2>2 DEF Msgs
  <2> QED  BY <2>1, <2>2
<1>4. q[t] = <<>> => kept = <<m>>
  BY <1>1, <1>2
<1>5. Publish(q, t, m) = [q EXCEPT ![t] = kept]
  BY DEF Publish
<1>6. MsgOf(t) \subseteq EventMsg \cup DataMsg
  BY DEF MsgOf
<1> HIDE DEF kept
<1>7. kept \in Seq(EventMsg \cup DataMsg)
  BY <1>3, <1>6
<1>8. /\ Publish(q, t, m)[t] = kept
      /\ \A u \in FeedTopics \ {t} : Publish(q, t, m)[u] = q[u]
  BY <1>5 DEF QueueType
<1>9. QueueType(Publish(q, t, m))
  BY <1>3, <1>5, <1>7 DEF QueueType
<1> QED  BY <1>3, <1>4, <1>8, <1>9

(* What a callback is handed is of its topic, and the rest stays queued. *)
LEMMA Handled ==
  ASSUME FeedInv, NEW t \in FeedTopics, Handle(t)
  PROVE  /\ Head(queue[t]) \in MsgOf(t) /\ Head(queue[t]) \in Msgs(queue[t])
         /\ QueueType(queue')
         /\ \A u \in FeedTopics : Msgs(queue'[u]) \subseteq Msgs(queue[u])
         /\ \A u \in FeedTopics \ {t} : queue'[u] = queue[u]
         /\ queue'[t] = Tail(queue[t])
<1>1. queue[t] \in Seq(MsgOf(t)) /\ queue[t] # <<>>
  BY DEF FeedInv, QueueType, Handle
<1>2. /\ Head(queue[t]) = queue[t][1] /\ Len(queue[t]) \in Nat /\ Len(queue[t]) >= 1
      /\ Tail(queue[t]) \in Seq(MsgOf(t)) /\ Len(Tail(queue[t])) = Len(queue[t]) - 1
      /\ \A i \in 1 .. Len(queue[t]) - 1 : Tail(queue[t])[i] = queue[t][i + 1]
  BY <1>1
<1>3. Head(queue[t]) \in MsgOf(t) /\ Head(queue[t]) \in Msgs(queue[t])
  BY <1>1, <1>2 DEF Msgs
<1>4. Msgs(Tail(queue[t])) \subseteq Msgs(queue[t])
  BY <1>2 DEF Msgs
<1>5. MsgOf(t) \subseteq EventMsg \cup DataMsg
  BY DEF MsgOf
<1>6. Tail(queue[t]) \in Seq(EventMsg \cup DataMsg)
  BY <1>2, <1>5
<1>7. queue' = [queue EXCEPT ![t] = Tail(queue[t])]
  BY DEF Handle
<1>8. /\ queue'[t] = Tail(queue[t])
      /\ \A u \in FeedTopics \ {t} : queue'[u] = queue[u]
  BY <1>7 DEF FeedInv, QueueType
<1>9. QueueType(queue')
  BY <1>2, <1>6, <1>7 DEF FeedInv, QueueType
<1> QED  BY <1>3, <1>4, <1>8, <1>9

(* The types of what is published. *)
LEMMA PublishedTypes ==
  ASSUME FeedTypeOK
  PROVE  /\ FirstEvent \in MsgOf("reset_event")
         /\ [k |-> now + 1, episode |-> episode + 1] \in MsgOf("reset_event")
         /\ Stamped(now) \in MsgOf("tick_timeout")
         /\ Stamped(now + 1) \in MsgOf("ego_odom")
BY DEF FeedTypeOK, FirstEvent, MsgOf, EventMsg, DataMsg, Stamped, Origin

(* Every step of the stack keeps the types of the feed. *)
LEMMA FeedStep ==
  ASSUME FeedInv, NEW b, FeedNext(b)
  PROVE  FeedInv'
<1> USE DEF FeedInv
<1>0. FeedTopics = {"reset_event", "ego_odom", "tick_timeout"}
  BY DEF FeedTopics
<1>1. QueueType(queue')
  <2>1. CASE Boot
    BY <1>0, <2>1, Published, PublishedTypes DEF Boot
  <2>2. CASE Announce
    BY <1>0, <2>2, Published, PublishedTypes DEF Announce
  <2>3. CASE TickWorld
    BY <1>0, <2>3, Published, PublishedTypes DEF TickWorld
  <2>4. CASE TimeOutGate
    BY <1>0, <2>4, Published, PublishedTypes DEF TimeOutGate
  <2>5. CASE Die \/ Exit \/ PassGate(b) \/ GiveUp
    BY <2>5 DEF Die, Exit, PassGate, GiveUp
  <2> QED  BY <2>1, <2>2, <2>3, <2>4, <2>5 DEF FeedNext
<1>2. DOMAIN queue' = FeedTopics
  BY <1>1 DEF QueueType
<1>3. FeedTypeOK'
  <2>1. CASE Boot \/ Die \/ Exit \/ Announce \/ TickWorld
    BY <1>2, <2>1 DEF FeedTypeOK, Boot, Die, Exit, Announce, TickWorld
  <2>2. CASE PassGate(b) \/ TimeOutGate
    <3>1. timeouts' \in 0 .. MaxTimeouts
      BY <2>2, FeedAssumption DEF FeedTypeOK, PassGate, TimeOutGate
    <3>2. /\ up' = up /\ launch' = launch /\ now' = now /\ episode' = episode
          /\ commanded' = commanded
          /\ gate' = "loop" /\ told' = FALSE
      BY <2>2 DEF PassGate, TimeOutGate, LeaveGate
    <3>3. pending' \in Nat /\ answer' \in [call : Nat, ok : BOOLEAN, episode : Nat]
      <4>1. LeaveGate
        BY <2>2 DEF PassGate, TimeOutGate
      <4>2. [call |-> pending, ok |-> TRUE, episode |-> episode]
              \in [call : Nat, ok : BOOLEAN, episode : Nat]
        BY DEF FeedTypeOK
      <4> QED  BY <4>1, <4>2 DEF FeedTypeOK, LeaveGate
    <3> QED  BY <1>2, <3>1, <3>2, <3>3 DEF FeedTypeOK
  <2>3. CASE GiveUp
    BY <1>2, <2>3 DEF FeedTypeOK, GiveUp
  <2> QED  BY <2>1, <2>2, <2>3 DEF FeedNext
<1> QED  BY <1>1, <1>3

(* So do calling a service, forgetting an answer and handling a message. *)
LEMMA CallStep ==
  ASSUME FeedInv, NEW c \in Nat, Call(c)
  PROVE  FeedInv'
BY DEF FeedInv, FeedTypeOK, Call

(* A launch that ends forgets its answer; the types stay. *)
LEMMA ForgetStep ==
  ASSUME FeedInv, Forget
  PROVE  FeedInv'
BY DEF FeedInv, FeedTypeOK, Forget, NoAnswer

(* A program that handles a message takes the head of its queue. *)
LEMMA HandleStep ==
  ASSUME FeedInv, NEW t \in FeedTopics, Handle(t), commanded' \in Int
  PROVE  FeedInv'
<1>1. QueueType(queue')
  BY Handled
<1>2. DOMAIN queue' = FeedTopics
  BY <1>1 DEF QueueType
<1> QED  BY <1>1, <1>2 DEF FeedInv, FeedTypeOK, Handle

-------------------------------------------------------------------------------
(* ---- the types of the sweeps --------------------------------------------- *)

Phases == {"settle", "reach", "hold", "done"}

(* Changing a part of a run's state keeps its type and the other parts. *)
LEMMA RunStateParts ==
  ASSUME NEW s \in RunState
  PROVE  /\ \A k \in Int : [s EXCEPT !.start = k] \in RunState
         /\ \A p \in Phases : [s EXCEPT !.phase = p] \in RunState
         /\ \A p \in Phases, k \in Int : [s EXCEPT !.phase = p, !.start = k] \in RunState
         /\ \A r \in Seq(Sample) : [s EXCEPT !.rows = r] \in RunState
BY DEF RunState, Phases

(* The phase machine stays in its phases and leaves the rows alone. *)
LEMMA ControlType ==
  ASSUME NEW s \in RunState, NEW k \in Nat, NEW driven \in BOOLEAN
  PROVE  /\ Control(s, k, driven).to \in RunState
         /\ Control(s, k, driven).to.rows = s.rows
         /\ Control(s, k, driven).row \in Phases
<1> DEFINE start   == IF s.start < 0 THEN k ELSE s.start
           begun   == [s EXCEPT !.start = start]
           held    == IF s.phase = "reach" THEN 0 ELSE k - start
           entered == [s EXCEPT !.phase = "hold", !.start = k]
           holding == IF s.phase = "reach" THEN entered ELSE begun
           over    == held >= HoldTicks \/ (held > 5 /\ driven)
           next    == IF TRUE \in ReachV0 THEN "reach" ELSE "hold"
           settled == IF k - start < SettleTicks THEN begun
                      ELSE [s EXCEPT !.phase = next, !.start = k]
           ended   == [holding EXCEPT !.phase = "done"]
<1>0. \A p, q : [s EXCEPT !.phase = p].rows = s.rows
                /\ [s EXCEPT !.start = q].rows = s.rows
                /\ [s EXCEPT !.phase = p, !.start = q].rows = s.rows
  BY DEF RunState
<1>1. begun \in RunState /\ begun.rows = s.rows
  <2>1. start \in Int
    BY DEF RunState
  <2> HIDE DEF start
  <2> QED  BY <1>0, <2>1, RunStateParts
<1>2. holding \in RunState /\ holding.rows = s.rows
  <2>1. entered \in RunState /\ entered.rows = s.rows
    <3>1. k \in Int /\ "hold" \in Phases
      BY DEF Phases
    <3>2. entered \in RunState
      BY ONLY <3>1, RunStateParts, s \in RunState
    <3> QED  BY <1>0, <3>2
  <2> HIDE DEF entered, begun
  <2> QED  BY <1>1, <2>1
<1>3. settled \in RunState /\ settled.rows = s.rows
  <2>1. /\ [s EXCEPT !.phase = next, !.start = k] \in RunState
        /\ [s EXCEPT !.phase = next, !.start = k].rows = s.rows
    <3>1. next \in Phases
      BY DEF Phases
    <3> HIDE DEF next
    <3>2. k \in Int
      OBVIOUS
    <3>3. [s EXCEPT !.phase = next, !.start = k] \in RunState
      BY ONLY <3>1, <3>2, RunStateParts, s \in RunState
    <3> QED  BY <1>0, <3>3
  <2> HIDE DEF begun
  <2> QED  BY <1>1, <2>1
<1>4. ended \in RunState /\ ended.rows = s.rows
  <2> HIDE DEF holding
  <2>1. "done" \in Phases
    BY DEF Phases
  <2>2. [holding EXCEPT !.phase = "done"] \in RunState
    BY ONLY <1>2, <2>1, RunStateParts
  <2>3. [holding EXCEPT !.phase = "done"].rows = holding.rows
    BY <1>2 DEF RunState
  <2> QED  BY ONLY <1>2, <2>2, <2>3 DEF ended
<1> DEFINE c1 == [to |-> settled, row |-> "settle"]
           c2 == [to |-> begun, row |-> "reach"]
           c3 == [to |-> s, row |-> "done"]
           c4 == IF over THEN [to |-> ended, row |-> "done"] ELSE [to |-> holding, row |-> "hold"]
<1>5. Control(s, k, driven)
        = CASE s.phase = "settle" -> c1 [] s.phase = "reach" /\ ~ driven -> c2
            [] s.phase = "done" -> c3 [] OTHER -> c4
  BY DEF Control, Enter
<1> HIDE DEF settled, begun, ended, holding, over
<1>6. Control(s, k, driven) \in {c1, c2, c3, [to |-> ended, row |-> "done"],
                                [to |-> holding, row |-> "hold"]}
  BY <1>5
<1>7. "settle" \in Phases /\ "reach" \in Phases /\ "hold" \in Phases /\ "done" \in Phases
  BY DEF Phases
<1> QED  BY <1>1, <1>2, <1>3, <1>4, <1>6, <1>7

(* A run goes through its phases and its rows grow by samples. *)
LEMMA SweepTypesStep ==
  ASSUME FeedInv, SweepTyped, SweepNext
  PROVE  FeedInv' /\ SweepTyped'
<1> USE SweepAssumption DEF SweepTyped, SweepTypeOK
<1>0. NoRun \in RunState /\ StartOf \in RunState /\ <<>> \in Seq(Sample)
  <2>1. <<>> \in Seq(Sample) /\ NoRun \in RunState
    BY DEF NoRun, RunState
  <2> QED  BY <2>1, RunStateParts DEF StartOf, Phases
<1>1. CASE SweepCall
  <2>1. FeedInv'
    BY <1>1, CallStep DEF SweepCall
  <2> QED  BY <1>1, <2>1 DEF SweepCall, RunState
<1>2. CASE SweepRefused
  <2>1. FeedInv' /\ run <= Runs
    BY <1>2, ForgetStep DEF SweepRefused
  <2> QED  BY <1>0, <1>2, <2>1 DEF SweepRefused, NextRun, RunState
<1>3. CASE SweepResetOk
  BY <1>0, <1>3, ForgetStep DEF SweepResetOk, RunState
<1>4. CASE SweepEnd
  <2>1. FeedInv'
    BY <1>4 DEF SweepEnd, FeedInv, FeedTypeOK, feedVars
  <2>2. state.rows \in Seq(Sample)
    BY DEF RunState
  <2> QED  BY <1>0, <1>4, <2>1, <2>2 DEF SweepEnd, NextRun, RunState
<1>5. CASE SweepFinish
  BY <1>5 DEF SweepFinish, FeedInv, FeedTypeOK, feedVars
<1>6. CASE OnEvent
  <2>1. FeedInv' /\ Head(queue["reset_event"]) \in MsgOf("reset_event")
    BY <1>6, HandleStep, Handled DEF OnEvent, FeedTopics, FeedInv, FeedTypeOK
  <2>2. stampFrom' \in Int
    BY <1>6, <2>1 DEF OnEvent, MsgOf, EventMsg
  <2> QED  BY <1>6, <2>1, <2>2 DEF OnEvent, RunState
<1>7. CASE OnTimeout
  BY <1>7, HandleStep DEF OnTimeout, FeedTopics, FeedInv, FeedTypeOK
<1>8. CASE OnEgoOdom
  <2> DEFINE msg == Head(queue["ego_odom"])
  <2>1. msg \in DataMsg
    BY <1>8, Handled DEF OnEgoOdom, FeedTopics, MsgOf
  <2>2. commanded' \in Int
    BY SMTT(30), <1>8, <2>1 DEF OnEgoOdom, DataMsg, FeedInv, FeedTypeOK
  <2>3. FeedInv'
    BY <1>8, <2>2, HandleStep DEF OnEgoOdom, FeedTopics
  <2>4. state' \in RunState
    <3>1. CASE UNCHANGED state
      BY <3>1
    <3>2. ASSUME NEW driven \in BOOLEAN, NEW next, next = Control(state, msg.k, driven),
                 state' = [next.to EXCEPT !.rows =
                             Append(next.to.rows, [k |-> msg.k, of |-> msg.of, phase |-> next.row])]
          PROVE  state' \in RunState
      <4>1. next.to \in RunState /\ next.row \in Phases
        BY <2>1, <3>2, ControlType DEF DataMsg
      <4>2. [k |-> msg.k, of |-> msg.of, phase |-> next.row] \in Sample
        BY <2>1, <4>1 DEF DataMsg, Sample, Phases
      <4>3. Append(next.to.rows, [k |-> msg.k, of |-> msg.of, phase |-> next.row]) \in Seq(Sample)
        BY <4>1, <4>2 DEF RunState
      <4> QED  BY <3>2, <4>1, <4>3, RunStateParts
    <3> QED  BY <1>8, <3>1, <3>2 DEF OnEgoOdom
  <2>5. seen' \in BOOLEAN
    BY <1>8 DEF OnEgoOdom
  <2> QED  BY <1>8, <2>3, <2>4, <2>5 DEF OnEgoOdom, RunState
<1> QED  BY <1>1, <1>2, <1>3, <1>4, <1>5, <1>6, <1>7, <1>8 DEF SweepNext, SweepWork

-------------------------------------------------------------------------------
(* ---- the rows of the harness --------------------------------------------- *)

RoutesRunning == HarnessInv /\ program = "run_routes"

(* There are n numbers from 1 to n. *)
LEMMA IntervalCard ==
  ASSUME NEW n \in Nat
  PROVE  IsFiniteSet(1 .. n) /\ Cardinality(1 .. n) = n
BY FS_Interval

(* No route has two rows, so there are no more rows than routes. *)
LEMMA RowsBound ==
  ASSUME NEW s \in Seq(Row), \A i, j \in DOMAIN s : s[i].route = s[j].route => i = j
  PROVE  Len(s) <= Len(Routes)
<1> DEFINE f == [i \in 1 .. Len(s) |-> s[i].route]
<1>1. Len(Routes) \in Nat /\ DOMAIN Routes = 1 .. Len(Routes) /\ Len(s) \in Nat
  BY RoutesAssumption
<1>2. f \in Injection(1 .. Len(s), 1 .. Len(Routes))
  <2>1. \A i \in 1 .. Len(s) : s[i].route \in 1 .. Len(Routes)
    <3>1. \A r \in Row : r.route \in DOMAIN Routes
      BY DEF Row
    <3> QED  BY <1>1, <3>1
  <2>2. DOMAIN s = 1 .. Len(s)
    OBVIOUS
  <2> QED  BY <2>1, <2>2 DEF Injection, IsInjective
<1>3. /\ IsFiniteSet(1 .. Len(s)) /\ Cardinality(1 .. Len(s)) = Len(s)
      /\ IsFiniteSet(1 .. Len(Routes)) /\ Cardinality(1 .. Len(Routes)) = Len(Routes)
  BY <1>1, IntervalCard
<1> HIDE DEF f
<1> QED  BY <1>2, <1>3, FS_Injection

(* As long as rows, town and route stay, so do the facts about them. *)
LEMMA RowsKept ==
  ASSUME RoutesRunning, program' = program, rows' = rows, group' = group, route' = route,
         launch' = launch, InTown' => InTown, code = 130 => code' = 130
  PROVE  RowsInv' /\ NoneLeftOut'
<1>1. TownRoutes' = TownRoutes
  BY DEF TownRoutes
<1> QED  BY <1>1 DEF RoutesRunning, HarnessInv, RowsInv, NoneLeftOut

(* Where the harness drives a town, the town and its routes are in the file. *)
LEMMA TownAt ==
  ASSUME RoutesRunning
  PROVE  /\ Len(Towns) \in Nat /\ Len(TownRoutes) \in Nat
         /\ group \in Nat /\ route \in Nat /\ launch \in Nat
         /\ DOMAIN rows = 1 .. Len(rows) /\ Len(rows) \in Nat
BY TownsOfRoutes, RoutesOfTown
   DEF RoutesRunning, HarnessInv, TypeInv, HarnessTyped, HarnessTypeOK, FeedInv,
       FeedTypeOK,
       TownRoutes

(* Reporting a route of the town: it had no row before, and has one now. *)
LEMMA ReportStep ==
  ASSUME RoutesRunning, NEW s, Report(s), InTown, hpc \notin {"stop", "stopping"},
         route <= Len(TownRoutes),
         program' = program, group' = group, launch' = launch, code' = code,
         calls' \in Nat, UNCHANGED <<wanted, known, since, trace, torn>>
  PROVE  HarnessTyped' /\ ControlInv' /\ RowsInv' /\ NoneLeftOut'
<1> DEFINE row == [route |-> Current, launch |-> launch,
                   alien |-> IF s = "not_driven" THEN {} ELSE trace \ {<<launch, wanted>>}]
<1>0. /\ group \in 1 .. Len(Towns) /\ launch = group /\ code = -1
      /\ Len(Towns) \in Nat /\ Len(TownRoutes) \in Nat /\ route \in Nat \ {0}
      /\ DOMAIN rows = 1 .. Len(rows) /\ Len(rows) \in Nat
  BY TownAt DEF RoutesRunning, HarnessInv, ControlInv, InTown
<1>1. /\ Current = TownRoutes[route]
      /\ Current \in DOMAIN Routes /\ Routes[Current] = Towns[group]
      /\ \A n \in 1 .. Len(TownRoutes) : TownRoutes[n] = Current => n = route
  BY <1>0, RoutesOfTown DEF Current, TownRoutes
<1>2. row \in Row /\ row.route = Current /\ row.launch = group
  BY <1>0, <1>1 DEF RoutesRunning, HarnessInv, TypeInv, HarnessTyped, HarnessTypeOK, Row
<1>3. /\ rows' = Append(rows, row)
      /\ route' = route + 1 /\ hpc' = "route" /\ perfect' \in BOOLEAN
  BY DEF Report, Goto, RoutesRunning, HarnessInv, TypeInv, HarnessTyped, HarnessTypeOK
<1> HIDE DEF row
<1>4. /\ rows' \in Seq(Row) /\ DOMAIN rows' = 1 .. Len(rows) + 1
      /\ rows'[Len(rows) + 1] = row
      /\ \A i \in 1 .. Len(rows) : rows'[i] = rows[i]
  BY <1>0, <1>2, <1>3 DEF RoutesRunning, HarnessInv, TypeInv, HarnessTyped
<1>5. TownRoutes' = TownRoutes
  BY DEF TownRoutes
<1>6. \A i \in 1 .. Len(rows) : rows[i].route # Current
  <2> SUFFICES ASSUME NEW i \in 1 .. Len(rows), rows[i].route = Current PROVE FALSE
    OBVIOUS
  <2>1. rows[i].launch \in 1 .. Len(Towns) /\ Towns[rows[i].launch] = Towns[group]
    BY <1>0, <1>1 DEF RoutesRunning, HarnessInv, RowsInv
  <2>2. rows[i].launch = group
    BY <1>0, <2>1, TownsOfRoutes
  <2>3. PICK n \in 1 .. route - 1 : rows[i].route = TownRoutes[n]
    BY <1>0, <2>2 DEF RoutesRunning, HarnessInv, RowsInv
  <2> QED  BY <1>0, <1>1, <2>3
<1>7. \A i, j \in DOMAIN rows' : rows'[i].route = rows'[j].route => i = j
  <2>1. \A i, j \in 1 .. Len(rows) : rows[i].route = rows[j].route => i = j
    BY <1>0 DEF RoutesRunning, HarnessInv, RowsInv
  <2> QED  BY <1>0, <1>2, <1>4, <1>6, <2>1
<1>8. HarnessTyped'
  <2>1. Len(rows') <= Len(Routes)
    BY <1>4, <1>7, RowsBound
  <2> QED  BY <1>0, <1>3, <1>4, <2>1
        DEF RoutesRunning, HarnessInv, TypeInv, HarnessTyped, HarnessTypeOK
<1>9. ControlInv'
  BY <1>0, <1>3, <1>5 DEF ControlInv, InTown, RoutesRunning
<1>10. RowsInv'
  <2>1. \A i \in DOMAIN rows' : /\ rows'[i].launch \in 1 .. launch'
                                 /\ rows'[i].launch \in 1 .. Len(Towns)
                                 /\ Routes[rows'[i].route] = Towns[rows'[i].launch]
    BY SMTT(30), <1>0, <1>1, <1>2, <1>4 DEF RoutesRunning, HarnessInv, RowsInv
  <2>2. \A i \in DOMAIN rows' : rows'[i].launch = group' =>
          \E n \in 1 .. route' - 1 : rows'[i].route = TownRoutes[n]
    <3>1. \A i \in 1 .. Len(rows) : rows[i].launch = group =>
            \E n \in 1 .. route - 1 : rows[i].route = TownRoutes[n]
      BY <1>0 DEF RoutesRunning, HarnessInv, RowsInv
    <3>2. \A n \in 1 .. route - 1 : n \in 1 .. route' - 1
      BY <1>0, <1>3
    <3>3. route \in 1 .. route' - 1
      BY <1>0, <1>3
    <3>4. \A i \in 1 .. Len(rows) : rows'[i].launch = group' =>
            \E n \in 1 .. route' - 1 : rows'[i].route = TownRoutes[n]
      BY <1>4, <3>1, <3>2
    <3>5. rows'[Len(rows) + 1].route = TownRoutes[route]
      BY <1>1, <1>2, <1>4
    <3>6. \A i \in DOMAIN rows' : i \in 1 .. Len(rows) \/ i = Len(rows) + 1
      BY <1>0, <1>4
    <3> QED  BY <3>3, <3>4, <3>5, <3>6
  <2> QED  BY <1>5, <1>7, <2>1, <2>2 DEF RowsInv
<1>11. NoneLeftOut'
  <2>1. \A r : Reported(rows, r) => Reported(rows', r)
    <3> SUFFICES ASSUME NEW r, Reported(rows, r) PROVE Reported(rows', r)
      OBVIOUS
    <3>1. PICK i \in DOMAIN rows : rows[i].route = r
      BY DEF Reported
    <3>2. i \in DOMAIN rows' /\ rows'[i].route = r
      BY <1>0, <1>4, <3>1
    <3> QED  BY <3>2 DEF Reported
  <2>2. Reported(rows', Current)
    <3>1. rows'[Len(rows) + 1].route = Current /\ Len(rows) + 1 \in DOMAIN rows'
      BY <1>0, <1>2, <1>4
    <3> QED  BY <3>1 DEF Reported
  <2>3. code # 130
    BY <1>0
  <2>4. /\ \A g \in 1 .. group - 1 : \A n \in 1 .. Len(RoutesOf(Towns[g])) :
             Reported(rows, RoutesOf(Towns[g])[n])
        /\ \A n \in 1 .. route - 1 : Reported(rows, TownRoutes[n])
    BY <2>3 DEF RoutesRunning, HarnessInv, NoneLeftOut
  <2>5. \A n \in 1 .. route' - 1 : n \in 1 .. route - 1 \/ n = route
    BY <1>0, <1>3
  <2>6. \A g \in 1 .. group' - 1 : \A n \in 1 .. Len(RoutesOf(Towns[g])) :
          Reported(rows', RoutesOf(Towns[g])[n])
    BY <2>1, <2>4
  <2>7. \A n \in 1 .. route' - 1 : Reported(rows', TownRoutes'[n])
    BY <1>1, <1>5, <2>1, <2>2, <2>4, <2>5
  <2> QED  BY <2>6, <2>7 DEF NoneLeftOut
<1> QED  BY <1>8, <1>9, <1>10, <1>11

-------------------------------------------------------------------------------
(* ---- what the harness does, action by action ------------------------------ *)

RunOK == FeedInv /\ HarnessTyped /\ ControlInv /\ RowsInv /\ NoneLeftOut

(* Where the feed does not move, neither do its types. *)
LEMMA FeedKept == FeedInv /\ UNCHANGED feedVars => FeedInv'
BY DEF FeedInv, FeedTypeOK, feedVars

(* A new stack is launched where none is left, and no row is of it yet. *)
LEMMA LaunchStep ==
  ASSUME RoutesRunning, Launch, program' = program
  PROVE  RunOK'
<1> USE DEF RoutesRunning, HarnessInv, Launch, Goto
<1>0. /\ group \in 1 .. Len(Towns) /\ launch = group - 1 /\ route = 1 /\ code = -1
      /\ hpc' = "startup" /\ launch' = group /\ Len(Towns) \in Nat
      /\ DOMAIN rows = 1 .. Len(rows)
  BY TownAt DEF ControlInv
<1>1. FeedInv'
  <2>1. FeedTypeOK /\ QueueType(queue)
    BY DEF TypeInv, FeedInv
  <2>2. QueueType(queue')
    BY <2>1
  <2>3. FeedTypeOK'
    <3>1. /\ up' = "booting" /\ launch' \in Nat /\ now' = 0 /\ episode' = 0 /\ pending' = 0
          /\ gate' = "loop" /\ commanded' = -1
          /\ answer' = answer /\ queue' = queue /\ timeouts' = timeouts
      BY <2>1 DEF FeedTypeOK
    <3>2. told' \in BOOLEAN
      BY Zenon
    <3> QED  BY ONLY <2>1, <3>1, <3>2 DEF FeedTypeOK
  <2> QED  BY <2>2, <2>3 DEF FeedInv
<1>2. HarnessTyped'
  BY DEF TypeInv, HarnessTyped, HarnessTypeOK
<1>3. TownRoutes' = TownRoutes /\ Len(TownRoutes) \in Nat
  BY TownAt DEF TownRoutes
<1>4. ControlInv'
  BY <1>0, <1>3 DEF ControlInv, InTown
<1>5. RowsInv'
  <2>1. \A i \in DOMAIN rows : rows[i].launch \in 1 .. launch /\ rows[i].launch \in 1 .. Len(Towns)
                               /\ Routes[rows[i].route] = Towns[rows[i].launch]
    BY DEF RowsInv
  <2>2. \A i \in DOMAIN rows : rows[i].launch \in 1 .. launch' /\ rows[i].launch # group
    BY <1>0, <2>1
  <2> QED  BY <2>1, <2>2 DEF RowsInv
<1>6. NoneLeftOut'
  BY <1>0 DEF NoneLeftOut
<1> QED  BY <1>1, <1>2, <1>4, <1>5, <1>6 DEF RunOK

(* The next town comes when the stack of this one has gone, all routes reported *)
(* unless somebody interrupted it.                                              *)
LEMMA NextTownStep ==
  ASSUME RoutesRunning, hpc \in {"stop", "stopping"}, NextTown, up' = "down",
         program' = program, FeedInv', launch' = launch,
         UNCHANGED <<calls, wanted, known, since, trace, rows, perfect, code, torn>>
  PROVE  RunOK'
<1> USE DEF RoutesRunning, HarnessInv, NextTown, Goto
<1>0. /\ group \in 1 .. Len(Towns) /\ launch = group /\ code \in {-1, 130}
      /\ Len(Towns) \in Nat /\ route' = 1 /\ group' = group + 1
      /\ hpc' = IF code = 130 THEN "exit" ELSE "town"
      /\ DOMAIN rows = 1 .. Len(rows)
  <2>1. code \in {-1, 0, 1, 130}
    BY DEF TypeInv, HarnessTyped, HarnessTypeOK
  <2> QED  BY <2>1, TownAt DEF ControlInv, InTown
<1>2. HarnessTyped'
  BY <1>0 DEF TypeInv, HarnessTyped, HarnessTypeOK
<1>4. ControlInv'
  BY <1>0 DEF ControlInv, InTown
<1>5. RowsInv'
  BY <1>0 DEF RowsInv, InTown
<1>6. NoneLeftOut'
  <2> SUFFICES ASSUME code # 130
               PROVE  \A g \in 1 .. group : \A n \in 1 .. Len(RoutesOf(Towns[g])) :
                        Reported(rows, RoutesOf(Towns[g])[n])
    BY <1>0 DEF NoneLeftOut, InTown
  <2>1. route = Len(TownRoutes) + 1 /\ Len(TownRoutes) \in Nat
    BY <1>0, TownAt DEF ControlInv
  <2>2. \A n \in 1 .. Len(TownRoutes) : Reported(rows, TownRoutes[n])
    BY <2>1 DEF NoneLeftOut, InTown
  <2>3. \A g \in 1 .. group : g \in 1 .. group - 1 \/ g = group
    BY <1>0
  <2>4. TownRoutes = RoutesOf(Towns[group])
    BY DEF TownRoutes
  <2> QED  BY <2>2, <2>3, <2>4 DEF NoneLeftOut
<1> QED  BY <1>2, <1>4, <1>5, <1>6 DEF RunOK

(* A route is over, whatever became of it. *)
LEMMA RouteEnds ==
  ASSUME RoutesRunning, program' = program,
         StackDied \/ ServiceUnavailable \/ ResetRefused \/ EventMissed \/ EndDrive
  PROVE  RunOK'
<1>1. hpc \in {"route", "service", "response", "event", "drive"}
  BY DEF StackDied, ServiceUnavailable, ResetRefused, EventMissed, EndDrive
<1>2. route <= Len(TownRoutes)
  <2>1. CASE hpc = "route"
    <3>1. StackDied
      BY <2>1 DEF StackDied, ServiceUnavailable, ResetRefused, EventMissed, EndDrive
    <3> QED  BY <3>1 DEF StackDied, TownRoutes
  <2>2. CASE hpc # "route"
    BY <1>1, <2>2 DEF RoutesRunning, HarnessInv, ControlInv
  <2> QED  BY <2>1, <2>2
<1>3. FeedInv'
  BY FeedKept, ForgetStep
     DEF StackDied, ServiceUnavailable, ResetRefused, EventMissed, EndDrive,
         RoutesRunning, HarnessInv, TypeInv
<1>4. PICK s : Report(s)
  BY DEF StackDied, ServiceUnavailable, ResetRefused, EventMissed, EndDrive
<1>5. /\ group' = group /\ launch' = launch /\ code' = code /\ calls' = calls
      /\ UNCHANGED <<wanted, known, since, trace, torn>>
  BY DEF StackDied, ServiceUnavailable, ResetRefused, EventMissed, EndDrive,
         feedVars, Forget
<1>6. calls' \in Nat
  BY <1>5 DEF RoutesRunning, HarnessInv, TypeInv, HarnessTyped, HarnessTypeOK
<1>7. InTown /\ hpc \notin {"stop", "stopping"}
  BY <1>1 DEF InTown
<1>8. HarnessTyped' /\ ControlInv' /\ RowsInv' /\ NoneLeftOut'
  BY <1>2, <1>4, <1>5, <1>6, <1>7, ReportStep
<1> QED  BY <1>3, <1>8 DEF RunOK

(* What neither starts a stack, nor ends a route or a town. *)
LEMMA OtherWork ==
  ASSUME RoutesRunning, program' = program,
         \/ Finish \/ StartupOver \/ StartRoute \/ CallReset \/ ResetOk \/ EventSeen
         \/ EndTown \/ SignalStack \/ Interrupt
  PROVE  RunOK'
<1>0. /\ rows' = rows /\ group' = group /\ route' = route /\ launch' = launch
      /\ (InTown' => InTown) /\ (code = 130 => code' = 130)
  BY DEF Finish, StartupOver, StartRoute, CallReset, ResetOk, EventSeen, EndTown,
         SignalStack,
         Interrupt, Goto, InTown, feedVars, Call, Forget, RoutesRunning, HarnessInv,
         ControlInv
<1>1. FeedInv'
  <2>1. CASE CallReset
    BY <2>1, CallStep
       DEF CallReset, RoutesRunning, HarnessInv, TypeInv, HarnessTyped, HarnessTypeOK
  <2>2. CASE ResetOk
    BY <2>2, ForgetStep DEF ResetOk, RoutesRunning, HarnessInv, TypeInv
  <2>3. CASE SignalStack
    BY <2>3 DEF SignalStack, RoutesRunning, HarnessInv, TypeInv, FeedInv, FeedTypeOK
  <2>4. CASE Finish \/ StartupOver \/ StartRoute \/ EventSeen \/ EndTown \/ Interrupt
    BY <2>4, FeedKept DEF Finish, StartupOver, StartRoute, EventSeen, EndTown,
                          Interrupt,
         RoutesRunning, HarnessInv, TypeInv
  <2> QED  BY <2>1, <2>2, <2>3, <2>4
<1>2. HarnessTyped'
  <2>1. HarnessTyped /\ answer.episode \in Nat
    BY DEF RoutesRunning, HarnessInv, TypeInv, FeedInv, FeedTypeOK
  <2> USE <1>0, <2>1 DEF HarnessTyped, HarnessTypeOK, Goto
  <2>2. CASE Finish \/ StartupOver \/ StartRoute \/ EventSeen \/ EndTown \/ SignalStack
    BY SMTT(30), <2>2 DEF Finish, StartupOver, StartRoute, EventSeen, EndTown, SignalStack
  <2>3. CASE CallReset \/ ResetOk
    BY SMTT(30), <2>3 DEF CallReset, ResetOk
  <2>4. CASE Interrupt
    BY <2>4 DEF Interrupt
  <2> QED  BY <2>2, <2>3, <2>4
<1>3. ControlInv'
  <2>1. TownRoutes' = TownRoutes /\ TownRoutes = RoutesOf(Towns[group])
    BY <1>0 DEF TownRoutes
  <2>2. /\ Len(Towns) \in Nat /\ Len(TownRoutes) \in Nat
        /\ group \in Nat /\ route \in Nat /\ launch \in Nat
    BY TownAt
  <2> USE <1>0, <2>1, <2>2 DEF RoutesRunning, HarnessInv, ControlInv, InTown, Goto
  <2>3. CASE Finish
    BY <2>3 DEF Finish, feedVars
  <2>4. CASE StartupOver
    BY <2>4 DEF StartupOver, feedVars
  <2>5. CASE StartRoute
    BY <2>5 DEF StartRoute, feedVars
  <2>6. CASE CallReset
    BY <2>6 DEF CallReset
  <2>7. CASE ResetOk
    BY <2>7 DEF ResetOk
  <2>8. CASE EventSeen
    BY <2>8 DEF EventSeen, feedVars
  <2>9. CASE EndTown
    BY <2>9 DEF EndTown, feedVars
  <2>10. CASE SignalStack
    BY <2>10 DEF SignalStack
  <2>11. CASE Interrupt
    BY <2>11 DEF Interrupt, feedVars
  <2> QED  BY <2>3, <2>4, <2>5, <2>6, <2>7, <2>8, <2>9, <2>10, <2>11
<1>4. RowsInv' /\ NoneLeftOut'
  <2>1. InTown' => InTown
    BY <1>0
  <2>2. code = 130 => code' = 130
    BY <1>0
  <2> QED  BY ONLY <1>0, <2>1, <2>2, RoutesRunning, program' = program, RowsKept
<1> QED  BY <1>1, <1>2, <1>3, <1>4 DEF RunOK

(* The node's callbacks touch neither the rows nor where run_routes is. *)
LEMMA CallbackStep ==
  ASSUME RoutesRunning, program' = program, OnResetEvent \/ OnStamped
  PROVE  RunOK'
<1>0. /\ FeedInv /\ HarnessTyped /\ ControlInv
      /\ {"reset_event", "ego_odom"} \subseteq FeedTopics
  BY DEF RoutesRunning, HarnessInv, TypeInv, FeedTopics
<1>1. PICK t \in {"reset_event", "ego_odom"} : Handle(t)
  BY DEF OnResetEvent, OnStamped
<1>2. /\ rows' = rows /\ group' = group /\ route' = route /\ launch' = launch /\ hpc' = hpc
      /\ code' = code /\ up' = up /\ torn' = torn /\ commanded' = commanded
      /\ calls' = calls /\ wanted' = wanted /\ perfect' = perfect
  BY DEF OnResetEvent, OnStamped, Handle
<1>3. FeedInv'
  <2>1. commanded' \in Int
    BY <1>0, <1>2 DEF FeedInv, FeedTypeOK
  <2> QED  BY <1>0, <1>1, <2>1, HandleStep
<1>4. HarnessTyped'
  <2>1. known' \in Int /\ since' \in Int /\ trace' \subseteq Nat \X Nat
    <3>1. CASE OnResetEvent
      <4>1. Head(queue["reset_event"]) \in EventMsg
        BY <1>0, <3>1, Handled DEF OnResetEvent, MsgOf
      <4> QED  BY <1>0, <3>1, <4>1 DEF OnResetEvent, EventMsg, HarnessTyped,
                                       HarnessTypeOK
    <3>2. CASE OnStamped
      <4>1. Head(queue["ego_odom"]) \in DataMsg
        BY <1>0, <3>2, Handled DEF OnStamped, MsgOf
      <4>2. Head(queue["ego_odom"]).of \in Nat \X Nat
        BY <4>1 DEF DataMsg
      <4> QED  BY <1>0, <3>2, <4>2 DEF OnStamped, HarnessTyped, HarnessTypeOK
    <3> QED  BY <3>1, <3>2
  <2> QED  BY <1>0, <1>2, <2>1 DEF HarnessTyped, HarnessTypeOK
<1>5. ControlInv'
  <2>1. TownRoutes' = TownRoutes
    BY <1>2 DEF TownRoutes
  <2> QED  BY <1>0, <1>2, <2>1 DEF ControlInv, InTown
<1>6. RowsInv' /\ NoneLeftOut'
  <2>1. (InTown' => InTown) /\ (code = 130 => code' = 130)
    BY <1>2 DEF InTown
  <2> QED  BY ONLY <1>2, <2>1, RoutesRunning, program' = program, RowsKept
<1> QED  BY <1>3, <1>4, <1>5, <1>6 DEF RunOK

(* The stack goes its own way: no step of it launches another, and once it is *)
(* gone it takes none.                                                        *)
LEMMA StackAlone ==
  ASSUME RoutesRunning, program' = program, StackStep
  PROVE  RunOK'
<1>0. /\ FeedInv /\ HarnessTyped /\ ControlInv
      /\ hpc # "exit" /\ UNCHANGED harnessVars
  BY DEF RoutesRunning, HarnessInv, TypeInv, StackStep
<1>1. PICK b : FeedNext(b)
  BY DEF StackStep
<1>2. up # "down" /\ launch' = launch
  BY <1>1 DEF FeedNext, Boot, Die, Exit, Announce, TickWorld, PassGate, TimeOutGate,
              GiveUp
<1>3. FeedInv'
  BY <1>0, <1>1, FeedStep
<1>4. HarnessTyped'
  BY <1>0 DEF HarnessTyped, HarnessTypeOK, harnessVars
<1>5. ControlInv'
  <2>1. TownRoutes' = TownRoutes
    BY <1>0 DEF TownRoutes, harnessVars
  <2>2. hpc # "town"
    BY <1>0, <1>2 DEF ControlInv, RoutesRunning
  <2> QED  BY <1>0, <1>2, <2>1, <2>2 DEF ControlInv, InTown, harnessVars
<1>6. RowsInv' /\ NoneLeftOut'
  <2>1. /\ (InTown' => InTown) /\ (code = 130 => code' = 130)
        /\ rows' = rows /\ group' = group /\ route' = route
    BY <1>0 DEF InTown, harnessVars
  <2> QED  BY ONLY <1>2, <2>1, RoutesRunning, program' = program, RowsKept
<1> QED  BY <1>3, <1>4, <1>5, <1>6 DEF RunOK

(* ---- the invariant of the harness ----------------------------------------- *)

(* Before the first launch nothing is written and no stack is up. *)
LEMMA HarnessInvInit == Init => HarnessInv
<1> SUFFICES ASSUME Init PROVE HarnessInv
  OBVIOUS
<1> USE DEF Init, FeedInit, HarnessInit, SweepInit
<1>1. FeedInv
  <2>1. FirstEvent \in EventMsg
    BY DEF FirstEvent, EventMsg
  <2>2. \A t \in FeedTopics : queue[t] \in Seq(MsgOf(t)) /\ queue[t] \in Seq(EventMsg \cup DataMsg)
    <3>1. \A t \in FeedTopics : queue[t] = <<>> \/ (t = "reset_event" /\ queue[t] = <<FirstEvent>>)
      <4>1. \A t \in FeedTopics :
              queue[t] = IF program = "run_sweeps" /\ t = "reset_event" THEN <<FirstEvent>> ELSE <<>>
        OBVIOUS
      <4> QED  BY ONLY <4>1
    <3>2. <<FirstEvent>> \in Seq(MsgOf("reset_event"))
      BY <2>1 DEF MsgOf
    <3>3. FirstEvent \in EventMsg \cup DataMsg
      BY <2>1
    <3>4. <<FirstEvent>> \in Seq(EventMsg \cup DataMsg)
      BY <3>3
    <3>5. \A S : <<>> \in Seq(S)
      OBVIOUS
    <3> QED  BY ONLY <3>1, <3>2, <3>4, <3>5
  <2>3. QueueType(queue) /\ DOMAIN queue = FeedTopics
    BY <2>2 DEF QueueType
  <2>4. Len(MaxTicks) \in Nat
    BY FeedAssumption
  <2>5. NoAnswer \in [call : Nat, ok : BOOLEAN, episode : Nat]
    BY DEF NoAnswer
  <2>6. launch \in Nat /\ timeouts \in 0 .. MaxTimeouts
    BY <2>4, FeedAssumption
  <2>7. told \in BOOLEAN
    BY Zenon
  <2> QED  BY <2>3, <2>5, <2>6, <2>7 DEF FeedInv, FeedTypeOK
<1>2. HarnessTyped
  <2>1. perfect \in BOOLEAN /\ torn \in BOOLEAN
    BY Zenon
  <2>2. Len(Routes) \in Nat
    BY RoutesAssumption
  <2>3. rows \in Seq(Row) /\ Len(rows) <= Len(Routes)
    BY <2>2
  <2> QED  BY <2>1, <2>3 DEF HarnessTyped, HarnessTypeOK
<1>3. SweepTyped
  <2>1. NoRun \in RunState /\ NoRun.phase = "none" /\ NoRun.start = -1
    BY DEF NoRun, RunState
  <2>2. seen \in BOOLEAN
    BY Zenon
  <2>3. run \in 1 .. Runs + 1 /\ sheet \in Seq(Seq(Sample))
    BY SweepAssumption
  <2> QED  BY <2>1, <2>2, <2>3 DEF SweepTyped, SweepTypeOK
<1>4. program \in {"run_routes", "run_sweeps"}
  BY ProgramsAssumption
<1>5. Len(Towns) \in Nat
  BY TownsOfRoutes
<1>6. ProgramInv
  BY DEF ProgramInv
<1>7. ControlInv
  BY <1>5 DEF ControlInv, InTown
<1>8. RowsInv /\ NoneLeftOut
  BY DEF RowsInv, NoneLeftOut, InTown
<1> QED  BY <1>1, <1>2, <1>3, <1>6, <1>7, <1>8 DEF HarnessInv, TypeInv

(* Every step of the stack, of the harness and of the sweeps keeps it. *)
LEMMA HarnessInvStep == HarnessInv /\ [Next]_toolVars => HarnessInv'
<1> SUFFICES ASSUME HarnessInv, [Next]_toolVars PROVE HarnessInv'
  OBVIOUS
<1>0. program \in {"run_routes", "run_sweeps"} /\ program \in Programs /\ program' = program
  BY ProgramsAssumption
     DEF HarnessInv, TypeInv, Next, StackStep, RoutesStep, SweepsStep, toolVars
<1>1. CASE UNCHANGED toolVars
  <2>1. FeedInv' /\ HarnessTyped' /\ SweepTyped'
    BY <1>1, FeedKept DEF toolVars, harnessVars, sweepVars, HarnessInv, TypeInv,
                          HarnessTyped,
         HarnessTypeOK, SweepTyped, SweepTypeOK, RunState
  <2>2. ProgramInv'
    BY <1>1 DEF toolVars, feedVars, harnessVars, sweepVars, HarnessInv, ProgramInv
  <2>3. ControlInv'
    <3>1. TownRoutes' = TownRoutes
      BY <1>1 DEF TownRoutes, toolVars, harnessVars
    <3> QED  BY <1>1, <3>1 DEF toolVars, feedVars, harnessVars, HarnessInv,
                               ControlInv, InTown
  <2>4. RowsInv' /\ NoneLeftOut'
    <3>1. TownRoutes' = TownRoutes
      BY <1>1 DEF TownRoutes, toolVars, harnessVars
    <3> QED  BY <1>1, <3>1 DEF toolVars, feedVars, harnessVars, HarnessInv, RowsInv,
                               NoneLeftOut, InTown
  <2> QED  BY <1>0, <2>1, <2>2, <2>3, <2>4 DEF HarnessInv, TypeInv
<1>2. CASE program = "run_routes" /\ Next
  <2>1. RoutesRunning
    BY <1>2 DEF RoutesRunning
  <2>2. UNCHANGED sweepVars /\ (StackStep \/ HarnessNext)
    BY <1>2 DEF Next, StackStep, RoutesStep, SweepsStep
  <2>3. RunOK'
    <3>1. CASE StackStep
      BY <1>0, <2>1, <3>1, StackAlone
    <3>2. CASE Launch
      BY <1>0, <2>1, <3>2, LaunchStep
    <3>3. CASE StackGone
      <4>1. FeedInv'
        BY <2>1, <3>3, FeedKept DEF StackGone, RoutesRunning, HarnessInv, TypeInv
      <4> QED  BY <1>0, <2>1, <3>3, <4>1, NextTownStep DEF StackGone, feedVars
    <3>4. CASE KillStack
      <4>1. FeedInv'
        BY <2>1, <3>4 DEF KillStack, RoutesRunning, HarnessInv, TypeInv, FeedInv,
                          FeedTypeOK
      <4> QED  BY <1>0, <2>1, <3>4, <4>1, NextTownStep DEF KillStack
    <3>5. CASE StackDied \/ ServiceUnavailable \/ ResetRefused \/ EventMissed \/ EndDrive
      BY <1>0, <2>1, <3>5, RouteEnds
    <3>6. CASE \/ Finish \/ StartupOver \/ StartRoute \/ CallReset \/ ResetOk \/ EventSeen
               \/ EndTown \/ SignalStack \/ Interrupt
      BY <1>0, <2>1, <3>6, OtherWork
    <3>7. CASE OnResetEvent \/ OnStamped
      BY <1>0, <2>1, <3>7, CallbackStep
    <3> QED  BY <2>2, <3>1, <3>2, <3>3, <3>4, <3>5, <3>6, <3>7 DEF HarnessNext,
                                                                   HarnessWork
  <2>4. SweepTyped' /\ ProgramInv'
    BY <1>0, <1>2, <2>2 DEF sweepVars, HarnessInv, TypeInv, SweepTyped, SweepTypeOK,
                            RunState, ProgramInv
  <2> QED  BY <1>0, <2>3, <2>4 DEF RunOK, HarnessInv, TypeInv
<1>3. CASE program = "run_sweeps" /\ Next
  <2>1. UNCHANGED harnessVars /\ (StackStep \/ SweepNext)
    BY <1>3 DEF Next, StackStep, RoutesStep, SweepsStep
  <2>2. FeedInv' /\ SweepTyped' /\ launch' = launch
    <3>1. CASE StackStep
      <4>1. FeedInv' /\ launch' = launch
        BY <3>1, FeedStep DEF StackStep, HarnessInv, TypeInv, FeedNext, Boot, Die,
                              Exit, Announce,
             TickWorld, PassGate, TimeOutGate, GiveUp
      <4> QED  BY <3>1, <4>1 DEF StackStep, sweepVars, HarnessInv, TypeInv,
                                 SweepTyped, SweepTypeOK, RunState
    <3>2. CASE SweepNext
      <4>1. launch' = launch
        BY <3>2 DEF SweepNext, SweepWork, SweepCall, SweepRefused, SweepResetOk,
                    SweepEnd, SweepFinish,
             OnEvent, OnTimeout, OnEgoOdom, Call, Forget, Handle, feedVars
      <4> QED  BY <3>2, <4>1, SweepTypesStep DEF HarnessInv, TypeInv
    <3> QED  BY <2>1, <3>1, <3>2
  <2>3. HarnessTyped'
    BY <2>1 DEF HarnessInv, TypeInv, HarnessTyped, HarnessTypeOK, harnessVars
  <2>4. ProgramInv'
    BY <1>0, <1>3, <2>1, <2>2 DEF HarnessInv, ProgramInv, harnessVars
  <2>5. ControlInv' /\ RowsInv' /\ NoneLeftOut'
    BY <1>0, <1>3 DEF ControlInv, RowsInv, NoneLeftOut
  <2> QED  BY <1>0, <2>2, <2>3, <2>4, <2>5 DEF HarnessInv, TypeInv
<1> QED  BY <1>0, <1>1, <1>2, <1>3

(* So it holds of every behaviour of either program. *)
LEMMA HarnessInvHolds == Spec => []HarnessInv
BY HarnessInvInit, HarnessInvStep, PTL DEF Spec

-------------------------------------------------------------------------------
(* ---- the theorems --------------------------------------------------------- *)

(* Whatever the routes, the runs and the stack do, every variable of the two  *)
(* programs keeps to its type: in particular no more rows than routes.        *)
THEOREM ToolsTyped == Spec => []TypeOK
<1>1. HarnessInv => TypeOK
  BY DEF HarnessInv, TypeInv, FeedInv, HarnessTyped, SweepTyped, TypeOK
<1> QED  BY <1>1, HarnessInvHolds, PTL

(* For any file of routes, over any number of towns in any order: a harness     *)
(* that nobody interrupts reports each of them, once, and those of one town in  *)
(* one launch, although the stack may die or refuse whenever it likes.          *)
THEOREM RoutesReported == Spec => []EveryRouteReported
<1>1. HarnessInv => EveryRouteReported
  <2> SUFFICES ASSUME HarnessInv, hpc = "exit", code # 130
               PROVE  /\ {rows[i].route : i \in DOMAIN rows} = DOMAIN Routes
                      /\ Len(rows) = Len(Routes)
                      /\ \A i, j \in DOMAIN rows :
                           rows[i].launch = rows[j].launch
                             <=> Routes[rows[i].route] = Routes[rows[j].route]
    BY DEF EveryRouteReported
  <2>0. program = "run_routes"
    BY ProgramsAssumption DEF HarnessInv, TypeInv, ProgramInv
  <2>1. /\ group = Len(Towns) + 1 /\ Len(Towns) \in Nat
        /\ Len(Routes) \in Nat /\ DOMAIN Routes = 1 .. Len(Routes)
        /\ rows \in Seq(Row) /\ DOMAIN rows = 1 .. Len(rows) /\ Len(rows) \in Nat
    BY <2>0, TownsOfRoutes, RoutesAssumption DEF HarnessInv, ControlInv, TypeInv,
                                                 HarnessTyped
  <2>2. /\ \A i \in DOMAIN rows : /\ rows[i].launch \in 1 .. Len(Towns)
                                  /\ Routes[rows[i].route] = Towns[rows[i].launch]
        /\ \A i, j \in DOMAIN rows : rows[i].route = rows[j].route => i = j
    BY <2>0 DEF HarnessInv, RowsInv
  <2>3. \A i \in DOMAIN rows : rows[i].route \in DOMAIN Routes
    <3>1. \A r \in Row : r.route \in DOMAIN Routes
      BY DEF Row
    <3> QED  BY <2>1, <3>1
  <2>4. ASSUME NEW r \in DOMAIN Routes
        PROVE  \E i \in DOMAIN rows : rows[i].route = r
    <3>1. PICK g \in 1 .. Len(Towns) : Towns[g] = Routes[r]
      BY TownsOfRoutes
    <3>2. PICK n \in 1 .. Len(RoutesOf(Towns[g])) : RoutesOf(Towns[g])[n] = r
      BY <3>1, RoutesOfTown
    <3>3. Reported(rows, RoutesOf(Towns[g])[n])
      BY <2>0, <2>1, <3>1 DEF HarnessInv, NoneLeftOut
    <3> QED  BY <3>2, <3>3 DEF Reported
  <2>5. {rows[i].route : i \in DOMAIN rows} = DOMAIN Routes
    BY <2>3, <2>4
  <2>6. Len(rows) = Len(Routes)
    <3> DEFINE f == [i \in 1 .. Len(rows) |-> rows[i].route]
    <3>1. f \in Bijection(1 .. Len(rows), 1 .. Len(Routes))
      BY <2>1, <2>2, <2>3, <2>4 DEF Bijection, Injection, Surjection, IsInjective
    <3>2. /\ IsFiniteSet(1 .. Len(rows)) /\ Cardinality(1 .. Len(rows)) = Len(rows)
          /\ IsFiniteSet(1 .. Len(Routes)) /\ Cardinality(1 .. Len(Routes)) = Len(Routes)
      BY <2>1, IntervalCard
    <3>4. f \in Injection(1 .. Len(rows), 1 .. Len(Routes)) /\ f \in Surjection(1 .. Len(rows), 1 .. Len(Routes))
      BY <3>1 DEF Bijection
    <3> HIDE DEF f
    <3>3. Cardinality(1 .. Len(rows)) = Cardinality(1 .. Len(Routes))
      BY ONLY <3>4, <3>2, FS_Injection
    <3> QED  BY <3>2, <3>3
  <2>7. \A i, j \in DOMAIN rows :
          rows[i].launch = rows[j].launch <=> Routes[rows[i].route] = Routes[rows[j].route]
    BY <2>2, TownsOfRoutes
  <2> QED  BY <2>5, <2>6, <2>7
<1> QED  BY <1>1, HarnessInvHolds, PTL

(* A harness that has ended leaves no stack behind, except after a Ctrl-C in *)
(* the startup sleep or in the middle of a stop.                              *)
THEOREM StackStopped == Spec => []NoStackLeft
<1>1. HarnessInv => NoStackLeft
  <2> SUFFICES ASSUME HarnessInv, hpc = "exit" PROVE up = "down" \/ torn
    BY DEF NoStackLeft
  <2>1. program = "run_routes"
    BY ProgramsAssumption DEF HarnessInv, TypeInv, ProgramInv
  <2> QED  BY <2>1 DEF HarnessInv, ControlInv
<1> QED  BY <1>1, HarnessInvHolds, PTL

(* No stack is launched over one that still lives. *)
THEOREM OneStack == Spec => OneStackAtMost
<1>1. HarnessInv /\ [Next]_toolVars => [launch' # launch => up = "down"]_<<feedVars, harnessVars>>
  <2> SUFFICES ASSUME HarnessInv, [Next]_toolVars, launch' # launch PROVE up = "down"
    OBVIOUS
  <2>1. ~ UNCHANGED toolVars
    BY DEF toolVars, feedVars
  <2>2. ~ StackStep
    BY DEF StackStep, FeedNext, Boot, Die, Exit, Announce, TickWorld, PassGate,
           TimeOutGate, GiveUp
  <2>3. ~ SweepNext
    BY DEF SweepNext, SweepWork, SweepCall, SweepRefused, SweepResetOk, SweepEnd,
           SweepFinish,
           OnEvent, OnTimeout, OnEgoOdom, Call, Forget, Handle, feedVars
  <2>4. HarnessNext /\ program = "run_routes"
    BY <2>1, <2>2, <2>3 DEF Next, RoutesStep, SweepsStep
  <2>5. Launch
    BY <2>4 DEF HarnessNext, HarnessWork, Finish, StartupOver, StackDied, StartRoute,
                ServiceUnavailable,
         CallReset, ResetRefused, ResetOk, EventSeen, EventMissed, EndDrive, EndTown,
         SignalStack,
         StackGone, KillStack, Interrupt, OnResetEvent, OnStamped, Call, Forget,
         Handle, feedVars
  <2> QED  BY <2>4, <2>5 DEF Launch, HarnessInv, ControlInv
<1> QED  BY <1>1, HarnessInvHolds, PTL DEF Spec, OneStackAtMost

-------------------------------------------------------------------------------
(* ---- the rows of the first stack ------------------------------------------ *)

(* The messages under way are typed. *)
LEMMA Typed ==
  ASSUME FeedInv
  PROVE  Odoms \in SUBSET DataMsg /\ Events \in SUBSET EventMsg
<1>1. queue["ego_odom"] \in Seq(DataMsg) /\ queue["reset_event"] \in Seq(EventMsg)
  BY DEF FeedInv, QueueType, FeedTopics, MsgOf
<1> QED  BY <1>1 DEF Odoms, Events, Msgs

FirstRunning == RoutesRunning /\ launch \in {0, 1} /\ Asked /\ Sorted

(* What holds where the stack runs for the first time. *)
LEMMA FirstTypes ==
  ASSUME FirstRunning
  PROVE  /\ FeedInv /\ FeedTypeOK /\ HarnessTypeOK
         /\ now \in Nat /\ episode \in Nat /\ launch \in Nat /\ calls \in Nat
         /\ pending \in Nat /\ answer.call \in Nat
         /\ known \in Int /\ since \in Int /\ wanted \in Nat
         /\ Odoms \in SUBSET DataMsg /\ Events \in SUBSET EventMsg
         /\ \A m \in Odoms : m.k \in Nat /\ m.of[1] \in Nat /\ m.of[2] \in Nat
         /\ \A e \in Events : e.k \in Nat /\ e.episode \in Nat
<1>1. FeedInv /\ FeedTypeOK /\ HarnessTypeOK
  BY DEF FirstRunning, RoutesRunning, HarnessInv, TypeInv, FeedInv, HarnessTyped
<1>2. Odoms \in SUBSET DataMsg /\ Events \in SUBSET EventMsg
  BY <1>1, Typed
<1>3. /\ \A m \in DataMsg : m.k \in Nat /\ m.of[1] \in Nat /\ m.of[2] \in Nat
      /\ \A e \in EventMsg : e.k \in Nat /\ e.episode \in Nat
  BY DEF DataMsg, EventMsg
<1>4. answer.call \in Nat
  BY <1>1 DEF FeedTypeOK
<1> QED  BY <1>1, <1>2, <1>3, <1>4 DEF FeedTypeOK, HarnessTypeOK

(* Where the messages under way only get fewer, they stay sorted. *)
LEMMA SortedShrinks ==
  ASSUME FirstRunning, Odoms' \subseteq Odoms, Events' \subseteq Events,
         launch' = launch, now' = now, episode' = episode,
         UNCHANGED <<known, since, trace>>
  PROVE  Sorted'
BY DEF FirstRunning, Sorted, Parts

(* An event that is announced parts the odometry already under way from the rest. *)
LEMMA EventPublished ==
  ASSUME FirstRunning, NEW e \in EventMsg,
         queue' = Publish(queue, "reset_event", e),
         e.episode <= episode', e.k <= now' + 1, Parts(e.k, e.episode),
         launch' = launch, now' = now, episode' \in Nat, episode <= episode',
         UNCHANGED <<known, since, trace>>
  PROVE  Sorted'
<1>1. FeedInv /\ {"reset_event", "ego_odom"} \subseteq FeedTopics /\ e \in MsgOf("reset_event")
  BY FirstTypes DEF FeedTopics, MsgOf
<1>2. Odoms' = Odoms /\ Events' \subseteq Events \cup {e}
  BY <1>1, Published DEF FeedInv, Odoms, Events
<1>3. \A f \in Events' : /\ f.episode <= episode' /\ f.k <= now' + 1
                          /\ \A m \in Odoms' : m.k >= f.k <=> m.of[2] >= f.episode
  BY <1>2, FirstTypes DEF FirstRunning, Sorted, Parts
<1>4. \A m \in Odoms' : m.of[1] = launch' /\ m.of[2] <= episode' /\ m.k \in 1 .. now'
  BY <1>2, FirstTypes DEF FirstRunning, Sorted
<1>5. known' >= 0 => \A m \in Odoms' : m.k >= since' <=> m.of[2] >= known'
  BY <1>2 DEF FirstRunning, Sorted, Parts
<1>6. \A o \in trace' : o[1] = launch' /\ known' <= o[2] /\ o[2] <= episode'
  <2>1. \A o \in trace : o[2] \in Nat
    BY FirstTypes DEF HarnessTypeOK
  <2> QED  BY <2>1, FirstTypes DEF FirstRunning, Sorted
<1> QED  BY <1>3, <1>4, <1>5, <1>6, FirstTypes DEF FirstRunning, Sorted, Parts

(* The odometry of the next tick is of the episode that the newest event opened. *)
LEMMA OdomPublished ==
  ASSUME FirstRunning, TickWorld, UNCHANGED harnessVars
  PROVE  Sorted'
<1> DEFINE new == Stamped(now + 1)
<1>1. /\ FeedInv /\ {"reset_event", "ego_odom"} \subseteq FeedTopics
      /\ new \in MsgOf("ego_odom")
  BY FirstTypes, PublishedTypes DEF FeedTopics
<1>2. Events' = Events /\ Odoms' \subseteq Odoms \cup {new}
  BY <1>1, Published DEF FeedInv, Odoms, Events, TickWorld
<1>3. new.k = now + 1 /\ new.of[1] = launch /\ new.of[2] = episode
  BY DEF Stamped, Origin
<1>4. /\ now' = now + 1 /\ launch' = launch /\ episode' = episode
      /\ known' = known /\ since' = since /\ trace' = trace
  BY DEF TickWorld, harnessVars
<1> HIDE DEF new
<1>5. \A m \in Odoms' : m.of[1] = launch' /\ m.of[2] <= episode' /\ m.k \in 1 .. now'
  BY <1>2, <1>3, <1>4, FirstTypes DEF FirstRunning, Sorted
<1>6. ASSUME NEW k \in Int, NEW n \in Int, k <= now + 1, n <= episode, Parts(k, n)
      PROVE  \A m \in Odoms' : m.k >= k <=> m.of[2] >= n
  BY <1>2, <1>3, <1>6, FirstTypes DEF Parts
<1>7. \A e \in Events' : /\ e.episode <= episode' /\ e.k <= now' + 1
                          /\ \A m \in Odoms' : m.k >= e.k <=> m.of[2] >= e.episode
  BY <1>2, <1>4, <1>6, FirstTypes DEF FirstRunning, Sorted
<1>8. known' >= 0 => \A m \in Odoms' : m.k >= since' <=> m.of[2] >= known'
  BY <1>4, <1>6, FirstTypes DEF FirstRunning, Sorted
<1> QED  BY <1>4, <1>5, <1>7, <1>8, FirstTypes DEF FirstRunning, Sorted, Parts

(* The first stack serves its calls, and stamps its messages, in order. *)
LEMMA FirstStackStep ==
  ASSUME FirstRunning, StackStep
  PROVE  Asked' /\ Sorted'
<1>0. FeedNext(FALSE) /\ UNCHANGED harnessVars /\ hpc # "exit"
  BY DEF StackStep, FirstRunning, RoutesRunning
<1>1. up # "down" /\ launch' = launch
  BY <1>0 DEF FeedNext, Boot, Die, Exit, Announce, TickWorld, PassGate, GiveUp
<1>2. launch = 1
  BY <1>0, <1>1, TownAt DEF FirstRunning, RoutesRunning, HarnessInv, ControlInv, InTown
<1>3. /\ calls' = calls /\ hpc' = hpc /\ wanted' = wanted
      /\ known' = known /\ since' = since /\ trace' = trace
  BY <1>0 DEF harnessVars
<1> USE <1>1, <1>2, <1>3, FirstTypes
<1>4. CASE Boot
  <2>1. FirstEvent \in EventMsg /\ FirstEvent.k = 1 /\ FirstEvent.episode = 0
    BY DEF FirstEvent, EventMsg
  <2>2. /\ queue' = Publish(queue, "reset_event", FirstEvent)
        /\ now' = now /\ episode' = episode /\ gate' = gate /\ pending' = pending /\ answer' = answer
    BY <1>4 DEF Boot
  <2>3. Parts(1, 0)
    BY DEF Parts, FirstRunning, Sorted
  <2>4. Sorted'
    BY <2>1, <2>2, <2>3, EventPublished
  <2> QED  BY <2>2, <2>4 DEF Asked, FirstRunning
<1>5. CASE Die \/ Exit
  <2>1. UNCHANGED <<now, episode, gate, pending, answer, queue>>
    BY <1>5 DEF Die, Exit
  <2>2. Sorted'
    BY <2>1, SortedShrinks DEF Odoms, Events
  <2> QED  BY <2>1, <2>2 DEF Asked, FirstRunning
<1>6. CASE Announce
  <2> DEFINE e == [k |-> now + 1, episode |-> episode + 1]
  <2>1. e \in EventMsg /\ e.k = now + 1 /\ e.episode = episode + 1
    BY DEF EventMsg
  <2>2. /\ queue' = Publish(queue, "reset_event", e)
        /\ now' = now /\ episode' = episode + 1 /\ gate' = "reset" /\ pending' = pending
        /\ answer' = answer /\ pending # 0
    BY <1>6 DEF Announce
  <2> HIDE DEF e
  <2>3. Parts(e.k, e.episode)
    BY <2>1 DEF Parts, FirstRunning, Sorted
  <2>4. Sorted'
    BY <2>1, <2>2, <2>3, EventPublished
  <2> QED  BY <2>2, <2>4 DEF Asked, FirstRunning
<1>7. CASE TickWorld
  <2>1. Sorted'
    BY <1>0, <1>7, OdomPublished
  <2>2. /\ episode' = episode /\ pending' = pending /\ answer' = answer
        /\ gate' \in {"first", "gate"} /\ (gate' = "first" => gate = "reset")
    BY <1>7 DEF TickWorld
  <2> QED  BY <2>1, <2>2 DEF Asked, FirstRunning
<1>8. CASE PassGate(FALSE)
  <2>1. UNCHANGED <<now, episode, queue>> /\ gate' = "loop"
    BY <1>8 DEF PassGate, LeaveGate
  <2>2. Sorted'
    BY <2>1, SortedShrinks DEF Odoms, Events
  <2>3. \/ /\ pending' = 0 /\ answer'.call = pending /\ answer'.episode = episode
        \/ /\ pending' \in {0, pending} /\ answer' = answer
    BY <1>8 DEF PassGate, LeaveGate
  <2> QED  BY <2>1, <2>2, <2>3 DEF Asked, FirstRunning
<1>9. CASE GiveUp
  <2>1. UNCHANGED <<now, episode, queue, gate>>
    BY <1>9 DEF GiveUp
  <2>2. Sorted'
    BY <2>1, SortedShrinks DEF Odoms, Events
  <2>3. /\ ~ answer'.ok /\ answer'.call = pending /\ pending # 0
        /\ pending' = IF gate \in {"loop", "gate"} THEN 0 ELSE pending
    BY <1>9 DEF GiveUp
  <2> QED  BY <2>1, <2>2, <2>3 DEF Asked, FirstRunning, FeedTypeOK
<1> QED  BY <1>0, <1>4, <1>5, <1>6, <1>7, <1>8, <1>9 DEF FeedNext

(* The harness asks one call after the other, and records what is not older than *)
(* the episode it knows of.                                                       *)
LEMMA FirstHarnessStep ==
  ASSUME FirstRunning, HarnessNext, launch' = launch
  PROVE  Asked' /\ Sorted'
<1> USE FirstTypes
<1>1. now' = now /\ episode' = episode /\ gate' = gate
  <2>1. ~ Launch
    BY DEF Launch
  <2> QED  BY <2>1 DEF HarnessNext, HarnessWork, Finish, StartupOver, StackDied,
                       StartRoute,
         ServiceUnavailable, CallReset, ResetRefused, ResetOk, EventSeen,
         EventMissed, EndDrive,
         EndTown, SignalStack, StackGone, KillStack, Interrupt, OnResetEvent,
         OnStamped, Call,
         Forget, Handle, feedVars
<1>2. launch = 0 => Finish
  BY TownAt DEF FirstRunning, RoutesRunning, HarnessInv, ControlInv, InTown, Launch,
       HarnessNext, HarnessWork, Finish, StartupOver, StackDied, StartRoute,
       ServiceUnavailable, CallReset, ResetRefused, ResetOk, EventSeen, EventMissed,
       EndDrive,
       EndTown, SignalStack, StackGone, KillStack, Interrupt, OnResetEvent,
       OnStamped, Spinning
<1>3. CASE OnResetEvent
  <2> DEFINE e == Head(queue["reset_event"])
  <2>1. /\ e \in Events /\ Odoms' = Odoms /\ Events' \subseteq Events
    BY <1>3, Handled DEF OnResetEvent, FeedTopics, Odoms, Events
  <2>2. /\ hpc' = hpc /\ calls' = calls /\ wanted' = wanted /\ pending' = pending /\ answer' = answer
        /\ IF e.episode > known
           THEN known' = e.episode /\ since' = e.k /\ trace' = {}
           ELSE UNCHANGED <<known, since, trace>>
    BY <1>3 DEF OnResetEvent, Handle
  <2> HIDE DEF e
  <2>3. Asked'
    BY <1>1, <1>2, <1>3, <2>2, <2>1 DEF Asked, FirstRunning, OnResetEvent, Spinning,
                                        Finish
  <2>4. Sorted'
    <3>1. CASE e.episode > known
      <4>1. /\ known' = e.episode /\ since' = e.k /\ trace' = {}
            /\ e.episode <= episode /\ e.k <= now + 1 /\ Parts(e.k, e.episode)
        BY <2>1, <2>2, <3>1 DEF FirstRunning, Sorted
      <4> QED  BY <1>1, <2>1, <4>1 DEF FirstRunning, Sorted, Parts
    <3>2. CASE ~ (e.episode > known)
      BY <1>1, <2>1, <2>2, <3>2, SortedShrinks
    <3> QED  BY <3>1, <3>2
  <2> QED  BY <2>3, <2>4
<1>4. CASE OnStamped
  <2> DEFINE m == Head(queue["ego_odom"])
  <2>1. /\ m \in Odoms /\ Odoms' \subseteq Odoms /\ Events' = Events
    BY <1>4, Handled DEF OnStamped, FeedTopics, Odoms, Events
  <2>2. /\ hpc' = hpc /\ calls' = calls /\ wanted' = wanted /\ pending' = pending /\ answer' = answer
        /\ UNCHANGED <<known, since>>
        /\ trace' = IF m.k < since THEN trace ELSE trace \cup {m.of}
    BY <1>4 DEF OnStamped, Handle
  <2> HIDE DEF m
  <2>3. Asked'
    BY <1>1, <1>2, <1>4, <2>2, <2>1 DEF Asked, FirstRunning, OnStamped, Spinning, Finish
  <2>4. \A o \in trace' : o[1] = launch /\ known <= o[2] /\ o[2] <= episode
    BY <2>1, <2>2 DEF FirstRunning, Sorted, Parts
  <2>5. Sorted'
    BY <1>1, <2>1, <2>2, <2>4 DEF FirstRunning, Sorted, Parts
  <2> QED  BY <2>3, <2>5
<1>5. CASE ~ OnResetEvent /\ ~ OnStamped
  <2>1. UNCHANGED <<queue, known, since, trace>>
    BY <1>5 DEF HarnessNext, HarnessWork, Launch, Finish, StartupOver, StackDied,
                StartRoute,
         ServiceUnavailable, CallReset, ResetRefused, ResetOk, EventSeen,
         EventMissed, EndDrive,
         EndTown, SignalStack, StackGone, KillStack, Interrupt, Call, Forget, feedVars
  <2>2. Sorted'
    BY <1>1, <2>1, SortedShrinks DEF Odoms, Events
  <2>3. Odoms' = Odoms /\ Events' = Events
    BY <2>1 DEF Odoms, Events
  <2>4. Asked'
    <3>1. CASE CallReset
      <4>1. /\ calls' = calls + 1 /\ hpc' = "response" /\ wanted' = wanted
            /\ pending' \in {pending, calls + 1} /\ (pending # 0 => pending' = pending)
            /\ \/ answer' = answer
               \/ ~ answer'.ok /\ answer'.call = calls + 1
        BY <3>1 DEF CallReset, Call, Goto
      <4> QED  BY <1>1, <1>2, <2>1, <2>3, <3>1, <4>1 DEF Asked, FirstRunning,
                                                         CallReset, Finish
    <3>2. CASE ResetOk
      <4>1. /\ wanted' = answer.episode /\ hpc' = "event" /\ calls' = calls
            /\ answer'.call = 0 /\ ~ answer'.ok /\ pending' = pending
            /\ answer.call = calls /\ answer.ok /\ hpc = "response"
        BY <3>2 DEF ResetOk, Forget, NoAnswer, Goto
      <4> QED  BY <1>1, <1>2, <2>1, <2>3, <3>2, <4>1 DEF Asked, FirstRunning,
                                                         ResetOk, Finish
    <3>3. CASE ResetRefused
      <4>1. /\ wanted' = wanted /\ hpc' = "route" /\ calls' = calls
            /\ answer'.call = 0 /\ ~ answer'.ok /\ pending' = pending /\ hpc = "response"
        BY <3>3 DEF ResetRefused, Report, Forget, NoAnswer, Goto
      <4> QED  BY <1>1, <1>2, <2>1, <2>3, <3>3, <4>1 DEF Asked, FirstRunning,
                                                         ResetRefused, Finish
    <3>4. CASE ~ CallReset /\ ~ ResetOk /\ ~ ResetRefused
      <4>1. /\ UNCHANGED <<calls, wanted, pending, answer>>
            /\ hpc' = "response" => hpc = "response"
            /\ hpc' \in {"event", "drive"} => hpc \in {"event", "drive"}
            /\ hpc' = "drive" => known >= wanted
        BY <1>5, <3>4
           DEF HarnessNext, HarnessWork, Launch, Finish, StartupOver, StackDied,
               StartRoute,
               ServiceUnavailable, EventSeen, EventMissed, EndDrive, Report,
               NextTown, Goto,
               EndTown, SignalStack, StackGone, KillStack, Interrupt, feedVars
      <4> QED  BY <1>1, <1>2, <2>1, <2>3, <4>1 DEF Asked, FirstRunning
    <3> QED  BY <3>1, <3>2, <3>3, <3>4
  <2> QED  BY <2>2, <2>4
<1> QED  BY <1>3, <1>4, <1>5

(* The first stack that is launched starts with nothing asked and nothing sent. *)
LEMMA FirstLaunch ==
  ASSUME FirstRunning, Launch, launch = 0
  PROVE  Asked' /\ Sorted'
<1> USE FirstTypes
<1>1. /\ calls' = 0 /\ now' = 0 /\ episode' = 0 /\ pending' = 0 /\ gate' = "loop"
      /\ hpc' = "startup" /\ answer' = answer /\ queue' = queue /\ launch' = 1
      /\ UNCHANGED <<known, since, trace>>
      /\ Odoms = {} /\ Events = {} /\ trace = {}
  BY DEF Launch, Goto, FirstRunning, Asked
<1>2. Odoms' = {} /\ Events' = {}
  BY <1>1 DEF Odoms, Events
<1> QED  BY <1>1, <1>2 DEF FirstRunning, Asked, Sorted, Parts

(* There is no first stack yet, and no row. *)
LEMMA FirstInvInit == Init => FirstInv
<1> SUFFICES ASSUME Init
             PROVE  FirstTownRows /\ (program = "run_routes" => Asked /\ Sorted)
  BY DEF FirstInv, FirstStack
<1>1. program = "run_routes" =>
      /\ launch = 0 /\ now = 0 /\ episode = 0 /\ calls = 0 /\ pending = 0 /\ answer = NoAnswer
      /\ gate = "loop" /\ hpc = "town" /\ trace = {} /\ known = -1 /\ since = -1 /\ rows = <<>>
  BY DEF Init, FeedInit, HarnessInit
<1>2. program = "run_routes" => Odoms = {} /\ Events = {}
  <2>1. program = "run_routes" => queue["ego_odom"] = <<>> /\ queue["reset_event"] = <<>>
    BY DEF Init, FeedInit, FeedTopics
  <2> QED  BY <2>1 DEF Odoms, Events, Msgs
<1>3. FirstTownRows
  BY DEF Init, HarnessInit, FirstTownRows
<1> QED  BY <1>1, <1>2, <1>3 DEF Asked, Sorted, Parts, NoAnswer

(* A route that was driven with the first stack recorded its own episode only. *)
LEMMA FirstRowsStep ==
  ASSUME RoutesRunning, FirstInv, HarnessNext
  PROVE  FirstTownRows'
<1>1. CASE rows' = rows
  BY <1>1 DEF FirstInv, FirstTownRows
<1>2. CASE rows' # rows
  <2>1. PICK s : /\ Report(s)
                 /\ s # "not_driven" => hpc = "drive"
    BY <1>2 DEF HarnessNext, HarnessWork, Launch, Finish, StartupOver, StackDied,
                StartRoute,
         ServiceUnavailable, CallReset, ResetRefused, ResetOk, EventSeen,
         EventMissed, EndDrive,
         EndTown, SignalStack, StackGone, KillStack, Interrupt, OnResetEvent, OnStamped
  <2> DEFINE row == [route |-> Current, launch |-> launch,
                     alien |-> IF s = "not_driven" THEN {} ELSE trace \ {<<launch, wanted>>}]
  <2>2. rows' = Append(rows, row) /\ row.launch = launch
    BY <2>1 DEF Report
  <2>3. row.launch = 1 => row.alien = {}
    <3> SUFFICES ASSUME launch = 1, hpc = "drive" PROVE trace \ {<<launch, wanted>>} = {}
      BY <2>1
    <3>1. FirstRunning
      BY DEF FirstInv, FirstStack, FirstRunning, RoutesRunning
    <3>2. /\ known >= wanted /\ wanted = episode
          /\ \A o \in trace : o[1] = launch /\ known <= o[2] /\ o[2] <= episode
      BY <3>1 DEF FirstRunning, Asked, Sorted
    <3>3. \A o \in trace : o \in Nat \X Nat /\ o = <<o[1], o[2]>>
      BY <3>1, FirstTypes DEF HarnessTypeOK
    <3>4. \A o \in trace : o[2] = wanted
      BY <3>1, <3>2, <3>3, FirstTypes
    <3> QED  BY <3>2, <3>3, <3>4
  <2> HIDE DEF row
  <2>4. /\ DOMAIN rows' = 1 .. Len(rows) + 1 /\ DOMAIN rows = 1 .. Len(rows) /\ Len(rows) \in Nat
        /\ rows'[Len(rows) + 1] = row
        /\ \A i \in 1 .. Len(rows) : rows'[i] = rows[i]
    <3>1. rows \in Seq(Row \cup {row})
      BY DEF RoutesRunning, HarnessInv, TypeInv, HarnessTyped
    <3> QED  BY <2>2, <3>1
  <2> QED  BY <2>3, <2>4 DEF FirstInv, FirstTownRows
<1> QED  BY <1>1, <1>2

(* The first stack keeps it, and from the second on no row of the first changes. *)
LEMMA FirstInvStep == HarnessInv /\ FirstInv /\ [Next]_toolVars => FirstInv'
<1> SUFFICES ASSUME HarnessInv, FirstInv, [Next]_toolVars PROVE FirstInv'
  OBVIOUS
<1>0. program' = program
  BY DEF Next, StackStep, RoutesStep, SweepsStep, toolVars
<1>1. CASE UNCHANGED toolVars
  <2>1. FirstTownRows'
    BY <1>1 DEF FirstInv, FirstTownRows, toolVars, harnessVars
  <2>2. ASSUME program = "run_routes", launch <= 1 PROVE Asked' /\ Sorted'
    <3>1. Odoms' = Odoms /\ Events' = Events
      BY <1>1 DEF Odoms, Events, toolVars, feedVars
    <3> QED  BY <1>1, <2>2, <3>1
          DEF FirstInv, FirstStack, Asked, Sorted, Parts, toolVars, feedVars,
              harnessVars
  <2> QED  BY <1>0, <1>1, <2>1, <2>2 DEF FirstInv, FirstStack, toolVars, feedVars
<1>2. CASE program # "run_routes" /\ Next
  <2>1. rows' = rows
    BY <1>2 DEF Next, StackStep, RoutesStep, SweepsStep, harnessVars
  <2> QED  BY <1>0, <1>2, <2>1 DEF FirstInv, FirstStack, FirstTownRows
<1>3. CASE program = "run_routes" /\ Next
  <2>1. RoutesRunning /\ (StackStep \/ HarnessNext)
    BY <1>3 DEF RoutesRunning, Next, RoutesStep, SweepsStep
  <2>2. launch \in Nat
    BY <2>1, TownAt
  <2>3. launch <= 1 => FirstRunning
    BY <1>3, <2>1, <2>2 DEF FirstRunning, FirstInv, FirstStack
  <2>4. FirstTownRows'
    <3>1. CASE StackStep
      BY <3>1 DEF FirstInv, FirstTownRows, StackStep, harnessVars
    <3>2. CASE HarnessNext
      BY <2>1, <3>2, FirstRowsStep
    <3> QED  BY <2>1, <3>1, <3>2
  <2>5. launch' \in {launch, launch + 1} /\ (launch' # launch => Launch)
    <3>1. CASE StackStep
      BY <3>1 DEF StackStep, FeedNext, Boot, Die, Exit, Announce, TickWorld,
                  PassGate, TimeOutGate, GiveUp
    <3>2. CASE HarnessNext
      BY <3>2 DEF HarnessNext, HarnessWork, Launch, Finish, StartupOver, StackDied,
                  StartRoute,
         ServiceUnavailable, CallReset, ResetRefused, ResetOk, EventSeen,
         EventMissed, EndDrive,
         EndTown, SignalStack, StackGone, KillStack, Interrupt, OnResetEvent,
         OnStamped, Call,
         Forget, Handle, feedVars
    <3> QED  BY <2>1, <3>1, <3>2
  <2>6. ASSUME launch' <= 1 PROVE Asked' /\ Sorted'
    <3>1. FirstRunning
      BY <2>2, <2>3, <2>5, <2>6
    <3>2. CASE launch' = launch /\ StackStep
      BY <3>1, <3>2, FirstStackStep
    <3>3. CASE launch' = launch /\ HarnessNext
      BY <3>1, <3>3, FirstHarnessStep
    <3>4. CASE launch' # launch
      BY <2>2, <2>5, <2>6, <3>1, <3>4, FirstLaunch
    <3> QED  BY <2>1, <3>2, <3>3, <3>4
  <2> QED  BY <2>4, <2>6 DEF FirstInv, FirstStack
<1> QED  BY <1>1, <1>2, <1>3

(* No row of the first town holds a message of another episode, however late the *)
(* events, the odometry and the answers are, and whatever was refused or applied   *)
(* after its caller had given up.                                                  *)
THEOREM FirstTownClean == Spec => []FirstTownRows
<1>1. FirstInv => FirstTownRows
  BY DEF FirstInv
<1> QED  BY <1>1, HarnessInvHolds, FirstInvInit, FirstInvStep, PTL DEF Spec

-------------------------------------------------------------------------------
(* ---- the rows of a sweep --------------------------------------------------- *)

(* The phase machine by cases: the next phase, its start and the row's phase. *)
LEMMA ControlCases ==
  ASSUME NEW s \in RunState, NEW k \in Nat, NEW driven \in BOOLEAN
  PROVE  LET c == Control(s, k, driven)
             start == IF s.start < 0 THEN k ELSE s.start
         IN  /\ s.phase = "settle" => /\ c.row = "settle"
                                      /\ \/ /\ k - start < SettleTicks
                                            /\ c.to.phase = "settle" /\ c.to.start = start
                                         \/ /\ ~ (k - start < SettleTicks)
                                            /\ c.to.phase \in {"reach", "hold"} /\ c.to.start = k
             /\ s.phase = "reach" => \/ /\ c.row = "reach" /\ c.to.phase = "reach"
                                        /\ c.to.start = start
                                     \/ c.row = "done" /\ c.to.phase = "done"
                                     \/ /\ c.row = "hold" /\ c.to.phase = "hold"
                                        /\ c.to.start = k /\ 0 < HoldTicks
             /\ s.phase = "hold" => \/ c.row = "done" /\ c.to.phase = "done"
                                    \/ /\ c.row = "hold" /\ c.to.phase = "hold"
                                       /\ c.to.start = start /\ k - start < HoldTicks
             /\ s.phase = "done" => c.row = "done" /\ c.to.phase = "done"
<1> USE SweepAssumption
<1> DEFINE start == IF s.start < 0 THEN k ELSE s.start
           begun == [s EXCEPT !.start = start]
           c == Control(s, k, driven)
<1>0. /\ start \in Int /\ s.phase \in {"none", "settle", "reach", "hold", "done"}
      /\ begun.phase = s.phase /\ begun.start = start
      /\ \A p : [s EXCEPT !.phase = p, !.start = k].phase = p
               /\ [s EXCEPT !.phase = p, !.start = k].start = k
               /\ [begun EXCEPT !.phase = p].phase = p
               /\ [[s EXCEPT !.phase = "hold", !.start = k] EXCEPT !.phase = p].phase = p
  BY DEF RunState
<1>1. CASE s.phase = "settle"
  <2> DEFINE next == IF TRUE \in ReachV0 THEN "reach" ELSE "hold"
  <2>1. c = [to |-> IF k - start < SettleTicks THEN begun
                    ELSE [s EXCEPT !.phase = next, !.start = k], row |-> "settle"]
    BY <1>1 DEF Control, Enter
  <2>2. next \in {"reach", "hold"}
    OBVIOUS
  <2> HIDE DEF begun, c, next, start
  <2> QED  BY <1>0, <1>1, <2>1, <2>2 DEF start, c
<1>2. CASE s.phase = "reach"
  <2> DEFINE held == [s EXCEPT !.phase = "hold", !.start = k]
  <2>1. c = IF ~ driven THEN [to |-> begun, row |-> "reach"]
            ELSE IF 0 >= HoldTicks \/ (0 > 5 /\ driven)
            THEN [to |-> [held EXCEPT !.phase = "done"], row |-> "done"]
            ELSE [to |-> held, row |-> "hold"]
    BY <1>2 DEF Control, Enter
  <2>2. /\ [held EXCEPT !.phase = "done"].phase = "done" /\ held.phase = "hold" /\ held.start = k
    BY <1>0
  <2> HIDE DEF begun, c, held, start
  <2> QED  BY <1>0, <1>2, <2>1, <2>2 DEF start, c
<1>3. CASE s.phase = "hold"
  <2>1. c = IF k - start >= HoldTicks \/ (k - start > 5 /\ driven)
            THEN [to |-> [begun EXCEPT !.phase = "done"], row |-> "done"]
            ELSE [to |-> begun, row |-> "hold"]
    BY <1>3 DEF Control, Enter
  <2> HIDE DEF begun, c, start
  <2> QED  BY <1>0, <1>3, <2>1 DEF start, c
<1>4. CASE s.phase = "done"
  <2>1. c = [to |-> s, row |-> "done"]
    BY <1>4 DEF Control, Enter
  <2> HIDE DEF c
  <2> QED  BY <1>4, <2>1 DEF c
<1> HIDE DEF c
<1> QED  BY <1>1, <1>2, <1>3, <1>4 DEF c

(* One more row: its place among those of phase hold, if it is one. *)
LEMMA HoldsGrow ==
  ASSUME NEW rs \in Seq(Sample), NEW row \in Sample
  PROVE  /\ IsFiniteSet(Holds(rs)) /\ Cardinality(Holds(rs)) \in Nat
         /\ Len(rs) \in Nat
         /\ row.phase # "hold" => Holds(Append(rs, row)) = Holds(rs)
         /\ row.phase = "hold" => Holds(Append(rs, row)) = Holds(rs) \cup {Len(rs) + 1}
         /\ row.phase = "hold" =>
              Cardinality(Holds(Append(rs, row))) = Cardinality(Holds(rs)) + 1
<1>1. Len(rs) \in Nat
  OBVIOUS
<1>2. IsFiniteSet(1 .. Len(rs)) /\ Holds(rs) \subseteq 1 .. Len(rs)
  BY <1>1, IntervalCard DEF Holds
<1>3. IsFiniteSet(Holds(rs)) /\ Cardinality(Holds(rs)) \in Nat
  BY <1>2, FS_Subset, FS_CardinalityType
<1>4. /\ Len(Append(rs, row)) = Len(rs) + 1 /\ Append(rs, row)[Len(rs) + 1] = row
      /\ \A i \in 1 .. Len(rs) : Append(rs, row)[i] = rs[i]
  OBVIOUS
<1>5. row.phase # "hold" => Holds(Append(rs, row)) = Holds(rs)
  BY <1>1, <1>4 DEF Holds
<1>6. row.phase = "hold" => Holds(Append(rs, row)) = Holds(rs) \cup {Len(rs) + 1}
  BY <1>1, <1>4 DEF Holds
<1>7. Len(rs) + 1 \notin Holds(rs)
  BY <1>1 DEF Holds
<1> QED  BY <1>1, <1>3, <1>5, <1>6, <1>7, FS_AddElement

(* A tick that follows the last row's keeps the phases in shape. *)
LEMMA ShapeGrows ==
  ASSUME NEW s \in RunState, NEW c \in Int, RunShape(s, c), NEW k \in Nat,
         s.rows # <<>> => k = c + 1,
         NEW driven \in BOOLEAN, NEW of \in Nat \X Nat, NEW next,
         next = [Control(s, k, driven).to EXCEPT !.rows =
                   Append(Control(s, k, driven).to.rows,
                          [k |-> k, of |-> of, phase |-> Control(s, k, driven).row])]
  PROVE  RunShape(next, k)
<1> DEFINE u == Control(s, k, driven)
           row == [k |-> k, of |-> of, phase |-> u.row]
           n == Len(s.rows)
<1>1. u.to \in RunState /\ u.to.rows = s.rows /\ u.row \in Phases
  BY ControlType
<1>2. row \in Sample /\ row.phase = u.row
  BY <1>1 DEF Sample, Phases
<1>3. /\ next.phase = u.to.phase /\ next.start = u.to.start
      /\ next.rows = Append(s.rows, row) /\ s.rows \in Seq(Sample) /\ next.start \in Int
  BY <1>1 DEF RunState
<1>4. /\ n \in Nat /\ Len(next.rows) = n + 1 /\ s.start \in Int
      /\ (s.rows # <<>> <=> n > 0)
  BY <1>3 DEF RunState
<1>5. /\ s.phase \in {"settle", "reach", "hold", "done"}
      /\ SettleTicks \in Nat /\ HoldTicks \in Nat
  BY SweepAssumption DEF RunShape, RunState
<1> DEFINE H == Holds(s.rows)
           I == Holds(next.rows)
<1>6. /\ Cardinality(H) \in Nat
      /\ row.phase # "hold" => I = H
      /\ row.phase = "hold" => I = H \cup {n + 1} /\ Cardinality(I) = Cardinality(H) + 1
  <2> HIDE DEF row
  <2>1. I = Holds(Append(s.rows, row)) /\ s.rows \in Seq(Sample) /\ row \in Sample
    BY <1>2, <1>3
  <2> HIDE DEF I
  <2> QED  BY <2>1, HoldsGrow
<1>7. /\ n = 0 => s.phase = "settle" /\ s.start = -1
      /\ s.phase = "settle" /\ n > 0 => s.start = c - n + 1 /\ n <= SettleTicks /\ k = c + 1
      /\ s.phase # "settle" => n > SettleTicks /\ k = c + 1
      /\ s.phase # "done" /\ n > 0 => s.start >= 0
      /\ \A i \in H : i > SettleTicks
      /\ s.phase \in {"settle", "reach"} => H = {}
      /\ s.phase = "hold" => Cardinality(H) <= c - s.start + 1
      /\ Cardinality(H) <= HoldTicks
  BY <1>4, <1>5 DEF RunShape
<1> DEFINE start == IF s.start < 0 THEN k ELSE s.start
<1>9. /\ s.phase = "settle" => /\ row.phase = "settle"
                               /\ \/ /\ k - start < SettleTicks
                                     /\ next.phase = "settle" /\ next.start = start
                                  \/ /\ ~ (k - start < SettleTicks)
                                     /\ next.phase \in {"reach", "hold"} /\ next.start = k
      /\ s.phase = "reach" => \/ /\ row.phase = "reach" /\ next.phase = "reach"
                                 /\ next.start = start
                              \/ row.phase = "done" /\ next.phase = "done"
                              \/ /\ row.phase = "hold" /\ next.phase = "hold"
                                 /\ next.start = k /\ 0 < HoldTicks
      /\ s.phase = "hold" => \/ row.phase = "done" /\ next.phase = "done"
                             \/ /\ row.phase = "hold" /\ next.phase = "hold"
                                /\ next.start = start /\ k - start < HoldTicks
      /\ s.phase = "done" => row.phase = "done" /\ next.phase = "done"
  BY <1>2, <1>3, ControlCases
<1>10. Cardinality({}) = 0
  BY FS_EmptySet
<1>8. k \in Nat /\ c \in Int /\ start = (IF s.start < 0 THEN k ELSE s.start)
  OBVIOUS
<1> HIDE DEF u, row, H, I, n, start
<1>11. RunShape(next, k) <=>
         /\ next.phase # "none"
         /\ n + 1 = 0 => next.phase = "settle" /\ next.start = -1
         /\ next.phase = "settle" /\ n + 1 > 0 => next.start = k - (n + 1) + 1 /\ n + 1 <= SettleTicks
         /\ next.phase # "settle" => n + 1 > SettleTicks
         /\ next.phase # "done" /\ n + 1 > 0 => next.start >= 0
         /\ \A i \in I : i > SettleTicks
         /\ next.phase \in {"settle", "reach"} => I = {}
         /\ next.phase = "hold" => Cardinality(I) <= k - next.start + 1
         /\ Cardinality(I) <= HoldTicks
  BY <1>4 DEF RunShape, I
<1>12. CASE s.phase = "settle"
  <2>1. I = {} /\ Cardinality(I) = 0
    BY <1>6, <1>7, <1>9, <1>10, <1>12
  <2>2. start = k - n /\ start >= 0
    BY ONLY <1>8, <1>4, <1>5, <1>7, <1>12
  <2>3. CASE next.phase = "settle"
    <3>1. next.start = k - n /\ n < SettleTicks
      BY ONLY <1>8, <1>4, <1>5, <1>9, <1>12, <2>2, <2>3
    <3> QED  BY ONLY <1>8, <1>4, <1>5, <1>11, <2>1, <2>2, <2>3, <3>1
  <2>4. CASE next.phase \in {"reach", "hold"}
    <3>1. next.start = k /\ ~ (n < SettleTicks)
      BY ONLY <1>8, <1>4, <1>5, <1>9, <1>12, <2>2, <2>4
    <3> QED  BY ONLY <1>8, <1>4, <1>5, <1>11, <2>1, <2>2, <2>4, <3>1
  <2> QED  BY <1>9, <1>12, <2>3, <2>4
<1>13. CASE s.phase = "reach"
  <2>1. /\ H = {} /\ Cardinality(H) = 0 /\ n > SettleTicks /\ k = c + 1
        /\ start = s.start /\ s.start >= 0
    <3>1. H = {}
      BY ONLY <1>7, <1>13
    <3>2. n > SettleTicks /\ k = c + 1 /\ s.start >= 0
      BY ONLY <1>8, <1>4, <1>5, <1>7, <1>13
    <3> QED  BY ONLY <1>8, <1>4, <1>10, <3>1, <3>2
  <2>2. CASE row.phase = "hold"
    <3>1. next.phase = "hold" /\ next.start = k /\ 0 < HoldTicks
      BY <1>9, <1>13, <2>2
    <3>2. I = {n + 1} /\ Cardinality(I) = 1
      BY <1>6, <2>1, <2>2
    <3> QED  BY ONLY <1>8, <1>4, <1>5, <1>11, <2>1, <3>1, <3>2
  <2>3. CASE row.phase # "hold"
    <3>1. next.phase = "done" \/ (next.phase = "reach" /\ next.start = s.start)
      BY <1>9, <1>13, <2>1, <2>3
    <3>2. I = {} /\ Cardinality(I) = 0
      BY <1>6, <2>1, <2>3
    <3> QED  BY ONLY <1>8, <1>4, <1>5, <1>11, <2>1, <3>1, <3>2
  <2> QED  BY <2>2, <2>3
<1>14. CASE s.phase = "hold"
  <2>1. CASE next.phase = "done"
    BY ONLY <1>8, <1>4, <1>5, <1>6, <1>7, <1>9, <1>11, <1>14, <2>1
  <2>2. CASE next.phase = "hold"
    <3>1. /\ start = s.start /\ s.start >= 0 /\ n > SettleTicks /\ k = c + 1
          /\ Cardinality(H) <= c - s.start + 1
      BY ONLY <1>8, <1>4, <1>5, <1>7, <1>14
    <3>2. /\ row.phase = "hold" /\ next.start = s.start /\ k - s.start < HoldTicks
      BY <1>9, <1>14, <2>2, <3>1
    <3>3. I = H \cup {n + 1} /\ Cardinality(I) = Cardinality(H) + 1
      BY <1>6, <3>2
    <3>4. \A i \in I : i > SettleTicks
      BY ONLY <1>8, <1>4, <1>5, <1>7, <3>1, <3>3
    <3>5. Cardinality(I) <= k - next.start + 1 /\ Cardinality(I) <= HoldTicks
      BY ONLY SMTT(30), <1>8, <1>4, <1>5, <1>6, <3>1, <3>2, <3>3
    <3> QED  BY ONLY SMTT(30), <1>8, <1>4, <1>5, <1>11, <2>2, <3>1, <3>2, <3>4, <3>5
  <2> QED  BY <1>9, <1>14, <2>1, <2>2
<1>15. CASE s.phase = "done"
  BY <1>4, <1>5, <1>6, <1>7, <1>9, <1>10, <1>11, <1>15
<1> QED  BY <1>5, <1>12, <1>13, <1>14, <1>15

Sweeping ==
  /\ HarnessInv /\ program = "run_sweeps" /\ timeouts = 0
  /\ OneTick /\ SweepCalls /\ StampsPast /\ RunInv /\ SheetInv

(* The types that the steps of the sweeps need, in one place. *)
LEMMA SweepTypes ==
  ASSUME Sweeping
  PROVE  /\ FeedInv /\ FeedTypeOK /\ SweepTyped
         /\ now \in Nat /\ episode \in Nat /\ launch \in Nat /\ pending \in Nat
         /\ commanded \in Int /\ answer.call \in Nat /\ run \in Nat \ {0} /\ stampFrom \in Int
         /\ state \in RunState /\ state.rows \in Seq(Sample) /\ state.start \in Int
         /\ Origin \in Nat \X Nat
         /\ Events \in SUBSET EventMsg /\ \A e \in Events : e.k \in Nat
         /\ \A r \in DOMAIN sheet : /\ sheet[r] \in Seq(Sample)
                                   /\ \A i \in DOMAIN sheet[r] : sheet[r][i].of \in Nat \X Nat
<1>1. FeedInv /\ FeedTypeOK /\ SweepTyped
  BY DEF Sweeping, HarnessInv, TypeInv, FeedInv
<1>2. Events \in SUBSET EventMsg
  BY <1>1, Typed
<1>3. \A e \in EventMsg : e.k \in Nat
  BY DEF EventMsg
<1>4. run \in Nat \ {0} /\ stampFrom \in Int /\ state \in RunState
  BY <1>1, SweepAssumption DEF SweepTyped, SweepTypeOK
<1>5. state.rows \in Seq(Sample) /\ state.start \in Int
  BY <1>4 DEF RunState
<1>6. \A r \in DOMAIN sheet : sheet[r] \in Seq(Sample)
  BY <1>1 DEF SweepTyped
<1>7. \A x \in Sample : x.of \in Nat \X Nat
  BY DEF Sample
<1>8. \A r \in DOMAIN sheet : \A i \in DOMAIN sheet[r] : sheet[r][i].of \in Nat \X Nat
  BY <1>6, <1>7
<1>9. answer.call \in Nat
  BY <1>1 DEF FeedTypeOK
<1> QED  BY <1>1, <1>2, <1>3, <1>4, <1>5, <1>6, <1>8, <1>9 DEF FeedTypeOK, Origin

(* The stack: one tick at a time, and one episode for every call it works on. *)
LEMMA SweepStackStep ==
  ASSUME Sweeping, StackStep, timeouts' = 0
  PROVE  OneTick' /\ SweepCalls' /\ StampsPast' /\ RunInv' /\ SheetInv'
<1>0. /\ UNCHANGED sweepVars
      /\ \/ Boot \/ Die \/ Exit \/ Announce \/ TickWorld \/ GiveUp
         \/ PassGate(program = "run_sweeps")
  <2>1. ~ TimeOutGate
    BY DEF Sweeping, TimeOutGate
  <2> QED  BY <2>1 DEF StackStep, FeedNext
<1>1. launch' = launch /\ commanded' = commanded
  BY <1>0 DEF Boot, Die, Exit, Announce, TickWorld, PassGate, GiveUp
<1>2. /\ spc' = spc /\ run' = run /\ state' = state /\ stampFrom' = stampFrom /\ sheet' = sheet
      /\ seen' = seen
  BY <1>0 DEF sweepVars
<1>3. /\ FeedInv /\ {"reset_event", "ego_odom"} \subseteq FeedTopics
  BY SweepTypes DEF FeedTopics
<1> USE <1>1, <1>2, SweepTypes
<1>4. SheetInv'
  BY DEF Sweeping, SheetInv
<1>5. ASSUME episode' = episode PROVE RunInv' /\ \A e : Before(e) => Before(e)'
  BY <1>5 DEF Sweeping, RunInv, RunRows, Origin, Before
<1>6. CASE Boot
  <2>1. FirstEvent \in EventMsg /\ FirstEvent.k = 1 /\ FirstEvent \in MsgOf("reset_event")
    BY DEF FirstEvent, EventMsg, MsgOf
  <2>2. /\ queue' = Publish(queue, "reset_event", FirstEvent)
        /\ UNCHANGED <<now, episode, gate, pending, answer>>
    BY <1>6 DEF Boot
  <2>3. queue'["ego_odom"] = queue["ego_odom"] /\ Events' \subseteq Events \cup {FirstEvent}
    BY ONLY <1>3, <2>1, <2>2, Published DEF FeedInv, Events
  <2>4. OneTick'
    BY <2>2, <2>3 DEF Sweeping, OneTick, Stamped, Origin
  <2>5. StampsPast'
    BY SMTT(30), <2>1, <2>2, <2>3 DEF Sweeping, StampsPast, OneTick
  <2>6. SweepCalls'
    BY <1>5, <2>2 DEF Sweeping, SweepCalls, Begun, Before
  <2> QED  BY <1>4, <1>5, <2>2, <2>4, <2>5, <2>6
<1>7. CASE Die \/ Exit
  <2>1. UNCHANGED <<now, episode, gate, pending, answer, queue>>
    BY <1>7 DEF Die, Exit
  <2>2. OneTick' /\ StampsPast'
    BY <2>1 DEF Sweeping, OneTick, StampsPast, Stamped, Origin, Events
  <2>3. SweepCalls'
    BY <2>1 DEF Sweeping, SweepCalls, Begun, Before
  <2> QED  BY <1>4, <1>5, <2>1, <2>2, <2>3
<1>8. CASE Announce
  <2> DEFINE e == [k |-> now + 1, episode |-> episode + 1]
  <2>1. e \in EventMsg /\ e.k = now + 1 /\ e \in MsgOf("reset_event")
    BY SMTT(30) DEF EventMsg, MsgOf
  <2>2. /\ queue' = Publish(queue, "reset_event", e) /\ UNCHANGED <<now, pending, answer>>
        /\ gate = "loop" /\ gate' = "reset" /\ episode' = episode + 1 /\ pending # 0
    BY <1>8 DEF Announce
  <2> HIDE DEF e
  <2>3. queue'["ego_odom"] = queue["ego_odom"] /\ Events' \subseteq Events \cup {e}
    BY ONLY <1>3, <2>1, <2>2, Published DEF FeedInv, Events
  <2>4. OneTick'
    BY <2>2, <2>3 DEF Sweeping, OneTick
  <2>5. StampsPast'
    BY SMTT(30), <2>1, <2>2, <2>3 DEF Sweeping, StampsPast
  <2>6. spc # "run"
    BY <2>2 DEF Sweeping, SweepCalls
  <2>7. \A r \in DOMAIN sheet : \A i \in DOMAIN sheet[r] :
          /\ sheet[r][i].of[1] = launch
          /\ sheet[r][i].of[2] < episode + 1 /\ sheet[r][i].of[2] < episode + 2
    BY SMTT(30) DEF Sweeping, SweepCalls, Before
  <2>9. SweepCalls'
    BY <2>2, <2>6, <2>7 DEF Sweeping, SweepCalls, Begun, Before
  <2> QED  BY <1>4, <2>4, <2>5, <2>6, <2>9 DEF RunInv
<1>9. CASE TickWorld
  <2> DEFINE m == Stamped(now + 1)
  <2>1. m \in MsgOf("ego_odom")
    BY PublishedTypes
  <2>2. /\ queue' = Publish(queue, "ego_odom", m) /\ UNCHANGED <<episode, pending, answer>>
        /\ gate \in {"loop", "reset"} /\ now' = now + 1
        /\ gate' = IF gate = "reset" THEN "first" ELSE "gate"
    BY <1>9 DEF TickWorld
  <2>3. queue["ego_odom"] = <<>>
    BY <2>2 DEF Sweeping, OneTick
  <2>4. queue'["ego_odom"] = <<m>> /\ Events' = Events
    BY SMTT(30), <1>3, <2>1, <2>2, <2>3, Published DEF FeedInv, Events
  <2>5. Stamped(now)' = m
    BY <2>2 DEF Stamped, Origin
  <2> HIDE DEF m
  <2>6. OneTick'
    BY SMTT(30), <2>2, <2>4, <2>5 DEF Sweeping, OneTick
  <2>7. StampsPast'
    BY SMTT(30), <2>2, <2>4 DEF Sweeping, StampsPast
  <2>8. SweepCalls'
    BY <2>2 DEF Sweeping, SweepCalls, Begun, Before
  <2> QED  BY <1>4, <1>5, <2>2, <2>6, <2>7, <2>8
<1>10. CASE PassGate(program = "run_sweeps")
  <2>1. /\ UNCHANGED <<now, episode, queue>> /\ gate \in {"gate", "first"} /\ gate' = "loop"
        /\ commanded >= now
    BY <1>10 DEF PassGate, LeaveGate, Sweeping
  <2>2. OneTick' /\ StampsPast'
    BY <2>1 DEF Sweeping, OneTick, StampsPast, Events
  <2>3. \/ /\ gate = "first" /\ pending' = 0 /\ answer'.call = pending
        \/ /\ pending' \in {0, pending} /\ answer' = answer
    BY <1>10 DEF PassGate, LeaveGate
  <2>4. SweepCalls'
    BY <2>1, <2>3 DEF Sweeping, SweepCalls, Begun, Before
  <2> QED  BY <1>4, <1>5, <2>1, <2>2, <2>4
<1>11. CASE GiveUp
  <2>1. /\ UNCHANGED <<now, episode, queue, gate>> /\ answer'.call = pending /\ ~ answer'.ok
        /\ pending' = IF gate \in {"loop", "gate"} THEN 0 ELSE pending
    BY <1>11 DEF GiveUp
  <2>2. OneTick' /\ StampsPast'
    BY <2>1 DEF Sweeping, OneTick, StampsPast, Events, Stamped, Origin
  <2>3. SweepCalls'
    BY <2>1 DEF Sweeping, SweepCalls, Begun, Before
  <2> QED  BY <1>4, <1>5, <2>1, <2>2, <2>3
<1> QED  BY <1>0, <1>6, <1>7, <1>8, <1>9, <1>10, <1>11

(* A run with rows tick by tick in good shape is a good run. *)
LEMMA GoodRunOf ==
  ASSUME Sweeping, spc = "run"
  PROVE  GoodRun(state.rows)
<1> DEFINE rs == state.rows
<1>1. rs \in Seq(Sample) /\ Len(rs) \in Nat /\ DOMAIN rs = 1 .. Len(rs) /\ commanded \in Int
  BY SweepTypes
<1>2. /\ \A i \in 1 .. Len(rs) : rs[i].of = Origin /\ rs[i].k = commanded - Len(rs) + i
      /\ \A i \in Holds(rs) : i > SettleTicks
      /\ Cardinality(Holds(rs)) <= HoldTicks
  BY DEF Sweeping, RunInv, RunShape, RunRows
<1> HIDE DEF rs
<1>3. \A i \in 1 .. Len(rs) - 1 : rs[i + 1].k = rs[i].k + 1
  BY <1>1, <1>2
<1>4. \A i, j \in DOMAIN rs : rs[i].of = rs[j].of
  BY <1>1, <1>2
<1>5. ASSUME NEW i \in DOMAIN rs, rs[i].phase = "hold"
      PROVE  i > SettleTicks /\ Cardinality({j \in 1 .. i : rs[j].phase = "hold"}) <= HoldTicks
  <2>1. i \in Holds(rs)
    BY <1>1, <1>5 DEF Holds
  <2> DEFINE T == {j \in 1 .. i : rs[j].phase = "hold"}
  <2>2. T \subseteq Holds(rs)
    BY <1>1 DEF Holds
  <2>3. IsFiniteSet(Holds(rs)) /\ Cardinality(Holds(rs)) \in Nat
    <3>1. IsFiniteSet(1 .. Len(rs)) /\ Holds(rs) \subseteq 1 .. Len(rs)
      BY <1>1, IntervalCard DEF Holds
    <3> QED  BY <3>1, FS_Subset, FS_CardinalityType
  <2> HIDE DEF T
  <2>4. Cardinality(T) <= Cardinality(Holds(rs)) /\ Cardinality(T) \in Nat
    BY <2>2, <2>3, FS_Subset, FS_CardinalityType
  <2> QED  BY <1>2, <2>1, <2>3, <2>4, SweepAssumption DEF T
<1> QED  BY <1>3, <1>4, <1>5 DEF GoodRun, rs

(* The next run starts from nothing, and what the last one recorded is kept. *)
LEMMA NextRunStep ==
  ASSUME Sweeping, NEW rs, NextRun(rs),
         rs = <<>> \/ (spc = "run" /\ rs = state.rows),
         UNCHANGED <<now, episode, gate, queue, commanded, launch, stampFrom, seen, pending>>,
         answer'.call \in 0 .. run
  PROVE  OneTick' /\ SweepCalls' /\ StampsPast' /\ RunInv' /\ SheetInv'
<1> USE SweepTypes
<1>1. OneTick' /\ StampsPast'
  BY DEF Sweeping, OneTick, StampsPast, Stamped, Origin, Events
<1>2. RunInv'
  BY DEF NextRun, RunInv
<1>3. /\ sheet' = Append(sheet, rs) /\ sheet \in Seq(Seq(Sample))
      /\ rs \in Seq(Sample) /\ DOMAIN rs = 1 .. Len(rs)
  <2>1. sheet' = Append(sheet, rs) /\ sheet \in Seq(Seq(Sample))
    BY DEF NextRun, SweepTyped
  <2>2. rs \in Seq(Sample)
    <3>1. <<>> \in Seq(Sample) /\ state.rows \in Seq(Sample)
      OBVIOUS
    <3> QED  BY ONLY <3>1, rs = <<>> \/ (spc = "run" /\ rs = state.rows)
  <2> QED  BY ONLY <2>1, <2>2
<1>4. /\ Len(sheet) \in Nat /\ DOMAIN sheet = 1 .. Len(sheet)
      /\ DOMAIN sheet' = 1 .. Len(sheet) + 1 /\ sheet'[Len(sheet) + 1] = rs
      /\ \A r \in 1 .. Len(sheet) : sheet'[r] = sheet[r]
  BY ONLY <1>3
<1>5. \A i \in DOMAIN rs : rs[i].of = Origin /\ spc = "run"
  <2>1. CASE rs = <<>>
    BY <2>1
  <2>2. CASE spc = "run" /\ rs = state.rows
    BY <1>3, <2>2 DEF Sweeping, RunInv, RunRows
  <2> QED  BY <2>1, <2>2
<1>6. Origin[1] = launch /\ Origin[2] = episode
  BY DEF Origin
<1>7. \A r \in DOMAIN sheet' : \A i \in DOMAIN sheet'[r] :
        sheet'[r][i].of[1] = launch /\ sheet'[r][i].of[2] < episode + 1
  <2>1. \A r \in DOMAIN sheet : \A i \in DOMAIN sheet[r] :
          sheet[r][i].of[1] = launch /\ sheet[r][i].of[2] < episode + 1
    BY DEF Sweeping, SweepCalls, Before
  <2>2. \A i \in DOMAIN rs : rs[i].of[1] = launch /\ rs[i].of[2] < episode + 1
    <3>1. episode < episode + 1
      OBVIOUS
    <3> QED  BY ONLY <1>5, <1>6, <3>1
  <2>3. \A r \in DOMAIN sheet' : (r \in DOMAIN sheet /\ sheet'[r] = sheet[r]) \/ sheet'[r] = rs
    BY ONLY <1>4
  <2> QED  BY ONLY <2>1, <2>2, <2>3
<1>8. SweepCalls'
  <2>1. /\ spc' = "service" /\ run' = run + 1 /\ state' = NoRun
        /\ pending' <= run /\ answer'.call <= run
    BY SMTT(30) DEF NextRun, Sweeping, SweepCalls
  <2>2. ~ Begun'
    BY SMTT(30), <2>1, SweepTypes DEF Begun
  <2>3. (gate' \in {"reset", "first"} => pending' # 0) /\ ~ (answer'.call = run')
    BY SMTT(30), <2>1 DEF Sweeping, SweepCalls
  <2>4. episode' = episode /\ launch' = launch /\ pending' \in Nat /\ answer'.call # run'
    BY <2>1
  <2>5. pending' <= run' /\ answer'.call <= run' /\ pending' < run' /\ answer'.call < run'
    BY SMTT(30), <2>1
  <2> QED  BY ONLY <1>7, <2>1, <2>2, <2>3, <2>4, <2>5 DEF SweepCalls, Before
<1>9. SheetInv'
  <2>1. GoodRun(rs)
    <3>1. CASE rs = <<>>
      BY <3>1 DEF GoodRun
    <3>2. CASE spc = "run" /\ rs = state.rows
      BY <3>2, GoodRunOf
    <3> QED  BY <3>1, <3>2
  <2>2. \A r \in DOMAIN sheet' : GoodRun(sheet'[r])
    BY SMTT(30), <1>4, <2>1 DEF Sweeping, SheetInv
  <2>3. ASSUME NEW r \in 1 .. Len(sheet), NEW i \in DOMAIN sheet[r], NEW j \in DOMAIN rs
        PROVE  sheet[r][i].of # rs[j].of
    <3>1. sheet[r][i].of[2] < episode
      BY <1>4, <1>5, <2>3 DEF Sweeping, SweepCalls, Begun, Before
    <3>2. ~ (episode < episode)
      OBVIOUS
    <3> QED  BY ONLY <1>5, <1>6, <2>3, <3>1, <3>2
  <2>4. \A q, r \in DOMAIN sheet' : \A i \in DOMAIN sheet'[q], j \in DOMAIN sheet'[r] :
          sheet'[q][i].of = sheet'[r][j].of => q = r
    <3> SUFFICES ASSUME NEW q \in DOMAIN sheet', NEW r \in DOMAIN sheet',
                        NEW i \in DOMAIN sheet'[q], NEW j \in DOMAIN sheet'[r],
                        sheet'[q][i].of = sheet'[r][j].of, q # r
                 PROVE  FALSE
      OBVIOUS
    <3>1. CASE q \in 1 .. Len(sheet) /\ r \in 1 .. Len(sheet)
      <4>1. \A a, b \in DOMAIN sheet : \A k \in DOMAIN sheet[a], l \in DOMAIN sheet[b] :
              sheet[a][k].of = sheet[b][l].of => a = b
        BY DEF Sweeping, SheetInv
      <4> QED  BY ONLY <1>4, <3>1, <4>1, sheet'[q][i].of = sheet'[r][j].of, q # r,
                   i \in DOMAIN sheet'[q], j \in DOMAIN sheet'[r]
    <3>2. CASE q \in 1 .. Len(sheet) /\ r = Len(sheet) + 1
      BY <1>4, <2>3, <3>2
    <3>3. CASE q = Len(sheet) + 1 /\ r \in 1 .. Len(sheet)
      BY SMTT(30), <1>4, <2>3, <3>3
    <3> QED  BY SMTT(30), <1>4, <3>1, <3>2, <3>3
  <2> QED  BY <2>2, <2>4 DEF SheetInv
<1> QED  BY <1>1, <1>2, <1>8, <1>9

(* The driver of the sweeps. *)
LEMMA SweepDriverStep ==
  ASSUME Sweeping, SweepWork
  PROVE  OneTick' /\ SweepCalls' /\ StampsPast' /\ RunInv' /\ SheetInv'
<1> USE SweepTypes
<1>0. UNCHANGED <<now, episode, gate, queue, commanded, launch, stampFrom>> /\ (seen' => seen)
  BY DEF SweepWork, SweepCall, SweepRefused, SweepResetOk, SweepEnd, SweepFinish,
         Call, Forget, feedVars
<1>1. OneTick' /\ StampsPast'
  BY <1>0 DEF Sweeping, OneTick, StampsPast, Stamped, Origin, Events
<1>2. CASE SweepCall
  <2>1. /\ spc = "service" /\ spc' = "response" /\ run' = run /\ state' = state /\ sheet' = sheet
        /\ pending' \in {pending, run} /\ (pending # 0 => pending' = pending)
        /\ \/ answer' = answer
           \/ ~ answer'.ok /\ answer'.call = run
    BY <1>2 DEF SweepCall, Call
  <2>2. SweepCalls'
    BY <1>0, <2>1 DEF Sweeping, SweepCalls, Begun, Before
  <2>3. RunInv' /\ SheetInv'
    BY <2>1 DEF Sweeping, RunInv, SheetInv
  <2> QED  BY <1>1, <2>2, <2>3
<1>3. CASE SweepRefused
  <2>1. NextRun(<<>>) /\ pending' = pending /\ answer'.call = 0 /\ seen' = seen
    BY <1>3 DEF SweepRefused, Forget, NoAnswer
  <2>2. answer'.call \in 0 .. run
    BY <2>1
  <2> QED  BY <1>0, <2>1, <2>2, NextRunStep
<1>4. CASE SweepResetOk
  <2>1. /\ answer.call = run /\ answer.ok /\ spc' = "run" /\ state' = StartOf
        /\ run' = run /\ sheet' = sheet /\ pending' = pending
        /\ answer'.call = 0 /\ ~ answer'.ok
    BY <1>4 DEF SweepResetOk, Forget, NoAnswer
  <2>2. SweepCalls'
    BY <1>0, <2>1 DEF Sweeping, SweepCalls, Begun, Before
  <2>3. state'.rows = <<>> /\ state'.phase = "settle" /\ state'.start = -1
    BY <2>1 DEF StartOf, NoRun
  <2>4. RunInv'
    <3>1. Holds(state'.rows) = {} /\ Cardinality(Holds(state'.rows)) = 0
      BY <2>3, FS_EmptySet DEF Holds
    <3> QED  BY SMTT(30), <2>3, <3>1, SweepAssumption DEF RunInv, RunShape, RunRows
  <2>5. SheetInv'
    BY <2>1 DEF Sweeping, SheetInv
  <2> QED  BY <1>1, <2>2, <2>4, <2>5
<1>5. CASE SweepEnd
  <2>1. /\ NextRun(state.rows) /\ spc = "run" /\ seen' = seen
        /\ pending' = pending /\ answer' = answer
    BY <1>5 DEF SweepEnd, feedVars
  <2>2. answer'.call \in 0 .. run
    BY <2>1 DEF Sweeping, SweepCalls
  <2> QED  BY <1>0, <2>1, <2>2, NextRunStep
<1>6. CASE SweepFinish
  <2>1. /\ spc = "service" /\ spc' = "exit"
        /\ UNCHANGED <<run, state, sheet, pending, answer>>
    BY <1>6 DEF SweepFinish, feedVars
  <2>2. SweepCalls'
    BY <1>0, <2>1 DEF Sweeping, SweepCalls, Begun, Before
  <2>3. RunInv' /\ SheetInv'
    BY <2>1 DEF Sweeping, RunInv, SheetInv
  <2> QED  BY <1>1, <2>2, <2>3
<1> QED  BY <1>2, <1>3, <1>4, <1>5, <1>6 DEF SweepWork

(* A callback that is no odometry changes neither the rows nor the ticks. *)
LEMMA SweepEventStep ==
  ASSUME Sweeping, OnEvent \/ OnTimeout
  PROVE  OneTick' /\ SweepCalls' /\ StampsPast' /\ RunInv' /\ SheetInv'
<1> USE SweepTypes
<1>0. /\ UNCHANGED <<now, episode, gate, pending, answer, launch, commanded, spc, run, state, sheet>>
      /\ \E t \in {"reset_event", "tick_timeout"} : Handle(t)
      /\ {"reset_event", "tick_timeout", "ego_odom"} \subseteq FeedTopics
  BY DEF OnEvent, OnTimeout, Handle, FeedTopics
<1>1. PICK t \in {"reset_event", "tick_timeout"} : Handle(t)
  BY <1>0
<1>2. queue'["ego_odom"] = queue["ego_odom"] /\ Events' \subseteq Events
  BY <1>0, <1>1, Handled DEF Events
<1>3. OneTick'
  BY <1>0, <1>2 DEF Sweeping, OneTick, Stamped, Origin
<1>4. stampFrom' = stampFrom \/ (\E e \in Events : stampFrom' = e.k)
  <2>1. CASE OnTimeout
    BY <2>1 DEF OnTimeout
  <2>2. CASE OnEvent
    <3>1. Head(queue["reset_event"]) \in Events
      BY <1>0, <2>2, Handled DEF OnEvent, Events
    <3> QED  BY <2>2, <3>1 DEF OnEvent
  <2> QED  BY <2>1, <2>2
<1>5. StampsPast'
  <2>1. seen' => seen
    BY DEF OnEvent, OnTimeout
  <2> QED  BY SMTT(30), <1>0, <1>2, <1>4, <2>1 DEF Sweeping, StampsPast
<1>6. SweepCalls' /\ SheetInv'
  BY <1>0 DEF Sweeping, SweepCalls, Begun, Before, SheetInv
<1>7. RunInv'
  <2>1. state.rows # <<>> /\ spc = "run" => stampFrom' >= 0
    BY <1>4 DEF Sweeping, RunInv
  <2> QED  BY <1>0, <2>1 DEF Sweeping, RunInv, RunRows, Origin
<1> QED  BY <1>3, <1>5, <1>6, <1>7

(* The odometry of a tick: it is the last tick, it is answered, and, once the *)
(* first one of the episode has been seen, it becomes the next row.           *)
LEMMA SweepOdomStep ==
  ASSUME Sweeping, OnEgoOdom
  PROVE  OneTick' /\ SweepCalls' /\ StampsPast' /\ RunInv' /\ SheetInv'
<1> USE SweepTypes
<1> DEFINE msg == Head(queue["ego_odom"])
           now_seen == seen \/ (stampFrom >= 0 /\ msg.k >= stampFrom)
<1>0. /\ Handle("ego_odom") /\ {"ego_odom", "reset_event"} \subseteq FeedTopics
      /\ UNCHANGED <<now, episode, gate, pending, answer, launch, spc, run, sheet, stampFrom>>
  BY DEF OnEgoOdom, Handle, FeedTopics
<1>1. /\ gate \in {"gate", "first"} /\ now > 0 /\ queue["ego_odom"] = <<Stamped(now)>>
      /\ commanded = now - 1 \/ (commanded = -1 /\ now = 1)
  <2>1. queue["ego_odom"] # <<>> /\ gate \in {"loop", "reset", "gate", "first"}
    BY <1>0 DEF Handle, FeedTypeOK
  <2> QED  BY <2>1 DEF Sweeping, OneTick
<1>2. msg = Stamped(now) /\ msg.k = now /\ msg.of = Origin
  BY <1>1 DEF Stamped
<1>3. queue'["ego_odom"] = <<>> /\ Events' \subseteq Events
  <2>1. Tail(<<Stamped(now)>>) = <<>>
    OBVIOUS
  <2> QED  BY <1>0, <1>1, <2>1, Handled DEF Events
<1>4. commanded' = now
  BY <1>1, <1>2 DEF OnEgoOdom
<1>5. OneTick'
  BY <1>0, <1>1, <1>3, <1>4 DEF Sweeping, OneTick
<1>6. StampsPast'
  <2>1. seen' => seen \/ stampFrom >= 0
    BY DEF OnEgoOdom
  <2> QED  BY <1>0, <1>3, <2>1 DEF Sweeping, StampsPast
<1>7. SheetInv'
  BY <1>0 DEF Sweeping, SheetInv
<1>8. SweepCalls'
  <2>1. state = NoRun => state' = NoRun
    BY DEF OnEgoOdom
  <2> QED  BY <1>0, <2>1 DEF Sweeping, SweepCalls, Begun, Before
<1>9. RunInv'
  <2> SUFFICES ASSUME spc = "run"
               PROVE  /\ RunShape(state', now)
                      /\ \A i \in 1 .. Len(state'.rows) :
                           /\ state'.rows[i].of = Origin
                           /\ state'.rows[i].k = now - Len(state'.rows) + i
                      /\ state'.rows # <<>> => stampFrom >= 0
    BY <1>0, <1>4 DEF RunInv, RunRows, Origin
  <2>0. /\ RunShape(state, commanded) /\ RunRows(state.rows, commanded)
        /\ state.rows # <<>> => stampFrom >= 0
        /\ state # NoRun /\ (seen => stampFrom >= 0) /\ stampFrom <= now
    <3>1. RunInv /\ StampsPast
      BY DEF Sweeping
    <3>2. RunShape(state, commanded) => state.phase # "none"
      BY DEF RunShape
    <3> QED  BY <1>1, <3>1, <3>2 DEF RunInv, StampsPast, NoRun
  <2> DEFINE rs == state.rows
  <2>1. Len(rs) \in Nat /\ (rs # <<>> <=> Len(rs) > 0)
    BY SMTT(30)
  <2>2. rs # <<>> => commanded = now - 1
    <3> SUFFICES ASSUME rs # <<>>, commanded = -1 PROVE FALSE
      BY <1>1
    <3>1. rs[1].k = -1 - Len(rs) + 1
      <4>1. \A i \in 1 .. Len(rs) : rs[i].k = commanded - Len(rs) + i
        BY ONLY <2>0 DEF RunRows
      <4>2. 1 \in 1 .. Len(rs)
        BY ONLY <2>1, rs # <<>>
      <4> QED  BY ONLY <4>1, <4>2, commanded = -1
    <3>2. rs[1] \in Sample
      BY <2>1
    <3>3. rs[1].k \in Nat
      BY <3>2 DEF Sample
    <3> QED  BY <2>1, <3>1, <3>3
  <2>3. CASE ~ now_seen
    <3>1. state' = state /\ rs = <<>>
      BY <1>2, <2>0, <2>3 DEF OnEgoOdom
    <3>2. Len(rs) = 0 /\ Holds(rs) = {}
      BY <3>1 DEF Holds
    <3>3. RunShape(state, now)
      <4>1. state.phase = "settle"
        BY ONLY <2>0, <3>2 DEF RunShape
      <4> QED  BY ONLY <2>0, <3>2, <4>1 DEF RunShape
    <3> QED  BY ONLY <3>1, <3>2, <3>3
  <2>4. CASE now_seen
    <3>1. PICK driven \in BOOLEAN :
            state' = [Control(state, msg.k, driven).to EXCEPT !.rows =
                        Append(Control(state, msg.k, driven).to.rows,
                          [k |-> msg.k, of |-> msg.of,
                           phase |-> Control(state, msg.k, driven).row])]
      BY <2>0, <2>4 DEF OnEgoOdom
    <3>2. RunShape(state', now)
      <4>1. /\ state \in RunState /\ commanded \in Int /\ now \in Nat /\ Origin \in Nat \X Nat
            /\ (state.rows # <<>> => now = commanded + 1)
        BY <2>2
      <4>2. state' = [Control(state, now, driven).to EXCEPT !.rows =
                        Append(Control(state, now, driven).to.rows,
                          [k |-> now, of |-> Origin,
                           phase |-> Control(state, now, driven).row])]
        BY <1>2, <3>1
      <4> QED  BY ONLY <2>0, <4>1, <4>2, driven \in BOOLEAN, ShapeGrows
    <3> DEFINE row == [k |-> now, of |-> Origin, phase |-> Control(state, now, driven).row]
    <3>3. state'.rows = Append(rs, row) /\ row \in Sample
      <4>1. /\ Control(state, now, driven).to \in RunState
            /\ Control(state, now, driven).to.rows = rs
            /\ Control(state, now, driven).row \in Phases
        BY ControlType
      <4>2. row \in Sample
        BY <4>1 DEF Sample, Phases
      <4> QED  BY <1>2, <3>1, <4>1, <4>2 DEF RunState
    <3>4. row.k = now /\ row.of = Origin
      OBVIOUS
    <3> HIDE DEF row
    <3>5. \A i \in 1 .. Len(state'.rows) :
            state'.rows[i].of = Origin /\ state'.rows[i].k = now - Len(state'.rows) + i
      <4>1. /\ Len(state'.rows) = Len(rs) + 1 /\ state'.rows[Len(rs) + 1] = row
            /\ \A i \in 1 .. Len(rs) : state'.rows[i] = rs[i]
        BY <3>3
      <4>2. \A i \in 1 .. Len(rs) : rs[i].of = Origin /\ rs[i].k = now - 1 - Len(rs) + i
        <5> SUFFICES ASSUME NEW i \in 1 .. Len(rs)
                     PROVE  rs[i].of = Origin /\ rs[i].k = now - 1 - Len(rs) + i
          OBVIOUS
        <5>1. commanded = now - 1
          BY <2>1, <2>2
        <5> QED  BY ONLY <2>0, <5>1, i \in 1 .. Len(rs) DEF RunRows
      <4>3. now \in Nat
        OBVIOUS
      <4>4. \A i \in 1 .. Len(state'.rows) : i \in 1 .. Len(rs) \/ i = Len(rs) + 1
        BY ONLY <2>1, <4>1
      <4>5. \A i \in 1 .. Len(rs) : /\ state'.rows[i].of = Origin
                                    /\ state'.rows[i].k = now - Len(state'.rows) + i
        <5>1. \A i \in 1 .. Len(rs) : now - 1 - Len(rs) + i = now - (Len(rs) + 1) + i
          BY ONLY <2>1, <4>3
        <5> QED  BY ONLY <4>1, <4>2, <5>1
      <4>6. now - (Len(rs) + 1) + (Len(rs) + 1) = now
        <5>1. \A a, b \in Nat : a - (b + 1) + (b + 1) = a
          OBVIOUS
        <5> QED  BY ONLY <2>1, <4>3, <5>1
      <4> QED  BY ONLY <3>4, <4>1, <4>4, <4>5, <4>6
    <3>6. stampFrom >= 0
      BY ONLY <2>0, <2>4
    <3> QED  BY ONLY <3>2, <3>5, <3>6
  <2> QED  BY <2>3, <2>4
<1> QED  BY <1>5, <1>6, <1>7, <1>8, <1>9

(* ---- the invariant of the sweeps ------------------------------------------- *)

(* The driver starts at run 1, with an empty sheet and no call made. *)
LEMMA SweepInvInit == Init => SweepInv
<1> SUFFICES ASSUME Init, program = "run_sweeps"
             PROVE  OneTick /\ SweepCalls /\ StampsPast /\ RunInv /\ SheetInv
  BY DEF SweepInv
<1>1. /\ now = 0 /\ episode = 0 /\ gate = "loop" /\ commanded = -1 /\ pending = 0
      /\ answer = NoAnswer /\ spc = "service" /\ run = 1 /\ state = NoRun /\ stampFrom = -1
      /\ seen = FALSE /\ sheet = <<>>
  BY DEF Init, FeedInit, SweepInit
<1>2. queue["ego_odom"] = <<>> /\ queue["reset_event"] = <<FirstEvent>>
  BY DEF Init, FeedInit, FeedTopics
<1>3. \A e \in Events : e.k = 1
  BY <1>2 DEF Events, Msgs, FirstEvent
<1>4. OneTick /\ StampsPast /\ RunInv
  BY <1>1, <1>2, <1>3 DEF OneTick, StampsPast, RunInv
<1>5. SweepCalls
  BY <1>1 DEF SweepCalls, Begun, Before, NoAnswer
<1>6. SheetInv
  BY <1>1 DEF SheetInv
<1> QED  BY <1>4, <1>5, <1>6

(* While no gate has timed out, every step of stack and driver keeps it. *)
LEMMA SweepInvStep == HarnessInv /\ SweepInv /\ [Next]_toolVars => SweepInv'
<1> SUFFICES ASSUME HarnessInv, SweepInv, [Next]_toolVars, program' = "run_sweeps", timeouts' = 0
             PROVE  OneTick' /\ SweepCalls' /\ StampsPast' /\ RunInv' /\ SheetInv'
  BY DEF SweepInv
<1>0. program = "run_sweeps"
  BY DEF Next, StackStep, RoutesStep, SweepsStep, toolVars
<1>1. timeouts = 0
  <2>1. timeouts \in Nat
    BY FeedAssumption DEF HarnessInv, TypeInv, FeedInv, FeedTypeOK
  <2>2. timeouts' \in {timeouts, timeouts + 1}
    BY <1>0 DEF Next, StackStep, RoutesStep, SweepsStep, toolVars, feedVars,
                FeedNext, Boot, Die, Exit,
         Announce, TickWorld, PassGate, TimeOutGate, GiveUp, SweepNext, SweepWork,
         SweepCall,
         SweepRefused, SweepResetOk, SweepEnd, SweepFinish, OnEvent, OnTimeout,
         OnEgoOdom,
         Call, Forget, Handle
  <2> QED  BY <2>1, <2>2
<1>2. Sweeping
  BY <1>0, <1>1 DEF Sweeping, SweepInv
<1>3. CASE UNCHANGED toolVars
  BY <1>2, <1>3 DEF Sweeping, OneTick, SweepCalls, Begun, Before, StampsPast, RunInv,
                    RunRows, SheetInv,
       Events, Stamped, Origin, toolVars, feedVars, sweepVars
<1>4. CASE StackStep
  BY <1>2, <1>4, SweepStackStep
<1>5. CASE SweepNext
  BY <1>2, <1>5, SweepDriverStep, SweepEventStep, SweepOdomStep DEF SweepNext
<1> QED  BY <1>0, <1>3, <1>4, <1>5 DEF Next, RoutesStep, SweepsStep

(* Unless a gate timed out, the rows that the fits differentiate are consecutive *)
(* ticks of one episode, held no longer than asked for and after the settling,   *)
(* and no two runs share an episode: for any number of runs, any durations, and   *)
(* resets that are refused, late or given up on.                                  *)
THEOREM SweepsClean == Spec => []CleanSweep
<1>1. HarnessInv /\ SweepInv => CleanSweep
  <2> SUFFICES ASSUME HarnessInv, SweepInv, timeouts = 0
               PROVE  SheetInv /\ GoodRun(state.rows)
    BY DEF CleanSweep, SheetInv
  <2>1. CASE program = "run_sweeps"
    <3>1. Sweeping
      BY <2>1 DEF Sweeping, SweepInv
    <3>2. spc # "run" => state.rows = <<>>
      BY <3>1 DEF Sweeping, SweepCalls, NoRun
    <3>3. GoodRun(<<>>)
      BY DEF GoodRun
    <3> QED  BY <3>1, <3>2, <3>3, GoodRunOf DEF Sweeping
  <2>2. CASE program = "run_routes"
    <3>1. state.rows = <<>> /\ sheet = <<>>
      BY <2>2 DEF HarnessInv, ProgramInv, NoRun
    <3> QED  BY <3>1 DEF GoodRun, SheetInv
  <2> QED  BY <2>1, <2>2, ProgramsAssumption DEF HarnessInv, TypeInv
<1> QED  BY <1>1, HarnessInvHolds, SweepInvInit, SweepInvStep, PTL DEF Spec
===============================================================================
