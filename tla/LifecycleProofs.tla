---------------------------- MODULE LifecycleProofs ----------------------------
(***************************************************************************)
(* What holds of the server and the map directory for every set of worlds  *)
(* and names, every size of the rig and any number of launches, whichever  *)
(* of their calls raise and wherever they are interrupted or killed.       *)
(***************************************************************************)
EXTENDS WorldLifecycle, FiniteSetTheorems, TLAPS

BeforeHero == {"load", "export", "write", "sync", "tm", "hero"}

(* Where the launch is, or was when it ended. *)
Place == IF pc \in SetUp \cup {"run"} THEN pc ELSE end.at

(* Its actors that no clean-up will destroy, or has tried to. *)
Unkept == Spawned \ (kept \cup stuck)

(* ActorsLeft holds of the unkept actors at every place, before the clean-up as *)
(* after it, which leaves them what they are.                                    *)
UnkeptInv ==
  /\ Actor(0) \notin Unkept
  /\ Place = "run" \/ (Stack /\ Place # "enable") => Unkept = {}
  /\ Stack => \E x \in Unkept \cup {Actor(0)} : Unkept \subseteq {x}

(* ActorsLeft is not inductive: it needs where the actors of the running launch *)
(* are, that the smoke test gets the whole list at the end of the spawning, and *)
(* that a clean-up to its end has tried every actor that was kept.               *)
ActorInv ==
  /\ IsFiniteSet(actors)
  /\ pc # "off" => launch \in 1 .. MaxLaunch
  /\ \A a \in actors : a.by \in 1 .. launch
  /\ kept \subseteq Spawned /\ kept \cap stuck = {}
  /\ pc \in BeforeHero => Spawned = {}
  /\ pc \in {"rig", "spawn", "enable"} => Actor(0) \in Spawned
  /\ ~ Stack /\ pc = "spawn" /\ Cardinality(Spawned) > Sensors => Spawned \subseteq kept
  /\ pc = "restore" \/ (pc = "off" /\ CleanedUp) => kept = {}
  /\ pc # "off" \/ CleanedUp => UnkeptInv

(* What a program knows of its end. *)
EndInv ==
  /\ pc \in SetUp \cup {"run"} => end = NotEnded /\ stuck = {} /\ ~ unrestored
  /\ pc = "clean" => end.how = "raised" /\ Excepted(program, end.at)
  /\ pc \in {"destroy", "restore"} => end.how # "cut" /\ Tried(program, end.at)

(* GraphMatchesTown needs that every finished file has the geometry of a world  *)
(* that is exported there, and what the world that is loaded passes for.        *)
GraphInv ==
  /\ \A n \in Names : files[n] \in Worlds => files[n] \in Exports(n)
  /\ graph # NoWorld => Stack /\ graph \in Exports(Stem[asked])
  /\ Stack /\ pc \notin {"off", "load"} => loaded = Opens[asked] \/ Reused(asked, loaded)
  /\ pc \in {"export", "write", "rig", "gt", "endpoints"} => Stack

LifecycleInv == TypeOK /\ ActorInv /\ EndInv /\ FrozenServer /\ GraphInv

(* The first launch finds a server that nobody has used. *)
LEMMA LifecycleInit == Init => LifecycleInv
<1> SUFFICES ASSUME Init PROVE LifecycleInv
  OBVIOUS
<1>1. TypeOK
  <2>1. files \in [Names -> Worlds \cup {NoWorld, Torn}]
    BY DEF Init
  <2>2. launch \in 0 .. MaxLaunch
    BY LifecycleAssumption DEF Init
  <2>3. end \in [how : {"open", "returned", "raised", "other", "interrupted", "cut"},
                 at  : SetUp \cup {"off", "run"}]
    BY DEF Init, NotEnded
  <2> QED  BY <2>1, <2>2, <2>3 DEF Init, TypeOK
<1>2. ActorInv
  <2>1. pc = "off" /\ ~ CleanedUp /\ actors = {} /\ kept = {}
    BY DEF Init, CleanedUp, TornDown, Tried, Excepted, NotEnded
  <2> QED  BY <2>1, FS_EmptySet DEF ActorInv, BeforeHero, Spawned
<1>3. EndInv
  BY DEF Init, EndInv, SetUp
<1>4. FrozenServer
  BY DEF Init, FrozenServer
<1>5. GraphInv
  <2>1. \A n \in Names : files[n] = NoWorld
    BY DEF Init
  <2> QED  BY <2>1, LifecycleAssumption DEF Init, GraphInv
<1> QED  BY <1>1, <1>2, <1>3, <1>4, <1>5 DEF LifecycleInv

(* The directory of an export and the one that map_server polls have names. *)
LEMMA NameType ==
  /\ \A a \in Asks, w \in Worlds : Directory(a, w) \in Names
  /\ \A a \in Asks : Stem[a] \in Names
BY DEF Names, Directory

(* An actor of the running launch is one of the server's possible actors. *)
LEMMA ActorType ==
  ASSUME launch \in 1 .. MaxLaunch, NEW n \in 0 .. Sensors
  PROVE  Actor(n) \in [by : 1 .. MaxLaunch, number : 0 .. Sensors]
BY DEF Actor

(* The actors of a launch are numbered. *)
LEMMA SpawnedSize ==
  ASSUME IsFiniteSet(actors)
  PROVE  Cardinality(Spawned) \in Nat /\ (Spawned # {} => Cardinality(Spawned) # 0)
<1>1. IsFiniteSet(Spawned)
  BY FS_Subset DEF Spawned
<1> QED  BY <1>1, FS_CardinalityType, FS_EmptySet

(* Every step keeps the types. *)
LEMMA LifecycleTypeStep == LifecycleInv /\ Next => TypeOK'
<1> SUFFICES ASSUME LifecycleInv, Next PROVE TypeOK'
  OBVIOUS
<1>1. /\ TypeOK /\ (pc # "off" => launch \in 1 .. MaxLaunch)
      /\ (pc \in BeforeHero => kept = {} /\ stuck = {}) /\ IsFiniteSet(actors)
      /\ kept \cap stuck = {}
  BY DEF LifecycleInv, ActorInv, EndInv, BeforeHero, SetUp
<1> USE <1>1 DEF TypeOK, SetUp, Goto, serverVars, historyVars
<1>2. ASSUME NEW p \in {"world_manager", "check_native_ros2"}, NEW a \in Asks, Start(p, a)
      PROVE  TypeOK'
  <2>1. /\ program' = p /\ asked' = a /\ launch' = launch + 1 /\ launch < MaxLaunch
        /\ kept' = {} /\ stuck' = {} /\ unrestored' = FALSE /\ graph' = NoWorld
        /\ end' = NotEnded /\ pc' = "load" /\ UNCHANGED <<loaded, sync, actors, files>>
    BY <1>2 DEF Start
  <2>2. launch' \in 0 .. MaxLaunch
    BY <2>1, LifecycleAssumption
  <2>3. end' \in [how : {"open", "returned", "raised", "other", "interrupted", "cut"},
                  at  : SetUp \cup {"off", "run"}]
    BY <2>1 DEF NotEnded
  <2> QED  BY <2>1, <2>2, <2>3
<1>3. CASE Load
  <2>1. Opens[asked] \in Worlds
    BY LifecycleAssumption
  <2>2. loaded' \in Worlds /\ sync' \in BOOLEAN /\ actors' \in {actors, {}}
    BY <1>3, <2>1 DEF Load
  <2> QED  BY <1>3, <2>2 DEF Load, BeforeHero
<1>4. CASE Export
  BY <1>4, NameType DEF Export
<1>5. CASE Write
  BY <1>5, NameType DEF Write
<1>6. CASE SetSync
  BY <1>6 DEF SetSync
<1>7. CASE SetTrafficManager
  BY <1>7 DEF SetTrafficManager
<1>8. CASE SpawnHero
  BY <1>8, ActorType, LifecycleAssumption DEF SpawnHero
<1>9. CASE SpawnSensor
  <2>1. Cardinality(Spawned) \in 0 .. Sensors
    BY <1>9, SpawnedSize, LifecycleAssumption DEF SpawnSensor
  <2> QED  BY <1>9, <2>1, ActorType DEF SpawnSensor
<1>10. CASE EnableSensor
  BY <1>10 DEF EnableSensor, Spawned
<1>11. CASE RigComplete \/ Constructed \/ Finish
  BY <1>11 DEF RigComplete, Constructed, Finish
<1>12. ASSUME NEW how \in {"raised", "other"}, Raise(how)
       PROVE  TypeOK'
  BY <1>12 DEF Raise
<1>13. CASE Interrupt \/ Kill
  BY <1>13 DEF Interrupt, Kill
<1>14. CASE DestroyNext
  BY <1>14 DEF DestroyNext
<1>15. CASE Destroyed \/ Restore
  BY <1>15 DEF Destroyed, Restore
<1>16. CASE Poll
  BY <1>16 DEF Poll
<1> QED
  BY <1>2, <1>3, <1>4, <1>5, <1>6, <1>7, <1>8, <1>9, <1>10, <1>11, <1>12, <1>13, <1>14, <1>15, <1>16
     DEF Next, SetUpStep

(* A step tells how and where the launch ends, and restores before it ends. *)
LEMMA EndStep == LifecycleInv /\ Next => EndInv' /\ FrozenServer'
<1> SUFFICES ASSUME LifecycleInv, Next PROVE EndInv' /\ FrozenServer'
  OBVIOUS
<1>1. EndInv /\ FrozenServer /\ pc \in SetUp \cup {"off", "run", "clean", "destroy", "restore"}
  BY DEF LifecycleInv, TypeOK
<1> USE <1>1 DEF EndInv, FrozenServer, TornDown, Goto, serverVars, historyVars, SetUp
<1>2. ASSUME NEW p \in {"world_manager", "check_native_ros2"}, NEW a \in Asks, Start(p, a)
      PROVE  EndInv' /\ FrozenServer'
  BY <1>2 DEF Start
<1>3. CASE SetUpStep
  <2>1. pc \in SetUp /\ pc' \in SetUp \cup {"run"} /\ UNCHANGED historyVars
    BY <1>3 DEF SetUpStep, Load, Export, Write, SetSync, SetTrafficManager, SpawnHero,
       SpawnSensor, EnableSensor, RigComplete, Constructed
  <2> QED  BY <2>1
<1>4. CASE Finish
  BY <1>4 DEF Finish, Tried
<1>5. ASSUME NEW how \in {"raised", "other"}, Raise(how)
      PROVE  EndInv' /\ FrozenServer'
  <2>1. end' = [how |-> how, at |-> pc] /\ program' = program /\ pc # "off"
    BY <1>5 DEF Raise
  <2>2. end'.how = how /\ end'.at = pc
    BY <2>1
  <2>3. CASE Tried(program, pc)
    <3>1. pc' = "destroy"
      BY <1>5, <2>3 DEF Raise
    <3> QED  BY <2>1, <2>2, <2>3, <3>1
  <2>4. CASE ~ Tried(program, pc) /\ Excepted(program, pc) /\ how = "raised"
    <3>1. pc' = "clean"
      BY <1>5, <2>4 DEF Raise
    <3> QED  BY <2>1, <2>2, <2>4, <3>1
  <2>5. CASE ~ Tried(program, pc) /\ ~ (Excepted(program, pc) /\ how = "raised")
    <3>1. pc' = "off"
      BY <1>5, <2>5 DEF Raise
    <3> QED  BY <2>1, <2>2, <2>5, <3>1
  <2> QED  BY <2>3, <2>4, <2>5
<1>6. CASE Interrupt
  <2>1. CASE pc \in SetUp \cup {"run"}
    <3>1. end' = [how |-> "interrupted", at |-> pc] /\ program' = program
          /\ pc' = IF Tried(program, pc) THEN "destroy" ELSE "off"
      BY <1>6, <2>1 DEF Interrupt
    <3>2. end'.how = "interrupted" /\ end'.at = pc
      BY <3>1
    <3> QED  BY <3>1, <3>2
  <2>2. CASE pc \notin SetUp \cup {"run"}
    <3>1. ~ Tried(program, pc)
      BY <2>2 DEF Tried
    <3>2. pc' = "off" /\ end'.how = "cut"
      BY <1>6, <2>2, <3>1 DEF Interrupt, LifecycleInv, TypeOK
    <3> QED  BY <3>2
  <2> QED  BY <2>1, <2>2
<1>7. CASE Kill
  <2>1. pc' = "off" /\ end'.how = "cut"
    BY <1>7 DEF Kill, LifecycleInv, TypeOK
  <2> QED  BY <2>1
<1>8. CASE DestroyNext
  BY <1>8 DEF DestroyNext
<1>9. CASE Destroyed
  <2>1. pc = "clean" => ~ Tried(program, end.at)
    BY DEF Tried, Excepted
  <2> QED  BY <1>9, <2>1 DEF Destroyed
<1>10. CASE Restore
  BY <1>10 DEF Restore
<1>11. CASE Poll
  BY <1>11 DEF Poll
<1> QED
  BY <1>2, <1>3, <1>4, <1>5, <1>6, <1>7, <1>8, <1>9, <1>10, <1>11 DEF Next

(* Files and lane graphs are of a world that is exported under their name. *)
LEMMA GraphStep == LifecycleInv /\ Next => GraphInv'
<1> SUFFICES ASSUME LifecycleInv, Next PROVE GraphInv'
  OBVIOUS
<1>1. TypeOK /\ GraphInv
  BY DEF LifecycleInv
<1> USE <1>1 DEF GraphInv, Goto, serverVars, historyVars, TypeOK, Stack
<1>2. ASSUME NEW p \in {"world_manager", "check_native_ros2"}, NEW a \in Asks, Start(p, a)
      PROVE  GraphInv'
  BY <1>2 DEF Start
<1>3. CASE Load
  <2>1. UNCHANGED <<files, graph, asked, program>>
    BY <1>3 DEF Load
  <2>2. Stack => loaded' = Opens[asked'] \/ Reused(asked', loaded')
    BY <1>3 DEF Load
  <2>3. pc' = IF Stack THEN "export" ELSE "sync"
    BY <1>3 DEF Load
  <2> QED  BY <2>1, <2>2, <2>3
<1>4. CASE Export
  <2>1. \A n \in Names : files'[n] = files[n] \/ files'[n] = Torn
    BY <1>4, NameType DEF Export
  <2>2. UNCHANGED <<loaded, graph, asked, program>>
    BY <1>4 DEF Export
  <2>3. pc' \in {"write", "sync"} /\ Stack /\ (loaded = Opens[asked] \/ Reused(asked, loaded))
    BY <1>4 DEF Export
  <2> QED  BY <2>1, <2>2, <2>3, LifecycleAssumption
<1>5. CASE Write
  <2>1. pc' = "sync" /\ Stack /\ UNCHANGED <<loaded, graph, asked, program>>
    BY <1>5 DEF Write
  <2>2. \A n \in Names : files'[n] = IF n = Directory(asked, loaded) THEN loaded ELSE files[n]
    BY <1>5, NameType DEF Write
  <2>3. loaded \in Exports(Directory(asked, loaded))
    BY <1>5 DEF Write, Exports
  <2> QED  BY <1>5, <2>1, <2>2, <2>3 DEF Write
<1>6. CASE SetSync \/ SetTrafficManager \/ SpawnHero \/ SpawnSensor \/ EnableSensor \/ Constructed
  BY <1>6 DEF SetSync, SetTrafficManager, SpawnHero, SpawnSensor, EnableSensor, Constructed
<1>7. CASE RigComplete
  BY <1>7 DEF RigComplete
<1>8. ASSUME UNCHANGED <<files, loaded, program, asked, graph>>,
             pc' = "off" \/ (pc \notin {"off", "load"} /\ pc' \in {"clean", "destroy", "restore"})
      PROVE  GraphInv'
  BY <1>8
<1>9. CASE Finish \/ Kill \/ DestroyNext \/ Destroyed \/ Restore
  BY <1>8, <1>9 DEF Finish, Kill, DestroyNext, Destroyed, Restore
<1>10. ASSUME NEW how \in {"raised", "other"}, Raise(how)
       PROVE  GraphInv'
  <2>1. pc = "load" => ~ Tried(program, pc) /\ ~ Excepted(program, pc)
    BY DEF Tried, Excepted
  <2> QED  BY <1>8, <1>10, <2>1 DEF Raise, SetUp
<1>11. CASE Interrupt
  BY <1>8, <1>11 DEF Interrupt, Tried
<1>12. CASE Poll
  <2>1. /\ Stack /\ pc # "off" /\ graph' \in Exports(Stem[asked])
        /\ UNCHANGED <<files, loaded, program, asked, pc>>
    BY <1>12, NameType DEF Poll
  <2> QED  BY <2>1
<1> QED
  BY <1>2, <1>3, <1>4, <1>5, <1>6, <1>7, <1>9, <1>10, <1>11, <1>12 DEF Next, SetUpStep

(* At every place of the set-up nothing is stuck, so that the unkept actors are *)
(* the spawned ones that are not in the list.                                    *)
LEMMA SetUpUnkept ==
  ASSUME stuck = {}, pc \in SetUp \cup {"run"}
  PROVE  Unkept = Spawned \ kept /\ Place = pc
BY DEF Unkept, Place

(* The actors of a launch, from the call that spawns one to its end. *)
LEMMA ActorStep == LifecycleInv /\ Next => ActorInv'
<1> SUFFICES ASSUME LifecycleInv, Next PROVE ActorInv'
  OBVIOUS
<1>1. /\ launch \in 0 .. MaxLaunch /\ MaxLaunch \in Nat /\ Sensors \in Nat
      /\ pc \in SetUp \cup {"off", "run", "clean", "destroy", "restore"}
      /\ kept \subseteq actors /\ ActorInv
  BY LifecycleAssumption DEF LifecycleInv, TypeOK
<1>2. /\ pc \in SetUp \cup {"run"} => stuck = {}
      /\ pc \in {"rig", "gt", "endpoints"} => Stack
  BY DEF LifecycleInv, EndInv, GraphInv
<1> USE DEF Goto, serverVars, historyVars, SetUp
<1>3. ASSUME NEW p \in {"world_manager", "check_native_ros2"}, NEW w \in Asks, Start(p, w)
      PROVE  ActorInv'
  <2>1. /\ pc' = "load" /\ launch' = launch + 1 /\ launch < MaxLaunch
        /\ kept' = {} /\ stuck' = {} /\ UNCHANGED actors
    BY <1>3 DEF Start
  <2>2. Spawned' = {} /\ launch' \in 1 .. MaxLaunch
    BY <1>1, <2>1 DEF Spawned, ActorInv
  <2>3. Unkept' = {} /\ Place' = "load"
    BY <2>1, <2>2 DEF Unkept, Place
  <2> QED  BY <1>1, <2>1, <2>2, <2>3 DEF ActorInv, UnkeptInv, BeforeHero
<1>4. CASE Load \/ Export \/ Write \/ SetSync \/ SetTrafficManager
  <2>1. /\ pc \in BeforeHero /\ pc' \in BeforeHero /\ actors' \in {actors, {}}
        /\ UNCHANGED <<program, launch, kept, stuck>>
    BY <1>4 DEF BeforeHero, Load, Export, Write, SetSync, SetTrafficManager
  <2>2. Spawned' = {} /\ kept' = {}
    BY <1>1, <2>1 DEF ActorInv, Spawned
  <2>3. Unkept' = {} /\ pc' \notin {"off", "restore", "rig", "spawn", "enable", "run"} /\ Place' = pc'
    BY <2>1, <2>2 DEF Unkept, Place, BeforeHero
  <2>4. IsFiniteSet(actors')
    BY <1>1, <2>1, FS_EmptySet DEF ActorInv
  <2>5. UnkeptInv'
    BY <2>3 DEF UnkeptInv
  <2>6. pc # "off" /\ pc' \in BeforeHero /\ \A a \in actors' : a.by \in 1 .. launch'
    BY <1>1, <2>1 DEF ActorInv, BeforeHero
  <2> QED  BY <1>1, <2>1, <2>2, <2>3, <2>4, <2>5, <2>6 DEF ActorInv
<1>5. CASE SpawnHero
  <2>1. /\ pc = "hero" /\ pc' \in {"rig", "spawn"} /\ actors' = actors \cup {Actor(0)}
        /\ (pc' = "spawn" => ~ Stack) /\ kept' = {Actor(0)} /\ UNCHANGED <<program, launch, stuck>>
    BY <1>5 DEF SpawnHero
  <2>2. Spawned' = {Actor(0)} /\ (Actor(0))' = Actor(0) /\ Actor(0).by = launch
    BY <1>1, <2>1 DEF Spawned, Actor, ActorInv, BeforeHero
  <2>3. stuck' = {} /\ Unkept' = {} /\ Place' = pc'
    BY <1>2, <2>1, <2>2 DEF Unkept, Place
  <2>4. IsFiniteSet(actors')
    BY <1>1, <2>1, FS_AddElement DEF ActorInv
  <2>5. \A a \in actors' : a.by \in 1 .. launch'
    BY <1>1, <2>1, <2>2 DEF ActorInv
  <2> QED  BY <1>1, <2>1, <2>2, <2>3, <2>4, <2>5 DEF ActorInv, UnkeptInv, BeforeHero
<1>6. CASE SpawnSensor
  <2> DEFINE new == Actor(Cardinality(Spawned))
  <2>1. /\ pc = "spawn" /\ pc' = "enable" /\ actors' = actors \cup {new}
        /\ UNCHANGED <<program, launch, kept, stuck>>
    BY <1>6 DEF SpawnSensor
  <2>2. new.by = launch /\ new # Actor(0) /\ (Actor(0))' = Actor(0)
    BY <1>1, <2>1, SpawnedSize DEF Actor, ActorInv
  <2> HIDE DEF new
  <2>3. Spawned' = Spawned \cup {new}
    BY <2>1, <2>2 DEF Spawned
  <2>4. stuck = {} /\ Unkept = Spawned \ kept /\ UnkeptInv /\ Place = "spawn" /\ Place' = "enable"
    BY <1>1, <1>2, <2>1, SetUpUnkept DEF ActorInv, Place
  <2>5. Unkept' \subseteq Unkept \cup {new} /\ (new \notin kept => new \in Unkept')
    BY <2>1, <2>3, <2>4 DEF Unkept
  <2>6. Actor(0) \notin Unkept' /\ (Stack => Unkept = {})
    BY <2>2, <2>4, <2>5 DEF UnkeptInv
  <2>7. Stack => \E x \in Unkept' \cup {Actor(0)} : Unkept' \subseteq {x}
    BY <2>5, <2>6
  <2>8. IsFiniteSet(actors')
    BY <1>1, <2>1, FS_AddElement DEF ActorInv
  <2>9. \A a \in actors' : a.by \in 1 .. launch'
    BY <1>1, <2>1, <2>2 DEF ActorInv
  <2>10. UnkeptInv'
    BY <2>1, <2>2, <2>4, <2>6, <2>7 DEF UnkeptInv, Stack
  <2> QED  BY <1>1, <2>1, <2>2, <2>3, <2>4, <2>8, <2>9, <2>10 DEF ActorInv, BeforeHero
<1>7. CASE EnableSensor
  <2>1. /\ pc = "enable" /\ pc' = "spawn" /\ UNCHANGED <<program, actors, launch, stuck>>
        /\ kept' = IF Stack \/ Cardinality(Spawned) > Sensors THEN Spawned ELSE kept
    BY <1>7 DEF EnableSensor
  <2>2. Spawned' = Spawned /\ (Stack' <=> Stack) /\ (Actor(0))' = Actor(0) /\ Place' = "spawn"
    BY <2>1 DEF Spawned, Stack, Actor, Place
  <2>3. stuck = {} /\ Unkept = Spawned \ kept /\ UnkeptInv
    BY <1>1, <1>2, <2>1, SetUpUnkept DEF ActorInv
  <2>4. Unkept' \subseteq Unkept /\ (Stack => Unkept' = {})
    BY <2>1, <2>2, <2>3 DEF Unkept
  <2>5. UnkeptInv'
    BY <2>2, <2>3, <2>4 DEF UnkeptInv
  <2>6. kept' \subseteq Spawned' /\ (Cardinality(Spawned') > Sensors => Spawned' \subseteq kept')
    BY <1>1, <2>1, <2>2 DEF ActorInv
  <2> QED  BY <1>1, <2>1, <2>2, <2>3, <2>5, <2>6 DEF ActorInv, BeforeHero
<1>8. CASE RigComplete \/ Constructed
  <2>1. /\ pc \in {"spawn", "rig", "gt", "endpoints"} /\ pc' \in {"spawn", "gt", "endpoints", "run"}
        /\ pc' = "spawn" => pc = "rig"
        /\ pc = "spawn" => Cardinality(Spawned) > Sensors
        /\ UNCHANGED <<program, actors, launch, kept, stuck>>
    BY <1>8 DEF RigComplete, Constructed
  <2>2. stuck = {} /\ Unkept = Spawned \ kept /\ UnkeptInv /\ Place = pc
    BY <1>1, <1>2, <2>1, SetUpUnkept DEF ActorInv
  <2>3. Spawned \subseteq kept
    BY <1>1, <1>2, <2>1, <2>2 DEF UnkeptInv, ActorInv
  <2>4. Spawned' = Spawned /\ (Stack' <=> Stack) /\ (Actor(0))' = Actor(0) /\ Unkept' = {}
    BY <2>1, <2>3 DEF Spawned, Stack, Actor, Unkept
  <2> QED  BY <1>1, <2>1, <2>2, <2>3, <2>4 DEF ActorInv, UnkeptInv, BeforeHero
<1>9. ASSUME UNCHANGED <<program, actors, launch, kept, stuck>>, pc # "off",
             pc' \in {"off", "clean", "destroy"}, Place' = Place, pc' = "off" => ~ CleanedUp'
      PROVE  ActorInv'
  <2>1. Spawned' = Spawned /\ (Stack' <=> Stack) /\ (Actor(0))' = Actor(0) /\ Unkept' = Unkept
    BY <1>9 DEF Spawned, Stack, Actor, Unkept
  <2>2. UnkeptInv'
    BY <1>1, <1>9, <2>1 DEF ActorInv, UnkeptInv
  <2> QED  BY <1>1, <1>9, <2>1, <2>2 DEF ActorInv, BeforeHero
<1>10. CASE Finish
  BY <1>9, <1>10 DEF Finish, Place
<1>11. ASSUME NEW how \in {"raised", "other"}, Raise(how)
       PROVE  ActorInv'
  <2>1. /\ end' = [how |-> how, at |-> pc] /\ pc \in SetUp \cup {"run"}
        /\ pc' \in {"off", "clean", "destroy"}
        /\ pc' = "off" => ~ Tried(program, pc) /\ ~ (Excepted(program, pc) /\ how = "raised")
        /\ UNCHANGED <<program, actors, launch, kept, stuck>>
    BY <1>11 DEF Raise
  <2>2. end'.how = how /\ end'.at = pc
    BY <2>1
  <2>3. Place' = Place
    BY <2>1, <2>2 DEF Place
  <2>4. pc' = "off" => ~ CleanedUp'
    BY <2>1, <2>2 DEF CleanedUp, TornDown
  <2> QED  BY <1>9, <2>1, <2>3, <2>4
<1>12. CASE Interrupt
  <2>1. CASE pc \in SetUp \cup {"run"}
    <3>1. /\ end' = [how |-> "interrupted", at |-> pc]
          /\ pc' = IF Tried(program, pc) THEN "destroy" ELSE "off"
          /\ UNCHANGED <<program, actors, launch, kept, stuck>>
      BY <1>12, <2>1 DEF Interrupt
    <3>2. end'.how = "interrupted" /\ end'.at = pc
      BY <3>1
    <3>3. Place' = Place
      BY <2>1, <3>1, <3>2 DEF Place
    <3>4. pc' = "off" => ~ CleanedUp'
      BY <3>1, <3>2 DEF CleanedUp, TornDown
    <3> QED  BY <1>9, <2>1, <3>1, <3>3, <3>4
  <2>2. CASE pc \notin SetUp \cup {"run"}
    <3>1. /\ pc # "off" /\ pc' = "off" /\ end' = [end EXCEPT !.how = "cut"]
          /\ UNCHANGED <<program, actors, launch, kept, stuck>>
      BY <1>12, <2>2 DEF Interrupt, Tried
    <3>2. end'.how = "cut" /\ end'.at = end.at
      BY <3>1 DEF LifecycleInv, TypeOK
    <3>3. Place' = Place /\ ~ CleanedUp'
      BY <2>2, <3>1, <3>2 DEF Place, CleanedUp, TornDown
    <3> QED  BY <1>9, <3>1, <3>3
  <2> QED  BY <2>1, <2>2
<1>13. CASE Kill
  <2>1. pc # "off" /\ pc' = "off" /\ UNCHANGED <<program, actors, launch, kept, stuck>>
    BY <1>13 DEF Kill
  <2>2. end'.how = "cut"
    BY <1>13 DEF Kill, LifecycleInv, TypeOK
  <2>3. ~ CleanedUp'
    BY <2>2 DEF CleanedUp, TornDown
  <2> QED  BY <1>1, <2>1, <2>3 DEF ActorInv, BeforeHero, Spawned
<1>14. CASE DestroyNext
  <2>1. PICK a \in kept : /\ kept' = kept \ {a}
                          /\ \/ actors' = actors \ {a} /\ stuck' = stuck
                             \/ actors' = actors /\ stuck' = stuck \cup {a}
    BY <1>14 DEF DestroyNext
  <2>2. pc \in {"clean", "destroy"} /\ UNCHANGED <<program, launch, pc, end>>
    BY <1>14 DEF DestroyNext
  <2>3. IsFiniteSet(actors')
    BY <1>1, <2>1, FS_Subset DEF ActorInv
  <2>4. Spawned' \in {Spawned, Spawned \ {a}} /\ a \in Spawned /\ a \notin stuck
    BY <1>1, <2>1, <2>2 DEF Spawned, ActorInv
  <2>5. Unkept' = Unkept
    BY <1>1, <2>1, <2>2, <2>4 DEF Unkept, Spawned, ActorInv
  <2>6. UnkeptInv' /\ kept' \subseteq Spawned' /\ kept' \cap stuck' = {}
    BY <1>1, <2>1, <2>2, <2>4, <2>5 DEF ActorInv, UnkeptInv, Actor, Place, Stack, Spawned
  <2> QED  BY <1>1, <2>1, <2>2, <2>3, <2>6 DEF ActorInv, BeforeHero
<1>15. CASE Destroyed \/ Restore
  <2>1. /\ kept = {} /\ pc \in {"clean", "destroy", "restore"} /\ pc' \in {"off", "restore"}
        /\ UNCHANGED <<program, actors, launch, kept, stuck, end>>
    BY <1>1, <1>15 DEF Destroyed, Restore, ActorInv
  <2>2. Spawned' = Spawned /\ (Stack' <=> Stack) /\ (Actor(0))' = Actor(0) /\ Unkept' = Unkept
        /\ Place' = Place
    BY <2>1 DEF Spawned, Stack, Actor, Unkept, Place
  <2>3. UnkeptInv'
    BY <1>1, <2>1, <2>2 DEF ActorInv, UnkeptInv
  <2> QED  BY <1>1, <2>1, <2>2, <2>3 DEF ActorInv, BeforeHero
<1>16. CASE Poll
  BY <1>1, <1>16 DEF Poll, ActorInv, UnkeptInv, Unkept, Place, Spawned, Stack, Actor, CleanedUp,
     TornDown
<1> QED
  BY <1>3, <1>4, <1>5, <1>6, <1>7, <1>8, <1>10, <1>11, <1>12, <1>13, <1>14, <1>15, <1>16
     DEF Next, SetUpStep

(* The inductive invariant holds. *)
LEMMA LifecycleInvHolds == Spec => []LifecycleInv
<1>1. LifecycleInv /\ UNCHANGED vars => LifecycleInv'
  BY DEF vars, serverVars, historyVars, LifecycleInv, TypeOK, ActorInv, EndInv, FrozenServer,
         GraphInv, UnkeptInv, Unkept, Place, CleanedUp, TornDown, Stack, Spawned, Actor
<1>2. LifecycleInv /\ [Next]_vars => LifecycleInv'
  BY <1>1, LifecycleTypeStep, ActorStep, EndStep, GraphStep DEF LifecycleInv
<1> QED  BY LifecycleInit, <1>2, PTL DEF Spec

(* The types, with the number of sensors and launches: what a program will destroy *)
(* or could not destroy is an actor that the server still has.                      *)
THEOREM LifecycleTypeOK == Spec => []TypeOK
<1>1. LifecycleInv => TypeOK
  BY DEF LifecycleInv
<1> QED  BY LifecycleInvHolds, <1>1, PTL

(* _destroy_actors, SensorRig.destroy and the smoke test's finally: a clean-up that *)
(* is not cut off tries every actor of its list, and the list has them all but the  *)
(* sensor that is being spawned (the smoke test: the sensors, while it spawns them). *)
THEOREM ActorsLeftHolds == Spec => []ActorsLeft
<1>1. ASSUME LifecycleInv, pc = "off", CleanedUp
      PROVE  /\ Spawned \ stuck = Unkept /\ UnkeptInv /\ Place = end.at
  BY <1>1 DEF LifecycleInv, ActorInv, Unkept, Place, SetUp
<1>2. ASSUME NEW left, NEW x, left \subseteq {x}
      PROVE  Cardinality(left) <= 1
  <2>1. left = {} \/ left = {x}
    BY <1>2
  <2> QED  BY <2>1, FS_EmptySet, FS_Singleton
<1>3. LifecycleInv => ActorsLeft
  BY <1>1, <1>2 DEF ActorsLeft, UnkeptInv
<1> QED  BY LifecycleInvHolds, <1>3, PTL

(* shutdown and the smoke test's finally: after a clean-up that is not cut off the *)
(* server is synchronous only if the call that restores it raised.                  *)
THEOREM FrozenServerHolds == Spec => []FrozenServer
<1>1. LifecycleInv => FrozenServer
  BY DEF LifecycleInv
<1> QED  BY LifecycleInvHolds, <1>1, PTL

(* _export_opendrive and MapServerNode::Poll: the lane graph is that of the world  *)
(* that is simulated, or of another that is exported under the name that is polled. *)
THEOREM GraphMatchesTownHolds == Spec => []GraphMatchesTown
<1>1. LifecycleInv => GraphMatchesTown
  BY DEF LifecycleInv, GraphInv, GraphMatchesTown
<1> QED  BY LifecycleInvHolds, <1>1, PTL
===============================================================================
