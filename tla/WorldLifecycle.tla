---------------------------- MODULE WorldLifecycle ----------------------------
(***************************************************************************)
(* What outlives a program that drives CARLA: the server keeps its map,    *)
(* its synchronous mode and its actors when a client goes away, and the    *)
(* map directory keeps the exported OpenDRIVE.  Two programs set the       *)
(* server up and take it down, one after the other: world_manager.py, with *)
(* map_server beside it, and the smoke test check_native_ros2.py.  Every   *)
(* CARLA call may raise, those of the tear-down too, Ctrl-C may come at    *)
(* any moment, and so may a SIGKILL (the harness sends one to a stack that *)
(* is slow to stop).  The server itself does not fail.  A call that raises *)
(* has had no effect; one that raises although it had (a time-out) looks   *)
(* like the next call raising.                                             *)
(***************************************************************************)
EXTENDS Naturals, FiniteSets

CONSTANTS
  Worlds,      \* the maps that a server can simulate
  MapName,     \* world.get_map().name of each, without its path
  Asks,        \* the values of carla.town
  Generated,   \* those that are the path of an .xodr file
  Opens,       \* the world that each of them loads or generates
  Stem,        \* the stem of the file, and the town itself otherwise
  Within,      \* the pairs <<s, n>> of names with s in n, as in Python
  NoWorld,     \* nothing: no file, no lane graph
  Torn,        \* a file that was opened for writing and not finished
  Sensors,     \* how many sensors the rig has
  MaxLaunch    \* bound: programs started

ASSUME LifecycleAssumption ==
  /\ NoWorld \notin Worlds /\ Torn \notin Worlds /\ NoWorld # Torn
  /\ DOMAIN MapName = Worlds /\ DOMAIN Stem = Asks
  /\ Generated \subseteq Asks /\ Opens \in [Asks -> Worlds]
  /\ Sensors \in Nat /\ MaxLaunch \in Nat

VARIABLES
  loaded,    \* server: the world it simulates
  sync,      \* server: synchronous mode
  actors,    \* server: the actors, each with the launch that spawned it
  files,     \* map directory: the content of <name>/map.xodr
  program,   \* the program that runs, or ran last
  launch,    \* its number
  asked,     \* the town it was started for
  pc,        \* where it is, "off" when it has ended
  kept,      \* the actors it will destroy: _hero and _actors, or actors
  graph,     \* map_server: the lane graph it has published
  end,       \* history: how this launch ended, and where it was then
  stuck,     \* history: its actors that could not be destroyed
  unrestored \* history: its restoring of asynchronous mode raised

serverVars  == <<loaded, sync, actors, files>>
historyVars == <<end, stuck, unrestored>>
vars == <<serverVars, program, launch, asked, pc, kept, graph, historyVars>>

Names == {MapName[w] : w \in Worlds} \cup {Stem[a] : a \in Asks}

(* _load_world's test: a town is found in the name of the map that is loaded, a  *)
(* file is compared with the OpenDRIVE of a generated map.                        *)
Reused(a, w) ==
  IF a \in Generated THEN w = Opens[a] ELSE <<Stem[a], MapName[w]>> \in Within

(* _town, the directory of the export: the stem of the file, or the name that *)
(* the server has for its map.  map_server polls Stem[a].                      *)
Directory(a, w) == IF a \in Generated THEN Stem[a] ELSE MapName[w]

(* The worlds that are exported under a name. *)
Exports(n) ==
  {w \in Worlds : \E a \in Asks : (w = Opens[a] \/ Reused(a, w)) /\ Directory(a, w) = n}

(* An actor: the hero is number 0, the sensors follow. *)
Actor(n) == [by |-> launch, number |-> n]

Spawned == {a \in actors : a.by = launch}

SetUp == {"load", "export", "write", "sync", "tm", "hero", "rig", "spawn", "enable",
          "gt", "endpoints"}

TypeOK ==
  /\ loaded \in Worlds
  /\ sync \in BOOLEAN
  /\ actors \subseteq [by : 1 .. MaxLaunch, number : 0 .. Sensors]
  /\ files \in [Names -> Worlds \cup {NoWorld, Torn}]
  /\ program \in {"world_manager", "check_native_ros2"}
  /\ launch \in 0 .. MaxLaunch
  /\ asked \in Asks
  /\ pc \in SetUp \cup {"off", "run", "clean", "destroy", "restore"}
  /\ kept \subseteq actors
  /\ graph \in Worlds \cup {NoWorld}
  /\ end \in [how : {"open", "returned", "raised", "other", "interrupted", "cut"},
              at  : SetUp \cup {"off", "run"}]
  /\ stuck \subseteq actors
  /\ unrestored \in BOOLEAN

NotEnded == [how |-> "open", at |-> "off"]

Init ==
  /\ loaded \in Worlds /\ asked \in Asks
  /\ sync = FALSE /\ actors = {}
  /\ files = [n \in Names |-> NoWorld]
  /\ program = "world_manager" /\ launch = 0 /\ pc = "off" /\ kept = {}
  /\ graph = NoWorld /\ end = NotEnded /\ stuck = {} /\ unrestored = FALSE

Goto(label) == pc' = label

Stack == program = "world_manager"

-------------------------------------------------------------------------------
(* The set-up, in the order of WorldManagerNode.__init__ and of the smoke      *)
(* test's main.                                                                 *)

(* Mutant: the lane graph of the last stack is still there for the next one. *)
StartKeepsGraph(p, a) ==
  /\ pc = "off" /\ launch < MaxLaunch
  /\ program' = p /\ asked' = a /\ launch' = launch + 1
  /\ kept' = {}
  /\ end' = NotEnded /\ stuck' = {} /\ unrestored' = FALSE
  /\ Goto("load")
  /\ UNCHANGED <<serverVars, graph>>

(* The smoke test takes the name of a town only. *)
Start(p, a) ==
  /\ pc = "off" /\ launch < MaxLaunch
  /\ p # "world_manager" => a \notin Generated
  /\ program' = p /\ asked' = a /\ launch' = launch + 1
  /\ kept' = {} /\ graph' = NoWorld
  /\ end' = NotEnded /\ stuck' = {} /\ unrestored' = FALSE
  /\ Goto("load")
  /\ UNCHANGED serverVars

(* _load_world: the current world is reused if it passes for the one asked for; *)
(* loading another clears the actors and the settings.  The smoke test without  *)
(* --town keeps what there is.                                                   *)
Load ==
  /\ pc = "load"
  /\ \/ /\ Reused(asked, loaded) \/ ~ Stack
        /\ UNCHANGED serverVars
     \/ /\ ~ Reused(asked, loaded)
        /\ loaded' = Opens[asked] /\ sync' = FALSE /\ actors' = {}
        /\ UNCHANGED files
  /\ Goto(IF Stack THEN "export" ELSE "sync")
  /\ UNCHANGED <<program, launch, asked, kept, graph, historyVars>>

(* _export_opendrive: a file that is there is left alone, whatever is in it. *)
Export ==
  /\ pc = "export"
  /\ LET d == Directory(asked, loaded)
     IN  \/ /\ files[d] = NoWorld
            /\ files' = [files EXCEPT ![d] = Torn]
            /\ Goto("write")
         \/ /\ files[d] # NoWorld
            /\ UNCHANGED files
            /\ Goto("sync")
  /\ UNCHANGED <<loaded, sync, actors, program, launch, asked, kept, graph, historyVars>>

Write ==
  /\ pc = "write"
  /\ files' = [files EXCEPT ![Directory(asked, loaded)] = loaded]
  /\ Goto("sync")
  /\ UNCHANGED <<loaded, sync, actors, program, launch, asked, kept, graph, historyVars>>

(* _apply_sync_settings: the world first, ... *)
SetSync ==
  /\ pc = "sync"
  /\ sync' = TRUE
  /\ Goto("tm")
  /\ UNCHANGED <<loaded, actors, files, program, launch, asked, kept, graph, historyVars>>

(* ... then the Traffic Manager. *)
SetTrafficManager ==
  /\ pc = "tm"
  /\ Goto("hero")
  /\ UNCHANGED <<serverVars, program, launch, asked, kept, graph, historyVars>>

(* _spawn_hero; world_manager creates its SensorRig next. *)
SpawnHero ==
  /\ pc = "hero"
  /\ actors' = actors \cup {Actor(0)}
  /\ kept' = {Actor(0)}
  /\ Goto(IF Stack THEN "rig" ELSE "spawn")
  /\ UNCHANGED <<loaded, sync, files, program, launch, asked, graph, historyVars>>

(* SensorRig.spawn, spawn_rig: spawn the next sensor, ... *)
SpawnSensor ==
  /\ pc = "spawn" /\ Cardinality(Spawned) <= Sensors
  /\ actors' = actors \cup {Actor(Cardinality(Spawned))}
  /\ Goto("enable")
  /\ UNCHANGED <<loaded, sync, files, program, launch, asked, kept, graph, historyVars>>

(* ... enable it for ROS, and remember it: the rig one by one, spawn_rig in a *)
(* list of its own that main gets at the end.                                  *)
EnableSensor ==
  /\ pc = "enable"
  /\ kept' = IF Stack \/ Cardinality(Spawned) > Sensors THEN Spawned ELSE kept
  /\ Goto("spawn")
  /\ UNCHANGED <<serverVars, program, launch, asked, graph, historyVars>>

RigComplete ==
  /\ pc = "spawn" /\ Cardinality(Spawned) > Sensors
  /\ Goto(IF Stack THEN "gt" ELSE "run")
  /\ UNCHANGED <<serverVars, program, launch, asked, kept, graph, historyVars>>

(* The SensorRig, before the constructor's try; GtPublisher, the last call in it; *)
(* then the node's own ROS endpoints: the node is constructed.                     *)
Constructed ==
  /\ \/ pc = "rig" /\ Goto("spawn")
     \/ pc = "gt" /\ Goto("endpoints")
     \/ pc = "endpoints" /\ Goto("run")
  /\ UNCHANGED <<serverVars, program, launch, asked, kept, graph, historyVars>>

-------------------------------------------------------------------------------
(* The ends. *)

(* run returns, or the smoke test has made its checks. *)
Finish ==
  /\ pc = "run"
  /\ Goto("destroy")
  /\ end' = [how |-> "returned", at |-> "run"]
  /\ UNCHANGED <<serverVars, program, launch, asked, kept, graph, stuck, unrestored>>

(* main's finally: shutdown is reached with a constructed node only, the smoke *)
(* test's covers everything from the hero on.                                   *)
Tried(p, l) == l = "run" \/ (p # "world_manager" /\ l \in {"hero", "spawn", "enable"})

(* The constructor's try, around the rig's spawn and GtPublisher. *)
Excepted(p, l) == p = "world_manager" /\ l \in {"spawn", "enable", "gt"}

(* A call raises: one of the three types that the constructor's except clause     *)
(* names, or any other.  The clause calls _destroy_actors and raises again.        *)
Raise(how) ==
  /\ pc \in SetUp \cup {"run"}
  /\ Goto(IF Tried(program, pc) THEN "destroy"
          ELSE IF Excepted(program, pc) /\ how = "raised" THEN "clean" ELSE "off")
  /\ end' = [how |-> how, at |-> pc]
  /\ UNCHANGED <<serverVars, program, launch, asked, kept, graph, stuck, unrestored>>

(* Ctrl-C: KeyboardInterrupt is none of the three types, so only a finally sees *)
(* it; during a clean-up it ends the clean-up.                                   *)
Interrupt ==
  /\ pc # "off"
  /\ Goto(IF Tried(program, pc) THEN "destroy" ELSE "off")
  /\ end' = IF pc \in SetUp \cup {"run"} THEN [how |-> "interrupted", at |-> pc]
            ELSE [end EXCEPT !.how = "cut"]
  /\ UNCHANGED <<serverVars, program, launch, asked, kept, graph, stuck, unrestored>>

Kill ==
  /\ pc # "off"
  /\ Goto("off")
  /\ end' = [end EXCEPT !.how = "cut"]
  /\ UNCHANGED <<serverVars, program, launch, asked, kept, graph, stuck, unrestored>>

(* Mutant: the first actor that cannot be destroyed ends the clean-up. *)
DestroyNextOrGiveUp ==
  /\ pc \in {"clean", "destroy"}
  /\ \E a \in kept :
       /\ \A b \in kept : b.number <= a.number
       /\ kept' = kept \ {a}
       /\ \/ actors' = actors \ {a} /\ UNCHANGED <<pc, stuck>>
          \/ stuck' = stuck \cup {a} /\ Goto("off") /\ UNCHANGED actors
  /\ UNCHANGED <<loaded, sync, files, program, launch, asked, graph, end, unrestored>>

(* Mutant: an actor that raised in its destruction is tried again for ever. *)
DestroyNextAgain ==
  /\ pc \in {"clean", "destroy"}
  /\ \E a \in kept :
       /\ \A b \in kept : b.number <= a.number
       /\ actors' = actors \ {a}
       /\ UNCHANGED <<kept, stuck>>
  /\ UNCHANGED <<loaded, sync, files, program, launch, asked, pc, graph, end, unrestored>>

(* _destroy_actors, and the loop of the smoke test's finally: the sensors, the    *)
(* last one first, then the hero.  A destroy that raises is logged, or not even    *)
(* that; the actor stays and the next one is tried.                                 *)
DestroyNext ==
  /\ pc \in {"clean", "destroy"}
  /\ \E a \in kept :
       /\ \A b \in kept : b.number <= a.number
       /\ kept' = kept \ {a}
       /\ \/ actors' = actors \ {a} /\ UNCHANGED stuck
          \/ stuck' = stuck \cup {a} /\ UNCHANGED actors
  /\ UNCHANGED <<loaded, sync, files, program, launch, asked, pc, graph, end, unrestored>>

(* The constructor raises again after it, shutdown goes on. *)
Destroyed ==
  /\ pc \in {"clean", "destroy"} /\ kept = {}
  /\ Goto(IF pc = "clean" THEN "off" ELSE "restore")
  /\ UNCHANGED <<serverVars, program, launch, asked, kept, graph, historyVars>>

(* Asynchronous mode again, unless that raises: shutdown logs it and returns, the *)
(* smoke test ends with it.                                                         *)
Restore ==
  /\ pc = "restore"
  /\ \/ sync' = FALSE /\ UNCHANGED unrestored
     \/ unrestored' = TRUE /\ UNCHANGED sync
  /\ Goto("off")
  /\ UNCHANGED <<loaded, actors, files, program, launch, asked, kept, graph, end, stuck>>

(* Mutant: only the poll of the constructor is made, the timer is not started. *)
PollOnce ==
  /\ Stack /\ pc = "load" /\ graph = NoWorld
  /\ files[Stem[asked]] \in Worlds
  /\ graph' = files[Stem[asked]]
  /\ UNCHANGED <<serverVars, program, launch, asked, pc, kept, historyVars>>

(* map_server's Poll: absent, empty and half-written files are tried again. *)
Poll ==
  /\ Stack /\ pc # "off" /\ graph = NoWorld
  /\ files[Stem[asked]] \in Worlds
  /\ graph' = files[Stem[asked]]
  /\ UNCHANGED <<serverVars, program, launch, asked, pc, kept, historyVars>>

-------------------------------------------------------------------------------
SetUpStep ==
  \/ Load \/ Export \/ Write \/ SetSync \/ SetTrafficManager \/ SpawnHero
  \/ SpawnSensor \/ EnableSensor \/ RigComplete \/ Constructed

Next ==
  \/ \E p \in {"world_manager", "check_native_ros2"}, a \in Asks : Start(p, a)
  \/ SetUpStep \/ Finish \/ Raise("raised") \/ Raise("other") \/ Interrupt \/ Kill
  \/ DestroyNext \/ Destroyed \/ Restore \/ Poll

Spec == Init /\ [][Next]_vars

(* map_server's timer keeps polling. *)
FairSpec == Spec /\ WF_vars(Poll)

-------------------------------------------------------------------------------
(* An end that is followed by a clean-up to its end: of a program that was in its *)
(* try, or of a constructor that caught the exception; no SIGKILL came, and no      *)
(* Ctrl-C during the clean-up.                                                      *)
TornDown == end.how # "cut" /\ Tried(program, end.at)
CleanedUp == TornDown \/ (end.how = "raised" /\ Excepted(program, end.at))

(* A clean-up does not stop at what it cannot destroy.  Whatever raised or was      *)
(* interrupted, and whichever actors refused to go: no other hero is left, no other *)
(* actor at all once the program was running, and of a rig that failed while it was *)
(* spawned at most the one sensor that was not remembered yet                        *)
(* (world_manager.py:222-225, 740-747).                                              *)
ActorsLeft ==
  pc = "off" /\ CleanedUp =>
    LET left == Spawned \ stuck
    IN  /\ Actor(0) \notin left
        /\ end.at = "run" \/ (Stack /\ end.at # "enable") => left = {}
        /\ Stack => Cardinality(left) <= 1

(* A program that was torn down leaves a server in asynchronous mode, unless that *)
(* very call raised: neither what ended it nor an actor that could not be          *)
(* destroyed keeps it from restoring the server (world_manager.py:725-738).         *)
FrozenServer == pc = "off" /\ sync /\ TornDown => unrestored

(* The lane graph of a running stack is that of the world the server simulates, or *)
(* of another world that is exported under the name that map_server polls, which    *)
(* only a world of the same name, or of a file with the same stem, is.               *)
GraphMatchesTown ==
  pc = "run" /\ graph # NoWorld => graph = loaded \/ graph \in Exports(Stem[asked])

(* A stack that keeps running gets its lane graph, if the server's name of its map *)
(* is the one that was asked for and no earlier launch left an unfinished export.   *)
GraphFollows ==
  (/\ Stack /\ pc = "run"
   /\ files[Stem[asked]] # Torn /\ Directory(asked, loaded) = Stem[asked])
  ~> (graph # NoWorld \/ pc # "run")

-------------------------------------------------------------------------------
(* What the comments of the code say, and the code does not do. *)

(* world_manager.py:756-758: "Shutdown always destroys the actors and restores       *)
(* asynchronous mode, or the next launch finds a second hero and a frozen world".     *)
(* It would have to hold of every end but a kill and a second Ctrl-C, up to the       *)
(* calls that raise in shutdown itself.                                                *)
ShutdownAlways ==
  pc = "off" /\ Stack /\ end.how \in {"raised", "other", "interrupted"} =>
    Spawned \subseteq stuck /\ (sync => unrestored)

(* world_manager.py:343-344: "every map consumer works from exactly the geometry the *)
(* server simulates". A stack that keeps running gets the lane graph of its world,    *)
(* whatever its map is called and whatever earlier launches have exported.            *)
GraphOfItsWorld == (Stack /\ pc = "run") ~> (graph = loaded \/ pc # "run")
===============================================================================
