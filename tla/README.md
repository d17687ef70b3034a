# nuway: a TLA+ model of the lockstep stack

nuway drives a car in the CARLA simulator. One process, `world_manager`, owns
the simulator and advances it one 50 ms tick at a time; the other nodes turn
the ground truth of tick *k* into a `ControlCommand` stamped *k*; the world
does not move to tick *k + 1* before that command is there, or a wall-clock
timeout gave up on it. Everything the project promises (bit-identical
evaluations, "a fallback never engages on an unflagged route", resets that
start from a clean state) rests on this protocol: on stamps, on barriers, on
the order in which topics deliver, and on two threads of `world_manager` that
meet under a lock. That protocol, the nodes around the ground truth, the
programs that drive the stack from outside and what a launch leaves behind on
the server are what this directory models, checks and proves things about.
Source paths below are relative to the repository.

## 1. Inventory

| component | state | operations | talks to | hard behaviour | what makes it correct |
|---|---|---|---|---|---|
| `world_manager` tick loop (`nuway_carla_bridge/world_manager.py`) | `_latest_cmd_tick`, `_episode_id`, `_startup_pending`, `_timeouts`, the server's frame | `run`, `_tick_once`, `_wait_for_command`, `_apply_reset`, `_publish_reset_event`, `_on_control_command` | simulator (blocking calls), topics, service threads | tick thread and executor share the gate; timeout against late command; commands of an old episode | a tick is passed as ok only with its own command; every tick gets one |
| reset hand-off (same file) | `_pending_reset`, the request's `response` and `done` | `_on_reset`, `_process_pending_reset` | service callers, tick thread | non-atomic withdrawal, two writers of one response, exceptions | ok means one episode, failed means none, no request is lost, every call returns |
| start-up, map export, shutdown (same file), and the smoke test `check_native_ros2.py` that sets up the same server | server settings, spawned actors, `<town>.xodr` | constructor, `_export_opendrive`, `shutdown` | simulator, file system, `map_server` | failure, Ctrl-C or a kill in the middle; a tear-down that fails itself; partial file; a map known by several names | a clean-up leaves nothing it could have removed; the lane graph comes, and is of the simulated world |
| `TickBarrier` (`nuway_common/tick.h`, `ml/.../tick.py`) | latest tick and degraded flag per input | `Arrive`, `IsComplete`, `Missing`, `Degrade`, `Reset` | its node | newest arrival overwrites; degraded until reset | complete for *k* iff every live input arrived for *k* |
| `gt_pose_node` | barrier, buffered inputs, `episode_start_k_`, `last_published_k_` | callbacks for odometry, vehicle state, reset, timeout | pose topic | four subscriptions in any order | one pose per tick, from the tick's own inputs |
| `pure_pursuit_pid_node` | episode, last answered tick, line | callbacks for line, pose, reset, timeout | the gate | pose and timeout of one tick; reset against line | one answer per tick, on the line of the episode |
| `route_planner_node` | waypoints, line, off-line counter, lane graph | callbacks for graph, waypoints, pose, reset | reference line topic | waypoints that outlive a reset; failing reroutes | the line follows the episode's route |
| A* planner, reference line builder | none | `PlanRoute`, `BuildReferenceLine` | planner node | lane changes, revisited lanes | shortest route through the waypoints |
| topics and QoS (`qos.h`, messages) | bounded queues | publish, take | every node | no order across topics, keep-last overflow, latched replay | - |
| `gt_publisher`, traffic lights | cached stop lines, ring buffers of past poses | `publish`, `reset`, `_on_lane_graph` | topics | cache filled on the tick thread, its lane graph replaced on another | lights match the current map; histories are evenly spaced and of one episode |
| `control_adapter` | window of speeds by tick | `_on_vehicle_state`, `_on_control_command` | simulator | speed of a tick already pruned | the command is converted with the speed of its own tick |
| `sensor_rig` | sensor actors | spawn, destroy | simulator | partial spawn | no actor is leaked |
| perception twins (`gt_twin_node` and subclasses) | barrier, episode start | as `gt_pose_node`, one input | topics | as `gt_pose_node` | one output per tick |
| `map_server`, `lane_graph`, `opendrive_parser` | the map | poll, parse, query | planner | file that is still being written | connectivity of the parsed map |
| evaluation harness (`tools/eval`: `route_runner`, `run_routes`) | stack process, episode id and tick, trace, rows | launch, `reset_to`, `publish_waypoints`, `drive`, stop | reset service, topics, processes | stack that dies or answers late, Ctrl-C, one stack per town, replays of the last episode | a row describes its own episode; every route has one; no stack is left running |
| sweeps of system identification (`run_sweeps`) | phase machine, rows of the run | reset of a run, `_on_ego_odom`, `_on_tick_timeout` | reset service, gate | takes the controller's place at the gate; messages of the last run | the rows of a run are consecutive ticks of one episode |
| fits of system identification (`fit_models`) | tables `a[v][pedal]` | coasting curve, accel and brake tables, vehicle file | `control_adapter` | bins no sweep reached, unordered means | the inverted tables give the pedal that reaches the demand |
| longitudinal map (`longitudinal_map`) | the tables | row interpolation, inversion | `control_adapter`, fits | flat pieces, demands on a bin, saturation | the first piece that reaches the demand |
| tick and stamp conversions (`tick.py`, `tick.h`) | none | `tick_stamp`, `tick_index` | everybody | rounding, negative stamps | the stamp of a tick is read as that tick |
| control law, geometry, Frenet, occupancy | none to speak of | numeric functions | callers | floating point | numeric accuracy |
| `compare_runs`, bringup, viz, bindings, lint, offline data | - | configuration and scripts | - | - | - |

How they interact: the tick thread publishes odometry and vehicle state of tick
*k*; `gt_pose_node` joins them into the pose of *k*; the pose reaches the
controller and the planner; the planner occasionally publishes a reference
line, which the controller reads as a latest value; the controller publishes
the command of *k*; the executor thread of `world_manager` records it and wakes
the tick thread. A reset moves the car, increments the episode id, publishes a
`ResetEvent` stamped with the first tick of the new episode and runs that tick
with the long (start-up) timeout. A gate timeout publishes `TickTimeout(k)`.
On the same tick `gt_publisher` publishes agents and lights for the perception
twins, and `control_adapter` turns the command into pedals. The evaluation
harness and the sweeps drive all of this through the reset service and listen
to it through topics.

The full list of hazards, each at its line and with the properties that guard
it, is in `PROJECT.json`.

## 2. Modules

The lockstep:

| module | models | state and actions |
|---|---|---|
| `Topics` | what ROS 2 does for the nodes | `queue`: (topic, node) -> FIFO of at most `Depth` messages; `Send`, `Take`, `Ready` |
| `TickBarrier` | `nuway_common/tick.h` | no state: the operations as operators on a barrier value |
| `WorldManager` | tick loop and gate | `Startup`, `ApplyReset`, `TickWorld`, `PassGate`, `TimeOutGate` (tick thread), `OnControlCommand` (executor) |
| `GtPoseNode` | `gt_pose_node.cc` | `PoseOnResetEvent`, `OnInput` (both inputs), `PoseOnTickTimeout`; `Run` as in the code |
| `PurePursuitPidNode` | `pure_pursuit_pid_node.cc` | `CtrlOnResetEvent`, `OnReferenceLine`, `CtrlOnPose`, `CtrlOnTickTimeout` |
| `RoutePlannerNode` | `route_planner_node.cc` | `PlanOnResetEvent`, `OnLaneGraph`, `OnWaypoints`, `PlanOnPose` with `Plan` and `CheckReroute` |
| `RouteRunner` | the harness as the stack sees it | `PublishWaypoints` |
| `Stack` | all of the above, composed | `Spec`, `FairSpec`, the properties |
| `TickGate` | abstract: what the lockstep promises | `Advance`, `Answer`, `Settle` |
| `TickStamp` | `tick.py`, `tick.h` | operators over nanoseconds |

The reset service:

| module | models | state and actions |
|---|---|---|
| `ResetHandoff` | `_on_reset` and `_process_pending_reset` | one action per critical section of `_pending_lock` and per access to the request outside it |
| `ResetService` | abstract: what the service promises | the life of a request |

The nodes around the ground truth:

| module | models | state and actions |
|---|---|---|
| `NodeInbox` | their subscriptions (`qos.py`) | `inbox`: a keep-last queue each, no order between two |
| `GtPublisher` | `gt_publisher.py` inside `world_manager` | tick thread: `PublishAgents`, `TlCached`, `TlResolve`, `TlStore`; executor: `SetLanes`, `ClearStatic` |
| `GtTwinNode` | `gt_twin_node.py` and its two subclasses | `TwinOnInput`, `TwinOnTickTimeout`, `TwinOnResetEvent`, `TwinOnLaneGraph`; `Run` as in the code |
| `ControlAdapter` | `control_adapter.py` | `OnVehicleState`, `OnControlCommand` |
| `Bridge` (`MCBridge`) | the three next to the tick loop | `ApplyReset`, `TickWorld`, `PublishLights`, `PassGate`, `TimeOutGate`; `Localize` and `Command` are what the nodes of `Stack` do to their neighbours |
| `PedalMap` | `longitudinal_map.py` | `InterpRow`, `InvertMonotone`, `Inverse` |
| `VehicleFit` (`MCVehicleFit`) | the longitudinal part of `fit_models.py` | `LoadRuns`, `FitCoast`, `FitPedalTable`, `WriteVehicle` |

The programs that drive the stack, and what they leave behind:

| module | models | state and actions |
|---|---|---|
| `WorldFeed` | a stack as a program outside it sees it: the reset service, the topics, dying and being launched again | `Boot`, `Announce`, `TickWorld`, `PassGate`, `TimeOutGate`, `Die`, `GiveUp`, ... |
| `RouteHarness` | `run_routes.py` with `route_runner.py` | one action per step between two waits, one per outcome of a wait; `OnResetEvent`, `OnStamped`, `Interrupt` |
| `SweepRunner` | `run_sweeps.py` | `OnEgoOdom` with its phases, `OnEvent`, `OnTimeout`, and the driver around them |
| `Tools` (`MCTools`) | an operator who runs one of the two | `Spec`, `FairSpec` |
| `WorldLifecycle` (`MCLifecycle`) | constructor, map export and `shutdown` of `world_manager.py`, `sensor_rig`, `map_server`'s polling, the smoke test `check_native_ros2.py` | one action per CARLA call of the set-up; `Raise` (of a type the except clause names, or another), `Interrupt`, `Kill`; `DestroyNext`, `Destroyed`, `Restore`, which may raise; `Poll` |

Proofs: `TopicsLemmas`, `StackProofs`, `ResetHandoffProofs`,
`GtPublisherProofs`, `BridgeProofs` (with the stamps and the queues of
`NodeInbox`), `LifecycleProofs`, `ToolsProofs`, `VehicleFitProofs`.

Most modules hold one or more operators that no specification uses, next to the
definition they resemble: that definition with one mistake in it (`KeepAll` is
a ring without its bound). `PROJECT.json` says which property each of them
breaks when it takes the definition's place.

Correspondence and abstractions:

* A node is a single-threaded executor, so each callback is one action, and the
  action is the whole callback, publications included. `world_manager` is two
  threads: its command callback interleaves with the steps of the tick thread.
  `_tick_once` is split where it blocks: everything up to the gate
  (`TickWorld`), then the outcome (`PassGate` or `TimeOutGate`, with the
  diagnostics and the `TickTimeout` that follow it). `_apply_reset` is split at
  its call of `_tick_once`. In `Stack` the split loses nothing: the only state
  that another thread touches is `latestCmd`. The lane graph and the cache of
  traffic lights are touched by two threads without a lock, so `GtPublisher`
  splits both sides at every access, and `Bridge` keeps the lights a step of
  their own.
* A message is a record of the fields that a subscriber acts on; the stamp is
  its tick index, 0 for a message without a stamp (stamps start at tick 1).
  Poses, controls and geometry are data that the properties do not tell apart.
  A pose keeps whether it is valid and whether its steering angle is of its
  tick; a line is the tick of the pose it was planned from and the route it
  follows. In `Bridge` a past pose, a speed and a cached light stand for the
  tick or the map version they come from. `GtPoseNode` leaves out the noise and
  the latency history.
* `verdict` is the sequence of statuses that the tick thread reports, one per
  gated tick: "error" for a timeout, "ok" otherwise (the code's warnings about
  ground truth count as ok). `answers`, `episodeTicks`, `outputs`, `timedOut`,
  `speedsSeen`, `end`, `stuck`, `unrestored` and `expired` record what happened; the
  size of `timedOut` is a bound, otherwise no guard reads them.
* The planner's A*, the builder and the projection are their outcomes: planning
  may succeed or fail (`PlanOutcomes`), a pose may be on or off the line
  (`OffLine`).
* The simulator is external: `world.tick()` advances one frame.
* A wait with a wall-clock bound is an action for its condition and one for its
  end that is always enabled: every time-out may race every answer. A row of
  the harness and of a sweep is the set of (launch, episode) its messages came
  from, which the program itself cannot see.
* In `WorldLifecycle` an actor is its launch and its place in the rig, so that
  an actor left by an earlier launch is not mistaken for one of the current.
  `Raise` takes whether the exception is one of the three types that the
  constructor names. Every destroy of a clean-up may raise (`stuck`), and so
  may the restoring of asynchronous mode (`unrestored`); both go on as in the
  code. A world, the name the server has for its map (`MapName`), what
  `carla.town` asks for (`Asks`) and the name that `map_server` polls (`Stem`)
  are four different things, `Within` is Python's substring test on the names,
  and the file that is written is that of `Directory`.
* Coarser than the code, without an effect on a property: `TlResolve` is one
  access to `_lanes` for the three that follow the look at the cache
  (`gt_publisher.py:407`, 410, 413; the one that the finding needs, at line
  422, is separate in `TlStore`); `WorldFeed.Call` refuses a call while an
  older one is being applied, also when that one was withdrawn and the code
  accepts the new one to drop it afterwards (section 4): to the caller
  both are "not ok"; `PassGate` leaves out the exit of
  the gate on `not rclpy.ok()`, which ends the process.
* `PedalMap` and `VehicleFit` compute with integers (speeds in half bins,
  accelerations in half units), so that interpolation at half bins is exact;
  a pedal is a bin and a fraction of the step to the next.
* Messages are handed over at any time. Within a subscription they stay in
  order; a full queue drops its oldest message, as keep-last does. `Bridge` and `Tools` assume no order across
  topics at all. In `Stack`, **`ResetFirst`** is the one assumption about it.
  The docstring of `_apply_reset` says that `ResetEvent` goes out before the
  first tick "so every node has reset its state by the time that tick's data
  arrives", and `docs/02` section 7 that a node drops its state "before
  processing any message stamped at or after `ResetEvent.header.stamp`";
  separate topics do not guarantee either. With `ResetFirst = TRUE` a callback
  may not take a message of the new episode before the ResetEvent of that
  episode; with `FALSE` nothing is assumed. The runs `Gate` and `Lines` assume
  it; the proof of OkMeansAnswered does not, and section 4 shows what else the
  assumption carries.

`Stack` and `ResetHandoff` are run as they are; the other specifications have
an MC module for those constants that a configuration cannot write down.

## 3. Properties and runs

Bounds are constants and appear in the guards of the actions they bound:
`MaxTick`, `MaxEpisode`, `MaxTimeouts` in `Stack`; `MaxTicks`, `MaxTimeouts` in
`WorldFeed`; `MaxLaunch` in `WorldLifecycle`; `ticks`, `resets`, `graphs` of a
scene and `MaxTimeouts` in `Bridge`. `ResetHandoff` has a set of `Requests`,
each called once.

| run | setting | shows |
|---|---|---|
| `Gate` | gt_pose and controller, 4 ticks, 2 resets, 2 timeouts of either kind | `GateImplemented`: the stack refines `TickGate`, i.e. one answer at most per tick, in tick order, never for a tick that has not happened, and ok only with the tick's own answer; `OkMeansAnswered`; `FallbackOnlyWhenFlagged`: an input is degraded, or a pose published without its steering angle, only in an episode with a timeout |
| `Lines` | all three nodes, 5 ticks, 2 resets, plans that fail, reroutes after two off-line poses, waypoints with and without a stamp, fair | `LineAgreement`: controller and planner agree on the line once nothing is in flight; `FollowsLineOfEpisode`; `NewestRouteFollowed`: an episode that started on an old route leaves it for the newest as soon as planner and controller have it; `EveryTickAnswered`: nobody starves the gate, at no reset |
| `Handoff` | three callers, waits may expire, CARLA may raise, fair | `OkMeansOneEpisode`; `LostBehindWithdrawn`: a request is dropped unanswered only behind one that was withdrawn while it was being applied, at most one behind each; `ServiceImplemented`; `EveryCallReturns` |
| `Tools` | `run_routes` over Town01, Town02, Town01 and `run_sweeps` over two runs, one gate timeout, fair programs | `FirstTownRows`, `EveryRouteReported`, `OneStackAtMost`, `NoStackLeft`: rows and stacks of the harness whatever is late, refused or dead; `CleanSweep`: the rows of a run are consecutive ticks of an episode of its own; `ToolsEnd` |
| `Lifecycle` | Town03, Town10HD, its `_Opt` variant, two versions of a generated map; two sensors, three launches | `ActorsLeft`: a clean-up that is not cut off leaves, apart from actors whose own destroy raised, no hero, nothing once the program was running, and of a rig no more than the sensor that was being spawned (the smoke test: the sensors, while it spawns them); `FrozenServer`: a program that reached its tear-down leaves the server asynchronous, unless that very call raised; `GraphMatchesTown`: the published lane graph is of the simulated world, or of another that is exported under the name `map_server` polls (the versions of one generated map; a town has that name to itself); `GraphFollows`: it is published, if the server's map has the name that was asked for and no torn file lies there |
| `Bridge` | five scenes: lights (3 ticks, 2 lane graphs), two agents (6 ticks, 1 reset), the twin (4 ticks and 1 reset; 2 ticks and a lane graph), the adapter (5 ticks); one timeout | `EvenlySpacedHistory`, `OneStaleLight`, `FallbackOnlyAfterTimeout`, `OwnSpeedOnceSeen`, `LastTickAnswered` |
| `Fit` | tables of 3 speeds by 1 pedal level and 2 by 2, every pattern of reached bins and measured means | `DemandReached`: the tables that come out, inverted, produce every demand or the nearest the car can do |

Every run but `Lines` also checks the type invariant of its specification.

Why the bounds are enough.

* `Gate`, `Lines`: a second reset distinguishes "the last episode" from "every
  earlier episode" and overlaps the messages of one reset with the next; a
  third adds no new relation, since a node remembers one episode. Two timeouts
  reach the overflow of the depth-2 streams and a degraded source that is
  degraded again; four ticks leave a full tick after them. Five ticks in
  `Lines` allow a plan, two off-line poses, a reroute and a reset among them.
  `reroute_ticks` is 40 in the code and 2 here: the counter is only compared
  with the limit.
* `Handoff`: three requests are one being applied, one queued behind it and one
  refused.
* `Tools`: a town with two routes and another town in between, so that a route
  follows one on the same stack and one on a new stack. The ticks of a launch
  are just enough for its resets, with one to spare for messages that belong to
  nobody. `SettleTicks` and `HoldTicks` are compared with a counter only. A
  second run of the sweeps meets the leftovers of the first.
* `Lifecycle`: a launch finds what one or two others left; two geometries under
  one name are what an edited generated map is, and a town inside a longer name
  is what CARLA's variants are. Two sensors are one to be left behind and one
  that was remembered.
* `Bridge`: the parts do not touch each other's state, so each is run on its
  own next to the tick loop. Rings of length 2, a window of 3 and buffers of 4
  ticks wrap within the ticks of their scenes. `OwnSpeedOnceSeen` holds
  while the window is two ticks longer than there are timeouts, which the scene
  of the adapter meets exactly; section 5 has the general statement.
* `Fit`: a bin with reached and unreached neighbours on both sides; one mean
  below and one above coasting; demands beyond the reach of either pedal.

Fairness. `FairSpec` of `Stack` assumes that the tick thread keeps looping
through its own steps, that `world_manager`'s executor keeps taking commands,
and that each node's executor keeps spinning: what an OS scheduler gives to
threads that run in a loop or spin. A node's fairness there is for its executor
as a whole, not for each callback. In `ResetHandoff` the same holds for the
tick thread and for each service thread (a reentrant callback group, so a
blocked call does not block another). `Bridge` assumes the tick thread,
the executor of `world_manager`, and for the twin that no subscription is
passed over for ever, since an executor serves all that are ready in turn.
`Tools` assumes only that the two programs run on; nothing of the stack.
`WorldLifecycle` assumes only that `map_server`'s timer fires. Resets, gate
timeouts, exceptions, interrupts and kills are never assumed to happen.

`CHECK_DEADLOCK FALSE` is used where a system may really stop: with
`ResetFirst = FALSE` a starved gate with no timeout left stops the bounded
model; the hand-off stops when every call has returned or CARLA raised; the
tools, the launches and the fit end; a scene of `Bridge` ends when its ticks
are used up. In `Gate`, `Lines` and `UnstampedRoute` a deadlock would be a
stuck lockstep and is checked; `Finished` is the only idle step, at the tick
bound.

## 4. Disagreements found

Each of these runs checks one property that a document or comment of the
repository states, and TLC shows the code violating it; the counterexamples are
short. Quotes and lines are under `findings`.

* `LateResetWipesLine`: when reference line and ResetEvent of one episode are
  ready in the same wake, the controller takes the line first (creation order
  of its subscriptions) and the reset then wipes it. The planner guards its
  waypoints against exactly this; the controller does not guard its line.
* `UnstampedRoute`: waypoints without a stamp, as the harness publishes them,
  survive the reset, and the new episode starts on the old route until the new
  waypoints come.
* `StaleEpisode`: the harness remembers the newest episode id over all towns,
  each town has a stack whose ids start at 0, so the events of the second stack
  are taken for replays and its rows are filled with messages of the first
  stack or of an earlier episode. `FirstTownRows` is what is left.
* `LeftBehind`: `main` shuts a constructed node down, and the constructor's own
  clean-up covers the rig's `spawn` and `GtPublisher`, for three types of
  exception, without restoring the server. A start-up that fails or is
  interrupted elsewhere leaves the server frozen, and the hero on it. What the
  clean-ups that do run achieve is `ActorsLeft` and `FrozenServer`.
* `WrongGraph`: three ways to a stack that runs for ever without the lane graph
  of its world, and the counterexample is one of them. An export that was cut
  off is never written again, and `map_server` retries a file that nobody is
  writing. An edited generated map runs with the lane graph of the version that
  was exported first. And a server at `Town10HD_Opt`, where CARLA boots, passes
  for `Town10HD`: its map is exported under the server's name, while
  `map_server` waits for a file under the name of the profile.
  `GraphMatchesTown` and `GraphFollows` are what is left.

Two interleavings contradict a comment as well, and passing runs bound what they
cost. The tick thread, done with a request that was withdrawn meanwhile, clears
`_pending_reset` even when it holds the next caller's request by now, who then
waits in vain (`_on_reset` says it will "block until it was applied"):
`LostBehindWithdrawn`. And `_tl_static_for` looks at `_lanes` twice while
another thread assigns it, so that a light resolved without a lane graph is
cached after all (`gt_publisher.py:394`: "Cached only once a lane graph is
available"): `OneStaleLight`.

Four more observations are not kept as runs.
Without `ResetFirst`, `gt_pose_node` clears the odometry or the vehicle state
of the first tick with the late ResetEvent and answers the tick without it.
Whatever the order of resets, a `TickTimeout(k)` handled after *k*'s late
message and *k + 1*'s arrival degrades a source that did deliver, since the
barrier remembers only the newest arrival; the pose stays in a flagged episode.
And withdrawing a reset that the tick thread has already taken has no effect:
the caller is told it failed and it is applied all the same, which is why
`ResetService` has the outcome "late". And a
ResetEvent that the twin handles after the first tick of its episode sets
`_last_published_k` back, so that a `TickTimeout` answers that tick a second
time, where `gt_twin_node.py:4-5` promises one publication per tick.

## 5. Proofs

`tlapm` checks these for every value of the constants that the modules'
assumptions admit; those assumptions (`NodesAssumption`,
`ResetFirstAssumption`, `WorldAssumption`, `PlannerAssumption`,
`RunnerAssumption`, `HandoffAssumption`, `HistoryLenAssumption`,
`BridgeAssumption`, `AdapterAssumption`, `LifecycleAssumption`,
`ProgramsAssumption`, `RoutesAssumption`, `SweepAssumption`, `FitAssumption`)
give the parameters their types and
keep the values that stand for "nothing" apart from the others. Further
hypotheses are written in the theorems.

The lockstep (`StackProofs`, on the lemmas of `TopicsLemmas` about queues):

* `TypeCorrect`: `Spec => []TypeOK`, inductive as it stands.
* `GateNeverLies`: `Spec => []OkMeansAnswered`, for both values of
  `ResetFirst`. OkMeansAnswered is not inductive: the gate compares with `>=`,
  so a command from the future would open it for the wrong tick. The
  strengthening `GateInv` says that nothing on the path from the world to the
  controller is stamped ahead of the world (`Flow`), hence no answer is; that
  every command in flight and the newest one received is an answer; and that
  the verdicts are one per gated tick. At the gate, `latestCmd >= now`, being
  an answer, is `now`.
* `GateImplementedHolds`, under `ResetFirst`: the stack implements `TickGate`.
  That answers come in tick order is `AnswerOrder`: what the controller has
  answered is settled, and every ResetEvent still pending is of a later tick
  than every answer, so no reset takes the controller back.
* `FollowsLineHolds`, under `ResetFirst` and `MaxEpisode < EventDepth`.
  `EpisodeInv` says that the ResetEvents pending at a node are in order and
  none was dropped; `CtrlEpisode` that the controller knows of every episode
  whose event is not pending any more; `LineInv` that its line was planned in
  the episode it is in, before all that it has still to be told of.
* `NewestRouteHolds`, under the same two hypotheses and whatever stamps the
  waypoints have: `WaypointInv` says that, once the newest route was published
  and is not queued any more, the planner has it, or, before it has heard of the
  episode, will not drop it; and that a line in the planner is of the waypoints
  it has. `LinesInv`, which also carries `LinesAgree`, brings that line to the
  controller. That an episode may start on an old route, when its waypoints have
  no stamp, is the finding `UnstampedRoute`.
* `FallbackHolds`, under the same two hypotheses as the line: `PoseEpisode` and
  `FallbackInv` say that every `TickTimeout` in flight is of a timed-out tick,
  that a degraded input was degraded by one of its own episode, and that a pose
  without a steering angle is of a flagged tick.

* `LinesAgree`, under `ResetFirst` and `MaxEpisode < EventDepth`: `Spec =>
  []LineAgreement`. `AgreeInv` says that the queue of reference lines keeps the
  newest alone (`LatestOnly`, `TakenLast`): while a line is queued it is
  the planner's, and once it is empty the controller has it; two lemmas add that a planner
  whose line is of an earlier episode still has a ResetEvent before it
  (`PlannerUpToDate`); and that no ResetEvent is pending at the controller
  behind a line of its own episode (`NoResetBehindLine`). The property alone is
  not inductive: it speaks of empty queues only, and it is what is queued in
  the step before that decides.

`MaxEpisode < EventDepth` (10) means that no ResetEvent is lost: with more
resets than a node has room for events, a node that never runs loses one, and
the ordering that `ResetFirst` stands for loses its meaning.

The reset service (`ResetHandoffProofs`), for any set of callers, with expiring
waits and exceptions: `HandoffTypeCorrect`, `OneEpisodePerOk`,
`LossBounded` and `ServiceImplementedHolds`. `HandoffInv` adds that a
request not called yet is nowhere, that a queued request that could still be
taken has no episode, and that the one about to be announced has none;
`CallerInv` ties the place of a caller to the answer it gets, `TakenInv` says
that a request in hand whose wait has not expired is still the queued one, and
`LossInv` counts: the lost requests are no more than the withdrawn ones the tick
thread is done with (`Paid`), a sharper count than the property's, which
credits the one in hand already.

The nodes around the ground truth (`BridgeProofs`, on `GtPublisherProofs`), for
any agents, lights, window and ring lengths, scenes and timeouts:
`BridgeTypeOK`, `OneStaleLightHolds`, `EvenlySpacedHistoryHolds`,
`FallbackOnlyAfterTimeoutHolds`. `BridgeInv` adds to them that no light of an
old map is cached while one is being resolved (`LightInv`), that a ring holds
the consecutive ticks of the agent's stay (`RingInv`), and that an input of the
twin is degraded only by a gate timeout of its episode (`TwinInv`).

`control_adapter` (same module): `OldSpeedOnlyBehind` needs no hypothesis. If
the adapter uses another tick's speed although it was once told that of the
command's own tick, the gate has given up on at least `SpeedHistoryTicks - 1`
ticks after that one (19 in the code, of 2 s each). `OwnSpeedOnceSeenHolds`
draws the conclusion for `MaxTimeouts + 2 <= SpeedHistoryTicks`. The argument
is a count: a tick without a command is the one being waited for or has timed
out (`GateInv`), of two queued commands every tick in between has timed out
(`CommandsInv`), a speed is forgotten only when it is `SpeedHistoryTicks` older
than the newest (`SpeedsInv`); so of the ticks between the command and now, at
least as many as the window is long, all but one have timed out.

Launches (`LifecycleProofs`), for any worlds, any relation between their names,
any number of sensors and launches: `LifecycleTypeOK`, `ActorsLeftHolds`,
`FrozenServerHolds`, `GraphMatchesTownHolds`. The four properties speak of a
program that has ended or is running; `LifecycleInv` adds the way there.
`ActorInv` follows the actors that no clean-up will try (`Unkept`): what
`ActorsLeft` says of the end it says of these at every place of the set-up, and
the clean-up, which moves actors from `kept` to gone or to `stuck`, leaves them
as they are. `EndInv` says that a clean-up is only entered from where the code
catches, and that nothing is stuck before one. `GraphInv` says that a finished
file is of a world that is exported under its name, whichever launch wrote it.
What the theorems do not say is as important: nothing is claimed of a start-up
that fails outside the constructor's `try`, of Ctrl-C in the start-up or of a
tear-down that is cut off, and run `LeftBehind` shows why.

The programs that drive the stack (`ToolsProofs`), for any file of routes over
any number of towns, any list of sweeps and any durations, and a stack that
answers late, refuses, drops messages or dies whenever it likes:

* `group_by_town` first: the n-th smallest index of a set exists and is unique
  (`InOrderLists`), so every route is in the list of its town once
  (`RoutesOfTown`) and every town once in the list of towns (`TownsOfRoutes`).
* `ToolsTyped`, `RoutesReported` (`EveryRouteReported`), `StackStopped`
  (`NoStackLeft`), `OneStack` (`OneStackAtMost`, an action property), from
  `HarnessInv`. A property of the end says nothing of the way there:
  `ControlInv` ties the place of the program to the launch, the town and the
  route it is at, `RowsInv` says that the rows so far are of different routes
  and of their own town's launch, `NoneLeftOut` that no route before the
  current one is missing unless somebody pressed Ctrl-C. The type invariant
  needs it as well: that there are no more rows than routes is a count over
  `RowsInv`.
* `FirstTownClean` (`FirstTownRows`), from `FirstInv`: on the first stack every
  ResetEvent under way, and the one handled last, parts the odometry by its
  stamp into earlier episodes and the rest (`Parts`), and an ok answer to the
  newest call is of the newest episode (`Asked`). The second stack breaks
  `Parts`, which is the finding `StaleEpisode`.
* `SweepsClean` (`CleanSweep`), from `SweepInv`: without a gate timeout at most
  one odometry message is under way, that of the tick at the gate (`OneTick`),
  the run's rows end at the tick commanded last and are numbered back from it
  (`RunRows`), and the phase machine counts as it should (`RunShape`).

The fitted vehicle (`VehicleFitProofs`), for tables of any size, any reached
bins and any means: `FitTyped`, and `PedalsReachDemand` (`DemandReached`).
`FitInv` says that each finished table starts at the coasting curve and is
monotone along every row, and that what is written is those tables. That a
monotone row reaches every demand between its ends is `InverseReaches`; that
`np.maximum.accumulate` makes a row monotone is `AccumulateMonotone`; that
interpolation between two speeds keeps it so is `InterpolatedRow`. These are
inductions along a row of any length, stated with a set of positions instead of
an operator: the least position of a nonempty set of counterexamples
(`WFMin` of `WellFoundedInduction`) has a neighbour that is none.

Stamps (`BridgeProofs`): `StampRoundTrip` and `JitterSafe`, over all integers;
there is no run for them.

Only model-checked: liveness (`EveryTickAnswered`, `EveryCallReturns`,
`ToolsEnd`, `GraphFollows`, `LastTickAnswered`), which needs ENABLED, out of
this prover's reach. Every other property of a passing run is stated by a
theorem.

## 6. Not modelled, and why

* The control law, geometry, the Frenet frame, occupancy grids, the lateral
  fits and the residuals compute with floating-point numbers and keep no state
  that another actor sees.
* `PlanRoute` and the reference line builder are functions of a map and of
  distances in the plane; so is the choice of the waypoints a reroute keeps.
  Their outcome, a line or none, is a choice of the model.
* `lane_graph` and `opendrive_parser` parse XML and sample curves.
* `compare_runs`, route files, bringup, launch files, viz markers, `diag`,
  bindings, lint and the offline scripts are configuration, read-only views or
  batch jobs.
* Restarts and late joiners of single nodes, with the replay of latched
  messages: the launch files restart no node. `RouteHarness` does restart whole
  stacks.
* A server that skips frames: the code reports it and goes on.
* Weather, diagnostics topics, the counts in a row of `results.csv` and the
  wheel angles of a sweep's rows.

The hazards without a property (`PROJECT.json`) are those that live in one of
these.

## 7. What is left

In the order of what they would add:

1. Late subscriptions in `Topics`: what a node that joins late makes of the
   replayed events and timeouts.
2. The waypoints of a reroute as positions on a line, and `PlanRoute` on small
   lane graphs against a reference shortest path.
3. What `ResetFirst` is worth: the theorems of `Stack` that need it, under the
   weaker assumption that it fails for some topics only.
