---------------------------- MODULE WorldManager -----------------------------
(***************************************************************************)
(* The tick loop of world_manager.py: tick the simulator, publish the      *)
(* ground truth of tick k, then hold the world until a ControlCommand      *)
(* stamped k has arrived or the wall clock has run out.  The simulator is  *)
(* external: world.tick() advances it by one frame.  The tick thread and   *)
(* the executor thread meet in latestCmd, under _cmd_cond.                 *)
(***************************************************************************)
EXTENDS Topics, Integers

CONSTANTS
  MaxTick,      \* bound: ticks simulated
  MaxEpisode,   \* bound: resets applied
  MaxTimeouts,  \* bound: gate timeouts
  TimeoutKinds  \* which wall-clock timeouts can expire: "lockstep" (2 s),
                \* "startup" (120 s, on the first tick of an episode)

ASSUME WorldAssumption ==
  /\ MaxTick \in Nat /\ MaxEpisode \in Nat /\ MaxTimeouts \in Nat
  /\ TimeoutKinds \subseteq {"lockstep", "startup"}

VARIABLES
  now,             \* tick index of the last simulated frame
  phase,           \* where the tick thread is: "peers" before the loop, "loop"
                   \* at its head, "reset" with a reset applied and its tick
                   \* still to run, "gate" waiting for the command of now
  episode,         \* _episode_id
  latestCmd,       \* _latest_cmd_tick
  startupPending,  \* _startup_pending
  timeouts,        \* _timeouts
  verdict,         \* the NodeDiag statuses published, one per gated tick
  episodeTicks    \* the stamps of the ResetEvents published, in order

worldVars == <<now, phase, episode, latestCmd, startupPending, timeouts,
              verdict, episodeTicks>>

WorldTypeOK ==
  /\ now \in Nat
  /\ phase \in {"peers", "loop", "reset", "gate"}
  /\ episode \in Nat
  /\ latestCmd \in Int
  /\ startupPending \in BOOLEAN
  /\ timeouts \in Nat
  /\ verdict \in Seq({"ok", "error"})
  /\ episodeTicks \in Seq(Nat)

WorldInit ==
  /\ now = 0
  /\ phase = "peers"
  /\ episode = 0
  /\ latestCmd = -1
  /\ startupPending = TRUE
  /\ timeouts = 0
  /\ verdict = <<>>
  /\ episodeTicks = <<>>

(* Mutant: the event carries the tick before the last one, not the next one. *)
PublishResetEventStale(e) ==
  /\ queue' = Send(queue, "reset_event", [tick |-> now - 1, episode |-> e])
  /\ episodeTicks' = Append(episodeTicks, now + 1)

(* _publish_reset_event: stamped with the tick world.tick() simulates next. *)
PublishResetEvent(e) ==
  /\ queue' = Send(queue, "reset_event", [tick |-> now + 1, episode |-> e])
  /\ episodeTicks' = Append(episodeTicks, now + 1)

(* run() up to the loop: the peers are up, episode 0 is announced. *)
Startup ==
  /\ phase = "peers"
  /\ phase' = "loop"
  /\ PublishResetEvent(episode)
  /\ UNCHANGED <<now, episode, latestCmd, startupPending, timeouts, verdict>>

(* _apply_reset up to its tick: teleport, next episode id, forget the command,  *)
(* announce the episode before its first tick.                                  *)
ApplyReset ==
  /\ phase = "loop"
  /\ episode < MaxEpisode /\ now < MaxTick
  /\ phase' = "reset"
  /\ episode' = episode + 1
  /\ latestCmd' = -1
  /\ startupPending' = TRUE
  /\ PublishResetEvent(episode + 1)
  /\ UNCHANGED <<now, timeouts, verdict>>

(* _tick_once up to the gate: one frame, then its ground truth. *)
TickWorld ==
  /\ phase \in {"loop", "reset"}
  /\ now < MaxTick
  /\ now' = now + 1
  /\ phase' = "gate"
  /\ queue' = Send(Send(queue, "ego_odom", [tick |-> now + 1]),
                   "vehicle_state", [tick |-> now + 1])
  /\ UNCHANGED <<episode, latestCmd, startupPending, timeouts, verdict, episodeTicks>>

(* Mutant: the gate is content with the command of the previous tick. *)
CommandArrivedLax == latestCmd >= now - 1

(* A command for an earlier tick of this or another episode does not do. *)
CommandArrived == latestCmd >= now

(* _wait_for_command returns because the command of the tick is there. The *)
(* verdict "ok" stands for WARN as well: a warning about the ground truth  *)
(* says nothing of the command.                                            *)
PassGate ==
  /\ phase = "gate"
  /\ CommandArrived
  /\ phase' = "loop"
  /\ startupPending' = FALSE
  /\ verdict' = Append(verdict, "ok")
  /\ UNCHANGED <<now, episode, latestCmd, timeouts, episodeTicks, queue>>

(* _wait_for_command gives up: report the tick to every node, tick anyway. *)
TimeOutGate ==
  /\ phase = "gate"
  /\ ~ CommandArrived
  /\ (IF startupPending THEN "startup" ELSE "lockstep") \in TimeoutKinds
  /\ timeouts < MaxTimeouts
  /\ phase' = "loop"
  /\ startupPending' = FALSE
  /\ timeouts' = timeouts + 1
  /\ verdict' = Append(verdict, "error")
  /\ queue' = Send(queue, "tick_timeout", [tick |-> now])
  /\ UNCHANGED <<now, episode, latestCmd, episodeTicks>>

(* Executor thread, at any point of the tick thread. *)
OnControlCommand ==
  LET command == <<"command", "world_manager">>
      k == Head(queue[command]).tick
  IN  /\ Ready(command)
      /\ latestCmd' = IF k > latestCmd THEN k ELSE latestCmd
      /\ queue' = Take(command)
      /\ UNCHANGED <<now, phase, episode, startupPending, timeouts, verdict,
                     episodeTicks>>

TickThread == Startup \/ ApplyReset \/ TickWorld \/ PassGate \/ TimeOutGate

WorldNext == TickThread \/ OnControlCommand
==============================================================================
