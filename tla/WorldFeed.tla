------------------------------ MODULE WorldFeed -------------------------------
(***************************************************************************)
(* A running stack as a program outside it sees it, from reset to reset:   *)
(* the /nuway/sim/reset service and the topics that world_manager.py and   *)
(* gt_publisher.py publish, one subscription queue per topic.  A stack can *)
(* be launched again; the new one starts at episode 0 and at tick 1 of a   *)
(* freshly loaded town.  The stack may die at any moment, the answer to a  *)
(* request may be late, and nothing orders the topics among each other.    *)
(***************************************************************************)
EXTENDS Integers, Sequences

CONSTANTS
  MaxTicks,     \* bound: the ticks of each launch; the last one is the stack that
                \* runs before the program does
  MaxTimeouts   \* bound: gate timeouts during the sweeps

ASSUME FeedAssumption == MaxTicks \in Seq(Nat) /\ MaxTimeouts \in Nat

VARIABLES
  up,         \* the launch: "down", "booting", "serving", "dying"
  launch,     \* which launch this is
  now,        \* tick index of the last simulated frame
  episode,    \* _episode_id of world_manager
  gate,       \* its tick thread: "loop", "reset" announced, "gate" waiting for
              \* the command of a tick, "first" for that of a reset's tick
  commanded,  \* the newest command it has received
  pending,    \* the call it is working on, 0 for none
  told,       \* whether the caller of pending has been answered already
  answer,     \* the response that is on its way to the observer
  queue,      \* what the observer has not handled yet, by topic
  timeouts    \* gate timeouts so far

feedVars == <<up, launch, now, episode, gate, commanded, pending, told, answer, queue,
              timeouts>>

FeedTopics == {"reset_event", "ego_odom", "tick_timeout"}

NoAnswer == [call |-> 0, ok |-> FALSE, episode |-> 0]

(* Which launch and episode a message belongs to: the observer cannot see it. *)
Origin == <<launch, episode>>

FeedTypeOK ==
  /\ up \in {"down", "booting", "serving", "dying"}
  /\ launch \in Nat /\ now \in Nat /\ episode \in Nat /\ pending \in Nat
  /\ gate \in {"loop", "reset", "gate", "first"}
  /\ commanded \in Int /\ told \in BOOLEAN
  /\ answer \in [call : Nat, ok : BOOLEAN, episode : Nat]
  /\ DOMAIN queue = FeedTopics
  /\ timeouts \in 0 .. MaxTimeouts

(* Reliable, keep-last: ego_odom keeps two messages, the events ten. *)
Publish(q, topic, msg) ==
  LET all == Append(q[topic], msg)
      depth == IF topic = "ego_odom" THEN 2 ELSE 10
  IN  [q EXCEPT ![topic] = IF Len(all) > depth THEN Tail(all) ELSE all]

Stamped(k) == [k |-> k, of |-> Origin]

(* __init__: episode 0 is announced before the first tick. *)
FirstEvent == [k |-> 1, episode |-> 0]

FeedInit(running) ==
  /\ up = IF running THEN "serving" ELSE "down"
  /\ launch = IF running THEN Len(MaxTicks) ELSE 0
  /\ now = 0 /\ episode = 0 /\ gate = "loop" /\ commanded = -1
  /\ pending = 0 /\ told = FALSE /\ answer = NoAnswer /\ timeouts = 0
  /\ queue = [t \in FeedTopics |->
                IF running /\ t = "reset_event" THEN <<FirstEvent>> ELSE <<>>]

Boot ==
  /\ up = "booting"
  /\ up' = "serving"
  /\ queue' = Publish(queue, "reset_event", FirstEvent)
  /\ UNCHANGED <<launch, now, episode, gate, commanded, pending, told, answer, timeouts>>

(* world_manager dies, and with it, a moment later, the launch. *)
Die ==
  /\ up \in {"booting", "serving"}
  /\ up' = "dying"
  /\ UNCHANGED <<launch, now, episode, gate, commanded, pending, told, answer, queue, timeouts>>

Exit ==
  /\ up = "dying"
  /\ up' = "down"
  /\ UNCHANGED <<launch, now, episode, gate, commanded, pending, told, answer, queue, timeouts>>

(* _apply_reset up to its tick: the event carries the tick that comes next. *)
Announce ==
  /\ up = "serving" /\ gate = "loop" /\ pending # 0
  /\ episode' = episode + 1
  /\ queue' = Publish(queue, "reset_event", [k |-> now + 1, episode |-> episode + 1])
  /\ gate' = "reset"
  /\ UNCHANGED <<up, launch, now, commanded, pending, told, answer, timeouts>>

(* _tick_once up to the gate; gt_publisher publishes the ground truth. *)
TickWorld ==
  /\ up = "serving" /\ now < MaxTicks[launch]
  /\ gate \in {"loop", "reset"}
  /\ now' = now + 1
  /\ queue' = Publish(queue, "ego_odom", Stamped(now + 1))
  /\ gate' = IF gate = "reset" THEN "first" ELSE "gate"
  /\ UNCHANGED <<up, launch, episode, commanded, pending, told, answer, timeouts>>

(* The gate is passed; a reset whose tick this was is over, and answered ok *)
(* unless its caller was already told that it failed.                       *)
LeaveGate ==
  /\ gate' = "loop"
  /\ pending' = IF gate = "first" THEN 0 ELSE pending
  /\ told' = FALSE
  /\ answer' = IF gate = "first" /\ ~ told
               THEN [call |-> pending, ok |-> TRUE, episode |-> episode]
               ELSE answer

(* The command of the tick arrived.  With a controller in the stack it comes *)
(* from there; during a sweep it is the sweep node's.                         *)
PassGate(sweeping) ==
  /\ up = "serving" /\ gate \in {"gate", "first"}
  /\ sweeping => commanded >= now
  /\ LeaveGate
  /\ UNCHANGED <<up, launch, now, episode, commanded, queue, timeouts>>

(* The wall clock ran out: TickTimeout, and on.  To the harness, which only     *)
(* counts it, this is a slow tick; the sweep node is told.                      *)
TimeOutGate ==
  /\ up = "serving" /\ gate \in {"gate", "first"} /\ timeouts < MaxTimeouts
  /\ timeouts' = timeouts + 1
  /\ queue' = Publish(queue, "tick_timeout", Stamped(now))
  /\ LeaveGate
  /\ UNCHANGED <<up, launch, now, episode, commanded>>

(* _on_reset gives up waiting: the request is withdrawn if it still is queued, *)
(* and otherwise applied although its caller is told that it failed.           *)
GiveUp ==
  /\ up = "serving" /\ pending # 0 /\ ~ told
  /\ answer' = [call |-> pending, ok |-> FALSE, episode |-> 0]
  /\ pending' = IF gate \in {"loop", "gate"} THEN 0 ELSE pending
  /\ told' = (pending' # 0)
  /\ UNCHANGED <<up, launch, now, episode, gate, commanded, queue, timeouts>>

FeedNext(sweeping) ==
  \/ Boot \/ Die \/ Exit \/ Announce \/ TickWorld \/ PassGate(sweeping)
  \/ (sweeping /\ TimeOutGate) \/ GiveUp

(* The observer's half: a call is queued, refused or, with nobody there, lost. *)
Call(c) ==
  /\ pending' = IF up = "serving" /\ pending = 0 THEN c ELSE pending
  /\ answer' = IF up = "serving" /\ pending # 0
               THEN [call |-> c, ok |-> FALSE, episode |-> 0] ELSE answer
  /\ UNCHANGED <<up, launch, now, episode, gate, commanded, told, queue, timeouts>>

(* The observer has read the response, or will not look at it any more. *)
Forget ==
  /\ answer' = NoAnswer
  /\ UNCHANGED <<up, launch, now, episode, gate, commanded, pending, told, queue, timeouts>>

(* The observer's executor hands the oldest message of a topic to a callback. *)
Handle(topic) ==
  /\ queue[topic] # <<>>
  /\ queue' = [queue EXCEPT ![topic] = Tail(@)]
  /\ UNCHANGED <<up, launch, now, episode, gate, pending, told, answer, timeouts>>
===============================================================================
