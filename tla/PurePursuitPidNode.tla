------------------------- MODULE PurePursuitPidNode --------------------------
(***************************************************************************)
(* pure_pursuit_pid_node.cc: answers every tick with one ControlCommand,   *)
(* computed from the pose of the tick and the latest reference line, or an *)
(* emergency stop when the pose is invalid, when there is no line, or when *)
(* TickTimeout says the pose will not come.                                *)
(***************************************************************************)
EXTENDS Topics, Integers

VARIABLES
  ctrlEpisode,   \* episode_id_, -1 before the first ResetEvent
  ctrlStart,     \* episode_tick_, 0 before the first ResetEvent
  lastTick,      \* last_tick_, 0 before the first answer of an episode
  line,          \* the line inside PurePursuitPid, NoLine after its Reset()
  answers       \* the commands published so far: the tick each one is stamped
                 \* with, and the line that the controller's Step followed

ctrlVars == <<ctrlEpisode, ctrlStart, lastTick, line, answers>>

NoLine == [tick |-> 0, route |-> 0]

Lines == [tick : Nat, route : Nat]

CtrlTypeOK ==
  /\ ctrlEpisode \in Int
  /\ ctrlStart \in Nat
  /\ lastTick \in Nat
  /\ line \in Lines
  /\ answers \in Seq([tick : Nat, line : Lines])

CtrlInit ==
  /\ ctrlEpisode = -1
  /\ ctrlStart = 0
  /\ lastTick = 0
  /\ line = NoLine
  /\ answers = <<>>

CtrlSub(topic) == <<topic, "controller">>

(* A message without a stamp (tick 0) belongs to no episode in particular. *)
CtrlBeforeEpisode(k) == k # 0 /\ k < ctrlStart

(* Mutant: the controller keeps the line of the last episode. *)
CtrlOnResetEventKeepsLine ==
  LET reset == CtrlSub("reset_event")
      e == Head(queue[reset])
  IN  /\ Ready(reset)
      /\ queue' = Take(reset)
      /\ \/ /\ e.episode <= ctrlEpisode
            /\ UNCHANGED ctrlVars
         \/ /\ e.episode > ctrlEpisode
            /\ ctrlEpisode' = e.episode
            /\ ctrlStart' = e.tick
            /\ lastTick' = 0
            /\ UNCHANGED <<line, answers>>

(* OnResetEvent: a replay of an episode already known is dropped. *)
CtrlOnResetEvent ==
  LET reset == CtrlSub("reset_event")
      e == Head(queue[reset])
  IN  /\ Ready(reset)
      /\ queue' = Take(reset)
      /\ \/ /\ e.episode <= ctrlEpisode
            /\ UNCHANGED ctrlVars
         \/ /\ e.episode > ctrlEpisode
            /\ ctrlEpisode' = e.episode
            /\ ctrlStart' = e.tick
            /\ line' = NoLine
            /\ lastTick' = 0
            /\ UNCHANGED answers

(* Mutant: the first line of an episode stays, a reroute is not taken over. *)
OnReferenceLineFirst ==
  LET sub == CtrlSub("reference_line")
      l == Head(queue[sub])
  IN  /\ Ready(sub)
      /\ queue' = Take(sub)
      /\ line' = IF CtrlBeforeEpisode(l.tick) \/ line # NoLine THEN line ELSE l
      /\ UNCHANGED <<ctrlEpisode, ctrlStart, lastTick, answers>>

(* OnReferenceLine: latest value, of this episode. *)
OnReferenceLine ==
  LET sub == CtrlSub("reference_line")
      l == Head(queue[sub])
  IN  /\ Ready(sub)
      /\ queue' = Take(sub)
      /\ line' = IF CtrlBeforeEpisode(l.tick) THEN line ELSE l
      /\ UNCHANGED <<ctrlEpisode, ctrlStart, lastTick, answers>>

(* Mutant: a tick that a TickTimeout settled is answered again by its pose. *)
SettledUnlessLast(k) == CtrlBeforeEpisode(k) \/ k < lastTick

(* The tick is of an earlier episode, or already has its command. *)
Settled(k) == CtrlBeforeEpisode(k) \/ k <= lastTick

(* Publish: the command of tick k, following l; NoLine is an emergency stop. *)
Answer(k, l, q) ==
  /\ lastTick' = k
  /\ answers' = Append(answers, [tick |-> k, line |-> l])
  /\ queue' = Send(q, "command", [tick |-> k])

(* OnPose: the per-tick entry point; an invalid pose does not reach Step. *)
CtrlOnPose ==
  LET pose == CtrlSub("pose")
      p    == Head(queue[pose])
      rest == Take(pose)
  IN  /\ Ready(pose)
      /\ \/ /\ Settled(p.tick)
            /\ queue' = rest
            /\ UNCHANGED <<lastTick, answers>>
         \/ /\ ~ Settled(p.tick)
            /\ Answer(p.tick, IF p.valid THEN line ELSE NoLine, rest)
      /\ UNCHANGED <<ctrlEpisode, ctrlStart, line>>

(* OnTickTimeout: the pose never came, stop the car on this tick. *)
CtrlOnTickTimeout ==
  LET timeout == CtrlSub("tick_timeout")
      k    == Head(queue[timeout]).tick
      rest == Take(timeout)
  IN  /\ Ready(timeout)
      /\ \/ /\ Settled(k)
            /\ queue' = rest
            /\ UNCHANGED <<lastTick, answers>>
         \/ /\ ~ Settled(k)
            /\ Answer(k, NoLine, rest)
      /\ UNCHANGED <<ctrlEpisode, ctrlStart, line>>

CtrlNext ==
  CtrlOnResetEvent \/ OnReferenceLine \/ CtrlOnPose \/ CtrlOnTickTimeout
==============================================================================
