------------------------------ MODULE TickGate -------------------------------
(***************************************************************************)
(* What the lockstep promises, without nodes, topics or episodes: the      *)
(* world takes one tick at a time; a tick is answered at most once, never  *)
(* before it happens and never after a later one; and the next tick waits  *)
(* until this one is settled, as "ok" only if its own answer was given.    *)
(***************************************************************************)
EXTENDS Naturals, Sequences

VARIABLES
  tick,      \* the newest tick of the world
  answered,  \* the ticks answered so far, in the order of the answers
  verdict    \* the verdicts of the settled ticks

vars == <<tick, answered, verdict>>

Init == tick = 0 /\ answered = <<>> /\ verdict = <<>>

IsAnswered(k) == \E i \in 1 .. Len(answered) : answered[i] = k

Advance ==
  /\ Len(verdict) = tick
  /\ tick' = tick + 1
  /\ UNCHANGED <<answered, verdict>>

Answer(k) ==
  /\ \A i \in 1 .. Len(answered) : answered[i] < k
  /\ answered' = Append(answered, k)
  /\ UNCHANGED <<tick, verdict>>

Settle(v) ==
  /\ Len(verdict) = tick - 1
  /\ v = "ok" => IsAnswered(tick)
  /\ verdict' = Append(verdict, v)
  /\ UNCHANGED <<tick, answered>>

Next ==
  \/ Advance
  \/ \E k \in 1 .. tick : Answer(k)
  \/ \E v \in {"ok", "error"} : Settle(v)

Spec == Init /\ [][Next]_vars
==============================================================================
