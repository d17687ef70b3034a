----------------------------- MODULE TickBarrier -----------------------------
(***************************************************************************)
(* The current-tick barrier of nuway_common/tick.h (and its Python twin    *)
(* nuway_ml/common/tick.py).  A barrier is a value: the tick each input    *)
(* was last seen for, and the inputs a TickTimeout has degraded.           *)
(***************************************************************************)
EXTENDS Naturals

CONSTANT Inputs      \* the names of a node's per-tick inputs

NoTick == 0          \* no arrival recorded; the first tick of a stack is >= 1

Barrier(Ticks) == [latest : [Inputs -> Ticks \cup {NoTick}],
                   degraded : SUBSET Inputs]

(* Reset() drops every recorded arrival and every degraded flag. *)
BarrierReset == [latest |-> [i \in Inputs |-> NoTick], degraded |-> {}]

(* Arrive() overwrites: only the newest arrival of an input is remembered. *)
Arrive(b, i, k) == [b EXCEPT !.latest[i] = k]

(* Exactly tick k: an input that has moved on to k + 1 has not arrived for k. *)
HasArrived(b, i, k) == b.latest[i] = k

Missing(b, k) == {i \in Inputs \ b.degraded : ~ HasArrived(b, i, k)}

IsComplete(b, k) == \A i \in Inputs : i \in b.degraded \/ HasArrived(b, i, k)

(* Degrade() applied to each input of D, until the next Reset(). *)
Degrade(b, D) == [b EXCEPT !.degraded = @ \cup D]
==============================================================================
