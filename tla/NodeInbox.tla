------------------------------- MODULE NodeInbox -------------------------------
(***************************************************************************)
(* The subscriptions of the nodes around the ground truth: one queue each,  *)
(* keep-last, and no order between two of them (qos.py).                    *)
(***************************************************************************)
EXTENDS Integers, Sequences

VARIABLE inbox   \* subscription -> the messages its callback has not taken yet

Subs == {"pose", "gt", "tick_timeout", "reset_event", "vehicle_state", "command"}

Subscriber(sub) == IF sub \in {"vehicle_state", "command"} THEN "adapter" ELSE "twin"

(* Two messages of a stream are kept, ten of an event. *)
Deliver(box, nodes, sub, m) ==
  LET all == Append(box[sub], m)
      depth == IF sub \in {"tick_timeout", "reset_event"} THEN 10 ELSE 2
  IN  IF Subscriber(sub) \notin nodes THEN box
      ELSE [box EXCEPT ![sub] = IF Len(all) > depth THEN Tail(all) ELSE all]

(* The executor of the node takes the oldest message of a subscription. *)
TakeFrom(sub) ==
  /\ inbox[sub] # <<>>
  /\ inbox' = [inbox EXCEPT ![sub] = Tail(@)]
===============================================================================
