---------------------------- MODULE ResetService -----------------------------
(***************************************************************************)
(* What /nuway/sim/reset promises its callers: a request that is answered  *)
(* ok has started exactly one episode, a request that is answered failed   *)
(* has started none and will start none.  A request that is excused, its   *)
(* caller having waited too long or the simulator having failed, may have  *)
(* started one, or may start one after the answer, but never two.          *)
(***************************************************************************)
CONSTANT Requests

VARIABLES state,    \* what has become of each request
          excused   \* the requests that waited too long or met a failure

vars == <<state, excused>>

States == {"idle", "called", "applied", "ok", "failed", "late"}

Init == state = [r \in Requests |-> "idle"] /\ excused = {}

Become(r, from, to) ==
  state[r] = from /\ state' = [state EXCEPT ![r] = to] /\ UNCHANGED excused

(* Only a request that is neither idle nor answered can be excused. *)
Excuse(r) ==
  /\ state[r] \in {"called", "applied"}
  /\ excused' = excused \cup {r}
  /\ UNCHANGED state

Next == \E r \in Requests :
  \/ Become(r, "idle", "called")
  \/ Become(r, "called", "applied")
  \/ Become(r, "applied", "ok")
  \/ Become(r, "called", "failed")
  \/ Excuse(r)
  \/ r \in excused /\ (Become(r, "applied", "late") \/ Become(r, "failed", "late"))

Spec == Init /\ [][Next]_vars
==============================================================================
