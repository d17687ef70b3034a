---------------------------- MODULE ResetHandoff -----------------------------
(***************************************************************************)
(* How world_manager.py hands a reset from the service threads, which run  *)
(* _on_reset, to the tick thread, which runs _process_pending_reset: every *)
(* critical section of _pending_lock, and every access to the shared       *)
(* request object outside it, is a step.  The request object is shared:    *)
(* both threads write its response, and done is its Event.                 *)
(***************************************************************************)
EXTENDS Naturals, Sequences, FiniteSets

CONSTANTS
  Requests,       \* the calls of the service, each with its own thread
  None,           \* no pending reset
  WaitMayExpire,  \* the wall-clock bound on done.wait() may run out before the
                  \* tick thread has applied the reset
  MayRaise        \* a CARLA call may raise while the reset is applied

ASSUME HandoffAssumption ==
  None \notin Requests /\ WaitMayExpire \in BOOLEAN /\ MayRaise \in BOOLEAN

VARIABLES
  pending,    \* _pending_reset
  response,   \* response.ok of each request object, "unset" at first
  done,       \* the requests whose Event is set
  pc,         \* where the service thread of each request is
  reply,      \* what was returned to the caller, "none" before
  expired,    \* history: the requests whose wait has expired
  tick,       \* where the tick thread is
  taken,      \* the request the tick thread read under the lock
  announced,  \* the requests that started an episode, in order (_episode_id)
  raised      \* the request whose application raised an exception, if any

callVars == <<pc, reply, expired>>
tickVars == <<tick, taken, announced, raised>>
vars == <<pending, response, done, callVars, tickVars>>

TypeOK ==
  /\ pending \in Requests \cup {None}
  /\ response \in [Requests -> {"unset", "ok", "failed"}]
  /\ done \in SUBSET Requests
  /\ pc \in [Requests -> {"idle", "waiting", "expired", "failing", "returning",
                          "returned"}]
  /\ reply \in [Requests -> {"none", "ok", "failed"}]
  /\ expired \in SUBSET Requests
  /\ tick \in {"loop", "apply", "ticking", "finally", "release", "dead"}
  /\ taken \in Requests \cup {None}
  /\ announced \in Seq(Requests)
  /\ raised \in SUBSET Requests

Init ==
  /\ pending = None
  /\ response = [r \in Requests |-> "unset"]
  /\ done = {}
  /\ pc = [r \in Requests |-> "idle"]
  /\ reply = [r \in Requests |-> "none"]
  /\ expired = {}
  /\ tick = "loop"
  /\ taken = None
  /\ announced = <<>>
  /\ raised = {}

Goto(r, label) == pc' = [pc EXCEPT ![r] = label]

-------------------------------------------------------------------------------
(* Mutant: a second request replaces the one that is pending. *)
QueueOver(r) ==
  /\ pc[r] = "idle"
  /\ pending' = r
  /\ Goto(r, "waiting")
  /\ UNCHANGED <<response, done, reply, expired, tickVars>>

(* _on_reset, under the lock: queue the request if none is pending. *)
Queue(r) ==
  /\ pc[r] = "idle"
  /\ pending = None
  /\ pending' = r
  /\ Goto(r, "waiting")
  /\ UNCHANGED <<response, done, reply, expired, tickVars>>

(* _on_reset, under the lock: "a reset is already pending". *)
Refuse(r) ==
  /\ pc[r] = "idle"
  /\ pending # None
  /\ response' = [response EXCEPT ![r] = "failed"]
  /\ Goto(r, "returning")
  /\ UNCHANGED <<pending, done, reply, expired, tickVars>>

(* done.wait() returns True. *)
Wake(r) ==
  /\ pc[r] = "waiting"
  /\ r \in done
  /\ Goto(r, "returning")
  /\ UNCHANGED <<pending, response, done, reply, expired, tickVars>>

(* done.wait() returns False. *)
Expire(r) ==
  /\ WaitMayExpire
  /\ pc[r] = "waiting"
  /\ r \notin done
  /\ Goto(r, "expired")
  /\ expired' = expired \cup {r}
  /\ UNCHANGED <<pending, response, done, reply, tickVars>>

(* The withdrawal, under the lock: the request is no longer queued. *)
Withdraw(r) ==
  /\ pc[r] = "expired"
  /\ pending' = IF pending = r THEN None ELSE pending
  /\ Goto(r, "failing")
  /\ UNCHANGED <<response, done, reply, expired, tickVars>>

(* "reset did not complete in time", written after the lock is released. *)
Fail(r) ==
  /\ pc[r] = "failing"
  /\ response' = [response EXCEPT ![r] = "failed"]
  /\ Goto(r, "returning")
  /\ UNCHANGED <<pending, done, reply, expired, tickVars>>

(* return pending.response: an unset ok is sent as false. *)
Return(r) ==
  /\ pc[r] = "returning"
  /\ reply' = [reply EXCEPT ![r] = IF response[r] = "ok" THEN "ok" ELSE "failed"]
  /\ Goto(r, "returned")
  /\ UNCHANGED <<pending, response, done, expired, tickVars>>

-------------------------------------------------------------------------------
(* Mutant: the tick thread does not look whether anything is pending. *)
TakeAnything ==
  /\ tick = "loop"
  /\ taken' = pending
  /\ tick' = "apply"
  /\ UNCHANGED <<pending, response, done, callVars, announced, raised>>

(* _process_pending_reset reads the queued request under the lock. *)
TakePending ==
  /\ tick = "loop"
  /\ pending # None
  /\ taken' = pending
  /\ tick' = "apply"
  /\ UNCHANGED <<pending, response, done, callVars, announced, raised>>

(* _apply_reset up to its tick: the hero is moved, the episode announced. *)
Announce ==
  /\ tick = "apply"
  /\ announced' = Append(announced, taken)
  /\ tick' = "ticking"
  /\ UNCHANGED <<pending, response, done, callVars, taken, raised>>

(* Mutant: the response is left as the caller created it. *)
RespondNothing ==
  /\ tick = "ticking"
  /\ tick' = "finally"
  /\ UNCHANGED <<pending, response, done, callVars, taken, announced, raised>>

(* The gated first tick of the episode is over: response.ok = True. *)
RespondOk ==
  /\ tick = "ticking"
  /\ response' = [response EXCEPT ![taken] = "ok"]
  /\ tick' = "finally"
  /\ UNCHANGED <<pending, done, callVars, taken, announced, raised>>

(* A CARLA call raises, before or after the announcement. *)
Raise ==
  /\ MayRaise
  /\ tick \in {"apply", "ticking"}
  /\ raised' = {taken}
  /\ tick' = "finally"
  /\ UNCHANGED <<pending, response, done, callVars, taken, announced>>

(* Mutant: the request stays queued after it was applied. *)
ClearNothing ==
  /\ tick = "finally"
  /\ tick' = "release"
  /\ UNCHANGED <<pending, response, done, callVars, taken, announced, raised>>

(* finally, under the lock: _pending_reset = None. *)
ClearPending ==
  /\ tick = "finally"
  /\ pending' = None
  /\ tick' = "release"
  /\ UNCHANGED <<response, done, callVars, taken, announced, raised>>

(* Mutant: the caller is not woken. *)
ReleaseNobody ==
  /\ tick = "release"
  /\ tick' = IF raised # {} THEN "dead" ELSE "loop"
  /\ taken' = None
  /\ UNCHANGED <<pending, response, done, callVars, announced, raised>>

(* done.set(), after the lock is released; back to the loop, or out of it with *)
(* the exception.                                                              *)
Release ==
  /\ tick = "release"
  /\ done' = done \cup {taken}
  /\ tick' = IF raised # {} THEN "dead" ELSE "loop"
  /\ taken' = None
  /\ UNCHANGED <<pending, response, callVars, announced, raised>>

-------------------------------------------------------------------------------
Call(r) ==
  Queue(r) \/ Refuse(r) \/ Wake(r) \/ Expire(r) \/ Withdraw(r) \/ Fail(r) \/ Return(r)

TickThread ==
  TakePending \/ Announce \/ RespondOk \/ Raise \/ ClearPending \/ Release

Next == TickThread \/ \E r \in Requests : Call(r)

Spec == Init /\ [][Next]_vars

(* The tick thread and the service threads keep running; nobody has to call, *)
(* CARLA need not raise, and a wait that expires is no reason to be content.  *)
Fairness ==
  /\ WF_vars(TakePending \/ Announce \/ RespondOk \/ ClearPending \/ Release)
  /\ \A r \in Requests :
       WF_vars(Wake(r) \/ Withdraw(r) \/ Fail(r) \/ Return(r))

FairSpec == Spec /\ Fairness

-------------------------------------------------------------------------------
StartedEpisode(r) == \E i \in DOMAIN announced : announced[i] = r

(* What has become of a request, as its caller and the episodes tell. *)
Outcome(r) ==
  CASE reply[r] = "failed" -> IF StartedEpisode(r) THEN "late" ELSE "failed"
    [] reply[r] = "ok" -> "ok"
    [] reply[r] = "none" -> IF StartedEpisode(r) THEN "applied"
                            ELSE IF pc[r] = "idle" THEN "idle" ELSE "called"

(* The hand-off is the service that ResetService describes: what a caller is  *)
(* told is what happened, but for a request whose own wait expired or whose   *)
(* own application raised (its episode may have started, or start yet).       *)
Service == INSTANCE ResetService
             WITH excused <- expired \cup raised,
                  state <- [r \in Requests |-> Outcome(r)]

ServiceImplemented == Service!Spec

(* A caller that is told ok got its episode, and no request gets two: also  *)
(* when the wait expires in the middle of the application or CARLA raises.  *)
OkMeansOneEpisode ==
  /\ \A r \in Requests : reply[r] = "ok" => StartedEpisode(r)
  /\ \A i, j \in DOMAIN announced : announced[i] = announced[j] => i = j

(* The requests that nobody will ever apply or answer, although their callers    *)
(* wait.                                                                         *)
Lost ==
  {r \in Requests : pc[r] = "waiting" /\ r \notin done /\ pending # r /\ taken # r}

(* The requests whose wait expired although the tick thread had taken them. *)
TakenLate == {r \in expired : r \in done \/ r = taken}

(* A request is lost only behind one that was withdrawn while it was being        *)
(* applied, at most one behind each: the tick thread, done with it, clears         *)
(* _pending_reset whatever is in there by then (world_manager.py:628-636).  Until  *)
(* some wait expires none is, also when CARLA raises.                              *)
LostBehindWithdrawn == Cardinality(Lost) <= Cardinality(TakenLate)

(* Every call of the service returns without its wait expiring, unless some *)
(* other wait expired or the tick thread died of an exception.              *)
EveryCallReturns ==
  \A r \in Requests :
    pc[r] # "idle" ~> (pc[r] = "returned" \/ expired # {} \/ raised # {})
==============================================================================
