-------------------------- MODULE ResetHandoffProofs ---------------------------
(***************************************************************************)
(* What holds of the reset hand-off for every set of concurrent callers,   *)
(* whether or not the wait expires and whether or not CARLA raises.        *)
(***************************************************************************)
EXTENDS ResetHandoff, FiniteSetTheorems, TLAPS

(* The requests that have started an episode. *)
Started == {announced[i] : i \in DOMAIN announced}

(* No request started two. *)
OncePerRequest == \A i, j \in DOMAIN announced : announced[i] = announced[j] => i = j

(* OkMeansOneEpisode is not inductive: a request that has its episode must not *)
(* be applied again.  A request that was not called yet is neither queued nor  *)
(* taken nor applied; a queued request that the tick thread may take has no    *)
(* episode, and neither has the one it is about to announce.                   *)
HandoffInv ==
  /\ TypeOK
  /\ OncePerRequest
  /\ \A r \in Requests :
       /\ pc[r] = "idle" => r \notin Started /\ pending # r
       /\ response[r] = "ok" => r \in Started
       /\ reply[r] = "ok" => r \in Started
  /\ tick \in {"loop", "release"} => pending \notin Started
  /\ tick \notin {"loop", "dead"} => taken \in Requests /\ pc[taken] # "idle"
  /\ tick = "apply" => taken \notin Started
  /\ tick = "ticking" => taken \in Started

(* Announcing a request without an episode gives it its first one. *)
LEMMA AnnounceStarts ==
  ASSUME TypeOK, OncePerRequest, NEW r \in Requests, r \notin Started,
         announced' = Append(announced, r)
  PROVE  Started' = Started \cup {r} /\ OncePerRequest'
<1>1. /\ Len(announced) \in Nat /\ DOMAIN announced = 1 .. Len(announced)
      /\ DOMAIN announced' = 1 .. Len(announced) + 1
      /\ announced'[Len(announced) + 1] = r
      /\ \A i \in 1 .. Len(announced) : announced'[i] = announced[i]
  BY DEF TypeOK
<1>2. Started' = Started \cup {r}
  BY <1>1 DEF Started
<1>3. OncePerRequest'
  BY <1>1 DEF OncePerRequest, Started
<1> QED  BY <1>2, <1>3

(* The types, the first half of HandoffInv. *)
LEMMA HandoffType == HandoffInv /\ [Next]_vars => TypeOK'
<1> SUFFICES ASSUME HandoffInv, [Next]_vars PROVE TypeOK'
  OBVIOUS
<1>1. TypeOK
  BY DEF HandoffInv
<1>2. CASE UNCHANGED vars
  BY <1>1, <1>2 DEF TypeOK, vars, callVars, tickVars
<1>3. ASSUME NEW r \in Requests, Call(r) PROVE TypeOK'
  <2> USE <1>1 DEF TypeOK, Goto, tickVars
  <2>1. CASE Queue(r)
    BY <2>1 DEF Queue
  <2>2. CASE Refuse(r)
    BY <2>2 DEF Refuse
  <2>3. CASE Wake(r)
    BY <2>3 DEF Wake
  <2>4. CASE Expire(r)
    BY <2>4 DEF Expire
  <2>5. CASE Withdraw(r)
    BY <2>5 DEF Withdraw
  <2>6. CASE Fail(r)
    BY <2>6 DEF Fail
  <2>7. CASE Return(r)
    BY <2>7 DEF Return
  <2> QED  BY <1>3, <2>1, <2>2, <2>3, <2>4, <2>5, <2>6, <2>7 DEF Call
<1>4. CASE TickThread
  <2> USE <1>1 DEF TypeOK, callVars
  <2>1. CASE TakePending
    BY <2>1 DEF TakePending
  <2>2. CASE Announce
    BY <2>2 DEF Announce, HandoffInv
  <2>3. CASE RespondOk
    BY <2>3 DEF RespondOk
  <2>4. CASE Raise
    BY <2>4 DEF Raise, HandoffInv
  <2>5. CASE ClearPending
    BY <2>5 DEF ClearPending
  <2>6. CASE Release
    BY <2>6 DEF Release, HandoffInv
  <2> QED  BY <1>4, <2>1, <2>2, <2>3, <2>4, <2>5, <2>6 DEF TickThread
<1> QED  BY <1>2, <1>3, <1>4 DEF Next

(* A step of a service thread leaves the episodes alone. *)
LEMMA CallStep ==
  ASSUME HandoffInv, NEW r \in Requests, Call(r), TypeOK'
  PROVE  HandoffInv'
<1> USE DEF HandoffInv, TypeOK, Goto, tickVars, Started, OncePerRequest
<1>0. None \notin Started
  BY HandoffAssumption
<1>1. CASE Queue(r)
  BY <1>1 DEF Queue
<1>2. CASE Refuse(r)
  BY <1>2 DEF Refuse
<1>3. CASE Wake(r)
  BY <1>3 DEF Wake
<1>4. CASE Expire(r)
  BY <1>4 DEF Expire
<1>5. CASE Withdraw(r)
  BY <1>0, <1>5, HandoffAssumption DEF Withdraw
<1>6. CASE Fail(r)
  BY <1>6 DEF Fail
<1>7. CASE Return(r)
  BY <1>7 DEF Return
<1> QED  BY <1>1, <1>2, <1>3, <1>4, <1>5, <1>6, <1>7 DEF Call

(* A step of the tick thread. *)
LEMMA TickStep ==
  ASSUME HandoffInv, TickThread, TypeOK'
  PROVE  HandoffInv'
<1> USE DEF HandoffInv, callVars
<1>1. None \notin Started
  BY HandoffAssumption DEF TypeOK, Started
<1>2. CASE Announce
  <2>1. /\ taken \in Requests /\ taken \notin Started /\ pc[taken] # "idle"
        /\ announced' = Append(announced, taken)
    BY <1>2 DEF Announce
  <2>2. Started' = Started \cup {taken} /\ OncePerRequest'
    BY <2>1, AnnounceStarts
  <2> QED  BY <1>2, <2>1, <2>2 DEF Announce
<1>3. CASE UNCHANGED announced
  <2>1. Started' = Started /\ OncePerRequest'
    BY <1>3 DEF Started, OncePerRequest
  <2>2. CASE TakePending
    BY <2>1, <2>2 DEF TakePending, TypeOK
  <2>3. CASE RespondOk
    BY <2>1, <2>3 DEF RespondOk, TypeOK
  <2>4. CASE Raise
    BY <2>1, <2>4 DEF Raise
  <2>5. CASE ClearPending
    BY <1>1, <2>1, <2>5, HandoffAssumption DEF ClearPending
  <2>6. CASE Release
    BY <2>1, <2>6 DEF Release
  <2>7. CASE Announce
    BY <1>2, <2>7
  <2> QED  BY <2>2, <2>3, <2>4, <2>5, <2>6, <2>7 DEF TickThread
<1> QED
  BY <1>2, <1>3 DEF TickThread, TakePending, RespondOk, Raise, ClearPending, Release

(* Initially no call is running, so nothing has been promised. *)
LEMMA HandoffInit == Init => HandoffInv
<1> SUFFICES ASSUME Init PROVE HandoffInv
  OBVIOUS
<1>1. TypeOK
  <2>1. raised \in SUBSET Requests /\ expired \in SUBSET Requests
    BY DEF Init
  <2>2. announced \in Seq(Requests)
    BY DEF Init
  <2>3. /\ pending \in Requests \cup {None} /\ taken \in Requests \cup {None}
        /\ done \in SUBSET Requests
        /\ tick \in {"loop", "apply", "ticking", "finally", "release", "dead"}
    BY DEF Init
  <2>4. /\ response \in [Requests -> {"unset", "ok", "failed"}]
        /\ pc \in [Requests -> {"idle", "waiting", "expired", "failing",
                                "returning", "returned"}]
        /\ reply \in [Requests -> {"none", "ok", "failed"}]
    BY DEF Init
  <2> QED  BY <2>1, <2>2, <2>3, <2>4 DEF TypeOK
<1>2. announced = <<>> /\ Started = {} /\ OncePerRequest
  BY DEF Init, Started, OncePerRequest
<1>3. pending = None /\ tick = "loop"
  BY DEF Init
<1>4. \A r \in Requests : /\ pending # r
                         /\ response[r] = "unset" /\ reply[r] = "none"
  BY HandoffAssumption DEF Init
<1> QED  BY <1>1, <1>2, <1>3, <1>4 DEF HandoffInv

(* HandoffInv is inductive: every step of a thread keeps it. *)
LEMMA HandoffStep == HandoffInv /\ [Next]_vars => HandoffInv'
<1> SUFFICES ASSUME HandoffInv, [Next]_vars PROVE HandoffInv'
  OBVIOUS
<1>1. TypeOK'
  BY HandoffType
<1>2. CASE UNCHANGED vars
  BY <1>1, <1>2
  DEF HandoffInv, vars, callVars, tickVars, Started, OncePerRequest
<1> QED  BY <1>1, <1>2, CallStep, TickStep DEF Next

(* A caller of the reset service that is told ok has its episode, and no     *)
(* request starts two, for any number of callers, also when waits expire and *)
(* CARLA raises.                                                             *)
THEOREM OneEpisodePerOk == Spec => []OkMeansOneEpisode
<1>1. HandoffInv => OkMeansOneEpisode
  BY DEF HandoffInv, OkMeansOneEpisode, OncePerRequest, StartedEpisode, Started
<1> QED  BY <1>1, HandoffInit, HandoffStep, PTL DEF Spec

(* The hand-off keeps its types, for any number of callers. *)
THEOREM HandoffTypeCorrect == Spec => []TypeOK
<1>1. HandoffInv => TypeOK
  BY DEF HandoffInv
<1> QED  BY <1>1, HandoffInit, HandoffStep, PTL DEF Spec

-------------------------------------------------------------------------------
(* What a caller is told, and what becomes of a request until then: an answer *)
(* comes from the service thread of the request alone; a request is queued or *)
(* taken only while its caller waits, unless its wait has expired; nothing is  *)
(* taken twice; and an episode whose request is neither answered ok nor excused *)
(* is the one that is being ticked.                                             *)
CallerInv ==
  /\ \A r \in Requests :
       /\ (reply[r] = "none") <=> (pc[r] # "returned")
       /\ pc[r] \in {"expired", "failing"} => r \in expired
       /\ r \in done => pending # r /\ pc[r] # "idle"
       /\ pending = r /\ r \notin expired => pc[r] = "waiting"
       /\ r \in Started => \/ r \in expired \cup raised
                           \/ response[r] = "ok"
                           \/ tick = "ticking" /\ taken = r
  /\ IF tick \in {"loop", "dead"} THEN taken = None
     ELSE taken \notin done /\ (taken \notin expired => pc[taken] = "waiting")
  /\ tick = "release" => pending # taken
  /\ tick \in {"loop", "apply", "ticking"} => raised = {}

(* As long as its wait has not expired, the request that is being applied is    *)
(* still the one that is queued, so clearing the queue drops nothing else.       *)
TakenInv ==
  tick \in {"apply", "ticking", "finally"} /\ taken \notin expired => pending = taken

ServiceInv == HandoffInv /\ CallerInv /\ TakenInv

(* Initially nobody has called. *)
LEMMA ServiceInvInit == Init => ServiceInv
<1> SUFFICES ASSUME Init PROVE ServiceInv
  OBVIOUS
<1>1. HandoffInv
  BY HandoffInit
<1>2. announced = <<>> /\ Started = {}
  BY DEF Init, Started
<1>3. /\ pending = None /\ taken = None /\ tick = "loop" /\ done = {} /\ raised = {}
      /\ \A r \in Requests : pc[r] = "idle" /\ reply[r] = "none" /\ pending # r
  BY HandoffAssumption DEF Init
<1>4. CallerInv
  BY <1>2, <1>3 DEF CallerInv
<1>5. TakenInv
  BY <1>3 DEF TakenInv
<1> QED  BY <1>1, <1>4, <1>5 DEF ServiceInv

(* A step of a service thread: it answers its own request only. *)
LEMMA CallKeepsCallers ==
  ASSUME ServiceInv, NEW r \in Requests, Call(r)
  PROVE  CallerInv' /\ TakenInv'
<1> USE DEF ServiceInv, HandoffInv, CallerInv, TakenInv, TypeOK, Goto, tickVars,
            Started
<1>1. CASE Queue(r)
  BY <1>1, HandoffAssumption DEF Queue
<1>2. CASE Refuse(r)
  BY <1>2 DEF Refuse
<1>3. CASE Wake(r)
  BY <1>3 DEF Wake
<1>4. CASE Expire(r)
  BY <1>4 DEF Expire
<1>5. CASE Withdraw(r)
  BY <1>5, HandoffAssumption DEF Withdraw
<1>6. CASE Fail(r)
  BY <1>6 DEF Fail
<1>7. CASE Return(r)
  BY <1>7 DEF Return
<1> QED  BY <1>1, <1>2, <1>3, <1>4, <1>5, <1>6, <1>7 DEF Call

(* A step of the tick thread: it drops and wakes only the request it took. *)
LEMMA TickKeepsCallers ==
  ASSUME ServiceInv, TickThread
  PROVE  CallerInv' /\ TakenInv'
<1> USE DEF ServiceInv, HandoffInv, CallerInv, TakenInv, callVars
<1>1. CASE Announce
  <2>1. /\ taken \in Requests /\ taken \notin Started
        /\ announced' = Append(announced, taken)
    BY <1>1 DEF Announce
  <2>2. Started' = Started \cup {taken}
    BY <2>1, AnnounceStarts
  <2> QED  BY <1>1, <2>1, <2>2 DEF Announce
<1>2. CASE UNCHANGED announced
  <2>1. Started' = Started
    BY <1>2 DEF Started
  <2>2. CASE TakePending
    BY <2>1, <2>2 DEF TakePending, TypeOK
  <2>3. CASE RespondOk
    BY <2>1, <2>3 DEF RespondOk, TypeOK
  <2>4. CASE Raise
    BY <2>1, <2>4 DEF Raise
  <2>5. CASE ClearPending
    BY <2>1, <2>5, HandoffAssumption DEF ClearPending
  <2>6. CASE Release
    BY <2>1, <2>6 DEF Release
  <2>7. CASE Announce
    BY <1>1, <2>7
  <2> QED  BY <2>2, <2>3, <2>4, <2>5, <2>6, <2>7 DEF TickThread
<1> QED
  BY <1>1, <1>2 DEF TickThread, TakePending, RespondOk, Raise, ClearPending, Release

(* ServiceInv is inductive. *)
LEMMA ServiceInvStep == ServiceInv /\ [Next]_vars => ServiceInv'
<1> SUFFICES ASSUME ServiceInv, [Next]_vars PROVE ServiceInv'
  OBVIOUS
<1>1. HandoffInv'
  BY HandoffStep DEF ServiceInv
<1>2. CASE UNCHANGED vars
  BY <1>1, <1>2
  DEF ServiceInv, CallerInv, TakenInv, vars, callVars, tickVars, Started
<1> QED  BY <1>1, <1>2, CallKeepsCallers, TickKeepsCallers DEF ServiceInv, Next

-------------------------------------------------------------------------------
(* Each lost request is paid for by a withdrawn one that the tick thread is done *)
(* with: the one that is being applied has cost nothing yet.                      *)
Paid == expired \cap (done \cup IF tick = "release" THEN {taken} ELSE {})

LossInv ==
  /\ IsFiniteSet(expired) /\ IsFiniteSet(Lost)
  /\ Cardinality(Lost) <= Cardinality(Paid)

(* A step that loses nothing and forgets no payment. *)
LEMMA NothingLost ==
  ASSUME LossInv, Lost' \subseteq Lost, Paid \subseteq Paid', IsFiniteSet(expired')
  PROVE  LossInv'
<1>1. IsFiniteSet(Paid') /\ IsFiniteSet(Lost')
  BY FS_Subset DEF LossInv, Paid
<1>2. Cardinality(Lost') <= Cardinality(Lost) /\ Cardinality(Paid) <= Cardinality(Paid')
  BY <1>1, FS_Subset DEF LossInv
<1>3. /\ IsFiniteSet(Paid)
      /\ Cardinality(Lost) \in Nat /\ Cardinality(Lost') \in Nat
      /\ Cardinality(Paid) \in Nat /\ Cardinality(Paid') \in Nat
  BY <1>1, FS_Subset, FS_CardinalityType DEF LossInv
<1> QED  BY <1>1, <1>2, <1>3 DEF LossInv

(* A service thread changes the place of its own request only. *)
LEMMA CallLosesNothing ==
  ASSUME ServiceInv, LossInv, NEW r \in Requests, Call(r)
  PROVE  LossInv'
<1>0. TypeOK
  BY DEF ServiceInv, HandoffInv
<1>1. /\ UNCHANGED <<taken, tick, done>>
      /\ \A q \in Requests \ {r} : pc'[q] = pc[q]
      /\ expired' = expired \/ expired' = expired \cup {r}
  BY <1>0 DEF Call, Queue, Refuse, Wake, Expire, Withdraw, Fail, Return, Goto, TypeOK, tickVars
<1>2. Paid \subseteq Paid' /\ IsFiniteSet(expired')
  BY <1>1, FS_AddElement DEF Paid, LossInv
<1>3. Lost' \subseteq Lost
  <2> SUFFICES ASSUME NEW q \in Requests, pc'[q] = "waiting", q \notin done', pending' # q,
                      taken' # q
               PROVE  q \in Lost
    BY DEF Lost
  <2>1. q # r
    <3>1. CASE Queue(r)
      BY <3>1 DEF Queue
    <3>2. CASE Refuse(r) \/ Wake(r) \/ Expire(r) \/ Withdraw(r) \/ Fail(r) \/ Return(r)
      BY <1>0, <3>2 DEF Refuse, Wake, Expire, Withdraw, Fail, Return, Goto, TypeOK
    <3> QED  BY <3>1, <3>2 DEF Call
  <2>2. pending # q
    <3>1. CASE Queue(r)
      BY <3>1, HandoffAssumption DEF Queue
    <3>2. CASE Withdraw(r)
      BY <2>1, <3>2 DEF Withdraw
    <3>3. CASE UNCHANGED pending
      BY <3>3
    <3> QED  BY <3>1, <3>2, <3>3 DEF Call, Refuse, Wake, Expire, Fail, Return
  <2> QED  BY <1>1, <2>1, <2>2 DEF Lost
<1> QED  BY <1>2, <1>3, NothingLost

(* The tick thread loses a request when it clears the queue behind one that was *)
(* withdrawn, and is done with that one in the same step.                         *)
LEMMA TickLosesOne ==
  ASSUME ServiceInv, LossInv, TickThread
  PROVE  LossInv'
<1>0. TypeOK /\ UNCHANGED <<pc, expired>>
  BY DEF ServiceInv, HandoffInv, TickThread, TakePending, Announce, RespondOk, Raise,
         ClearPending, Release, callVars
<1>1. CASE TakePending
  <2>1. Lost' \subseteq Lost
    BY <1>0, <1>1, HandoffAssumption DEF TakePending, Lost, ServiceInv, CallerInv
  <2>2. Paid \subseteq Paid'
    BY <1>0, <1>1 DEF TakePending, Paid
  <2> QED  BY <1>0, <2>1, <2>2, NothingLost DEF LossInv
<1>2. CASE Announce \/ RespondOk \/ Raise
  <2>1. Lost' \subseteq Lost
    BY <1>0, <1>2 DEF Announce, RespondOk, Raise, Lost
  <2>2. Paid \subseteq Paid'
    BY <1>0, <1>2 DEF Announce, RespondOk, Raise, Paid
  <2> QED  BY <1>0, <2>1, <2>2, NothingLost DEF LossInv
<1>3. CASE Release
  <2>1. Lost' \subseteq Lost
    BY <1>0, <1>3 DEF Release, Lost
  <2>2. Paid \subseteq Paid'
    BY <1>0, <1>3 DEF Release, Paid
  <2> QED  BY <1>0, <2>1, <2>2, NothingLost DEF LossInv
<1>4. CASE ClearPending
  <2>1. /\ tick = "finally" /\ tick' = "release" /\ pending' = None
        /\ UNCHANGED <<done, taken>>
    BY <1>4 DEF ClearPending
  <2>2. Paid' = Paid \cup (expired \cap {taken}) /\ Paid = expired \cap done
    BY <1>0, <2>1 DEF Paid
  <2>3. Lost' \subseteq Lost \cup {pending} /\ taken \notin Lost'
    BY <1>0, <2>1 DEF Lost
  <2>4. CASE pending = taken
    <3>1. Lost' \subseteq Lost
      BY <2>3, <2>4
    <3> QED  BY <1>0, <2>2, <3>1, NothingLost DEF LossInv
  <2>5. CASE pending # taken
    <3>1. taken \in expired
      BY <2>1, <2>5 DEF ServiceInv, TakenInv
    <3>2. taken \notin Paid
      BY <2>1, <2>2 DEF ServiceInv, CallerInv
    <3>3. /\ IsFiniteSet(Paid) /\ IsFiniteSet(Paid') /\ Cardinality(Paid) \in Nat
          /\ Cardinality(Paid') = Cardinality(Paid) + 1
      <4>1. IsFiniteSet(Paid) /\ Paid' = Paid \cup {taken}
        BY <2>2, <3>1, FS_Subset DEF LossInv
      <4> QED  BY <3>2, <4>1, FS_AddElement, FS_CardinalityType
    <3>4. /\ IsFiniteSet(Lost \cup {pending})
          /\ Cardinality(Lost) \in Nat
          /\ Cardinality(Lost \cup {pending}) \in {Cardinality(Lost), Cardinality(Lost) + 1}
      <4>1. IsFiniteSet(Lost)
        BY DEF LossInv
      <4>2. pending \in Lost => Lost \cup {pending} = Lost
        OBVIOUS
      <4> QED  BY <4>1, <4>2, FS_AddElement, FS_CardinalityType
    <3>5. /\ IsFiniteSet(Lost') /\ Cardinality(Lost') \in Nat
          /\ Cardinality(Lost') <= Cardinality(Lost \cup {pending})
      BY <2>3, <3>4, FS_Subset, FS_CardinalityType
    <3>6. Cardinality(Lost') <= Cardinality(Paid')
      BY <3>3, <3>4, <3>5 DEF LossInv
    <3> QED  BY <1>0, <3>5, <3>6 DEF LossInv
  <2> QED  BY <2>4, <2>5
<1> QED  BY <1>1, <1>2, <1>3, <1>4 DEF TickThread

(* _process_pending_reset wakes the caller of every request it takes, also when *)
(* CARLA raises, and drops at most one other for each that was withdrawn while    *)
(* it was applied: for any callers, however often waits expire.                   *)
THEOREM LossBounded == Spec => []LostBehindWithdrawn
<1>1. Init => LossInv
  <2> SUFFICES ASSUME Init PROVE LossInv
    OBVIOUS
  <2>1. expired = {} /\ Lost = {} /\ Paid = {}
    BY DEF Init, Lost, Paid
  <2> QED  BY <2>1, FS_EmptySet DEF LossInv
<1>2. ServiceInv /\ LossInv /\ [Next]_vars => LossInv'
  <2> SUFFICES ASSUME ServiceInv, LossInv, [Next]_vars PROVE LossInv'
    OBVIOUS
  <2>1. CASE UNCHANGED vars
    BY <2>1 DEF vars, callVars, tickVars, LossInv, Lost, Paid
  <2> QED  BY <2>1, CallLosesNothing, TickLosesOne DEF Next
<1>3. LossInv => LostBehindWithdrawn
  <2> SUFFICES ASSUME LossInv PROVE LostBehindWithdrawn
    OBVIOUS
  <2>1. Paid \subseteq TakenLate /\ TakenLate \subseteq expired
    BY DEF Paid, TakenLate
  <2>2. IsFiniteSet(TakenLate) /\ IsFiniteSet(Paid)
    BY <2>1, FS_Subset DEF LossInv
  <2>3. Cardinality(Paid) <= Cardinality(TakenLate)
    BY <2>1, <2>2, FS_Subset
  <2> QED  BY <2>2, <2>3, FS_CardinalityType DEF LossInv, LostBehindWithdrawn
<1> QED  BY <1>1, <1>2, <1>3, ServiceInvInit, ServiceInvStep, PTL DEF Spec

-------------------------------------------------------------------------------
(* ---- the hand-off implements ResetService ------------------------------- *)

(* The cases of Outcome, without the sequence of the announcements. *)
LEMMA OutcomeIs ==
  ASSUME TypeOK, NEW r \in Requests
  PROVE  /\ reply[r] = "ok" => Outcome(r) = "ok"
         /\ reply[r] = "failed" => Outcome(r) = IF r \in Started THEN "late" ELSE "failed"
         /\ reply[r] = "none" =>
              Outcome(r) = IF r \in Started THEN "applied"
                           ELSE IF pc[r] = "idle" THEN "idle" ELSE "called"
<1>1. reply[r] \in {"none", "ok", "failed"}
  BY DEF TypeOK
<1>2. StartedEpisode(r) <=> r \in Started
  BY DEF StartedEpisode, Started
<1> QED  BY <1>1, <1>2 DEF Outcome

(* The same after a step. *)
LEMMA OutcomeBecomes ==
  ASSUME TypeOK', NEW r \in Requests
  PROVE  /\ reply'[r] = "ok" => Outcome(r)' = "ok"
         /\ reply'[r] = "failed" =>
              Outcome(r)' = IF r \in Started' THEN "late" ELSE "failed"
         /\ reply'[r] = "none" =>
              Outcome(r)' = IF r \in Started' THEN "applied"
                            ELSE IF pc'[r] = "idle" THEN "idle" ELSE "called"
<1>1. reply'[r] \in {"none", "ok", "failed"}
  BY DEF TypeOK
<1>2. StartedEpisode(r)' <=> r \in Started'
  BY DEF StartedEpisode, Started
<1> QED  BY <1>1, <1>2 DEF Outcome

(* A step of the service: one request changes its outcome, ... *)
LEMMA OneBecomes ==
  ASSUME NEW r \in Requests, NEW from, NEW to,
         Outcome(r) = from, Outcome(r)' = to,
         \A q \in Requests \ {r} : Outcome(q)' = Outcome(q),
         UNCHANGED <<expired, raised>>
  PROVE  Service!Become(r, from, to)
<1> DEFINE before == [q \in Requests |-> Outcome(q)]
           after == [q \in Requests |-> Outcome(q)']
<1>1. after = [before EXCEPT ![r] = to]
  OBVIOUS
<1>2. before[r] = from
  OBVIOUS
<1> QED  BY <1>1, <1>2 DEF Service!Become

(* ... none does, ... *)
LEMMA NoneBecomes ==
  ASSUME \A q \in Requests : Outcome(q)' = Outcome(q),
         UNCHANGED (expired \cup raised)
  PROVE  UNCHANGED Service!vars
BY DEF Service!vars

(* ... or one that was called and not answered is excused. *)
LEMMA OneExcused ==
  ASSUME NEW r \in Requests, Outcome(r) \in {"called", "applied"},
         \A q \in Requests : Outcome(q)' = Outcome(q),
         (expired \cup raised)' = expired \cup raised \cup {r}
  PROVE  Service!Excuse(r)
<1>1. [q \in Requests |-> Outcome(q)][r] = Outcome(r)
  OBVIOUS
<1>2. UNCHANGED [q \in Requests |-> Outcome(q)]
  OBVIOUS
<1> QED  BY <1>1, <1>2 DEF Service!Excuse

(* Service threads: a call, an answer, or a wait that expires. *)
LEMMA CallRefines ==
  ASSUME ServiceInv, ServiceInv', NEW r \in Requests, Call(r)
  PROVE  Service!Next \/ UNCHANGED Service!vars
<1> DEFINE Others == \A q \in Requests \ {r} : Outcome(q)' = Outcome(q)
           Same == \A q \in Requests : Outcome(q)' = Outcome(q)
<1>0. TypeOK /\ TypeOK'
  BY DEF ServiceInv, HandoffInv
<1>1. UNCHANGED announced /\ Started' = Started
  BY DEF Call, Queue, Refuse, Wake, Expire, Withdraw, Fail, Return, tickVars, Started
<1>2. \A q \in Requests \ {r} : pc'[q] = pc[q] /\ reply'[q] = reply[q]
  BY <1>0 DEF Call, Queue, Refuse, Wake, Expire, Withdraw, Fail, Return, Goto, TypeOK
<1>3. \A q \in Requests : StartedEpisode(q)' = StartedEpisode(q)
  BY <1>1 DEF StartedEpisode
<1>4. Others
  BY <1>2, <1>3 DEF Outcome
<1>5. CASE Queue(r) \/ Refuse(r)
  <2>1. pc[r] = "idle" /\ r \notin Started /\ reply[r] = "none"
    BY <1>5 DEF Queue, Refuse, ServiceInv, HandoffInv, CallerInv
  <2>2. pc'[r] # "idle" /\ reply'[r] = "none" /\ UNCHANGED <<expired, raised>>
    BY <1>0, <1>5, <2>1 DEF Queue, Refuse, Goto, TypeOK, tickVars
  <2>3. Outcome(r) = "idle"
    BY <1>0, <2>1, OutcomeIs
  <2>4. Outcome(r)' = "called"
    BY <1>0, <1>1, <2>1, <2>2, OutcomeBecomes
  <2>5. Service!Become(r, "idle", "called")
    BY <1>4, <2>2, <2>3, <2>4, OneBecomes
  <2> QED  BY <2>5 DEF Service!Next
<1>6. CASE Wake(r) \/ Expire(r) \/ Withdraw(r) \/ Fail(r)
  <2>1. pc[r] # "idle" /\ pc'[r] # "idle" /\ UNCHANGED <<reply, raised>>
    BY <1>0, <1>6 DEF Wake, Expire, Withdraw, Fail, Goto, TypeOK, tickVars
  <2>2. Same
    BY <1>3, <1>4, <2>1 DEF Outcome
  <2>3. CASE UNCHANGED expired
    BY <2>1, <2>2, <2>3, NoneBecomes
  <2>4. CASE Expire(r)
    <3>1. pc[r] = "waiting" /\ reply[r] = "none"
      BY <2>4 DEF Expire, ServiceInv, CallerInv
    <3>2. Outcome(r) \in {"called", "applied"}
      BY <1>0, <2>1, <3>1, OutcomeIs
    <3>3. (expired \cup raised)' = expired \cup raised \cup {r}
      BY <2>1, <2>4 DEF Expire
    <3>4. Service!Excuse(r)
      BY <2>2, <3>2, <3>3, OneExcused
    <3> QED  BY <3>4 DEF Service!Next
  <2> QED  BY <1>6, <2>3, <2>4 DEF Wake, Withdraw, Fail
<1>7. CASE Return(r)
  <2>1. pc[r] = "returning" /\ reply[r] = "none" /\ UNCHANGED <<expired, raised>>
    BY <1>7 DEF Return, ServiceInv, CallerInv, tickVars
  <2>2. reply'[r] = IF response[r] = "ok" THEN "ok" ELSE "failed"
    BY <1>0, <1>7 DEF Return, TypeOK
  <2>3. Outcome(r) = IF r \in Started THEN "applied" ELSE "called"
    BY <1>0, <2>1, OutcomeIs
  <2>4. CASE response[r] = "ok"
    <3>1. Outcome(r) = "applied" /\ Outcome(r)' = "ok"
      BY <1>0, <2>2, <2>3, <2>4, OutcomeBecomes DEF ServiceInv, HandoffInv
    <3>2. Service!Become(r, "applied", "ok")
      BY <1>4, <2>1, <3>1, OneBecomes
    <3> QED  BY <3>2 DEF Service!Next
  <2>5. CASE response[r] # "ok" /\ r \notin Started
    <3>1. Outcome(r) = "called" /\ Outcome(r)' = "failed"
      BY <1>0, <1>1, <2>2, <2>3, <2>5, OutcomeBecomes
    <3>2. Service!Become(r, "called", "failed")
      BY <1>4, <2>1, <3>1, OneBecomes
    <3> QED  BY <3>2 DEF Service!Next
  <2>6. CASE response[r] # "ok" /\ r \in Started
    <3>1. Outcome(r) = "applied" /\ Outcome(r)' = "late"
      BY <1>0, <1>1, <2>2, <2>3, <2>6, OutcomeBecomes
    <3>2. r \in expired \cup raised
      BY <2>1, <2>6 DEF ServiceInv, CallerInv
    <3>3. Service!Become(r, "applied", "late")
      BY <1>4, <2>1, <3>1, OneBecomes
    <3> QED  BY <3>2, <3>3 DEF Service!Next
  <2> QED  BY <2>4, <2>5, <2>6
<1> QED  BY <1>5, <1>6, <1>7 DEF Call

(* The tick thread: an episode starts, or its application fails. *)
LEMMA TickRefines ==
  ASSUME ServiceInv, ServiceInv', TickThread
  PROVE  Service!Next \/ UNCHANGED Service!vars
<1>0. TypeOK /\ TypeOK' /\ UNCHANGED callVars
  BY DEF ServiceInv, HandoffInv, TickThread, TakePending, Announce, RespondOk, Raise,
         ClearPending, Release
<1>1. CASE Announce
  <2>1. PICK r \in Requests : r = taken
    BY <1>1 DEF Announce, ServiceInv, HandoffInv
  <2>2. /\ r \notin Started /\ pc[r] # "idle"
        /\ announced' = Append(announced, r) /\ UNCHANGED <<pc, reply, expired, raised>>
    BY <1>0, <1>1, <2>1 DEF Announce, ServiceInv, HandoffInv, callVars
  <2>3. Started' = Started \cup {r}
    BY <2>2, AnnounceStarts DEF ServiceInv, HandoffInv
  <2>4. \A q \in Requests \ {r} : Outcome(q)' = Outcome(q)
    BY <2>2, <2>3 DEF Outcome, StartedEpisode, Started
  <2>5. reply[r] # "ok"
    BY <2>2 DEF ServiceInv, HandoffInv
  <2>6. CASE reply[r] = "none"
    <3>1. Outcome(r) = "called"
      BY <1>0, <2>2, <2>6, OutcomeIs
    <3>2. Outcome(r)' = "applied"
      BY <1>0, <2>2, <2>3, <2>6, OutcomeBecomes
    <3>3. Service!Become(r, "called", "applied")
      BY <2>2, <2>4, <3>1, <3>2, OneBecomes
    <3> QED  BY <3>3 DEF Service!Next
  <2>7. CASE reply[r] = "failed"
    <3>1. Outcome(r) = "failed"
      BY <1>0, <2>2, <2>7, OutcomeIs
    <3>2. Outcome(r)' = "late"
      BY <1>0, <2>2, <2>3, <2>7, OutcomeBecomes
    <3>3. r \in expired
      BY <1>1, <2>1, <2>7 DEF Announce, ServiceInv, CallerInv
    <3>4. Service!Become(r, "failed", "late")
      BY <2>2, <2>4, <3>1, <3>2, OneBecomes
    <3> QED  BY <3>3, <3>4 DEF Service!Next
  <2> QED  BY <1>0, <2>5, <2>6, <2>7 DEF TypeOK
<1>2. CASE UNCHANGED announced
  <2>1. \A q \in Requests : Outcome(q)' = Outcome(q)
    BY <1>0, <1>2 DEF Outcome, StartedEpisode, callVars
  <2>2. CASE Raise
    <3>1. PICK r \in Requests : r = taken
      BY <2>2 DEF Raise, ServiceInv, HandoffInv
    <3>2. raised = {} /\ raised' = {r} /\ UNCHANGED expired
      BY <1>0, <2>2, <3>1 DEF Raise, ServiceInv, CallerInv, callVars
    <3>3. CASE r \in expired
      BY <2>1, <3>2, <3>3, NoneBecomes
    <3>4. CASE r \notin expired
      <4>1. pc[r] = "waiting" /\ reply[r] = "none"
        BY <2>2, <3>1, <3>4 DEF Raise, ServiceInv, CallerInv
      <4>2. Outcome(r) \in {"called", "applied"}
        BY <1>0, <4>1, OutcomeIs
      <4>3. Service!Excuse(r)
        BY <2>1, <3>2, <4>2, OneExcused
      <4> QED  BY <4>3 DEF Service!Next
    <3> QED  BY <3>3, <3>4
  <2>3. CASE UNCHANGED raised
    BY <1>0, <2>1, <2>3, NoneBecomes DEF callVars
  <2> QED
    BY <1>1, <2>2, <2>3 DEF TickThread, TakePending, RespondOk, ClearPending, Release
<1> QED
  BY <1>1, <1>2 DEF TickThread, TakePending, RespondOk, Raise, ClearPending, Release

(* Initially every request is idle and none is excused. *)
LEMMA InitRefines == Init => Service!Init
<1> SUFFICES ASSUME Init PROVE Service!Init
  OBVIOUS
<1>1. expired \cup raised = {}
  BY DEF Init
<1>2. ASSUME NEW r \in Requests PROVE Outcome(r) = "idle"
  <2>1. reply[r] = "none" /\ pc[r] = "idle" /\ ~ StartedEpisode(r)
    BY DEF Init, StartedEpisode
  <2> QED  BY <2>1 DEF Outcome
<1> QED  BY <1>1, <1>2 DEF Service!Init

(* _on_reset and _process_pending_reset implement ResetService, for any callers, *)
(* with expiring waits and exceptions: what is answered is what happened, but for *)
(* the requests that waited too long or met the exception.                        *)
THEOREM ServiceImplementedHolds == Spec => ServiceImplemented
<1>1. ServiceInv /\ ServiceInv' /\ [Next]_vars => [Service!Next]_Service!vars
  <2>1. CASE UNCHANGED vars
    BY <2>1 DEF vars, callVars, tickVars, Service!vars, Outcome, StartedEpisode
  <2> QED  BY <2>1, CallRefines, TickRefines DEF Next
<1> QED
  BY <1>1, InitRefines, ServiceInvInit, ServiceInvStep, PTL
  DEF Spec, ServiceImplemented, Service!Spec
=============================================================================
