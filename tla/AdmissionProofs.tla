-------------------------- MODULE AdmissionProofs ----------------------------
(***************************************************************************)
(* Type correctness and the accounting invariants of RequestAdmission, for *)
(* every finite set of requests and every value of the settings, and the   *)
(* refinement of SlotPool.  What the operations of the controller preserve *)
(* comes first, then the requests.                                         *)
(***************************************************************************)
EXTENDS RequestAdmission, WindowProofs, FiniteSetTheorems

(* A tick leaves a window of outcomes. *)
LEMMA OutcomesAge ==
    ASSUME NEW s \in Seq(RequestOutcome)
    PROVE  Aged(s) \in Seq(RequestOutcome)
<1>1. ASSUME NEW o \in RequestOutcome
      PROVE  [o EXCEPT !.age = IF @ < MaxAge THEN @ + 1 ELSE @] \in RequestOutcome
  <2>1. (IF o.age < MaxAge THEN o.age + 1 ELSE o.age) \in 0..MaxAge
    BY WindowAssumption DEF RequestOutcome, MaxAge
  <2> QED
    BY <2>1 DEF RequestOutcome
<1> QED
  BY <1>1, AgedType

-----------------------------------------------------------------------------
(* The mode that pressure asks for is a mode, and SetMode sets a mode. *)
LEMMA NextModeType ==
    ASSUME mode \in Mode, NEW hard, NEW soft
    PROVE  NextMode(hard, soft) \in Mode
BY DEF NextMode, StepDown, Mode

LEMMA SetModeType ==
    ASSUME ControllerTypeOK, NEW m \in Mode, SetMode(m)
    PROVE  /\ mode' \in Mode
           /\ sinceChange' \in 0..RecoverySeconds
           /\ transitions' \in [Transition -> Nat]
<1>1. mode' \in Mode /\ sinceChange' \in 0..RecoverySeconds
  BY ControllerAssumption DEF SetMode, ControllerTypeOK
<1>2. transitions' \in [Transition -> Nat]
  <2>1. CASE m = mode
    BY <2>1 DEF SetMode, ControllerTypeOK
  <2>2. CASE m # mode
    <3>1. <<mode, m>> \in Transition
      BY <2>2 DEF ControllerTypeOK, Transition
    <3>2. transitions[<<mode, m>>] \in Nat
      BY <3>1 DEF ControllerTypeOK
    <3>3. Bump(transitions[<<mode, m>>]) \in Nat
      BY <3>2 DEF Bump
    <3>4. transitions' = [transitions EXCEPT ![<<mode, m>>] = Bump(@)]
      BY <2>2 DEF SetMode
    <3> QED
      BY <3>1, <3>3, <3>4 DEF ControllerTypeOK
  <2> QED
    BY <2>1, <2>2
<1> QED
  BY <1>1, <1>2

(* The operations of the controller keep its variables in their types. *)
LEMMA ControllerInitType == ControllerInit => ControllerTypeOK
<1> SUFFICES ASSUME ControllerInit PROVE ControllerTypeOK
  OBVIOUS
<1>1. recent \in Seq(RequestOutcome)
  BY EmptySeq DEF ControllerInit
<1>2. mode \in Mode
  BY DEF ControllerInit, Mode
<1>3. reasons \in SUBSET Reason /\ sampled \in BOOLEAN
  BY DEF ControllerInit
<1>4. sinceChange \in 0..RecoverySeconds
  BY ControllerAssumption DEF ControllerInit
<1>5. transitions \in [Transition -> Nat] /\ inFlight \in [Endpoint -> Nat]
  BY DEF ControllerInit
<1> QED
  BY <1>1, <1>2, <1>3, <1>4, <1>5 DEF ControllerTypeOK

LEMMA RequestFinishedType ==
    ASSUME ControllerTypeOK, NEW e \in Endpoint, NEW result \in Result,
           RequestFinished(e, result)
    PROVE  ControllerTypeOK'
<1>1. PICK cpu \in CpuSamples, rss \in Levels, rssAgain \in Levels,
           window \in {Prune(Append(recent, NewOutcome(e, result)))},
           held \in {Released(e)} :
        /\ inFlight' = held
        /\ recent' = window
        /\ SetMode(NextMode(IsHardPressure(window, held, cpu, rssAgain),
                            IsSoftPressure(window, held, cpu, rssAgain)))
        /\ reasons' = ReasonsFor(window, held, cpu, rss)
        /\ sampled' = TRUE
  BY DEF RequestFinished
<1>2. recent' \in Seq(RequestOutcome)
  <2>1. NewOutcome(e, result) \in RequestOutcome
    BY WindowAssumption DEF NewOutcome, RequestOutcome, MaxAge
  <2>2. Append(recent, NewOutcome(e, result)) \in Seq(RequestOutcome)
    BY <2>1, AppendProperties DEF ControllerTypeOK
  <2> QED
    BY <1>1, <2>2, PruneType
<1>3. inFlight' \in [Endpoint -> Nat]
  BY <1>1 DEF Released, ControllerTypeOK
<1>4. /\ mode' \in Mode
      /\ sinceChange' \in 0..RecoverySeconds
      /\ transitions' \in [Transition -> Nat]
  BY <1>1, NextModeType, SetModeType DEF ControllerTypeOK
<1>5. reasons' \in SUBSET Reason /\ sampled' \in BOOLEAN
  BY <1>1 DEF ReasonsFor
<1> QED
  BY <1>2, <1>3, <1>4, <1>5 DEF ControllerTypeOK

LEMMA SnapshotType ==
    ASSUME ControllerTypeOK, Snapshot
    PROVE  ControllerTypeOK'
<1>1. recent' \in Seq(RequestOutcome)
  BY PruneType DEF Snapshot, ControllerTypeOK
<1> QED
  BY <1>1 DEF Snapshot, ControllerTypeOK, ReasonsFor

LEMMA AgeType ==
    ASSUME ControllerTypeOK, Age,
           UNCHANGED <<mode, reasons, transitions, inFlight, sampled>>
    PROVE  ControllerTypeOK'
<1>1. recent' \in Seq(RequestOutcome)
  BY OutcomesAge DEF Age, ControllerTypeOK
<1>2. sinceChange' \in 0..RecoverySeconds
  BY ControllerAssumption DEF Age, ControllerTypeOK
<1> QED
  BY <1>1, <1>2 DEF ControllerTypeOK

-----------------------------------------------------------------------------
USE DEF ShedReason

(* The requests are of known endpoints and their slots and limits numbers. *)
LEMMA Typing ==
    ASSUME NEW r \in Requests
    PROVE  /\ EndpointOf[r] \in Endpoint
           /\ MaxInFlight[EndpointOf[r]] \in Nat
           /\ QueueMaxDepth[EndpointOf[r]] \in Nat
           /\ QueueMaxWait[EndpointOf[r]] \in Nat
           /\ Results[EndpointOf[r]] \subseteq Result
BY AdmissionAssumption

LEMMA BumpType == \A n \in Nat : Bump(n) \in Nat
BY DEF Bump

LEMMA InitType == Init => TypeOK
<1> SUFFICES ASSUME Init PROVE TypeOK
  OBVIOUS
<1>1. ControllerTypeOK
  BY ControllerInitType DEF Init
<1>2. /\ pc \in [Requests -> Place]
      /\ verdict \in [Requests -> ShedReason \cup {"none"}]
  BY DEF Init, Place
<1> QED
  BY <1>1, <1>2 DEF Init, TypeOK

(* What Start, Shed and LeaveQueue do to the types. *)
LEMMA StartType ==
    ASSUME TypeOK, NEW r \in Requests, Start(r)
    PROVE  /\ ControllerTypeOK'
           /\ pc' \in [Requests -> Place]
           /\ verdict' \in [Requests -> ShedReason \cup {"none"}]
           /\ waited' \in [Requests -> Nat]
           /\ slept' \in [Requests -> Nat]
<1>1. inFlight' \in [Endpoint -> Nat]
  BY Typing DEF TypeOK, ControllerTypeOK, Start, RequestStarted
<1>2. ControllerTypeOK'
  BY <1>1 DEF TypeOK, ControllerTypeOK, Start
<1>3. pc' \in [Requests -> Place]
  BY DEF TypeOK, Start, Place
<1> QED
  BY <1>2, <1>3 DEF TypeOK, Start, Forget

LEMMA ShedType ==
    ASSUME TypeOK, NEW r \in Requests, NEW why \in ShedReason, Shed(r, why)
    PROVE  /\ ControllerTypeOK'
           /\ pc' \in [Requests -> Place]
           /\ verdict' \in [Requests -> ShedReason \cup {"none"}]
           /\ waited' \in [Requests -> Nat]
           /\ slept' \in [Requests -> Nat]
           /\ shed' \in [Endpoint \X ShedReason -> Nat]
<1>1. ControllerTypeOK'
  BY DEF TypeOK, ControllerTypeOK, Shed, controllerVars
<1>2. pc' \in [Requests -> Place] /\ verdict' \in [Requests -> ShedReason \cup {"none"}]
  BY DEF TypeOK, Shed, Place
<1>3. waited' \in [Requests -> Nat] /\ slept' \in [Requests -> Nat]
  BY DEF TypeOK, Shed, Forget
<1>4. shed' \in [Endpoint \X ShedReason -> Nat]
  BY Typing, BumpType DEF TypeOK, Shed
<1> QED
  BY <1>1, <1>2, <1>3, <1>4

LEMMA LeaveQueueType ==
    ASSUME TypeOK, NEW r \in Requests, LeaveQueue(r)
    PROVE  queued' \in [Endpoint -> Nat]
BY Typing DEF TypeOK, LeaveQueue

(* Type correctness is inductive, one action at a time. *)
LEMMA NextType == TypeOK /\ [Next]_vars => TypeOK'
<1> SUFFICES ASSUME TypeOK, [Next]_vars PROVE TypeOK'
  OBVIOUS
<1>1. ASSUME NEW r \in Requests, StartNow(r) PROVE TypeOK'
  BY <1>1, StartType DEF StartNow, TypeOK, queueVars
<1>2. ASSUME NEW r \in Requests, RejectLarge(r) PROVE TypeOK'
  BY <1>2, ShedType DEF RejectLarge, TypeOK
<1>3. ASSUME NEW r \in Requests, TurnAway(r) PROVE TypeOK'
  <2>1. PICK why \in ShedReason : Shed(r, why)
    BY <1>3 DEF TurnAway, CapacityReason
  <2> QED
    BY <1>3, <2>1, ShedType DEF TurnAway, TypeOK
<1>4. ASSUME NEW r \in Requests, Enqueue(r) PROVE TypeOK'
  <2>1. ControllerTypeOK'
    BY <1>4 DEF Enqueue, TypeOK, ControllerTypeOK, controllerVars
  <2>2. pc' \in [Requests -> Place] /\ queued' \in [Endpoint -> Nat]
    BY <1>4, Typing DEF Enqueue, TypeOK, Place
  <2> QED
    BY <1>4, <2>1, <2>2 DEF Enqueue, TypeOK
<1>5. ASSUME NEW r \in Requests, PollStart(r) PROVE TypeOK'
  <2>1. queueAdmitted' \in [Endpoint -> Nat]
    BY <1>5, Typing, BumpType DEF PollStart, TypeOK
  <2> QED
    BY <1>5, <2>1, StartType, LeaveQueueType DEF PollStart, TypeOK
<1>6. ASSUME NEW r \in Requests, PollRejectLarge(r) PROVE TypeOK'
  BY <1>6, ShedType, LeaveQueueType DEF PollRejectLarge, TypeOK
<1>7. ASSUME NEW r \in Requests, PollClosed(r) PROVE TypeOK'
  BY <1>7, ShedType, LeaveQueueType DEF PollClosed, TypeOK
<1>8. ASSUME NEW r \in Requests, PollTimeout(r) PROVE TypeOK'
  <2>1. queueTimeouts' \in [Endpoint -> Nat]
    BY <1>8, Typing, BumpType DEF PollTimeout, TypeOK
  <2> QED
    BY <1>8, <2>1, ShedType, LeaveQueueType DEF PollTimeout, TypeOK
<1>9. ASSUME NEW r \in Requests, SleepAgain(r) PROVE TypeOK'
  <2>1. ControllerTypeOK'
    BY <1>9 DEF SleepAgain, TypeOK, ControllerTypeOK, controllerVars
  <2> QED
    BY <1>9, <2>1 DEF SleepAgain, TypeOK, queueVars
<1>10. ASSUME NEW r \in Requests, Finish(r) PROVE TypeOK'
  <2>1. PICK result \in Results[EndpointOf[r]] : FinishWith(r, result)
    BY <1>10 DEF Finish
  <2>2. ControllerTypeOK'
    BY <2>1, Typing, RequestFinishedType DEF FinishWith, TypeOK
  <2>3. pc' \in [Requests -> Place]
    BY <2>1 DEF FinishWith, TypeOK, Place
  <2> QED
    BY <2>1, <2>2, <2>3 DEF FinishWith, TypeOK, queueVars
<1>14. ASSUME NEW r \in Requests, Abandon(r) PROVE TypeOK'
  <2>1. ControllerTypeOK'
    BY <1>14 DEF Abandon, TypeOK, ControllerTypeOK, controllerVars
  <2>2. pc' \in [Requests -> Place]
    BY <1>14 DEF Abandon, TypeOK, Place
  <2> QED
    BY <1>14, <2>1, <2>2 DEF Abandon, TypeOK, queueVars
<1>11. ASSUME Scrape PROVE TypeOK'
  BY <1>11, SnapshotType DEF Scrape, TypeOK, requestVars, queueVars
<1>12. ASSUME Tick PROVE TypeOK'
  <2>1. ControllerTypeOK'
    BY <1>12, AgeType DEF Tick, TypeOK
  <2>2. waited' \in [Requests -> Nat] /\ slept' \in [Requests -> Nat]
    BY <1>12 DEF Tick, TypeOK
  <2> QED
    BY <1>12, <2>1, <2>2 DEF Tick, TypeOK, queueVars
<1>13. ASSUME UNCHANGED vars PROVE TypeOK'
  BY <1>13 DEF vars, controllerVars, requestVars, queueVars, TypeOK, ControllerTypeOK
<1> QED
  BY <1>1, <1>2, <1>3, <1>4, <1>5, <1>6, <1>7, <1>8, <1>9, <1>10, <1>11,
     <1>12, <1>13, <1>14 DEF Next, Arrive, Poll

(***************************************************************************)
(* Every reachable state of the controller and of its requests is typed:   *)
(* the counters are natural numbers, the mode is one of the three, and the *)
(* window is a sequence of outcomes.                                       *)
(***************************************************************************)
THEOREM TypeCorrect == Spec => []TypeOK
BY InitType, NextType, PTL DEF Spec

-----------------------------------------------------------------------------
(***************************************************************************)
(* One request moves: what becomes of the number of requests of an         *)
(* endpoint that are at one of some places.                                *)
(***************************************************************************)
Moves(r, p) == pc' = [pc EXCEPT ![r] = p]

LEMMA AtFinite ==
    ASSUME NEW e, NEW places
    PROVE  /\ IsFiniteSet(At(e, places))
           /\ Cardinality(At(e, places)) \in Nat
         /\ Cardinality(At(e, places)') \in Nat
<1>1. At(e, places) \in SUBSET Requests /\ At(e, places)' \in SUBSET Requests
  BY DEF At
<1> QED
  BY <1>1, AdmissionAssumption, FS_Subset, FS_CardinalityType

LEMMA Enters ==
    ASSUME TypeOK, NEW r \in Requests, NEW p, NEW places,
           Moves(r, p), pc[r] \notin places, p \in places
    PROVE  \A e \in Endpoint :
             Cardinality(At(e, places)') =
               Cardinality(At(e, places)) + (IF e = EndpointOf[r] THEN 1 ELSE 0)
<1> TAKE e \in Endpoint
<1>1. CASE e = EndpointOf[r]
  <2>1. At(e, places)' = At(e, places) \cup {r}
    BY <1>1 DEF At, Moves, TypeOK
  <2>2. r \notin At(e, places)
    BY DEF At
  <2> QED
    BY <1>1, <2>1, <2>2, AtFinite, FS_AddElement
<1>2. CASE e # EndpointOf[r]
  <2>1. At(e, places)' = At(e, places)
    BY <1>2 DEF At, Moves, TypeOK
  <2> QED
    BY <1>2, <2>1, AtFinite
<1> QED
  BY <1>1, <1>2

LEMMA Exits ==
    ASSUME TypeOK, NEW r \in Requests, NEW p, NEW places,
           Moves(r, p), pc[r] \in places, p \notin places
    PROVE  \A e \in Endpoint :
             Cardinality(At(e, places)) =
               Cardinality(At(e, places)') + (IF e = EndpointOf[r] THEN 1 ELSE 0)
<1> TAKE e \in Endpoint
<1>1. CASE e = EndpointOf[r]
  <2>1. At(e, places)' = At(e, places) \ {r}
    BY <1>1 DEF At, Moves, TypeOK
  <2>2. r \in At(e, places)
    BY <1>1 DEF At
  <2>3. Cardinality(At(e, places)') = Cardinality(At(e, places)) - 1
    BY <2>1, <2>2, AtFinite, FS_RemoveElement
  <2> QED
    BY <1>1, <2>3, AtFinite
<1>2. CASE e # EndpointOf[r]
  <2>1. At(e, places)' = At(e, places)
    BY <1>2 DEF At, Moves, TypeOK
  <2> QED
    BY <1>2, <2>1, AtFinite
<1> QED
  BY <1>1, <1>2

LEMMA Stays ==
    ASSUME TypeOK, NEW r \in Requests, NEW p, NEW places,
           Moves(r, p), pc[r] \in places <=> p \in places
    PROVE  \A e \in Endpoint : At(e, places)' = At(e, places)
BY DEF At, Moves, TypeOK

(***************************************************************************)
(* Every step, seen by the slots and the queue: a request is admitted and  *)
(* takes a slot, gives it back or loses it, joins or leaves the queue, or  *)
(* is shed.  The mode moves only with a request that ends.                 *)
(***************************************************************************)
LeavesQueueIfThere(r) ==
    \/ pc[r] = "new" /\ UNCHANGED queued
    \/ pc[r] = "queued" /\ LeaveQueue(r)

Admitted(r) ==
    /\ LeavesQueueIfThere(r)
    /\ ~AtCapacity(EndpointOf[r])
    /\ RequestStarted(EndpointOf[r])
    /\ Moves(r, "running") \/ Moves(r, "invalid")
    /\ UNCHANGED mode

Refused(r) ==
    /\ LeavesQueueIfThere(r)
    /\ AtCapacity(EndpointOf[r]) \/ TooLarge(r)
    /\ UNCHANGED <<inFlight, mode>>
    /\ Moves(r, "shed")

Queues(r) ==
    /\ pc[r] = "new"
    /\ AtCapacity(EndpointOf[r])
    /\ ~QueueFull(EndpointOf[r])
    /\ queued' = [queued EXCEPT ![EndpointOf[r]] = @ + 1]
    /\ UNCHANGED <<inFlight, mode>>
    /\ Moves(r, "queued")

Ends(r) ==
    /\ pc[r] = "running"
    /\ inFlight' = Released(EndpointOf[r])
    /\ UNCHANGED queued
    /\ Moves(r, "done")

Loses(r) ==
    /\ pc[r] = "running"
    /\ UNCHANGED <<inFlight, queued, mode>>
    /\ Moves(r, "abandoned")

Rests == UNCHANGED <<pc, inFlight, queued, mode>>

StepKind ==
    \/ \E r \in Requests : Admitted(r) \/ Refused(r) \/ Queues(r) \/ Ends(r) \/ Loses(r)
    \/ Rests

LEMMA EveryStep == [Next]_vars => StepKind
<1> SUFFICES ASSUME [Next]_vars PROVE StepKind
  OBVIOUS
<1> USE DEF LeavesQueueIfThere, Moves
<1>1. ASSUME NEW r \in Requests, StartNow(r) PROVE Admitted(r)
  BY <1>1 DEF StartNow, Start, Admitted, queueVars
<1>2. ASSUME NEW r \in Requests, RejectLarge(r) \/ TurnAway(r) PROVE Refused(r)
  BY <1>2 DEF RejectLarge, TurnAway, Shed, Refused, controllerVars
<1>3. ASSUME NEW r \in Requests, Enqueue(r) PROVE Queues(r)
  BY <1>3 DEF Enqueue, Queues, controllerVars
<1>4. ASSUME NEW r \in Requests, PollStart(r) PROVE Admitted(r)
  BY <1>4 DEF PollStart, Awake, Start, Admitted
<1>5. ASSUME NEW r \in Requests, PollRejectLarge(r) \/ PollClosed(r) \/ PollTimeout(r)
      PROVE  Refused(r)
  BY <1>5 DEF PollRejectLarge, PollClosed, PollTimeout, Awake, Shed, Refused,
              controllerVars
<1>6. ASSUME NEW r \in Requests, SleepAgain(r) PROVE Rests
  BY <1>6 DEF SleepAgain, Rests, controllerVars, queueVars
<1>7. ASSUME NEW r \in Requests, Finish(r) PROVE Ends(r)
  BY <1>7 DEF Finish, FinishWith, RequestFinished, Ends, queueVars
<1>8. ASSUME NEW r \in Requests, Abandon(r) PROVE Loses(r)
  BY <1>8 DEF Abandon, Loses, controllerVars, queueVars
<1>9. ASSUME Scrape \/ Tick \/ UNCHANGED vars PROVE Rests
  BY <1>9 DEF Scrape, Snapshot, Tick, vars, controllerVars, requestVars,
              queueVars, Rests
<1> QED
  BY <1>1, <1>2, <1>3, <1>4, <1>5, <1>6, <1>7, <1>8, <1>9
     DEF Next, Arrive, Poll, StepKind

-----------------------------------------------------------------------------
(* A slot is taken and given back exactly as its request comes and goes. *)
LEMMA SlotsStep == TypeOK /\ SlotsAccounted /\ StepKind => SlotsAccounted'
<1> SUFFICES ASSUME TypeOK, SlotsAccounted, StepKind PROVE SlotsAccounted'
  OBVIOUS
<1>0. \A e \in Endpoint : inFlight[e] = Cardinality(At(e, Holding))
  BY DEF SlotsAccounted, Holding
<1>a. inFlight \in [Endpoint -> Nat]
  BY DEF TypeOK, ControllerTypeOK
<1> SUFFICES \A e \in Endpoint : inFlight'[e] = Cardinality(At(e, Holding)')
  BY DEF SlotsAccounted, Holding
<1>1. ASSUME NEW r \in Requests, Admitted(r)
      PROVE  \A e \in Endpoint : inFlight'[e] = Cardinality(At(e, Holding)')
  <2>1. PICK p \in Holding : Moves(r, p)
    BY <1>1 DEF Admitted, Holding
  <2>2. pc[r] \notin Holding
    BY <1>1 DEF Admitted, LeavesQueueIfThere, Holding
  <2>3. \A e \in Endpoint : Cardinality(At(e, Holding)') =
           Cardinality(At(e, Holding)) + (IF e = EndpointOf[r] THEN 1 ELSE 0)
    BY <2>1, <2>2, Enters
  <2>4. inFlight' = [inFlight EXCEPT ![EndpointOf[r]] = @ + 1]
    BY <1>1 DEF Admitted, RequestStarted
  <2> QED
    BY <1>0, <1>a, <2>3, <2>4, Typing
<1>2. ASSUME NEW r \in Requests, Refused(r) \/ Queues(r)
      PROVE  \A e \in Endpoint : inFlight'[e] = Cardinality(At(e, Holding)')
  <2>1. PICK p \in {"shed", "queued"} : Moves(r, p)
    BY <1>2 DEF Refused, Queues
  <2>2. pc[r] \notin Holding /\ p \notin Holding
    BY <1>2 DEF Refused, Queues, LeavesQueueIfThere, Holding
  <2>3. \A e \in Endpoint : At(e, Holding)' = At(e, Holding)
    BY <2>1, <2>2, Stays
  <2> QED
    BY <1>0, <1>2, <2>3 DEF Refused, Queues
<1>3. ASSUME NEW r \in Requests, Ends(r)
      PROVE  \A e \in Endpoint : inFlight'[e] = Cardinality(At(e, Holding)')
  <2>1. pc[r] \in Holding /\ "done" \notin Holding
    BY <1>3 DEF Ends, Holding
  <2>2. \A e \in Endpoint : Cardinality(At(e, Holding)) =
           Cardinality(At(e, Holding)') + (IF e = EndpointOf[r] THEN 1 ELSE 0)
    BY <1>3, <2>1, Exits DEF Ends
  <2>3. \A e \in Endpoint : Cardinality(At(e, Holding)') \in Nat
    BY AtFinite
  <2>4. inFlight' = [inFlight EXCEPT ![EndpointOf[r]] = IF @ > 0 THEN @ - 1 ELSE 0]
    BY <1>3 DEF Ends, Released
  <2> QED
    BY <1>0, <1>a, <2>2, <2>3, <2>4, Typing
<1>4. ASSUME NEW r \in Requests, Loses(r)
      PROVE  \A e \in Endpoint : inFlight'[e] = Cardinality(At(e, Holding)')
  <2>1. \A e \in Endpoint : At(e, Holding)' = At(e, Holding)
    BY <1>4, Stays DEF Loses, Holding
  <2> QED
    BY <1>0, <1>4, <2>1 DEF Loses
<1>5. ASSUME Rests
      PROVE  \A e \in Endpoint : inFlight'[e] = Cardinality(At(e, Holding)')
  BY <1>0, <1>5 DEF At, Rests
<1> QED
  BY <1>1, <1>2, <1>3, <1>4, <1>5 DEF StepKind

(* Only an admission takes a slot, and it found the count below the cap. *)
LEMMA CapStep == TypeOK /\ AbsoluteCap /\ StepKind => AbsoluteCap'
<1> SUFFICES ASSUME TypeOK, AbsoluteCap, StepKind PROVE AbsoluteCap'
  OBVIOUS
<1>a. /\ inFlight \in [Endpoint -> Nat]
      /\ MaxInFlight \in [Endpoint -> Nat]
  BY AdmissionAssumption DEF TypeOK, ControllerTypeOK
<1>1. ASSUME NEW r \in Requests, Admitted(r) PROVE AbsoluteCap'
  BY <1>1, <1>a, Typing DEF Admitted, RequestStarted, AtCapacity, OverCap, AbsoluteCap
<1>2. ASSUME NEW r \in Requests, Ends(r) PROVE AbsoluteCap'
  BY <1>2, <1>a, Typing DEF Ends, Released, AbsoluteCap
<1>3. ASSUME UNCHANGED inFlight PROVE AbsoluteCap'
  BY <1>3 DEF AbsoluteCap
<1> QED
  BY <1>1, <1>2, <1>3 DEF StepKind, Refused, Queues, Loses, Rests

(* The depth follows the requests into the queue and out of it. *)
LEMMA QueueStep == TypeOK /\ QueueAccounted /\ StepKind => QueueAccounted'
<1> SUFFICES ASSUME TypeOK, QueueAccounted, StepKind PROVE QueueAccounted'
  OBVIOUS
<1> DEFINE Here == {"queued"}
<1>a. /\ queued \in [Endpoint -> Nat]
      /\ QueueMaxDepth \in [Endpoint -> Nat]
  BY AdmissionAssumption DEF TypeOK
<1>b. \A e \in Endpoint : /\ queued[e] = Cardinality(At(e, Here))
                          /\ queued[e] <= QueueMaxDepth[e]
  BY DEF QueueAccounted
<1>c. \A e \in Endpoint : Cardinality(At(e, Here)') \in Nat
  BY AtFinite
<1> SUFFICES \A e \in Endpoint : /\ queued'[e] = Cardinality(At(e, Here)')
                                /\ queued'[e] <= QueueMaxDepth[e]
  BY DEF QueueAccounted
<1>1. ASSUME NEW r \in Requests, NEW p \in {"running", "invalid", "shed"},
             LeavesQueueIfThere(r), Moves(r, p)
      PROVE  \A e \in Endpoint : /\ queued'[e] = Cardinality(At(e, Here)')
                                /\ queued'[e] <= QueueMaxDepth[e]
  <2>1. CASE pc[r] = "new"
    <3>1. \A e \in Endpoint : At(e, Here)' = At(e, Here)
      BY <1>1, <2>1, Stays
    <3> QED
      BY <1>1, <2>1, <3>1, <1>b DEF LeavesQueueIfThere
  <2>2. CASE pc[r] = "queued"
    <3>1. \A e \in Endpoint : Cardinality(At(e, Here)) =
             Cardinality(At(e, Here)') + (IF e = EndpointOf[r] THEN 1 ELSE 0)
      BY <1>1, <2>2, Exits
    <3>2. queued' = [queued EXCEPT ![EndpointOf[r]] = IF @ > 0 THEN @ - 1 ELSE 0]
      BY <1>1, <2>2 DEF LeavesQueueIfThere, LeaveQueue
    <3> QED
      BY <1>a, <1>b, <1>c, <3>1, <3>2, Typing
  <2> QED
    BY <1>1, <2>1, <2>2 DEF LeavesQueueIfThere
<1>2. ASSUME NEW r \in Requests, Queues(r)
      PROVE  \A e \in Endpoint : /\ queued'[e] = Cardinality(At(e, Here)')
                                /\ queued'[e] <= QueueMaxDepth[e]
  <2>1. pc[r] \notin Here /\ Moves(r, "queued")
    BY <1>2 DEF Queues
  <2>2. \A e \in Endpoint : Cardinality(At(e, Here)') =
           Cardinality(At(e, Here)) + (IF e = EndpointOf[r] THEN 1 ELSE 0)
    BY <2>1, Enters
  <2>3. /\ queued' = [queued EXCEPT ![EndpointOf[r]] = @ + 1]
        /\ queued[EndpointOf[r]] < QueueMaxDepth[EndpointOf[r]]
    BY <1>2, <1>a, Typing DEF Queues, QueueFull
  <2> QED
    BY <1>a, <1>b, <2>2, <2>3, Typing
<1>3. ASSUME NEW r \in Requests, Ends(r) \/ Loses(r)
      PROVE  \A e \in Endpoint : /\ queued'[e] = Cardinality(At(e, Here)')
                                /\ queued'[e] <= QueueMaxDepth[e]
  <2>1. \A e \in Endpoint : At(e, Here)' = At(e, Here)
    BY <1>3, Stays DEF Ends, Loses
  <2> QED
    BY <1>3, <1>b, <2>1 DEF Ends, Loses
<1>4. ASSUME Rests
      PROVE  \A e \in Endpoint : /\ queued'[e] = Cardinality(At(e, Here)')
                                /\ queued'[e] <= QueueMaxDepth[e]
  BY <1>b, <1>4 DEF At, Rests
<1> QED
  BY <1>1, <1>2, <1>3, <1>4 DEF StepKind, Admitted, Refused

-----------------------------------------------------------------------------
(* At the start no request is anywhere but "new", and nothing is counted. *)
LEMMA InitCounts == Init => SlotsAccounted /\ AbsoluteCap /\ QueueAccounted
<1> SUFFICES ASSUME Init PROVE SlotsAccounted /\ AbsoluteCap /\ QueueAccounted
  OBVIOUS
<1>1. \A e \in Endpoint : At(e, Holding) = {} /\ At(e, {"queued"}) = {}
  BY DEF Init, At, Holding
<1>2. Cardinality({}) = 0
  BY FS_EmptySet
<1>3. \A e \in Endpoint : inFlight[e] = 0 /\ queued[e] = 0
  BY DEF Init, ControllerInit
<1>4. \A e \in Endpoint : MaxInFlight[e] \in Nat /\ QueueMaxDepth[e] \in Nat
  BY AdmissionAssumption
<1> QED
  BY <1>1, <1>2, <1>3, <1>4 DEF SlotsAccounted, AbsoluteCap, QueueAccounted

(***************************************************************************)
(* The inductive invariant: the counters are the cardinalities of the sets *)
(* of requests they stand for, and the bounds of the settings hold.  The   *)
(* caps alone are inductive; that the counters never drift from the        *)
(* requests, so that the caps bound requests and not only counters, needs  *)
(* the typing of pc.                                                       *)
(***************************************************************************)
Accounted == TypeOK /\ SlotsAccounted /\ AbsoluteCap /\ QueueAccounted

LEMMA AccountedInductive ==
    /\ Init => Accounted
    /\ Accounted /\ [Next]_vars => Accounted'
BY InitType, InitCounts, NextType, EveryStep, SlotsStep, CapStep, QueueStep
   DEF Accounted

(* Accounted is an invariant, and each of its parts with it. *)
LEMMA AlwaysAccounted == Spec => []Accounted
BY AccountedInductive, PTL DEF Spec

(***************************************************************************)
(* Every slot counted is a request that took it and did not return it, and *)
(* every request that holds one is counted, for any number of requests and *)
(* any settings.                                                           *)
(***************************************************************************)
THEOREM SlotsCounted == Spec => []SlotsAccounted
<1>1. Accounted => SlotsAccounted
  BY DEF Accounted
<1> QED
  BY AlwaysAccounted, <1>1, PTL

(* The absolute caps hold in every reachable state. *)
THEOREM CapsHold == Spec => []AbsoluteCap
<1>1. Accounted => AbsoluteCap
  BY DEF Accounted
<1> QED
  BY AlwaysAccounted, <1>1, PTL

(***************************************************************************)
(* The queue depth is the number of the sleepers and within its bound, on  *)
(* whichever of its exits each request left the poll loop.                 *)
(***************************************************************************)
THEOREM QueueCounted == Spec => []QueueAccounted
<1>1. Accounted => QueueAccounted
  BY DEF Accounted
<1> QED
  BY AlwaysAccounted, <1>1, PTL

-----------------------------------------------------------------------------
(***************************************************************************)
(* The refinement.  The counters stand for the abstract sets by Accounted, *)
(* so that the decision the code takes from two counters and the mode is   *)
(* the abstract one, taken from the set of holders and the slots given out.*)
(***************************************************************************)
StageNow == [r \in Requests |-> StageOf[pc[r]]]

OpenNow == [e \in Endpoint |-> EffectiveCap(e)]

LEMMA CapTypes ==
    ASSUME NEW e \in Endpoint
    PROVE  MaxInFlight[e] \in Nat /\ DegradedMaxInFlight[e] \in Nat
BY AdmissionAssumption

LEMMA StageMoves ==
    ASSUME TypeOK, NEW r \in Requests, NEW p \in Place, Moves(r, p)
    PROVE  StageNow' = [StageNow EXCEPT ![r] = StageOf[p]]
BY DEF StageNow, Moves, TypeOK

LEMMA HoldersAre ==
    ASSUME TypeOK, NEW e \in Endpoint
    PROVE  {r \in Requests : EndpointOf[r] = e /\ StageNow[r] = "holding"} = At(e, Holding)
BY DEF TypeOK, StageNow, StageOf, At, Holding, Place

LEMMA WaitersAre ==
    ASSUME TypeOK, NEW e \in Endpoint
    PROVE  {r \in Requests : EndpointOf[r] = e /\ StageNow[r] = "waiting"} = At(e, {"queued"})
BY DEF TypeOK, StageNow, StageOf, At, Holding, Place

LEMMA SameCardinality == \A S : Pools!Cardinality(S) = Cardinality(S)
BY Zenon DEF Pools!Cardinality, Cardinality

LEMMA FullIsAtCapacity ==
    ASSUME Accounted, NEW e \in Endpoint
    PROVE  Pools!Full(e) <=> AtCapacity(e)
<1>1. Cardinality({r \in Requests : EndpointOf[r] = e /\ StageNow[r] = "holding"})
        = inFlight[e]
  BY HoldersAre DEF Accounted, SlotsAccounted
<1>2. inFlight[e] \in Nat
  BY DEF Accounted, TypeOK, ControllerTypeOK
<1>3. Pools!Full(e) <=> inFlight[e] >= EffectiveCap(e)
  <2>1. Pools!Full(e) <=> Cardinality(Pools!In(e, "holding")) >= OpenNow[e]
    BY SameCardinality DEF Pools!Full, OpenNow
  <2>2. Pools!In(e, "holding") =
          {r \in Requests : EndpointOf[r] = e /\ StageNow[r] = "holding"}
    BY DEF Pools!In, StageNow
  <2> QED
    BY <1>1, <2>1, <2>2 DEF OpenNow
<1> QED
  BY <1>2, <1>3, CapTypes DEF EffectiveCap, AtCapacity, OverCap, OverDegraded

LEMMA PoolStep ==
    ASSUME Accounted, StepKind
    PROVE  [Pools!Next]_(Pools!poolVars)
<1> DEFINE Same == OpenNow' = OpenNow
<1>a. TypeOK /\ pc \in [Requests -> Place]
  BY DEF Accounted, TypeOK
<1>b. mode' = mode => Same
  BY DEF OpenNow, EffectiveCap, Tightened
<1>c. \A r \in Requests : EndpointOf[r] \in Endpoint
  BY Typing
<1>d. /\ StageOf["new"] = "outside"
      /\ StageOf["queued"] = "waiting"
      /\ \A p \in Holding : StageOf[p] = "holding"
      /\ StageOf["shed"] = "refused"
      /\ StageOf["done"] = "released"
  BY DEF StageOf, Place, Holding
<1>e. \A r \in Requests : StageNow[r] = StageOf[pc[r]]
  BY DEF StageNow
<1>1. ASSUME NEW r \in Requests, Admitted(r) PROVE Pools!Take(r)
  <2>1. PICK p \in {"running", "invalid"} : Moves(r, p)
    BY <1>1 DEF Admitted
  <2>2. StageNow' = [StageNow EXCEPT ![r] = "holding"]
    BY <1>a, <1>d, <2>1, StageMoves DEF Place, Holding
  <2>3. StageNow[r] \in {"outside", "waiting"}
    BY <1>1, <1>d, <1>e DEF Admitted, LeavesQueueIfThere
  <2>4. ~Pools!Full(EndpointOf[r])
    BY <1>1, <1>c, FullIsAtCapacity DEF Admitted
  <2> QED
    BY <1>1, <1>b, <2>2, <2>3, <2>4
       DEF Admitted, Pools!Take, Pools!Moves, StageNow, OpenNow
<1>2. ASSUME NEW r \in Requests, Refused(r) PROVE Pools!Refuse(r)
  <2>1. StageNow' = [StageNow EXCEPT ![r] = "refused"]
    BY <1>2, <1>a, <1>d, StageMoves DEF Refused, Place
  <2>2. StageNow[r] \in {"outside", "waiting"}
    BY <1>2, <1>d, <1>e DEF Refused, LeavesQueueIfThere
  <2>3. Pools!Full(EndpointOf[r]) \/ r \in Large
    BY <1>2, <1>c, FullIsAtCapacity DEF Refused, TooLarge, Large
  <2> QED
    BY <1>2, <1>b, <2>1, <2>2, <2>3
       DEF Refused, Pools!Refuse, Pools!Moves, StageNow, OpenNow
<1>3. ASSUME NEW r \in Requests, Queues(r) PROVE Pools!Wait(r)
  <2>1. StageNow' = [StageNow EXCEPT ![r] = "waiting"]
    BY <1>3, <1>a, <1>d, StageMoves DEF Queues, Place
  <2>2. StageNow[r] = "outside"
    BY <1>3, <1>d, <1>e DEF Queues
  <2>3. Pools!Full(EndpointOf[r])
    BY <1>3, <1>c, FullIsAtCapacity DEF Queues
  <2>4. Cardinality({q \in Requests : /\ EndpointOf[q] = EndpointOf[r]
                                      /\ StageNow[q] = "waiting"})
          = queued[EndpointOf[r]]
    BY <1>a, <1>c, WaitersAre DEF Accounted, QueueAccounted
  <2>5. queued[EndpointOf[r]] < QueueMaxDepth[EndpointOf[r]]
    BY <1>3, <1>a, <1>c, Typing DEF Queues, QueueFull, TypeOK
  <2> QED
    BY <1>3, <1>b, <2>1, <2>2, <2>3, <2>4, <2>5, SameCardinality
       DEF Queues, Pools!Wait, Pools!In, Pools!Moves, StageNow, OpenNow
<1>4. ASSUME NEW r \in Requests, Ends(r) PROVE Pools!Release(r)
  <2>1. StageNow' = [StageNow EXCEPT ![r] = "released"]
    BY <1>4, <1>a, <1>d, StageMoves DEF Ends, Place
  <2>2. StageNow[r] = "holding"
    BY <1>4, <1>d, <1>e DEF Ends, Holding
  <2>3. \A e \in Endpoint : OpenNow'[e] \in 0..MaxInFlight[e]
    BY CapTypes DEF OpenNow, EffectiveCap
  <2> QED
    BY <2>1, <2>2, <2>3 DEF Pools!Release, Pools!Moves, StageNow, OpenNow
<1>5. ASSUME NEW r \in Requests, Loses(r) PROVE UNCHANGED Pools!poolVars
  <2>1. StageNow' = [StageNow EXCEPT ![r] = "holding"]
    BY <1>5, <1>a, <1>d, StageMoves DEF Loses, Place, Holding
  <2>2. StageNow[r] = "holding"
    BY <1>5, <1>d, <1>e DEF Loses, Holding
  <2>3. StageNow' = StageNow
    BY <2>1, <2>2 DEF StageNow
  <2> QED
    BY <1>5, <1>b, <2>3 DEF Loses, Pools!poolVars, StageNow, OpenNow
<1>6. ASSUME Rests PROVE UNCHANGED Pools!poolVars
  BY <1>6, <1>b DEF Rests, Pools!poolVars, StageNow, OpenNow
<1> QED
  BY <1>1, <1>2, <1>3, <1>4, <1>5, <1>6 DEF StepKind, Pools!Next

LEMMA PoolInit == Init => Pools!Init
<1> SUFFICES ASSUME Init PROVE Pools!Init
  OBVIOUS
<1>1. StageNow = [r \in Requests |-> "outside"]
  <2>1. StageOf["new"] = "outside" /\ \A r \in Requests : pc[r] = "new"
    BY DEF Init, StageOf, Place, Holding
  <2> QED
    BY <2>1 DEF StageNow
<1>2. OpenNow = MaxInFlight
  BY AdmissionAssumption DEF Init, ControllerInit, OpenNow, EffectiveCap, Tightened
<1> QED
  BY <1>1, <1>2 DEF Pools!Init, StageNow, OpenNow

(***************************************************************************)
(* Admission implements the slot pool: whatever the modes, deadlines and   *)
(* polls do, slots are given out while the cap in force leaves one, places *)
(* in the queue while there is room, and nothing else becomes of a request.*)
(***************************************************************************)
THEOREM PoolImplemented == Spec => ImplementsSlotPool
<1>1. Accounted /\ [Next]_vars => [Pools!Next]_(Pools!poolVars)
  BY EveryStep, PoolStep
<1> QED
  BY <1>1, PoolInit, AlwaysAccounted, PTL DEF Spec, ImplementsSlotPool, Pools!Spec

-----------------------------------------------------------------------------
(***************************************************************************)
(* Every step, seen by the shed counters: one more request is shed, and    *)
(* counted under its reason, or none is.                                   *)
(***************************************************************************)
CountsShed(r, why) ==
    LET e == EndpointOf[r]
    IN  /\ pc[r] \in {"new", "queued"}
        /\ Moves(r, "shed")
        /\ verdict' = [verdict EXCEPT ![r] = why]
        /\ shed' = [shed EXCEPT ![<<e, why>>] = Bump(@)]
        /\ queueTimeouts' = IF why = "queue_timeout"
                            THEN [queueTimeouts EXCEPT ![e] = Bump(@)]
                            ELSE queueTimeouts

ShedsNone ==
    /\ UNCHANGED <<verdict, shed, queueTimeouts>>
    /\ \A r \in Requests : pc[r] = "shed" <=> pc'[r] = "shed"

LEMMA ShedOrNot ==
    ASSUME TypeOK, [Next]_vars
    PROVE  \/ \E r \in Requests, why \in ShedReason : CountsShed(r, why)
           \/ ShedsNone
<1> DEFINE Goal == \/ \E r \in Requests, why \in ShedReason : CountsShed(r, why)
                   \/ ShedsNone
<1>1. ASSUME NEW r \in Requests, StartNow(r) \/ PollStart(r) PROVE ShedsNone
  BY <1>1 DEF StartNow, PollStart, Awake, Start, ShedsNone, queueVars, TypeOK
<1>2. ASSUME NEW r \in Requests, Enqueue(r) \/ SleepAgain(r) PROVE ShedsNone
  BY <1>2 DEF Enqueue, SleepAgain, ShedsNone, queueVars, TypeOK
<1>3. ASSUME NEW r \in Requests, RejectLarge(r) \/ PollRejectLarge(r)
      PROVE  CountsShed(r, "degraded_input_count")
  BY <1>3 DEF RejectLarge, PollRejectLarge, Awake, Shed, CountsShed, Moves
<1>4. ASSUME NEW r \in Requests, TurnAway(r)
      PROVE  \E why \in ShedReason : CountsShed(r, why)
  <2>1. PICK why \in ShedReason \ {"queue_timeout"} : Shed(r, why)
    BY <1>4 DEF TurnAway, CapacityReason
  <2> QED
    BY <1>4, <2>1 DEF TurnAway, Shed, CountsShed, Moves
<1>5. ASSUME NEW r \in Requests, PollClosed(r)
      PROVE  CountsShed(r, "queue_disabled_on_degraded")
  BY <1>5 DEF PollClosed, Awake, Shed, CountsShed, Moves
<1>6. ASSUME NEW r \in Requests, PollTimeout(r)
      PROVE  CountsShed(r, "queue_timeout")
  BY <1>6 DEF PollTimeout, Awake, Shed, CountsShed, Moves
<1>7. ASSUME NEW r \in Requests, Finish(r) \/ Abandon(r) PROVE ShedsNone
  BY <1>7 DEF Finish, FinishWith, Abandon, ShedsNone, queueVars, TypeOK
<1>8. ASSUME Scrape \/ Tick \/ UNCHANGED vars PROVE ShedsNone
  BY <1>8 DEF Scrape, Tick, vars, requestVars, queueVars, ShedsNone
<1> QED
  BY <1>1, <1>2, <1>3, <1>4, <1>5, <1>6, <1>7, <1>8
     DEF Next, Arrive, Poll

(* A request is shed once, so the counters never reach their bound. *)
LEMMA ShedStep ==
    ASSUME TypeOK, ShedCountedOnce, [Next]_vars, Cardinality(Requests) <= CounterCap
    PROVE  ShedCountedOnce'
<1>a. /\ shed \in [Endpoint \X ShedReason -> Nat]
      /\ queueTimeouts \in [Endpoint -> Nat]
      /\ pc \in [Requests -> Place]
      /\ verdict \in [Requests -> ShedReason \cup {"none"}]
  BY DEF TypeOK
<1>1. ASSUME NEW r \in Requests, NEW why \in ShedReason, CountsShed(r, why)
      PROVE  ShedCountedOnce'
  <2> DEFINE e == EndpointOf[r]
  <2>1. e \in Endpoint /\ r \notin ShedFor(e, why)
    BY <1>1, Typing DEF CountsShed, ShedFor, At
  <2>2. ShedFor(e, why)' = ShedFor(e, why) \cup {r}
    BY <1>1, <1>a DEF CountsShed, ShedFor, At, Moves
  <2>3. \A d \in Endpoint, w \in ShedReason :
           <<d, w>> # <<e, why>> => ShedFor(d, w)' = ShedFor(d, w)
    BY <1>1, <1>a DEF CountsShed, ShedFor, At, Moves
  <2>4. /\ IsFiniteSet(ShedFor(e, why))
        /\ Cardinality(ShedFor(e, why)) \in Nat
        /\ Cardinality(ShedFor(e, why)') = Cardinality(ShedFor(e, why)) + 1
    <3>1. ShedFor(e, why) \in SUBSET At(e, {"shed"})
      BY DEF ShedFor
    <3>2. IsFiniteSet(ShedFor(e, why))
      BY <3>1, AtFinite, FS_Subset
    <3> QED
      BY <2>1, <2>2, <3>2, FS_CardinalityType, FS_AddElement
  <2>5. Cardinality(ShedFor(e, why)) < CounterCap
    <3>1. ShedFor(e, why)' \in SUBSET Requests
      BY DEF ShedFor, At
    <3>2. Cardinality(ShedFor(e, why)') <= Cardinality(Requests)
      BY <3>1, AdmissionAssumption, FS_Subset
    <3>3. Cardinality(Requests) \in Nat /\ CounterCap \in Nat
      BY AdmissionAssumption, FS_CardinalityType, ControllerAssumption
    <3> QED
      BY <2>4, <3>2, <3>3
  <2>6. shed[<<e, why>>] = Cardinality(ShedFor(e, why))
    BY <2>1 DEF ShedCountedOnce
  <2>7. Bump(shed[<<e, why>>]) = Cardinality(ShedFor(e, why)')
    BY <2>4, <2>5, <2>6 DEF Bump
  <2>8. shed' = [shed EXCEPT ![<<e, why>>] = Bump(shed[<<e, why>>])]
    BY <1>1 DEF CountsShed
  <2>9. \A d \in Endpoint, w \in ShedReason :
           shed'[<<d, w>>] = Cardinality(ShedFor(d, w)')
    <3> TAKE d \in Endpoint, w \in ShedReason
    <3>1. CASE <<d, w>> = <<e, why>>
      BY <1>a, <2>1, <2>7, <2>8, <3>1
    <3>2. CASE <<d, w>> # <<e, why>>
      <4>1. shed'[<<d, w>>] = shed[<<d, w>>]
        BY <1>a, <2>1, <2>8, <3>2
      <4>2. shed[<<d, w>>] = Cardinality(ShedFor(d, w))
        BY DEF ShedCountedOnce
      <4>3. ShedFor(d, w)' = ShedFor(d, w)
        BY <2>3, <3>2
      <4>4. Cardinality(ShedFor(d, w)') = Cardinality(ShedFor(d, w))
        BY <4>3, Zenon
      <4> QED
        BY <4>1, <4>2, <4>4
    <3> QED
      BY <3>1, <3>2
  <2>10. \A d \in Endpoint : queueTimeouts'[d] = shed'[<<d, "queue_timeout">>]
    <3>1. \A d \in Endpoint : queueTimeouts[d] = shed[<<d, "queue_timeout">>]
      BY DEF ShedCountedOnce
    <3>2. CASE why = "queue_timeout"
      <4>1. queueTimeouts' = [queueTimeouts EXCEPT ![e] = Bump(@)]
        BY <1>1, <3>2 DEF CountsShed
      <4> QED
        BY <1>a, <2>1, <2>8, <3>1, <3>2, <4>1
    <3>3. CASE why # "queue_timeout"
      <4>1. queueTimeouts' = queueTimeouts
        BY <1>1, <3>3 DEF CountsShed
      <4> QED
        BY <1>a, <2>1, <2>8, <3>1, <3>3, <4>1
    <3> QED
      BY <3>2, <3>3
  <2> QED
    BY <2>9, <2>10 DEF ShedCountedOnce
<1>2. ASSUME ShedsNone PROVE ShedCountedOnce'
  <2>1. \A e \in Endpoint, why \in ShedReason : ShedFor(e, why)' = ShedFor(e, why)
    BY <1>2 DEF ShedsNone, ShedFor, At
  <2> QED
    BY <1>2, <2>1 DEF ShedsNone, ShedCountedOnce
<1> QED
  BY <1>1, <1>2, ShedOrNot

LEMMA InitShed == Init => ShedCountedOnce
<1> SUFFICES ASSUME Init PROVE ShedCountedOnce
  OBVIOUS
<1>1. \A e \in Endpoint, why \in ShedReason : ShedFor(e, why) = {}
  BY DEF Init, ShedFor, At
<1> QED
  BY <1>1, FS_EmptySet DEF Init, ShedCountedOnce

(***************************************************************************)
(* Every 429 is counted once, under the reason its client was given,       *)
(* whatever path shed the request and however the requests interleave.     *)
(***************************************************************************)
THEOREM ShedAccounting ==
    ASSUME Cardinality(Requests) <= CounterCap
    PROVE  Spec => []ShedCountedOnce
<1>1. TypeOK /\ ShedCountedOnce /\ [Next]_vars => (TypeOK /\ ShedCountedOnce)'
  BY NextType, ShedStep
<1>2. Init => TypeOK /\ ShedCountedOnce
  BY InitType, InitShed
<1> QED
  BY <1>1, <1>2, PTL DEF Spec

=============================================================================
