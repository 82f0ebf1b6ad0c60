------------------------------ MODULE LoopProofs ------------------------------
(***************************************************************************)
(* Proofs about ReadinessLoop.  Most of its steps are steps of             *)
(* RequestAdmission, whose lemmas carry over; the others are the clients   *)
(* that come back, the upstream that fails, and the probe.                 *)
(***************************************************************************)
EXTENDS ReadinessLoop, AdmissionStepProofs

(* A step of the loop is one of the replica's, or one around it. *)
LEMMA LoopStepKind ==
    ASSUME [LoopNext]_loopVars
    PROVE  \/ [Next]_vars
           \/ \E r \in Requests : Reissue(r)
<1>1. ASSUME NEW r \in Requests, RoutedArrival(r) \/ LoopPoll(r) \/ Answer(r)
      PROVE  Next
  BY <1>1 DEF RoutedArrival, LoopPoll, Answer, Next, Finish
<1>2. CASE Probe \/ LoopTick \/ UpstreamTurns
  BY <1>2 DEF Probe, LoopTick, UpstreamTurns, Next
<1>3. CASE UNCHANGED loopVars
  BY <1>3 DEF loopVars
<1> QED
  BY <1>1, <1>2, <1>3 DEF LoopNext, Proceed

LEMMA LoopNextType == LoopTypeOK /\ [LoopNext]_loopVars => LoopTypeOK'
<1> SUFFICES ASSUME LoopTypeOK, [LoopNext]_loopVars PROVE LoopTypeOK'
  OBVIOUS
<1>1. TypeOK'
  <2>1. CASE [Next]_vars
    BY <2>1, NextType DEF LoopTypeOK
  <2>2. ASSUME NEW r \in Requests, Reissue(r) PROVE TypeOK'
    <3>1. ControllerTypeOK'
      BY <2>2 DEF Reissue, LoopTypeOK, TypeOK, ControllerTypeOK, controllerVars
    <3>2. pc' \in [Requests -> Place] /\ verdict' \in [Requests -> ShedReason \cup {"none"}]
      BY <2>2 DEF Reissue, LoopTypeOK, TypeOK, Place
    <3> QED
      BY <2>2, <3>1, <3>2 DEF Reissue, LoopTypeOK, TypeOK, queueVars
  <2> QED
    BY <2>1, <2>2, LoopStepKind
<1>2. upstream' \in {"ok", "failing"} /\ routed' \in BOOLEAN
  <2>1. CASE Probe
    BY <2>1 DEF Probe, Ready, LoopTypeOK
  <2>2. CASE ~Probe
    BY <2>2 DEF LoopNext, Proceed, RoutedArrival, LoopPoll, Answer, Reissue,
                UpstreamTurns, LoopTick, loopVars, LoopTypeOK
  <2> QED
    BY <2>1, <2>2
<1> QED
  BY <1>1, <1>2 DEF LoopTypeOK

(* The replica in its surroundings keeps its variables in their types. *)
THEOREM LoopTypes == LoopSpec => []LoopTypeOK
<1>1. LoopInit => LoopTypeOK
  BY InitType DEF LoopInit, LoopTypeOK
<1> QED
  BY <1>1, LoopNextType, PTL DEF LoopSpec

(***************************************************************************)
(* However often clients come back, each endpoint keeps to its cap.        *)
(***************************************************************************)
THEOREM LoopCapsHold == LoopSpec => []AbsoluteCap
<1>1. LoopInit => LoopTypeOK /\ AbsoluteCap
  BY InitType, InitCounts DEF LoopInit, LoopTypeOK
<1>2. LoopTypeOK /\ AbsoluteCap /\ [LoopNext]_loopVars => AbsoluteCap'
  <2> SUFFICES ASSUME LoopTypeOK, AbsoluteCap, [LoopNext]_loopVars
               PROVE  AbsoluteCap'
    OBVIOUS
  <2>1. CASE [Next]_vars
    BY <2>1, EveryStep, CapStep DEF LoopTypeOK
  <2>2. ASSUME NEW r \in Requests, Reissue(r) PROVE AbsoluteCap'
    BY <2>2 DEF Reissue, controllerVars, AbsoluteCap
  <2> QED
    BY <2>1, <2>2, LoopStepKind
<1> QED
  BY <1>1, <1>2, LoopNextType, PTL DEF LoopSpec

(***************************************************************************)
(* The queue depth stays the number of the sleepers when clients come back *)
(* for more: a client that reissues its request has left the queue.        *)
(***************************************************************************)
THEOREM LoopQueueCounted == LoopSpec => []QueueAccounted
<1>1. LoopInit => LoopTypeOK /\ QueueAccounted
  BY InitType, InitCounts DEF LoopInit, LoopTypeOK
<1>2. LoopTypeOK /\ QueueAccounted /\ [LoopNext]_loopVars => QueueAccounted'
  <2> SUFFICES ASSUME LoopTypeOK, QueueAccounted, [LoopNext]_loopVars
               PROVE  QueueAccounted'
    OBVIOUS
  <2>1. CASE [Next]_vars
    BY <2>1, EveryStep, QueueStep DEF LoopTypeOK
  <2>2. ASSUME NEW r \in Requests, Reissue(r) PROVE QueueAccounted'
    <3>1. \A e \in Endpoint : At(e, {"queued"})' = At(e, {"queued"})
      BY <2>2, Stays DEF Reissue, LoopTypeOK, Moves
    <3>2. queued' = queued
      BY <2>2 DEF Reissue, queueVars
    <3> QED
      BY <3>1, <3>2 DEF QueueAccounted
  <2> QED
    BY <2>1, <2>2, LoopStepKind
<1> QED
  BY <1>1, <1>2, LoopNextType, PTL DEF LoopSpec

-----------------------------------------------------------------------------
(* The window stays in order among clients that come back.                 *)
LEMMA LoopAlwaysInOrder == LoopSpec => [](LoopTypeOK /\ WindowInOrder)
<1>1. LoopInit => LoopTypeOK /\ WindowInOrder
  BY InitType, InitWindow DEF LoopInit, LoopTypeOK
<1>2. LoopTypeOK /\ WindowInOrder /\ [LoopNext]_loopVars => WindowInOrder'
  <2> SUFFICES ASSUME LoopTypeOK, WindowInOrder, [LoopNext]_loopVars
               PROVE  WindowInOrder'
    OBVIOUS
  <2>1. CASE [Next]_vars
    BY <2>1, EveryWindowStep, WindowInductive DEF LoopTypeOK
  <2>2. ASSUME NEW r \in Requests, Reissue(r) PROVE WindowInOrder'
    BY <2>2 DEF Reissue, controllerVars, WindowInOrder
  <2> QED
    BY <2>1, <2>2, LoopStepKind
<1> QED
  BY <1>1, <1>2, LoopNextType, PTL DEF LoopSpec

(* What a step of the replica may never do, a step of the loop never does. *)
LEMMA LoopSteps ==
    ASSUME LoopTypeOK, WindowInOrder, [LoopNext]_loopVars
    PROVE  HeldBack /\ RefusedAtCapacity /\ Recovers /\ Agrees /\ DecidesOnFresh /\ Explained
<1>1. CASE [Next]_vars
  BY <1>1, HeldBackStep, ShedRefused, RecoversStep, AgreesStep, DecidesOnFreshStep,
     ExplainedStep
     DEF LoopTypeOK, RefusedAtCapacity
<1>2. ASSUME NEW r \in Requests, Reissue(r)
      PROVE  HeldBack /\ RefusedAtCapacity /\ Recovers /\ Agrees /\ DecidesOnFresh /\ Explained
  <2>1. /\ pc \in [Requests -> Place] /\ mode \in Mode
        /\ UNCHANGED <<mode, reasons>>
    BY <1>2 DEF LoopTypeOK, TypeOK, ControllerTypeOK, Reissue, controllerVars
  <2>2. \A q \in Requests : pc'[q] = pc[q] \/ pc'[q] = "new"
    BY <1>2, <2>1 DEF Reissue
  <2>3. HeldBack /\ RefusedAtCapacity /\ Agrees
    BY <2>2 DEF HeldBack, RefusedAtCapacity, Agrees
  <2>4. Recovers
    BY <2>1 DEF Recovers, Services!Turns, Services!RuntimeMode, Mode
  <2>5. DecidesOnFresh /\ Explained
    BY <2>1 DEF DecidesOnFresh, Explained, Raised
  <2> QED
    BY <2>3, <2>4, <2>5
<1> QED
  BY <1>1, <1>2, LoopStepKind

(***************************************************************************)
(* In service, with a probe and clients that keep coming back, admission   *)
(* and the mode keep every promise that a step can break.                  *)
(***************************************************************************)
THEOREM LoopKeepsPromises ==
    LoopSpec => /\ DegradedAdmission
                /\ NoIdleRefusal
                /\ GradualRecovery
                /\ ReasonRaisesMode
                /\ DecidedOnFreshWindow
                /\ RaisedForCause
<1>1. LoopTypeOK /\ WindowInOrder /\ [LoopNext]_loopVars
        => /\ [HeldBack]_vars
           /\ [RefusedAtCapacity]_vars
           /\ [Recovers]_vars
           /\ [Agrees]_vars
           /\ [DecidesOnFresh]_vars
           /\ [Explained]_vars
  BY LoopSteps
<1> QED
  BY <1>1, LoopAlwaysInOrder, PTL
     DEF LoopSpec, DegradedAdmission, NoIdleRefusal, GradualRecovery,
         ReasonRaisesMode, DecidedOnFreshWindow, RaisedForCause, HeldBack,
         RefusedAtCapacity, Recovers, Agrees, DecidesOnFresh, Explained

-----------------------------------------------------------------------------
(* The replica is in degraded mode, drained, and taken out of service. *)
Locked ==
    /\ mode = "degraded"
    /\ ~routed
    /\ \A r \in Requests : pc[r] = "new"

LEMMA LockedStep ==
    ASSUME ReadinessFailOnDegraded, Locked, [LoopNext]_loopVars
    PROVE  Locked'
<1>1. ASSUME NEW r \in Requests, Proceed(r) PROVE FALSE
  <2>1. pc[r] = "new" /\ ~routed
    BY DEF Locked
  <2> QED
    BY <1>1, <2>1 DEF Proceed, RoutedArrival, LoopPoll, Answer, Reissue, Poll,
                      PollStart, PollRejectLarge, PollClosed, PollTimeout,
                      SleepAgain, Awake, FinishWith
<1>2. CASE Probe
  BY <1>2 DEF Probe, Scrape, Snapshot, Ready, requestVars, Locked
<1>3. CASE LoopTick
  BY <1>3 DEF LoopTick, Tick, Locked
<1>4. CASE UpstreamTurns \/ UNCHANGED loopVars
  BY <1>4 DEF UpstreamTurns, loopVars, vars, controllerVars, requestVars, Locked
<1> QED
  BY <1>1, <1>2, <1>3, <1>4 DEF LoopNext

(***************************************************************************)
(* With READINESS_FAIL_ON_DEGRADED, a replica that is drained in degraded  *)
(* mode is never in service again, whatever the upstream, the clock and    *)
(* the probe do: nothing is left that would recompute the mode.            *)
(***************************************************************************)
THEOREM DegradedGateLocks ==
    ASSUME ReadinessFailOnDegraded
    PROVE  LoopSpec => [](Locked => []Locked)
<1>1. Locked /\ [LoopNext]_loopVars => Locked'
  BY LockedStep
<1> QED
  BY <1>1, PTL DEF LoopSpec

=============================================================================
