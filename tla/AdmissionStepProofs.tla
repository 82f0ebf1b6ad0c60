------------------------- MODULE AdmissionStepProofs --------------------------
(***************************************************************************)
(* What a step of RequestAdmission may never do, for every value of the    *)
(* constants: admit past the degraded cap, shed with a slot to give,       *)
(* bring the mode down too early, move it against its own reasons or on an *)
(* outcome that is too old, raise it without a cause; and what a lost slot *)
(* comes to.                                                               *)
(***************************************************************************)
EXTENDS AdmissionProofs

(* A request moves by its own actions only. *)
LEMMA OwnStep ==
    ASSUME TypeOK, [Next]_vars, NEW r \in Requests, pc'[r] # pc[r]
    PROVE  Arrive(r) \/ Poll(r) \/ Finish(r) \/ Abandon(r)
<1>1. CASE Scrape \/ Tick \/ UNCHANGED vars
  BY <1>1 DEF Scrape, Tick, vars, requestVars
<1>2. ASSUME NEW q \in Requests, Arrive(q) \/ Poll(q) \/ Finish(q) \/ Abandon(q)
      PROVE  q = r
  <2>1. \A p : Moves(q, p) => pc'[r] = pc[r] \/ q = r
    BY DEF Moves, TypeOK
  <2>2. CASE Arrive(q)
    BY <2>1, <2>2 DEF Arrive, StartNow, RejectLarge, TurnAway, Enqueue, Start,
                      Shed, Moves
  <2>3. CASE Poll(q)
    BY <2>1, <2>3 DEF Poll, PollStart, PollRejectLarge, PollClosed, PollTimeout,
                      SleepAgain, Start, Shed, Moves
  <2>4. CASE Finish(q) \/ Abandon(q)
    BY <2>1, <2>4 DEF Finish, FinishWith, Abandon, Moves
  <2> QED
    BY <1>2, <2>2, <2>3, <2>4
<1> QED
  BY <1>1, <1>2 DEF Next

(* A request that starts was let in by the decision. *)
LEMMA StartsAdmitted ==
    ASSUME TypeOK, [Next]_vars, NEW r \in Requests,
           pc[r] \in {"new", "queued"}, pc'[r] \in {"running", "invalid"}
    PROVE  /\ ~TooLarge(r)
           /\ ~AtCapacity(EndpointOf[r])
           /\ RequestStarted(EndpointOf[r])
<1>1. pc \in [Requests -> Place]
  BY DEF TypeOK
<1>2. Arrive(r) \/ Poll(r) \/ Finish(r) \/ Abandon(r)
  BY OwnStep
<1>3. ~Finish(r) /\ ~Abandon(r)
  BY DEF Finish, FinishWith, Abandon
<1>4. ASSUME NEW p, Moves(r, p) PROVE pc'[r] = p
  BY <1>1, <1>4 DEF Moves
<1>5. CASE Arrive(r)
  <2>1. StartNow(r)
    BY <1>4, <1>5 DEF Arrive, RejectLarge, TurnAway, Enqueue, Shed, Moves
  <2> QED
    BY <2>1 DEF StartNow, Start
<1>6. CASE Poll(r)
  <2>1. PollStart(r)
    BY <1>4, <1>6 DEF Poll, PollRejectLarge, PollClosed, PollTimeout, SleepAgain,
                      Shed, Moves
  <2> QED
    BY <2>1 DEF PollStart, Start
<1> QED
  BY <1>2, <1>3, <1>5, <1>6

(* One that is shed was too large, or found no slot, or had waited for as  *)
(* long as it may.                                                         *)
LEMMA ShedRefused ==
    ASSUME TypeOK, [Next]_vars, NEW r \in Requests,
           pc[r] # "shed", pc'[r] = "shed"
    PROVE  \/ AtCapacity(EndpointOf[r])
           \/ verdict'[r] = "degraded_input_count"
           \/ pc[r] = "queued" /\ Expired(r)
<1>1. /\ pc \in [Requests -> Place]
      /\ verdict \in [Requests -> ShedReason \cup {"none"}]
  BY DEF TypeOK
<1>2. Arrive(r) \/ Poll(r) \/ Finish(r) \/ Abandon(r)
  BY OwnStep
<1>3. ASSUME NEW p, Moves(r, p) PROVE pc'[r] = p
  BY <1>1, <1>3 DEF Moves
<1>4. ASSUME Shed(r, "degraded_input_count") PROVE verdict'[r] = "degraded_input_count"
  BY <1>1, <1>4 DEF Shed
<1>5. CASE Arrive(r)
  BY <1>3, <1>4, <1>5 DEF Arrive, StartNow, RejectLarge, TurnAway, Enqueue, Start, Moves
<1>6. CASE Poll(r)
  BY <1>3, <1>4, <1>6 DEF Poll, PollStart, PollRejectLarge, PollClosed,
                          PollTimeout, SleepAgain, Start, Moves
<1>7. CASE Finish(r) \/ Abandon(r)
  BY <1>3, <1>7 DEF Finish, FinishWith, Abandon, Moves
<1> QED
  BY <1>2, <1>5, <1>6, <1>7

(***************************************************************************)
(* What the properties say of one step, each with the lemma that shows it. *)
(* They are kept apart from the theorems so that LoopProofs can cite them. *)
(***************************************************************************)
HeldBack ==
    \A r \in Requests :
        Tightened /\ pc[r] \in {"new", "queued"} /\ pc'[r] \in {"running", "invalid"}
          => /\ inFlight'[EndpointOf[r]] <= DegradedMaxInFlight[EndpointOf[r]]
             /\ ~TooLarge(r)

LEMMA HeldBackStep == TypeOK /\ [Next]_vars => HeldBack
<1> SUFFICES ASSUME TypeOK, [Next]_vars, NEW r \in Requests, Tightened,
                    pc[r] \in {"new", "queued"}, pc'[r] \in {"running", "invalid"}
             PROVE  /\ inFlight'[EndpointOf[r]] <= DegradedMaxInFlight[EndpointOf[r]]
                    /\ ~TooLarge(r)
  BY DEF HeldBack
<1>1. ~TooLarge(r) /\ ~AtCapacity(EndpointOf[r]) /\ RequestStarted(EndpointOf[r])
  BY StartsAdmitted
<1>2. /\ EndpointOf[r] \in Endpoint
      /\ inFlight \in [Endpoint -> Nat]
      /\ DegradedMaxInFlight[EndpointOf[r]] \in Nat
  BY AdmissionAssumption DEF TypeOK, ControllerTypeOK
<1>3. inFlight'[EndpointOf[r]] = inFlight[EndpointOf[r]] + 1
  BY <1>1, <1>2 DEF RequestStarted
<1>4. ~(inFlight[EndpointOf[r]] >= DegradedMaxInFlight[EndpointOf[r]])
  BY <1>1 DEF AtCapacity, OverDegraded
<1> QED
  BY <1>1, <1>2, <1>3, <1>4

(***************************************************************************)
(* While the controller is degraded no request, new or from the queue, is  *)
(* admitted beyond the degraded cap or with too many inputs.               *)
(***************************************************************************)
THEOREM DegradedModeHolds == Spec => DegradedAdmission
<1>1. TypeOK /\ [Next]_vars => [HeldBack]_vars
  BY HeldBackStep
<1> QED
  BY <1>1, TypeCorrect, PTL DEF Spec, DegradedAdmission, HeldBack

RefusedAtCapacity ==
    \A r \in Requests :
        pc[r] # "shed" /\ pc'[r] = "shed"
          => \/ AtCapacity(EndpointOf[r])
             \/ verdict'[r] = "degraded_input_count"
             \/ pc[r] = "queued" /\ Expired(r)

(***************************************************************************)
(* No request is shed while its endpoint has a slot to give, unless it is  *)
(* too large for the degraded mode or its wait budget is over.             *)
(***************************************************************************)
THEOREM NoRefusalWithRoom == Spec => NoIdleRefusal
<1>1. TypeOK /\ [Next]_vars => [RefusedAtCapacity]_vars
  BY ShedRefused DEF RefusedAtCapacity
<1> QED
  BY <1>1, TypeCorrect, PTL DEF Spec, NoIdleRefusal, RefusedAtCapacity

-----------------------------------------------------------------------------
(***************************************************************************)
(* Every step, seen by the mode: request_finished sets the mode that the   *)
(* pressure asks for, and nothing else touches it.                         *)
(***************************************************************************)
SetsMode ==
    \/ \E hard, soft : SetMode(NextMode(hard, soft))
    \/ UNCHANGED <<mode, transitions>>

LEMMA ModeStep == [Next]_vars => SetsMode
<1> SUFFICES ASSUME [Next]_vars PROVE SetsMode
  OBVIOUS
<1>1. ASSUME NEW r \in Requests, Arrive(r) PROVE UNCHANGED <<mode, transitions>>
  BY <1>1 DEF Arrive, StartNow, RejectLarge, TurnAway, Enqueue, Start, Shed,
              controllerVars
<1>2. ASSUME NEW r \in Requests, Poll(r) PROVE UNCHANGED <<mode, transitions>>
  BY <1>2 DEF Poll, PollStart, PollRejectLarge, PollClosed, PollTimeout,
              SleepAgain, Start, Shed, controllerVars
<1>3. ASSUME NEW r \in Requests, Finish(r) PROVE SetsMode
  BY <1>3 DEF Finish, FinishWith, RequestFinished, SetsMode
<1>4. ASSUME NEW r \in Requests, Abandon(r) PROVE UNCHANGED <<mode, transitions>>
  BY <1>4 DEF Abandon, controllerVars
<1>5. ASSUME Scrape \/ Tick \/ UNCHANGED vars PROVE UNCHANGED <<mode, transitions>>
  BY <1>5 DEF Scrape, Snapshot, Tick, vars, controllerVars
<1> QED
  BY <1>1, <1>2, <1>3, <1>4, <1>5 DEF Next, SetsMode

Recovers ==
    /\ mode' \in Services!Turns(mode)
    /\ (mode = "degraded" /\ mode' = "elevated") \/ (mode = "elevated" /\ mode' = "normal")
         => sinceChange >= RecoverySeconds /\ sinceChange' = 0

LEMMA RecoversStep == TypeOK /\ [Next]_vars => Recovers
<1> SUFFICES ASSUME TypeOK, [Next]_vars PROVE Recovers
  OBVIOUS
<1>1. mode \in Mode
  BY DEF TypeOK, ControllerTypeOK
<1>2. ASSUME NEW hard, NEW soft, SetMode(NextMode(hard, soft)) PROVE Recovers
  <2>1. mode' \in Mode
    BY <1>1, <1>2, NextModeType DEF SetMode
  <2>2. mode = "degraded" => mode' # "normal"
    BY <1>2 DEF SetMode, NextMode, StepDown
  <2>3. mode' \in Services!Turns(mode)
    BY <1>1, <2>1, <2>2 DEF Services!Turns, Services!RuntimeMode, Mode
  <2> QED
    BY <1>2, <2>3 DEF Recovers, SetMode, NextMode, StepDown, RecoveryElapsed
<1>3. ASSUME UNCHANGED <<mode, transitions>> PROVE Recovers
  BY <1>1, <1>3 DEF Recovers, Services!Turns, Services!RuntimeMode, Mode
<1> QED
  BY <1>2, <1>3, ModeStep DEF SetsMode

(***************************************************************************)
(* The mode comes down one level at a time and only after the recovery     *)
(* interval, which starts again with every change.  So the services see it *)
(* turn as ModeEnvironment says, which the other modules build upon.       *)
(***************************************************************************)
THEOREM RecoveryIsGradual == Spec => GradualRecovery
<1>1. TypeOK /\ [Next]_vars => [Recovers]_vars
  BY RecoversStep
<1> QED
  BY <1>1, TypeCorrect, PTL DEF Spec, GradualRecovery, Recovers

Agrees ==
    \A r \in Requests :
        /\ pc[r] = "running" /\ pc'[r] = "done"
        /\ \E why \in reasons' : why[1] # "rss_pressure_high"
        => mode' # "normal"

LEMMA AgreesStep == TypeOK /\ [Next]_vars => Agrees
<1> SUFFICES ASSUME TypeOK, [Next]_vars,
                    NEW r \in Requests, pc[r] = "running", pc'[r] = "done",
                    NEW why \in reasons', why[1] # "rss_pressure_high"
             PROVE  mode' # "normal"
  BY DEF Agrees
<1>1. Finish(r)
  <2>1. Arrive(r) \/ Poll(r) \/ Finish(r)
    <3>1. pc \in [Requests -> Place]
      BY DEF TypeOK
    <3>2. ~Abandon(r)
      BY <3>1 DEF Abandon
    <3> QED
      BY <3>2, OwnStep
  <2> QED
    BY <2>1 DEF Arrive, StartNow, RejectLarge, TurnAway, Enqueue, Poll, PollStart,
                PollRejectLarge, PollClosed, PollTimeout, SleepAgain, Awake
<1>2. PICK cpu, rss, rssAgain, window, held :
        /\ SetMode(NextMode(IsHardPressure(window, held, cpu, rssAgain),
                            IsSoftPressure(window, held, cpu, rssAgain)))
        /\ reasons' = ReasonsFor(window, held, cpu, rss)
  BY <1>1 DEF Finish, FinishWith, RequestFinished
<1>3. why \in Reason /\ HoldsReason(why, window, held, cpu, rss)
  BY <1>2 DEF ReasonsFor
<1>4. IsSoftPressure(window, held, cpu, rssAgain)
  <2>1. CASE why[1] \in {"in_flight_high", "p95_high"}
    <3>1. why[2] \in Endpoint
      BY <1>3, <2>1 DEF Reason
    <3> QED
      BY <1>3, <2>1, <3>1 DEF HoldsReason, IsSoftPressure
  <2>2. CASE why[1] \notin {"in_flight_high", "p95_high"}
    BY <1>3, <2>2 DEF HoldsReason, IsSoftPressure
  <2> QED
    BY <2>1, <2>2
<1> QED
  BY <1>2, <1>4 DEF SetMode, NextMode, StepDown

(***************************************************************************)
(* A request that ends and leaves a reason for pressure behind, the memory *)
(* apart, leaves the mode above normal: the two lists of conditions agree. *)
(***************************************************************************)
THEOREM ReasonsAgreeWithMode == Spec => ReasonRaisesMode
<1>1. TypeOK /\ [Next]_vars => [Agrees]_vars
  BY AgreesStep
<1> QED
  BY <1>1, TypeCorrect, PTL DEF Spec, ReasonRaisesMode, Agrees

-----------------------------------------------------------------------------
(***************************************************************************)
(* Every step, seen by the window of outcomes: a request ends, a health    *)
(* endpoint prunes, the clock ticks, or it stays as it is.                 *)
(***************************************************************************)
WindowStep ==
    \/ \E e \in Endpoint : \E result \in Result : RequestFinished(e, result)
    \/ Snapshot
    \/ Age /\ UNCHANGED <<mode, reasons>>
    \/ UNCHANGED <<recent, mode, reasons>>

LEMMA EveryWindowStep == [Next]_vars => WindowStep
<1> SUFFICES ASSUME [Next]_vars PROVE WindowStep
  OBVIOUS
<1> DEFINE Same == UNCHANGED <<recent, mode, reasons>>
<1>1. ASSUME NEW r \in Requests, Arrive(r) PROVE Same
  BY <1>1 DEF Arrive, StartNow, RejectLarge, TurnAway, Enqueue, Start, Shed,
              controllerVars
<1>2. ASSUME NEW r \in Requests, Poll(r) PROVE Same
  BY <1>2 DEF Poll, PollStart, PollRejectLarge, PollClosed, PollTimeout,
              SleepAgain, Start, Shed, controllerVars
<1>3. ASSUME NEW r \in Requests, Finish(r)
      PROVE  \E e \in Endpoint : \E result \in Result : RequestFinished(e, result)
  <2>1. PICK result \in Results[EndpointOf[r]] : FinishWith(r, result)
    BY <1>3 DEF Finish
  <2>2. EndpointOf[r] \in Endpoint /\ result \in Result
    BY Typing
  <2> QED
    BY <2>1, <2>2 DEF FinishWith
<1>4. ASSUME NEW r \in Requests, Abandon(r) PROVE Same
  BY <1>4 DEF Abandon, controllerVars
<1>5. ASSUME Scrape PROVE Snapshot
  BY <1>5 DEF Scrape
<1>6. ASSUME Tick PROVE Age /\ UNCHANGED <<mode, reasons>>
  BY <1>6 DEF Tick
<1>7. ASSUME UNCHANGED vars PROVE Same
  BY <1>7 DEF vars, controllerVars
<1> QED
  BY <1>1, <1>2, <1>3, <1>4, <1>5, <1>6, <1>7 DEF Next, WindowStep

LEMMA OutcomeAges ==
    /\ MaxAge \in Nat
    /\ \A o \in RequestOutcome :
          /\ o.age \in 0..MaxAge /\ o.age \in Nat
          /\ [o EXCEPT !.age = IF @ < MaxAge THEN @ + 1 ELSE @] \in RequestOutcome
          /\ [o EXCEPT !.age = IF @ < MaxAge THEN @ + 1 ELSE @].age
               = IF o.age < MaxAge THEN o.age + 1 ELSE o.age
<1>1. MaxAge \in Nat
  BY WindowAssumption DEF MaxAge
<1> SUFFICES ASSUME NEW o \in RequestOutcome
             PROVE  /\ o.age \in 0..MaxAge /\ o.age \in Nat
                    /\ [o EXCEPT !.age = IF @ < MaxAge THEN @ + 1 ELSE @]
                         \in RequestOutcome
                    /\ [o EXCEPT !.age = IF @ < MaxAge THEN @ + 1 ELSE @].age
                         = IF o.age < MaxAge THEN o.age + 1 ELSE o.age
  BY <1>1
<1>2. (IF o.age < MaxAge THEN o.age + 1 ELSE o.age) \in 0..MaxAge
  BY <1>1 DEF RequestOutcome
<1> QED
  BY <1>1, <1>2 DEF RequestOutcome

(* A window that request_finished or a snapshot leaves behind is in order  *)
(* and has nothing in it that is too old.                                  *)
LEMMA FinishedWindow ==
    ASSUME TypeOK, WindowInOrder, NEW e \in Endpoint, NEW result \in Result,
           RequestFinished(e, result)
    PROVE  WindowInOrder' /\ AllFresh(recent') /\ recent' \in Seq(RequestOutcome)
<1> DEFINE new == NewOutcome(e, result)
           longer == Append(recent, new)
<1>1. new \in RequestOutcome /\ new.age = 0
  BY OutcomeAges DEF NewOutcome, RequestOutcome
<1>2. recent \in Seq(RequestOutcome) /\ OldestFirst(recent)
  BY DEF TypeOK, ControllerTypeOK, WindowInOrder
<1>3. longer \in Seq(RequestOutcome) /\ OldestFirst(longer)
  <2> HIDE DEF new
  <2> QED
    BY <1>1, <1>2, OutcomeAges, AppendOrder
<1>4. recent' = Prune(longer)
  BY DEF RequestFinished
<1> HIDE DEF longer
<1>5. \A i \in 1..Len(longer) : longer[i].age \in Nat
  BY <1>3, OutcomeAges, ElementOfSeq
<1> QED
  BY <1>3, <1>4, <1>5, PruneOrder, PruneType DEF WindowInOrder

LEMMA ScrapedWindow ==
    ASSUME TypeOK, WindowInOrder, Snapshot
    PROVE  WindowInOrder' /\ AllFresh(recent')
<1>1. recent \in Seq(RequestOutcome) /\ OldestFirst(recent)
  BY DEF TypeOK, ControllerTypeOK, WindowInOrder
<1>2. \A i \in 1..Len(recent) : recent[i].age \in Nat
  BY <1>1, OutcomeAges, ElementOfSeq
<1>3. recent' = Prune(recent)
  BY DEF Snapshot
<1> QED
  BY <1>1, <1>2, <1>3, PruneOrder DEF WindowInOrder

(* The order of the window is inductive, with its type. *)
LEMMA WindowInductive ==
    ASSUME TypeOK, WindowInOrder, WindowStep
    PROVE  WindowInOrder'
<1>1. CASE \E e \in Endpoint : \E result \in Result : RequestFinished(e, result)
  BY <1>1, FinishedWindow
<1>2. CASE Snapshot
  BY <1>2, ScrapedWindow
<1>3. CASE Age
  <2>1. recent \in Seq(RequestOutcome) /\ OldestFirst(recent)
    BY DEF TypeOK, ControllerTypeOK, WindowInOrder
  <2>2. Len(Aged(recent)) = Len(recent) /\ OldestFirst(Aged(recent))
    BY <2>1, OutcomeAges, AgedOrder
  <2> QED
    BY <1>3, <2>2 DEF Age, WindowInOrder
<1>4. CASE UNCHANGED <<recent, mode, reasons>>
  BY <1>4 DEF WindowInOrder
<1> QED
  BY <1>1, <1>2, <1>3, <1>4 DEF WindowStep

LEMMA InitWindow == Init => WindowInOrder
BY EmptySeq, WindowAssumption DEF Init, ControllerInit, WindowInOrder, OldestFirst

LEMMA AlwaysInOrder == Spec => [](TypeOK /\ WindowInOrder)
<1>1. Init => TypeOK /\ WindowInOrder
  BY InitType, InitWindow
<1>2. TypeOK /\ WindowInOrder /\ [Next]_vars => (TypeOK /\ WindowInOrder)'
  BY NextType, EveryWindowStep, WindowInductive
<1> QED
  BY <1>1, <1>2, PTL DEF Spec

(***************************************************************************)
(* The window of outcomes is within its size and ordered by age, however   *)
(* requests, scrapes and the clock interleave: appending at the right and  *)
(* popping at the left never leaves an older outcome behind a newer one.   *)
(***************************************************************************)
THEOREM WindowKeepsOrder == Spec => []WindowInOrder
BY AlwaysInOrder, PTL

DecidesOnFresh == mode' # mode \/ reasons' # reasons => AllFresh(recent')

LEMMA DecidesOnFreshStep == TypeOK /\ WindowInOrder /\ [Next]_vars => DecidesOnFresh
<1> SUFFICES ASSUME TypeOK, WindowInOrder, [Next]_vars PROVE DecidesOnFresh
  OBVIOUS
<1> QED
  BY EveryWindowStep, FinishedWindow, ScrapedWindow DEF WindowStep, DecidesOnFresh

(***************************************************************************)
(* The mode and its reasons move only on a window whose outcomes are all   *)
(* within runtime_window_seconds.  It needs the order of the window, since *)
(* _prune stops at the first outcome that is recent enough.                *)
(***************************************************************************)
THEOREM DecisionsAreFresh == Spec => DecidedOnFreshWindow
<1>1. TypeOK /\ WindowInOrder /\ [Next]_vars => [DecidesOnFresh]_vars
  BY DecidesOnFreshStep
<1> QED
  BY <1>1, AlwaysInOrder, PTL DEF Spec, DecidedOnFreshWindow, DecidesOnFresh

-----------------------------------------------------------------------------
(* A p95 above a bound shows an outcome of the endpoint above the bound.   *)
LEMMA SlowShows ==
    ASSUME NEW s \in Seq(RequestOutcome), NEW e, NEW bound \in Nat,
           SlowerThan(s, e, bound)
    PROVE  \E i \in DOMAIN s : s[i].endpoint = e /\ s[i].result.latency > bound
<1>1. Len(s) \in Nat /\ DOMAIN s = 1..Len(s)
  BY LenProperties
<1>2. \A i \in DOMAIN s : s[i].result.latency \in Nat
  <2>1. \A i \in DOMAIN s : s[i] \in RequestOutcome
    BY <1>1, ElementOfSeq
  <2>2. \A o \in RequestOutcome : o.result.latency \in Nat
    BY WindowAssumption DEF RequestOutcome, Result
  <2> QED
    BY <2>1, <2>2
<1>3. /\ Of(s, e) # {} /\ Of(s, e) \in SUBSET (1..Len(s))
      /\ P95x100(s, Of(s, e)) > 100 * bound
      /\ \A i \in Of(s, e) : s[i].result.latency \in Nat
  BY <1>1, <1>2 DEF SlowerThan, Of
<1>4. \E i \in Of(s, e) : s[i].result.latency > bound
  BY <1>1, <1>3, SlowSomewhere
<1> QED
  BY <1>4 DEF Of

(* So does a rate above a percentage, of whatever number of outcomes.      *)
LEMMA ErrorsShow ==
    ASSUME NEW s \in Seq(RequestOutcome), NEW pct \in 0..100, ErrorsAbove(s, pct)
    PROVE  \E i \in DOMAIN s : s[i].result.retryable
<1> DEFINE I == {i \in DOMAIN s : s[i].result.retryable}
<1>1. I \in SUBSET (DOMAIN s) /\ pct \in Nat /\ 100 * Cardinality(I) > pct * Len(s)
  BY DEF ErrorsAbove
<1>2. I # {}
  <2> HIDE DEF I
  <2> QED
    BY <1>1, RateShows
<1> QED
  BY <1>2

LEMMA TimeoutsShow ==
    ASSUME NEW s \in Seq(RequestOutcome), NEW pct \in 0..100, TimeoutsAbove(s, pct)
    PROVE  \E i \in DOMAIN s : s[i].result.timedOut
<1> DEFINE I == {i \in DOMAIN s : s[i].result.timedOut}
<1>1. I \in SUBSET (DOMAIN s) /\ pct \in Nat /\ 100 * Cardinality(I) > pct * Len(s)
  BY DEF TimeoutsAbove
<1>2. I # {}
  <2> HIDE DEF I
  <2> QED
    BY <1>1, RateShows
<1> QED
  BY <1>2

(* Pressure of either kind has a cause that can be shown, when the process *)
(* sample is low.                                                          *)
LEMMA PressureShows ==
    ASSUME NEW s \in Seq(RequestOutcome), NEW held,
           \/ IsSoftPressure(s, held, "low", "low")
           \/ IsHardPressure(s, held, "low", "low")
    PROVE  Crowded(held) \/ \E i \in DOMAIN s : Symptom(s[i])
<1> DEFINE Shown == \E i \in DOMAIN s : Symptom(s[i])
<1>1. \A e \in Endpoint : /\ SoftLatency[e] \in Nat
                          /\ HardLatency[e] \in Nat
  BY PressureAssumption
<1>2. {SoftErrorPct, HardErrorPct, SoftTimeoutPct, HardTimeoutPct} \subseteq 0..100
  BY PressureAssumption
<1>3. ASSUME NEW e \in Endpoint, NEW bound \in {SoftLatency[e], HardLatency[e]},
             SlowerThan(s, e, bound)
      PROVE  Shown
  <2>1. bound \in Nat
    BY <1>1, <1>3
  <2>2. PICK i \in DOMAIN s : s[i].endpoint = e /\ s[i].result.latency > bound
    BY <1>3, <2>1, SlowShows
  <2>3. Symptom(s[i])
    BY <1>3, <2>2 DEF Symptom
  <2> QED
    BY <2>3
<1>4. ASSUME NEW pct \in {SoftErrorPct, HardErrorPct}, ErrorsAbove(s, pct) PROVE Shown
  BY <1>2, <1>4, ErrorsShow DEF Symptom
<1>5. ASSUME NEW pct \in {SoftTimeoutPct, HardTimeoutPct}, TimeoutsAbove(s, pct) PROVE Shown
  BY <1>2, <1>5, TimeoutsShow DEF Symptom
<1>6. CASE IsSoftPressure(s, held, "low", "low")
  BY <1>3, <1>4, <1>5, <1>6 DEF IsSoftPressure, Crowded
<1>7. CASE IsHardPressure(s, held, "low", "low")
  BY <1>3, <1>4, <1>5, <1>7 DEF IsHardPressure, Crowded
<1> QED
  BY <1>6, <1>7

Explained ==
    Levels = {"low"} /\ Raised
      => Crowded(inFlight') \/ \E i \in Fresh(recent') : Symptom(recent'[i])

LEMMA ExplainedStep == TypeOK /\ WindowInOrder /\ [Next]_vars => Explained
<1> SUFFICES ASSUME TypeOK, WindowInOrder, [Next]_vars, Levels = {"low"}, Raised
             PROVE  Crowded(inFlight') \/ \E i \in Fresh(recent') : Symptom(recent'[i])
  BY DEF Explained
<1>1. mode' # mode
  BY DEF Raised
<1>2. PICK e \in Endpoint : \E result \in Result : RequestFinished(e, result)
  BY <1>1, EveryWindowStep DEF WindowStep, Snapshot
<1>3. PICK result \in Result : RequestFinished(e, result)
  BY <1>2
<1>4. AllFresh(recent') /\ recent' \in Seq(RequestOutcome)
  BY <1>3, FinishedWindow
<1>5. SetMode(NextMode(IsHardPressure(recent', inFlight', "low", "low"),
                       IsSoftPressure(recent', inFlight', "low", "low")))
  <2>1. CpuSamples = {"low"}
    BY DEF CpuSamples
  <2> QED
    BY <1>3, <2>1 DEF RequestFinished
<1>6. \/ IsSoftPressure(recent', inFlight', "low", "low")
      \/ IsHardPressure(recent', inFlight', "low", "low")
  BY <1>5 DEF Raised, SetMode, NextMode, StepDown
<1>7. Crowded(inFlight') \/ \E i \in DOMAIN recent' : Symptom(recent'[i])
  BY <1>4, <1>6, PressureShows
<1> QED
  BY <1>4, <1>7 DEF AllFresh

(***************************************************************************)
(* The mode is never raised without a cause that an operator could find:   *)
(* a p95 above its limit has a slow outcome behind it, a rate above its    *)
(* limit a failed one, and none of them is older than the window.          *)
(***************************************************************************)
THEOREM RaisesHaveCauses == Spec => RaisedForCause
<1>1. TypeOK /\ WindowInOrder /\ [Next]_vars => [Explained]_vars
  BY ExplainedStep
<1> QED
  BY <1>1, AlwaysInOrder, PTL DEF Spec, RaisedForCause, Explained

-----------------------------------------------------------------------------
(***************************************************************************)
(* The slots that are lost, to an embeddings request with too many inputs  *)
(* (vertex_embeddings.py:74, before the try) or to a stream that was never *)
(* begun, and an endpoint that has lost as many as it has.                 *)
(***************************************************************************)
Lost == {"invalid", "abandoned"}

Exhausted(e) == Cardinality(At(e, Lost)) >= MaxInFlight[e]

(* Once lost, a slot stays lost. *)
LEMMA LostStaysLost ==
    ASSUME TypeOK, [Next]_vars, NEW e \in Endpoint
    PROVE  At(e, Lost) \subseteq At(e, Lost)'
<1> SUFFICES ASSUME NEW r \in At(e, Lost) PROVE r \in At(e, Lost)'
  OBVIOUS
<1>1. r \in Requests /\ EndpointOf[r] = e /\ pc[r] \in Lost
  BY DEF At
<1>2. pc'[r] = pc[r]
  <2> SUFFICES ASSUME pc'[r] # pc[r] PROVE FALSE
    OBVIOUS
  <2>1. Arrive(r) \/ Poll(r) \/ Finish(r) \/ Abandon(r)
    BY <1>1, OwnStep
  <2>2. pc[r] \in {"new", "queued", "running"}
    BY <2>1 DEF Arrive, StartNow, RejectLarge, TurnAway, Enqueue, Poll, PollStart,
                PollRejectLarge, PollClosed, PollTimeout, SleepAgain, Awake,
                Finish, FinishWith, Abandon
  <2> QED
    BY <1>1, <2>2 DEF Lost
<1> QED
  BY <1>1, <1>2 DEF At

LEMMA ExhaustedStep ==
    ASSUME TypeOK, [Next]_vars, NEW e \in Endpoint, Exhausted(e)
    PROVE  Exhausted(e)'
<1>1. At(e, Lost) \subseteq At(e, Lost)'
  BY LostStaysLost
<1>2. IsFiniteSet(At(e, Lost)')
  <2>1. At(e, Lost)' \in SUBSET Requests
    BY DEF At
  <2> QED
    BY <2>1, AdmissionAssumption, FS_Subset
<1>3. Cardinality(At(e, Lost)) <= Cardinality(At(e, Lost)')
  BY <1>1, <1>2, FS_Subset
<1>4. /\ Cardinality(At(e, Lost)) \in Nat /\ Cardinality(At(e, Lost)') \in Nat
      /\ MaxInFlight[e] \in Nat
  BY AtFinite, CapTypes
<1> QED
  BY <1>3, <1>4 DEF Exhausted

LEMMA ExhaustedFull ==
    ASSUME TypeOK, SlotsAccounted, NEW e \in Endpoint, Exhausted(e)
    PROVE  AtCapacity(e)
<1>1. IsFiniteSet(At(e, Holding)) /\ Cardinality(At(e, Holding)) \in Nat
  BY AtFinite
<1>2. At(e, Lost) \in SUBSET At(e, Holding)
  BY DEF At, Lost, Holding
<1>3. Cardinality(At(e, Lost)) <= Cardinality(At(e, Holding))
  BY <1>1, <1>2, FS_Subset
<1>4. inFlight[e] = Cardinality(At(e, Holding))
  BY DEF SlotsAccounted
<1>5. Cardinality(At(e, Lost)) \in Nat /\ MaxInFlight[e] \in Nat
  BY AtFinite, CapTypes
<1> QED
  BY <1>1, <1>3, <1>4, <1>5 DEF Exhausted, AtCapacity, OverCap

Admits(e) == \E r \in Requests : /\ EndpointOf[r] = e
                                 /\ pc[r] \in {"new", "queued"}
                                 /\ pc'[r] \in {"running", "invalid"}

(***************************************************************************)
(* What the lost slots come to.  An endpoint that has lost as many slots   *)
(* as its cap has lost them for good and never admits another request:     *)
(* only a restart of the process, which is not a step of the model, brings *)
(* it back.  SlotLeak shows that slots are lost; this is the consequence.  *)
(***************************************************************************)
THEOREM LostSlotsShutEndpoint ==
    ASSUME NEW e \in Endpoint
    PROVE  Spec => /\ [](Exhausted(e) => []Exhausted(e))
                   /\ [][Exhausted(e) => ~Admits(e)]_vars
<1>1. TypeOK /\ Exhausted(e) /\ [Next]_vars => Exhausted(e)'
  BY ExhaustedStep
<1>2. TypeOK /\ SlotsAccounted /\ [Next]_vars => [Exhausted(e) => ~Admits(e)]_vars
  BY ExhaustedFull, StartsAdmitted DEF Admits
<1> QED
  BY <1>1, <1>2, TypeCorrect, SlotsCounted, PTL DEF Spec

-----------------------------------------------------------------------------
(***************************************************************************)
(* The balance of the transitions.  A counter stops at CounterCap, so the  *)
(* proof needs that it does not get there: at most one transition is made  *)
(* by each request that ended.                                             *)
(***************************************************************************)
Ended == {r \in Requests : pc[r] = "done"}

Counted == transitions[<<"normal", "elevated">>] + transitions[<<"normal", "degraded">>]
             + transitions[<<"elevated", "normal">>] + transitions[<<"elevated", "degraded">>]
             + transitions[<<"degraded", "normal">>] + transitions[<<"degraded", "elevated">>]

Balanced == /\ TransitionsBalance
            /\ Counted <= Cardinality(Ended)

(* The balance of the three modes, its quantifiers written out. *)
Balances ==
    LET t(a, b) == transitions[<<a, b>>]
        now(m) == IF mode = m THEN 1 ELSE 0
    IN  /\ t("elevated", "normal") + t("degraded", "normal") + 1
             = t("normal", "elevated") + t("normal", "degraded") + now("normal")
        /\ t("normal", "elevated") + t("degraded", "elevated")
             = t("elevated", "normal") + t("elevated", "degraded") + now("elevated")
        /\ t("normal", "degraded") + t("elevated", "degraded")
             = t("degraded", "normal") + t("degraded", "elevated") + now("degraded")
        /\ t("degraded", "normal") = 0

LEMMA BalanceOf ==
    transitions \in [Transition -> Nat] => (TransitionsBalance <=> Balances)
<1> SUFFICES ASSUME transitions \in [Transition -> Nat]
             PROVE  TransitionsBalance <=> Balances
  OBVIOUS
<1>1. \A t \in Transition : transitions[t] \in Nat
  OBVIOUS
<1>2. \A a, b \in Mode : a # b => <<a, b>> \in Transition
  BY DEF Transition
<1>3. \A a, b \in Mode : a # b => transitions[<<a, b>>] \in Nat
  BY <1>1, <1>2
<1> DEFINE t(a, b) == transitions[<<a, b>>]
           now(m) == IF mode = m THEN 1 ELSE 0
<1>4. \A a, b \in Mode : a # b => t(a, b) \in Nat
  BY <1>3
<1>5. Balance("normal") <=>
        t("elevated", "normal") + t("degraded", "normal") + 1
          = t("normal", "elevated") + t("normal", "degraded") + now("normal")
  BY <1>3 DEF Balance, Mode
<1>6. Balance("elevated") <=>
        t("normal", "elevated") + t("degraded", "elevated")
          = t("elevated", "normal") + t("elevated", "degraded") + now("elevated")
  BY <1>3 DEF Balance, Mode
<1>7. Balance("degraded") <=>
        t("normal", "degraded") + t("elevated", "degraded")
          = t("degraded", "normal") + t("degraded", "elevated") + now("degraded")
  BY <1>3 DEF Balance, Mode
<1>8. (\A m \in Mode : Balance(m)) <=>
        Balance("normal") /\ Balance("elevated") /\ Balance("degraded")
  BY DEF Mode
<1> QED
  BY <1>5, <1>6, <1>7, <1>8 DEF TransitionsBalance, Balances

LEMMA BalanceOfNext ==
    transitions' \in [Transition -> Nat] => (TransitionsBalance' <=> Balances')
<1>1. (transitions \in [Transition -> Nat] => (TransitionsBalance <=> Balances))'
  BY BalanceOf, PTL
<1> QED
  BY <1>1

(* Every step, seen by the balance: a request ends and at most one         *)
(* transition is counted, or neither happens.                              *)
LEMMA BalanceStep ==
    ASSUME TypeOK, [Next]_vars
    PROVE  \/ /\ \E m \in Mode : SetMode(m) /\ <<mode, m>> # <<"degraded", "normal">>
              /\ \E r \in Requests : r \notin Ended /\ Ended' = Ended \cup {r}
           \/ UNCHANGED <<mode, transitions>> /\ Ended' = Ended
<1> DEFINE Neither == UNCHANGED <<mode, transitions>> /\ Ended' = Ended
<1>0. pc \in [Requests -> Place] /\ mode \in Mode
  BY DEF TypeOK, ControllerTypeOK
<1>1. ASSUME NEW r \in Requests, NEW p, Moves(r, p), pc[r] # "done", p # "done"
      PROVE  Ended' = Ended
  BY <1>0, <1>1 DEF Moves, Ended
<1>2. ASSUME NEW r \in Requests, Arrive(r) PROVE Neither
  BY <1>1, <1>2 DEF Arrive, StartNow, RejectLarge, TurnAway, Enqueue, Start, Shed,
                    controllerVars, Moves
<1>3. ASSUME NEW r \in Requests, Poll(r) PROVE Neither
  <2>1. CASE SleepAgain(r)
    BY <2>1 DEF SleepAgain, controllerVars, Ended
  <2>2. CASE ~SleepAgain(r)
    BY <1>1, <1>3, <2>2 DEF Poll, PollStart, PollRejectLarge, PollClosed,
                            PollTimeout, Awake, Start, Shed, controllerVars, Moves
  <2> QED
    BY <2>1, <2>2
<1>4. ASSUME NEW r \in Requests, Finish(r)
      PROVE  /\ \E m \in Mode : SetMode(m) /\ <<mode, m>> # <<"degraded", "normal">>
             /\ r \notin Ended /\ Ended' = Ended \cup {r}
  <2>1. r \notin Ended /\ Ended' = Ended \cup {r}
    BY <1>0, <1>4 DEF Finish, FinishWith, Ended
  <2>2. PICK hard, soft : SetMode(NextMode(hard, soft))
    BY <1>4 DEF Finish, FinishWith, RequestFinished
  <2>3. NextMode(hard, soft) \in Mode
    BY <1>0, NextModeType
  <2>4. <<mode, NextMode(hard, soft)>> # <<"degraded", "normal">>
    BY DEF NextMode, StepDown
  <2> QED
    BY <2>1, <2>2, <2>3, <2>4
<1>5. ASSUME NEW r \in Requests, Abandon(r) PROVE Neither
  BY <1>1, <1>5 DEF Abandon, controllerVars, Moves
<1>6. ASSUME Scrape \/ Tick \/ UNCHANGED vars PROVE Neither
  BY <1>6 DEF Scrape, Snapshot, Tick, vars, controllerVars, requestVars, Ended
<1> QED
  BY <1>2, <1>3, <1>4, <1>5, <1>6 DEF Next

LEMMA BalancedStep ==
    ASSUME TypeOK, Balanced, [Next]_vars, Cardinality(Requests) <= CounterCap
    PROVE  Balanced'
<1>0. /\ transitions \in [Transition -> Nat]
      /\ mode \in Mode
      /\ transitions' \in [Transition -> Nat]
  BY NextType DEF TypeOK, ControllerTypeOK
<1>1. /\ IsFiniteSet(Ended)
      /\ Cardinality(Ended) \in Nat
      /\ Cardinality(Ended') \in Nat
      /\ Cardinality(Ended') <= Cardinality(Requests)
      /\ Cardinality(Requests) \in Nat
      /\ CounterCap \in Nat
  <2>1. Ended \in SUBSET Requests /\ Ended' \in SUBSET Requests
    BY DEF Ended
  <2> QED
    BY <2>1, AdmissionAssumption, ControllerAssumption, FS_Subset, FS_CardinalityType
<1>2. \A a, b \in Mode : a # b => /\ transitions[<<a, b>>] \in Nat
                                 /\ transitions'[<<a, b>>] \in Nat
  BY <1>0 DEF Transition
<1>3. ASSUME NEW m \in Mode, SetMode(m), <<mode, m>> # <<"degraded", "normal">>,
             NEW r \in Requests, r \notin Ended, Ended' = Ended \cup {r}
      PROVE  Balanced'
  <2>1. Cardinality(Ended') = Cardinality(Ended) + 1
    BY <1>1, <1>3, FS_AddElement
  <2>2. CASE m = mode
    <3>1. UNCHANGED <<mode, transitions>>
      BY <1>3, <2>2 DEF SetMode
    <3> QED
      BY <1>1, <1>2, <2>1, <3>1
         DEF Balanced, TransitionsBalance, Balance, Counted, Mode
  <2>3. CASE m # mode
    <3>1. mode' = m /\ transitions' = [transitions EXCEPT ![<<mode, m>>] = Bump(@)]
      BY <1>3, <2>3 DEF SetMode
    <3>2. Counted < CounterCap
      BY <1>1, <1>2, <2>1, SMTT(30) DEF Balanced, Counted, Mode
    <3>3. transitions[<<mode, m>>] < CounterCap
      BY <1>0, <1>1, <1>2, <2>3, <3>2 DEF Counted, Mode
    <3>4. transitions'[<<mode, m>>] = transitions[<<mode, m>>] + 1
      BY <1>0, <2>3, <3>1, <3>3 DEF Bump, Transition
    <3>5. \A a, b \in Mode : a # b /\ <<a, b>> # <<mode, m>>
             => transitions'[<<a, b>>] = transitions[<<a, b>>]
      BY <1>0, <3>1 DEF Transition
    <3>6. Counted' = Counted + 1
      <4>1. CASE mode = "normal" /\ m = "elevated"
        BY <1>2, <3>4, <3>5, <4>1, SMTT(30) DEF Counted, Mode
      <4>2. CASE mode = "normal" /\ m = "degraded"
        BY <1>2, <3>4, <3>5, <4>2, SMTT(30) DEF Counted, Mode
      <4>3. CASE mode = "elevated" /\ m = "normal"
        BY <1>2, <3>4, <3>5, <4>3, SMTT(30) DEF Counted, Mode
      <4>4. CASE mode = "elevated" /\ m = "degraded"
        BY <1>2, <3>4, <3>5, <4>4, SMTT(30) DEF Counted, Mode
      <4>5. CASE mode = "degraded" /\ m = "normal"
        BY <1>2, <3>4, <3>5, <4>5, SMTT(30) DEF Counted, Mode
      <4>6. CASE mode = "degraded" /\ m = "elevated"
        BY <1>2, <3>4, <3>5, <4>6, SMTT(30) DEF Counted, Mode
      <4> QED
        BY <1>0, <1>3, <2>3, <4>1, <4>2, <4>3, <4>4, <4>5, <4>6 DEF Mode
    <3>7. TransitionsBalance'
      <4>1. Balances
        BY <1>0, BalanceOf DEF Balanced
      <4>2. Balances'
        BY <1>0, <1>2, <1>3, <2>3, <3>1, <3>4, <3>5, <4>1, SMTT(60) DEF Balances, Mode
      <4> QED
        BY <1>0, <4>2, BalanceOfNext
    <3> QED
      BY <1>1, <1>2, <2>1, <3>6, <3>7, SMTT(30) DEF Balanced, Counted, Mode
  <2> QED
    BY <2>2, <2>3
<1>4. ASSUME UNCHANGED <<mode, transitions>>, Ended' = Ended PROVE Balanced'
  BY <1>4 DEF Balanced, TransitionsBalance, Balance, Counted
<1> QED
  BY <1>3, <1>4, BalanceStep

LEMMA InitBalanced == Init => Balanced
<1> SUFFICES ASSUME Init PROVE Balanced
  OBVIOUS
<1>1. Ended = {}
  BY DEF Init, Ended
<1>2. /\ transitions = [t \in Transition |-> 0]
      /\ mode = "normal"
      /\ \A a, b \in Mode : a # b => transitions[<<a, b>>] = 0
  BY DEF Init, ControllerInit, Transition
<1>3. transitions \in [Transition -> Nat] /\ Balances
  BY <1>2 DEF Balances, Mode
<1> QED
  BY <1>1, <1>2, <1>3, BalanceOf, FS_EmptySet DEF Balanced, Counted, Mode

(***************************************************************************)
(* Every change of the mode is counted, entries and exits of each mode     *)
(* balance, and degraded is never left for normal directly.                *)
(***************************************************************************)
THEOREM TransitionAccounting ==
    ASSUME Cardinality(Requests) <= CounterCap
    PROVE  Spec => []TransitionsBalance
<1>1. TypeOK /\ Balanced /\ [Next]_vars => (TypeOK /\ Balanced)'
  BY NextType, BalancedStep
<1>2. Init => TypeOK /\ Balanced
  BY InitType, InitBalanced
<1>3. Balanced => TransitionsBalance
  BY DEF Balanced
<1> QED
  BY <1>1, <1>2, <1>3, PTL DEF Spec

=============================================================================
