---------------------------- MODULE AdaptiveProofs ----------------------------
(***************************************************************************)
(* Proofs about AdaptiveConcurrency, for every value of the settings.      *)
(* TypeOK is inductive once the ladders are known to be the lower parts of *)
(* one another (LadderPrefix).  The action properties follow from it and   *)
(* from InOrder, which makes every window that is decided on a fresh one.  *)
(***************************************************************************)
EXTENDS AdaptiveConcurrency, WindowProofs

(* The ceilings of the modes: none is above that of the normal mode. *)
LEMMA CeilingFacts ==
    ASSUME NEW mode \in RuntimeMode
    PROVE  /\ Ceiling(mode) \in Nat
           /\ Base <= Ceiling(mode)
           /\ Ceiling(mode) <= Ceiling("normal")
<1>1. Base \in Nat /\ AdaptiveMax \in Nat
  BY AdaptiveAssumption
<1>2. AllowedMax(mode) \in Nat /\ AllowedMax("normal") = AdaptiveMax
  BY <1>1 DEF AllowedMax, Larger
<1>3. AllowedMax(mode) <= Larger(Base, AdaptiveMax)
  BY <1>1 DEF AllowedMax, Larger
<1> QED
  BY <1>1, <1>2, <1>3 DEF Ceiling, Larger

(* The ladder of a mode is the part of the normal one below its ceiling. *)
LEMMA LadderPrefix ==
    ASSUME NEW mode \in RuntimeMode
    PROVE  Ladder(mode) = {v \in Ladder("normal") : v <= Ceiling(mode)}
<1>1. CASE ~RuntimeAdaptive \/ mode = "normal"
  BY <1>1, AdaptiveAssumption DEF Ladder, Ceiling, AllowedMax, Larger, RuntimeMode
<1>2. CASE RuntimeAdaptive /\ mode = "degraded"
  BY <1>2, AdaptiveAssumption DEF Ladder, Ceiling, AllowedMax, Larger, RuntimeMode
<1>3. CASE RuntimeAdaptive /\ mode = "elevated"
  BY <1>3, AdaptiveAssumption DEF Ladder, Ceiling, AllowedMax, Larger, RuntimeMode
<1> QED
  BY <1>1, <1>2, <1>3 DEF RuntimeMode

LEMMA LadderFacts ==
    ASSUME NEW mode \in RuntimeMode
    PROVE  /\ Base \in Ladder(mode) /\ Ceiling(mode) \in Ladder(mode)
           /\ Ladder(mode) \subseteq Nat \ {0}
           /\ \A v \in Ladder(mode) : Base <= v /\ v <= Ceiling(mode)
           /\ Ladder(mode) \subseteq Ladder("normal")
<1>1. Ceiling(mode) \in Nat /\ Base <= Ceiling(mode)
  BY CeilingFacts
<1>2. Base \in Nat \ {0}
  BY AdaptiveAssumption
<1>3. Ladder(mode) \subseteq Ladder("normal")
  BY LadderPrefix
<1> QED
  BY <1>1, <1>2, <1>3 DEF Ladder

(* A rung that a mode takes away lies above its ceiling. *)
LEMMA TakenAway ==
    ASSUME NEW mode \in RuntimeMode, NEW v \in Ladder("normal"), v \notin Ladder(mode)
    PROVE  v > Ceiling(mode)
<1>1. "normal" \in RuntimeMode
  BY DEF RuntimeMode
<1> QED
  BY <1>1, LadderPrefix, LadderFacts, CeilingFacts

-----------------------------------------------------------------------------
(* The rung above and the rung below, where there is one. *)
LEMMA UpFacts ==
    ASSUME NEW mode \in RuntimeMode, NEW v \in Ladder(mode), v < Ceiling(mode)
    PROVE  /\ NextUp(v, mode) \in Ladder(mode)
           /\ v < NextUp(v, mode)
           /\ \A x \in Ladder(mode) : x > v => NextUp(v, mode) <= x
<1> DEFINE S == {w \in Ladder(mode) : w > v}
<1>1. S \in SUBSET Nat /\ S # {}
  BY LadderFacts
<1>2. PICK w \in S : \A x \in S : w <= x
  BY <1>1, LeastElement
<1>3. \E u \in Ladder(mode) : u > v /\ \A x \in Ladder(mode) : x > v => u <= x
  BY <1>2
<1> QED
  BY <1>3 DEF NextUp

LEMMA DownFacts ==
    ASSUME NEW mode \in RuntimeMode, NEW v \in Ladder(mode), v > Base
    PROVE  /\ NextDown(v, mode) \in Ladder(mode)
           /\ NextDown(v, mode) < v
           /\ \A x \in Ladder(mode) : x < v => x <= NextDown(v, mode)
<1> DEFINE S == {w \in Ladder(mode) : w < v}
<1>1. v \in Nat
  BY LadderFacts
<1>2. S \in SUBSET (0..v) /\ S # {}
  BY <1>1, LadderFacts
<1>3. PICK w \in S : \A x \in S : x <= w
  BY <1>1, <1>2, GreatestElement
<1>4. \E u \in Ladder(mode) : u < v /\ \A x \in Ladder(mode) : x < v => x <= u
  BY <1>3
<1> QED
  BY <1>4 DEF NextDown

(* What is kept, and what is decided, is a rung of the ladder. *)
LEMMA KeptType ==
    ASSUME NEW mode \in RuntimeMode, NEW v
    PROVE  Kept(v, mode) \in Ladder(mode)
BY LadderFacts DEF Kept

LEMMA DecidedType ==
    ASSUME NEW mode \in RuntimeMode, NEW v \in Ladder(mode), NEW s
    PROVE  Decided(v, s, mode) \in Ladder(mode)
BY UpFacts, DownFacts DEF Decided

-----------------------------------------------------------------------------
(* The windows of samples are windows. *)
LEMMA SamplesType ==
    ASSUME NEW s \in Seq(Sample)
    PROVE  /\ Prune(s) \in Seq(Sample)
           /\ Aged(s) \in Seq(Sample)
<1>1. ASSUME NEW o \in Sample
      PROVE  [o EXCEPT !.age = IF @ < MaxAge THEN @ + 1 ELSE @] \in Sample
  <2>1. (IF o.age < MaxAge THEN o.age + 1 ELSE o.age) \in 0..MaxAge
    BY WindowAssumption DEF Sample, MaxAge
  <2> QED
    BY <2>1 DEF Sample
<1> QED
  BY <1>1, AgedType, PruneType

LEMMA AppendType ==
    ASSUME NEW s \in Seq(Sample), NEW result \in Ends
    PROVE  Prune(Append(s, [age |-> 0, result |-> result])) \in Seq(Sample)
<1>1. [age |-> 0, result |-> result] \in Sample
  BY AdaptiveAssumption, WindowAssumption DEF Sample, MaxAge
<1> QED
  BY <1>1, SamplesType, AppendProperties

(* Reading the limit. *)
LEMMA EffectiveType ==
    ASSUME TypeOK
    PROVE  /\ Effective \in Base..Ceiling(runtimeMode)
           /\ Effective \in Nat \ {0}
           /\ Settle => current' \in {0} \cup Ladder("normal")
<1>1. runtimeMode \in RuntimeMode
  BY DEF TypeOK
<1>2. /\ Kept(current, runtimeMode) \in Ladder(runtimeMode)
      /\ Kept(current, runtimeMode) \in Ladder("normal")
  BY <1>1, KeptType, LadderFacts
<1>3. /\ Kept(current, runtimeMode) \in Base..Ceiling(runtimeMode)
      /\ Kept(current, runtimeMode) \in Nat \ {0}
      /\ Base \in Base..Ceiling(runtimeMode)
  BY <1>1, <1>2, LadderFacts, CeilingFacts, AdaptiveAssumption
<1> QED
  BY <1>2, <1>3, AdaptiveAssumption DEF Effective, Settle, TypeOK

(* The decision at the end of a batch, spelled out. *)
LEMMA Decision ==
    ASSUME TypeOK, runtimeMode' \in RuntimeMode,
           NEW result \in Ends, RecordOutcome(result), AdaptiveEnabled
    PROVE  \E kept \in Ladder(runtimeMode') :
               /\ kept = Kept(current, runtimeMode')
               /\ current' \in Ladder(runtimeMode')
               /\ current' # kept
                    => /\ Len(samples') >= MinSamples
                       /\ sinceAdjust >= Cooldown
                       /\ sinceAdjust' = 0
                       /\ current' = Decided(kept, samples', runtimeMode')
<1>1. Kept(current, runtimeMode') \in Ladder(runtimeMode')
  BY KeptType
<1>2. Decided(Kept(current, runtimeMode'), samples', runtimeMode')
        \in Ladder(runtimeMode')
  BY <1>1, DecidedType
<1> QED
  BY <1>1, <1>2, Zenon DEF RecordOutcome

-----------------------------------------------------------------------------
LEMMA InitType == Init => TypeOK
BY AdaptiveAssumption, EmptySeq DEF Init, TypeOK, RuntimeMode

LEMMA NextType == TypeOK /\ [Next]_vars => TypeOK'
<1> SUFFICES ASSUME TypeOK, [Next]_vars
             PROVE  TypeOK'
  OBVIOUS
<1>1. CASE ModeTurns
  BY <1>1 DEF ModeTurns, Turns, TypeOK, RuntimeMode
<1>2. CASE \E b \in Batches : BatchBegins(b)
  BY <1>2, EffectiveType DEF BatchBegins, TypeOK
<1>3. ASSUME NEW b \in Batches, BatchEnds(b)
      PROVE  TypeOK'
  <2>1. PICK result \in Ends : RecordOutcome(result)
    BY <1>3 DEF BatchEnds
  <2>2. runtimeMode' \in RuntimeMode
    BY <1>3 DEF BatchEnds, Turns, RuntimeMode
  <2>3. samples' \in Seq(Sample)
    BY <2>1, AppendType DEF RecordOutcome, TypeOK
  <2>4. current' \in {0} \cup Ladder("normal")
    <3>1. CASE AdaptiveEnabled
      BY <2>1, <2>2, <3>1, Decision, LadderFacts
    <3>2. CASE ~AdaptiveEnabled
      BY <2>1, <3>2 DEF RecordOutcome, TypeOK
    <3> QED
      BY <3>1, <3>2
  <2>5. sinceAdjust' \in 0..Cooldown
    <3>1. sinceAdjust' \in {0, sinceAdjust}
      BY <2>1, Zenon DEF RecordOutcome
    <3> QED
      BY <3>1, AdaptiveAssumption DEF TypeOK
  <2>6. granted' \in [Batches -> Nat]
    BY <1>3 DEF BatchEnds, TypeOK
  <2> QED
    BY <2>2, <2>3, <2>4, <2>5, <2>6 DEF TypeOK
<1>4. CASE Look
  BY <1>4, EffectiveType, SamplesType DEF Look, TypeOK
<1>5. CASE Tick
  <2>1. samples' \in Seq(Sample)
    BY <1>5, SamplesType DEF Tick, TypeOK
  <2>2. sinceAdjust' \in 0..Cooldown
    BY <1>5, AdaptiveAssumption DEF Tick, TypeOK
  <2> QED
    BY <1>5, <2>1, <2>2 DEF Tick, TypeOK
<1>6. CASE UNCHANGED vars
  BY <1>6 DEF vars, TypeOK
<1> QED
  BY <1>1, <1>2, <1>3, <1>4, <1>5, <1>6 DEF Next

(***************************************************************************)
(* The window of samples is within its size and in the order of its ages,  *)
(* so what a prune leaves is fresh throughout.                             *)
(***************************************************************************)
InOrder == Len(samples) <= WindowSize /\ OldestFirst(samples)

LEMMA SampleAges ==
    /\ MaxAge \in Nat
    /\ \A o \in Sample :
          /\ o.age \in 0..MaxAge /\ o.age \in Nat
          /\ [o EXCEPT !.age = IF @ < MaxAge THEN @ + 1 ELSE @] \in Sample
          /\ [o EXCEPT !.age = IF @ < MaxAge THEN @ + 1 ELSE @].age
               = IF o.age < MaxAge THEN o.age + 1 ELSE o.age
<1>1. MaxAge \in Nat
  BY WindowAssumption DEF MaxAge
<1> SUFFICES ASSUME NEW o \in Sample
             PROVE  /\ o.age \in 0..MaxAge /\ o.age \in Nat
                    /\ [o EXCEPT !.age = IF @ < MaxAge THEN @ + 1 ELSE @] \in Sample
                    /\ [o EXCEPT !.age = IF @ < MaxAge THEN @ + 1 ELSE @].age
                         = IF o.age < MaxAge THEN o.age + 1 ELSE o.age
  BY <1>1
<1>2. (IF o.age < MaxAge THEN o.age + 1 ELSE o.age) \in 0..MaxAge
  BY <1>1 DEF Sample
<1> QED
  BY <1>1, <1>2 DEF Sample

LEMMA RecordOrder ==
    ASSUME TypeOK, InOrder, NEW result \in Ends, RecordOutcome(result)
    PROVE  InOrder' /\ AllFresh(samples')
<1> DEFINE new == [age |-> 0, result |-> result]
           longer == Append(samples, new)
<1>1. new \in Sample /\ new.age = 0
  BY AdaptiveAssumption, SampleAges DEF Sample
<1>2. samples \in Seq(Sample) /\ OldestFirst(samples)
  BY DEF TypeOK, InOrder
<1>3. longer \in Seq(Sample) /\ OldestFirst(longer)
  <2> HIDE DEF new
  <2> QED
    BY <1>1, <1>2, SampleAges, AppendOrder
<1> HIDE DEF longer
<1>4. \A i \in 1..Len(longer) : longer[i].age \in Nat
  BY <1>3, SampleAges, ElementOfSeq
<1>5. samples' = Prune(longer)
  BY DEF RecordOutcome, longer
<1> QED
  BY <1>3, <1>4, <1>5, PruneOrder DEF InOrder

LEMMA InOrderStep == TypeOK /\ InOrder /\ [Next]_vars => InOrder'
<1> SUFFICES ASSUME TypeOK, InOrder, [Next]_vars PROVE InOrder'
  OBVIOUS
<1>1. samples \in Seq(Sample) /\ OldestFirst(samples)
  BY DEF TypeOK, InOrder
<1>2. CASE ModeTurns \/ UNCHANGED vars
  BY <1>2 DEF ModeTurns, vars, InOrder
<1>3. ASSUME NEW b \in Batches, BatchBegins(b) PROVE InOrder'
  BY <1>3 DEF BatchBegins, InOrder
<1>4. ASSUME NEW b \in Batches, BatchEnds(b) PROVE InOrder'
  BY <1>4, RecordOrder DEF BatchEnds
<1>5. CASE Look
  <2>1. \A i \in 1..Len(samples) : samples[i].age \in Nat
    BY <1>1, SampleAges, ElementOfSeq
  <2> QED
    BY <1>1, <1>5, <2>1, PruneOrder DEF Look, InOrder
<1>6. CASE Tick
  <2>1. Len(Aged(samples)) = Len(samples) /\ OldestFirst(Aged(samples))
    BY <1>1, SampleAges, AgedOrder
  <2> QED
    BY <1>6, <2>1 DEF Tick, InOrder
<1> QED
  BY <1>2, <1>3, <1>4, <1>5, <1>6 DEF Next

LEMMA AlwaysInOrder == Spec => [](TypeOK /\ InOrder)
<1>1. Init => TypeOK /\ InOrder
  <2>1. Init => InOrder
    BY EmptySeq, WindowAssumption DEF Init, InOrder, OldestFirst
  <2> QED
    BY <2>1, InitType
<1>2. TypeOK /\ InOrder /\ [Next]_vars => (TypeOK /\ InOrder)'
  BY NextType, InOrderStep
<1> QED
  BY <1>1, <1>2, PTL DEF Spec

(* Every reachable state of the fan-out controller is typed; in particular *)
(* the current concurrency is None or a rung of the normal ladder.         *)
THEOREM TypeCorrect == Spec => []TypeOK
<1>1. Init => TypeOK
  BY InitType
<1>2. TypeOK /\ [Next]_vars => TypeOK'
  BY NextType
<1> QED
  BY <1>1, <1>2, PTL DEF Spec

-----------------------------------------------------------------------------
(* No batch begins with more than the mode of that moment allows: what     *)
(* get_effective_concurrency returns, vertex_embeddings.py:85.             *)
THEOREM BatchesFollowMode == Spec => FollowsMode
<1> DEFINE P == \A b \in Batches :
                    granted[b] = 0 /\ granted'[b] # 0
                      => granted'[b] \in Base..Ceiling(runtimeMode)
<1>1. TypeOK /\ [Next]_vars => [P]_vars
  <2> SUFFICES ASSUME TypeOK, Next, NEW b \in Batches,
                      granted[b] = 0, granted'[b] # 0
               PROVE  granted'[b] \in Base..Ceiling(runtimeMode)
    OBVIOUS
  <2>1. ASSUME NEW a \in Batches, BatchBegins(a)
        PROVE  granted'[b] \in Base..Ceiling(runtimeMode)
    BY <2>1, EffectiveType DEF BatchBegins, TypeOK
  <2>2. ASSUME NEW a \in Batches, BatchEnds(a)
        PROVE  FALSE
    BY <2>2 DEF BatchEnds, TypeOK
  <2>3. CASE ModeTurns \/ Look \/ Tick
    BY <2>3 DEF ModeTurns, Look, Tick
  <2> QED
    BY <2>1, <2>2, <2>3 DEF Next
<1> QED
  BY <1>1, TypeCorrect, PTL DEF Spec, FollowsMode

-----------------------------------------------------------------------------
(* A window in which no timeout rate is above zero holds no timed out      *)
(* sample.                                                                 *)
LEMMA NoTimeouts ==
    ASSUME NEW s \in Seq(Sample), ~TimeoutsAbove(s, 0)
    PROVE  ~\E i \in DOMAIN s : s[i].result.timedOut
<1> DEFINE T == {i \in DOMAIN s : s[i].result.timedOut}
<1>1. Len(s) \in Nat /\ DOMAIN s = 1..Len(s)
  BY LenProperties
<1>2. IsFiniteSet(DOMAIN s)
  BY <1>1, FS_Interval
<1>3. IsFiniteSet(T) /\ Cardinality(T) \in Nat
  BY <1>2, FS_Subset, FS_CardinalityType
<1>4. ~(100 * Cardinality(T) > 0 * Len(s))
  BY DEF TimeoutsAbove
<1>5. Cardinality(T) = 0
  <2> HIDE DEF T
  <2> QED
    BY <1>1, <1>3, <1>4
<1> QED
  BY <1>3, <1>5, FS_EmptySet

(***************************************************************************)
(* A window that is not healthy shows why: one of its samples failed,      *)
(* timed out, or was slower than the threshold.                            *)
(***************************************************************************)
LEMMA UnhealthyShows ==
    ASSUME NEW s \in Seq(Sample), Unhealthy(s)
    PROVE  \E i \in DOMAIN s : Troubled(s[i].result)
<1>1. Len(s) \in Nat /\ DOMAIN s = 1..Len(s)
  BY LenProperties
<1>2. /\ FailureDownPct \in Nat /\ LatencyDown \in Nat
      /\ \A i \in DOMAIN s : s[i].result.latency \in Nat
  <2>1. \A i \in DOMAIN s : s[i] \in Sample
    BY <1>1, ElementOfSeq
  <2>2. \A o \in Sample : o.result.latency \in Nat
    BY WindowAssumption DEF Sample, Result
  <2>3. LatencyDown \in Nat
    BY AdaptiveAssumption
  <2>4. FailureDownPct \in 0..100
    BY AdaptiveAssumption, Zenon
  <2>5. FailureDownPct \in Nat
    BY <2>4
  <2> QED
    BY <2>1, <2>2, <2>3, <2>5
<1>3. CASE ErrorsAbove(s, FailureDownPct)
  <2> DEFINE I == {i \in DOMAIN s : s[i].result.retryable}
  <2>1. I \in SUBSET (DOMAIN s)
    OBVIOUS
  <2>2. 100 * Cardinality(I) > FailureDownPct * Len(s)
    BY <1>3 DEF ErrorsAbove
  <2>3. I # {}
    <3> HIDE DEF I
    <3> QED
      BY <1>2, <2>1, <2>2, RateShows
  <2> QED
    BY <2>3 DEF Troubled
<1>4. CASE TimeoutsAbove(s, 5)
  <2> DEFINE I == {i \in DOMAIN s : s[i].result.timedOut}
  <2>1. I \in SUBSET (DOMAIN s) /\ 5 \in Nat
    OBVIOUS
  <2>2. 100 * Cardinality(I) > 5 * Len(s)
    BY <1>4 DEF TimeoutsAbove
  <2>3. I # {}
    <3> HIDE DEF I
    <3> QED
      BY <2>1, <2>2, RateShows
  <2> QED
    BY <2>3 DEF Troubled
<1>5. CASE s # << >> /\ P95x100(s, DOMAIN s) > 100 * LatencyDown
  <2>1. DOMAIN s # {} /\ DOMAIN s \in SUBSET (1..Len(s))
    <3>1. Len(s) \in Nat \ {0}
      BY <1>5, EmptySeq
    <3>2. 1 \in DOMAIN s
      BY <1>1, <3>1
    <3> QED
      BY <1>1, <3>2
  <2>2. \E i \in DOMAIN s : s[i].result.latency > LatencyDown
    BY <1>1, <1>2, <1>5, <2>1, SlowSomewhere
  <2> QED
    BY <2>2 DEF Troubled
<1> QED
  BY <1>3, <1>4, <1>5 DEF Unhealthy

(* A step that changes the fan-out is the end of a batch, or reads a limit *)
(* that the mode has taken away.                                           *)
LEMMA WhoChanges ==
    ASSUME TypeOK, Next, current' # current
    PROVE  /\ AdaptiveEnabled
           /\ runtimeMode' \in RuntimeMode
           /\ \/ \E result \in Ends : RecordOutcome(result)
              \/ /\ current' = Kept(current, runtimeMode')
<1>1. ASSUME NEW b \in Batches, BatchBegins(b)
      PROVE  /\ AdaptiveEnabled
             /\ runtimeMode' = runtimeMode
             /\ current' = Kept(current, runtimeMode')
  BY <1>1 DEF BatchBegins, Settle, Effective
<1>2. CASE Look
  BY <1>2 DEF Look, Settle, Effective, TypeOK
<1>3. ASSUME NEW b \in Batches, BatchEnds(b)
      PROVE  /\ AdaptiveEnabled
             /\ runtimeMode' \in RuntimeMode
             /\ \E result \in Ends : RecordOutcome(result)
  BY <1>3 DEF BatchEnds, RecordOutcome, Turns, RuntimeMode
<1>4. CASE ModeTurns \/ Tick
  BY <1>4 DEF ModeTurns, Tick
<1> QED
  BY <1>1, <1>2, <1>3, <1>4 DEF Next, TypeOK

(* What is kept of the current rung, once there is one. *)
LEMMA KeptFacts ==
    ASSUME TypeOK, NEW mode \in RuntimeMode, current # 0
    PROVE  /\ Kept(current, mode) <= current
           /\ Kept(current, mode) # current
                => Kept(current, mode) = Base /\ current > Ceiling(mode)
<1>1. current \in Ladder("normal") /\ current \in Nat
  BY LadderFacts DEF TypeOK, RuntimeMode
<1>2. CASE current \in Ladder(mode)
  BY <1>1, <1>2 DEF Kept
<1>3. CASE current \notin Ladder(mode)
  BY <1>1, <1>3, TakenAway, CeilingFacts, AdaptiveAssumption DEF Kept
<1> QED
  BY <1>2, <1>3

(***************************************************************************)
(* record_outcome raises the fan-out by one rung, on enough samples, all   *)
(* of them recent and none timed out, and once per cooldown; nothing else  *)
(* raises it.                                                              *)
(***************************************************************************)
THEOREM RisesOnEvidence == Spec => RaisedOnEvidence
<1> DEFINE P == current # 0 /\ current' > current
                  => /\ \A v \in Ladder(runtimeMode') : v > current => v >= current'
                     /\ sinceAdjust = Cooldown /\ sinceAdjust' = 0
                     /\ Evidence(samples')
<1>1. TypeOK /\ InOrder /\ TypeOK' /\ [Next]_vars => [P]_vars
  <2> SUFFICES ASSUME TypeOK, InOrder, TypeOK', Next, current # 0, current' > current
               PROVE  P
    OBVIOUS
  <2>1. current \in Nat /\ current' \in Nat /\ samples' \in Seq(Sample)
    BY LadderFacts DEF TypeOK, RuntimeMode
  <2>2. runtimeMode' \in RuntimeMode /\ AdaptiveEnabled
    BY <2>1, WhoChanges
  <2>3. /\ Kept(current, runtimeMode') <= current
        /\ Kept(current, runtimeMode') # current
             => Kept(current, runtimeMode') = Base /\ current > Ceiling(runtimeMode')
    BY <2>2, KeptFacts
  <2>4. PICK result \in Ends : RecordOutcome(result)
    BY <2>1, <2>3, WhoChanges
  <2>5. PICK kept \in Ladder(runtimeMode') :
            /\ kept = Kept(current, runtimeMode')
            /\ current' \in Ladder(runtimeMode')
            /\ current' # kept
                 => /\ Len(samples') >= MinSamples
                    /\ sinceAdjust >= Cooldown
                    /\ sinceAdjust' = 0
                    /\ current' = Decided(kept, samples', runtimeMode')
    BY <2>2, <2>4, Decision
  <2>6. current' <= Ceiling(runtimeMode') /\ Ceiling(runtimeMode') \in Nat
    BY <2>2, <2>5, LadderFacts, CeilingFacts
  <2>7. kept = current /\ current' # kept
    BY <2>1, <2>3, <2>5, <2>6
  <2>8. sinceAdjust = Cooldown
    BY <2>5, <2>7, AdaptiveAssumption DEF TypeOK
  <2>9. Healthy(samples') /\ current' = NextUp(current, runtimeMode')
          /\ current < Ceiling(runtimeMode')
    <3>1. CASE Unhealthy(samples') /\ kept > Base
      BY <2>1, <2>2, <2>5, <2>7, <3>1, DownFacts DEF Decided
    <3>2. CASE ~(Unhealthy(samples') /\ kept > Base)
      BY <2>1, <2>5, <2>7, <3>2 DEF Decided
    <3> QED
      BY <3>1, <3>2
  <2>10. \A v \in Ladder(runtimeMode') : v > current => v >= current'
    BY <2>2, <2>5, <2>7, <2>9, UpFacts
  <2>11. ~\E i \in DOMAIN samples' : samples'[i].result.timedOut
    BY <2>1, <2>9, NoTimeouts DEF Healthy
  <2>12. AllFresh(samples')
    BY <2>4, RecordOrder
  <2> QED
    BY <2>5, <2>7, <2>8, <2>10, <2>11, <2>12 DEF Evidence
<1> QED
  BY <1>1, AlwaysInOrder, PTL DEF Spec, RaisedOnEvidence

(***************************************************************************)
(* The fan-out falls by one rung when a recent sample shows trouble, or    *)
(* below the ceiling of a mode that took its rung away; nothing else       *)
(* lowers it, and no sample older than the window does.                    *)
(***************************************************************************)
THEOREM FallsForCause == Spec => LoweredForCause
<1> DEFINE Unwell == /\ sinceAdjust = Cooldown /\ sinceAdjust' = 0
                     /\ \E i \in Fresh(samples') : Troubled(samples'[i].result)
                     /\ \A v \in Ladder(runtimeMode') : v < current => v <= current'
           Capped == /\ current > Ceiling(runtimeMode')
                     /\ \/ current' = Base
                        \/ /\ sinceAdjust = Cooldown
                           /\ Evidence(samples')
                           /\ current' = NextUp(Base, runtimeMode')
<1>1. TypeOK /\ InOrder /\ TypeOK' /\ [Next]_vars
        => [current' < current => Unwell \/ Capped]_vars
  <2> SUFFICES ASSUME TypeOK, InOrder, TypeOK', Next, current' < current
               PROVE  Unwell \/ Capped
    OBVIOUS
  <2>1. current \in Nat /\ current' \in Nat /\ current # 0
    BY LadderFacts DEF TypeOK, RuntimeMode
  <2>2. runtimeMode' \in RuntimeMode /\ AdaptiveEnabled
    BY <2>1, WhoChanges
  <2>3. Kept(current, runtimeMode') # current
          => Kept(current, runtimeMode') = Base /\ current > Ceiling(runtimeMode')
    BY <2>1, <2>2, KeptFacts
  <2>4. CASE current' = Kept(current, runtimeMode')
    BY <2>1, <2>3, <2>4
  <2>5. CASE current' # Kept(current, runtimeMode')
    <3> DEFINE kept == Kept(current, runtimeMode')
    <3>1. PICK result \in Ends : RecordOutcome(result)
      BY <2>1, <2>5, WhoChanges
    <3>2. /\ kept \in Ladder(runtimeMode')
          /\ sinceAdjust >= Cooldown
          /\ sinceAdjust' = 0
          /\ Len(samples') >= MinSamples
          /\ current' = Decided(kept, samples', runtimeMode')
      BY <2>2, <2>5, <3>1, Decision
    <3>3. sinceAdjust = Cooldown
      BY <3>2, AdaptiveAssumption DEF TypeOK
    <3>4. kept \in Nat /\ Base \in Nat
      BY <2>2, <3>2, LadderFacts, AdaptiveAssumption
    <3>5. samples' \in Seq(Sample) /\ AllFresh(samples')
      BY <3>1, RecordOrder DEF TypeOK
    <3> HIDE DEF kept
    <3>6. CASE Unhealthy(samples') /\ kept > Base
      <4>1. current' = NextDown(kept, runtimeMode') /\ kept # Base
        BY <3>2, <3>4, <3>6 DEF Decided
      <4>2. kept = current
        BY <2>3, <4>1 DEF kept
      <4>3. \A v \in Ladder(runtimeMode') : v < current => v <= current'
        BY <2>2, <3>2, <3>6, <4>1, <4>2, DownFacts
      <4>4. \E i \in Fresh(samples') : Troubled(samples'[i].result)
        BY <3>5, <3>6, UnhealthyShows DEF AllFresh
      <4> QED
        BY <3>2, <3>3, <4>3, <4>4
    <3>7. CASE ~(Unhealthy(samples') /\ kept > Base)
      <4>1. /\ Healthy(samples')
            /\ current' = NextUp(kept, runtimeMode')
            /\ kept < Ceiling(runtimeMode')
        BY <2>5, <3>2, <3>7 DEF Decided, kept
      <4>2. current' > kept
        BY <2>2, <3>2, <4>1, UpFacts
      <4>3. kept # current
        BY <2>1, <3>4, <4>2
      <4>4. kept = Base /\ current > Ceiling(runtimeMode')
        BY <2>3, <4>3 DEF kept
      <4>5. Evidence(samples')
        BY <3>2, <3>5, <4>1, NoTimeouts DEF Evidence, Healthy
      <4> QED
        BY <3>3, <4>1, <4>4, <4>5
    <3> QED
      BY <3>6, <3>7
  <2> QED
    BY <2>4, <2>5
<1> QED
  BY <1>1, AlwaysInOrder, PTL DEF Spec, LoweredForCause

=============================================================================
