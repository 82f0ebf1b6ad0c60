------------------------- MODULE AdaptiveConcurrency --------------------------
(***************************************************************************)
(* The fan-out of the embeddings batches: AdaptiveConcurrencyController    *)
(* (app/services/adaptive_concurrency.py) moves the effective concurrency  *)
(* along a ladder whose top the runtime mode lowers                        *)
(* (effective_embedding_adaptive_max).  Each method runs from one await to *)
(* the next, so each is one step; a batch reads the limit when it begins   *)
(* and reports how it went when it ends, after any number of other steps.  *)
(* Health endpoints read the limit too, with the same side effect.         *)
(*                                                                         *)
(* The runtime mode is an environment here, see ModeEnvironment.           *)
(***************************************************************************)
EXTENDS RollingWindow, ModeEnvironment

CONSTANTS
    Batches,              \* the places a batch can run in
    Base,                 \* settings.embedding_max_concurrency
    AdaptiveMax,          \* settings.embedding_adaptive_max_concurrency
    AdaptiveEnabled,      \* settings.embedding_adaptive_concurrency
    RuntimeAdaptive,      \* settings.runtime_adaptive_mode
    Cooldown,             \* settings.embedding_adaptive_cooldown_seconds
    MinSamples,           \* settings.embedding_adaptive_min_samples
    LatencyUp,            \* ..._latency_up_threshold_ms
    LatencyDown,          \* ..._latency_down_threshold_ms
    FailureUpPct,         \* ..._failure_rate_up_threshold
    FailureDownPct,       \* ..._failure_rate_down_threshold
    Ends                  \* how a batch can go, a part of Result

ASSUME AdaptiveAssumption ==
    /\ Base \in Nat \ {0}
    /\ {AdaptiveMax, Cooldown, MinSamples, LatencyUp, LatencyDown} \subseteq Nat
    /\ {FailureUpPct, FailureDownPct} \subseteq 0..100
    /\ {AdaptiveEnabled, RuntimeAdaptive} \subseteq BOOLEAN
    /\ Ends \subseteq Result

VARIABLES
    samples,              \* _recent
    current,              \* _current_concurrency, 0 for None
    sinceAdjust,          \* now - _last_adjustment_at, Cooldown if None
    runtimeMode,          \* runtime_controller.current_mode()
    granted               \* the limit each running batch works with, or 0

vars == <<samples, current, sinceAdjust, runtimeMode, granted>>

Sample == [age : 0..MaxAge, result : Result]

-----------------------------------------------------------------------------
(* effective_embedding_adaptive_max, in each mode. *)
Larger(a, b) == IF a >= b THEN a ELSE b

AllowedMax(mode) ==
    IF ~RuntimeAdaptive \/ mode = "normal" THEN AdaptiveMax
    ELSE IF mode = "degraded" THEN Base
    ELSE IF Larger(Base, 8) <= AdaptiveMax THEN Larger(Base, 8)
    ELSE AdaptiveMax

(* _build_ladder, as the set of its rungs; the lowest is Base. *)
Ceiling(mode) == Larger(Base, AllowedMax(mode))

Ladder(mode) ==
    {v \in {Base, Ceiling(mode), 4, 8, 12, 16} : v \in Base..Ceiling(mode)}

NextUp(v, mode) ==
    CHOOSE w \in Ladder(mode) :
        w > v /\ \A x \in Ladder(mode) : x > v => w <= x

NextDown(v, mode) ==
    CHOOSE w \in Ladder(mode) :
        w < v /\ \A x \in Ladder(mode) : x < v => x <= w

(* Mutant of Kept that keeps a rung the mode no longer allows. *)
KeptAnyway(v, mode) == IF v # 0 THEN v ELSE Base

(* Mutant of Kept that forgets the rung whenever it is read. *)
KeptNever(v, mode) == Base

(* A rung that is no longer on the ladder gives way to the lowest one. *)
Kept(v, mode) == IF v \in Ladder(mode) THEN v ELSE Base

-----------------------------------------------------------------------------
(* _decide_next_concurrency, on the metrics of a window. *)
Unhealthy(s) ==
    \/ ErrorsAbove(s, FailureDownPct)
    \/ TimeoutsAbove(s, 5)
    \/ s # << >> /\ P95x100(s, DOMAIN s) > 100 * LatencyDown

(* Mutant of Healthy that lets timeouts pass. *)
HealthyDespiteTimeouts(s) ==
    /\ ~ErrorsAbove(s, FailureUpPct)
    /\ s # << >> => P95x100(s, DOMAIN s) < 100 * LatencyUp
    /\ s = << >> => LatencyUp > 0

Healthy(s) ==
    /\ ~ErrorsAbove(s, FailureUpPct)
    /\ ~TimeoutsAbove(s, 0)
    /\ s # << >> => P95x100(s, DOMAIN s) < 100 * LatencyUp
    /\ s = << >> => LatencyUp > 0

(* Mutant of Decided that moves by four and not by a rung. *)
DecidedByFour(v, s, mode) ==
    IF Unhealthy(s) /\ v > Base THEN Larger(Base, v - 4)
    ELSE IF Healthy(s) /\ v < Ceiling(mode) THEN v + 4
    ELSE v

Decided(v, s, mode) ==
    IF Unhealthy(s) /\ v > Base THEN NextDown(v, mode)
    ELSE IF Healthy(s) /\ v < Ceiling(mode) THEN NextUp(v, mode)
    ELSE v

-----------------------------------------------------------------------------
Init ==
    /\ samples = << >>
    /\ current = 0
    /\ sinceAdjust = Cooldown
    /\ runtimeMode = "normal"
    /\ granted = [b \in Batches |-> 0]

ModeTurns ==
    /\ runtimeMode' \in Turns(runtimeMode)
    /\ UNCHANGED <<samples, current, sinceAdjust, granted>>

(* get_effective_concurrency: the value it returns, and its side effect. *)
Effective == IF AdaptiveEnabled THEN Kept(current, runtimeMode) ELSE Base

Settle == current' = IF AdaptiveEnabled THEN Effective ELSE current

BatchBegins(b) ==
    /\ granted[b] = 0
    /\ granted' = [granted EXCEPT ![b] = Effective]
    /\ Settle
    /\ UNCHANGED <<samples, sinceAdjust, runtimeMode>>

(* Mutant of RecordOutcome that restarts the cooldown at every batch. *)
RecordOutcomeRestamped(result) ==
    /\ samples' = Prune(Append(samples, [age |-> 0, result |-> result]))
    /\ LET kept    == Kept(current, runtimeMode')
           decides == Len(samples') >= MinSamples /\ sinceAdjust >= Cooldown
           next    == IF decides THEN Decided(kept, samples', runtimeMode') ELSE kept
       IN  /\ current' = IF AdaptiveEnabled THEN next ELSE current
           /\ sinceAdjust' = 0

(***************************************************************************)
(* record_outcome: nothing is decided before there are enough samples and  *)
(* the cooldown is over, and only a decision starts a new cooldown.        *)
(***************************************************************************)
RecordOutcome(result) ==
    /\ samples' = Prune(Append(samples, [age |-> 0, result |-> result]))
    /\ LET kept    == Kept(current, runtimeMode')
           decides == Len(samples') >= MinSamples /\ sinceAdjust >= Cooldown
           next    == IF decides THEN Decided(kept, samples', runtimeMode') ELSE kept
       IN  /\ current' = IF AdaptiveEnabled THEN next ELSE current
           /\ sinceAdjust' = IF AdaptiveEnabled /\ next # kept
                             THEN 0 ELSE sinceAdjust

(* request_finished comes first and may change the runtime mode. *)
BatchEnds(b) ==
    /\ granted[b] # 0
    /\ runtimeMode' \in Turns(runtimeMode)
    /\ \E result \in Ends : RecordOutcome(result)
    /\ granted' = [granted EXCEPT ![b] = 0]

(* A health endpoint reads the metrics, then the limit. *)
Look ==
    /\ samples' = Prune(samples)
    /\ Settle
    /\ UNCHANGED <<sinceAdjust, runtimeMode, granted>>

Tick ==
    /\ samples' = Aged(samples)
    /\ sinceAdjust' = IF sinceAdjust < Cooldown THEN sinceAdjust + 1
                                                ELSE sinceAdjust
    /\ UNCHANGED <<current, runtimeMode, granted>>

Next == \/ ModeTurns
        \/ \E b \in Batches : BatchBegins(b) \/ BatchEnds(b)
        \/ Look
        \/ Tick

(* The clock advances.  That batches come and end is not promised here. *)
Spec == Init /\ [][Next]_vars /\ WF_vars(Tick)

-----------------------------------------------------------------------------
(* Type correctness: where every variable takes its values. *)
TypeOK ==
    /\ samples \in Seq(Sample)
    /\ current \in {0} \cup Ladder("normal")
    /\ sinceAdjust \in 0..Cooldown
    /\ runtimeMode \in RuntimeMode
    /\ granted \in [Batches -> Nat]

(***************************************************************************)
(* A batch that begins works within the ceiling of the mode at that time,  *)
(* whatever rung an earlier mode left behind: with the base concurrency    *)
(* alone in degraded mode, and never below the base.                       *)
(***************************************************************************)
FollowsMode ==
    [][\A b \in Batches :
          granted[b] = 0 /\ granted'[b] # 0
            => granted'[b] \in Base..Ceiling(runtimeMode)]_vars

(* What a batch shows of trouble upstream. *)
Troubled(result) == \/ result.retryable
                    \/ result.timedOut
                    \/ result.latency > LatencyDown

(* Enough batches, all recent, and none that timed out. *)
Evidence(s) == /\ Len(s) >= MinSamples
               /\ AllFresh(s)
               /\ ~\E i \in DOMAIN s : s[i].result.timedOut

(***************************************************************************)
(* The fan-out rises one rung at a time and only on evidence: enough       *)
(* recent batches, none of which timed out, and a cooldown since the last  *)
(* decision.  Reading the limit never raises it.                           *)
(***************************************************************************)
RaisedOnEvidence ==
    [][current # 0 /\ current' > current
         => /\ \A v \in Ladder(runtimeMode') : v > current => v >= current'
            /\ sinceAdjust = Cooldown /\ sinceAdjust' = 0
            /\ Evidence(samples')]_vars

(***************************************************************************)
(* The fan-out falls for a cause: a recent batch that failed, timed out or *)
(* was slow, and then by one rung; or a mode that takes the present rung   *)
(* away, and then to the lowest one, from where the batch that meets such  *)
(* a mode may climb one rung on evidence.                                  *)
(***************************************************************************)
LoweredForCause ==
    [][current' < current
         => \/ /\ sinceAdjust = Cooldown /\ sinceAdjust' = 0
               /\ \E i \in Fresh(samples') : Troubled(samples'[i].result)
               /\ \A v \in Ladder(runtimeMode') : v < current => v <= current'
            \/ /\ current > Ceiling(runtimeMode')
               /\ \/ current' = Base
                  \/ /\ sinceAdjust = Cooldown
                     /\ Evidence(samples')
                     /\ current' = NextUp(Base, runtimeMode')]_vars

(***************************************************************************)
(* While the runtime mode stays normal and the window healthy, batches     *)
(* that keep ending with enough samples bring the fan-out to the top of    *)
(* the ladder: the cooldown delays each rung and cannot withhold it.       *)
(***************************************************************************)
EndsInformed(b) == granted[b] # 0 /\ granted'[b] = 0 /\ Len(samples') >= MinSamples

ReachesCeiling ==
    /\ <>[](runtimeMode = "normal" /\ Healthy(samples))
    /\ []<><<AdaptiveEnabled /\ \E b \in Batches : EndsInformed(b)>>_vars
    => <>(current = Ceiling("normal"))

=============================================================================
