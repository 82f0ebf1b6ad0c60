---------------------------- MODULE RequestWindow ----------------------------
(***************************************************************************)
(* What RuntimeController (app/runtime/controller.py) computes from its    *)
(* window of outcomes, the in-flight counters and the process sample: the  *)
(* soft and the hard pressure tests and the reasons shown to operators.    *)
(* The window is settings.runtime_window_size outcomes and                 *)
(* settings.runtime_window_seconds ticks.  Pure definitions, no state.     *)
(***************************************************************************)
EXTENDS RollingWindow

CONSTANTS
    SoftInFlight,         \* per endpoint: settings.runtime_soft_in_flight_*
    HardInFlight,         \* per endpoint: settings.runtime_hard_in_flight_*
    SoftLatency,          \* per endpoint: settings.runtime_*_soft_latency_ms
    HardLatency,          \* per endpoint: settings.runtime_*_hard_latency_ms
    SoftErrorPct,         \* settings.runtime_soft_retryable_error_rate
    HardErrorPct,         \* settings.runtime_hard_retryable_error_rate
    SoftTimeoutPct,       \* settings.runtime_soft_timeout_rate
    HardTimeoutPct        \* settings.runtime_hard_timeout_rate

Endpoint == {"chat", "embeddings"}

ASSUME PressureAssumption ==
    /\ {SoftInFlight, HardInFlight, SoftLatency, HardLatency}
         \subseteq [Endpoint -> Nat]
    /\ {SoftErrorPct, HardErrorPct, SoftTimeoutPct, HardTimeoutPct}
         \subseteq 0..100

RequestOutcome == [endpoint : Endpoint, age : 0..MaxAge, result : Result]

NewOutcome(e, res) == [endpoint |-> e, age |-> 0, result |-> res]

Of(s, e) == {i \in DOMAIN s : s[i].endpoint = e}

SlowerThan(s, e, bound) == /\ Of(s, e) # {}
                           /\ P95x100(s, Of(s, e)) > 100 * bound

-----------------------------------------------------------------------------
(***************************************************************************)
(* The process sample: where the cpu and the resident set lie with respect *)
(* to 75% of their hard limit ("soft") and the limit itself ("hard").      *)
(***************************************************************************)
Level == {"low", "soft", "hard"}

(* Mutant of IsSoftPressure that forgets the error rate. *)
IsSoftPressureNoErrors(s, held, cpu, rss) ==
    \/ \E e \in Endpoint : \/ held[e] > SoftInFlight[e]
                           \/ SlowerThan(s, e, SoftLatency[e])
    \/ TimeoutsAbove(s, SoftTimeoutPct)
    \/ cpu # "low"
    \/ rss # "low"

IsSoftPressure(s, held, cpu, rss) ==
    \/ \E e \in Endpoint : \/ held[e] > SoftInFlight[e]
                           \/ SlowerThan(s, e, SoftLatency[e])
    \/ ErrorsAbove(s, SoftErrorPct)
    \/ TimeoutsAbove(s, SoftTimeoutPct)
    \/ cpu # "low"
    \/ rss # "low"

IsHardPressure(s, held, cpu, rss) ==
    \/ \E e \in Endpoint : \/ held[e] > HardInFlight[e]
                           \/ SlowerThan(s, e, HardLatency[e])
    \/ ErrorsAbove(s, HardErrorPct)
    \/ TimeoutsAbove(s, HardTimeoutPct)
    \/ cpu = "hard"
    \/ rss = "hard"

(* _refresh_mode_reasons, each reason with the scope it is about. *)
Reason == ({"in_flight_high", "p95_high"} \X Endpoint)
            \cup ({"retryable_error_rate_high", "timeout_rate_high"} \X {"global"})
            \cup ({"cpu_pressure_high", "rss_pressure_high"} \X {"process"})

HoldsReason(why, s, held, cpu, rss) ==
    \/ why[1] = "in_flight_high" /\ held[why[2]] > SoftInFlight[why[2]]
    \/ why[1] = "p95_high" /\ SlowerThan(s, why[2], SoftLatency[why[2]])
    \/ why[1] = "retryable_error_rate_high" /\ ErrorsAbove(s, SoftErrorPct)
    \/ why[1] = "timeout_rate_high" /\ TimeoutsAbove(s, SoftTimeoutPct)
    \/ why[1] = "cpu_pressure_high" /\ cpu # "low"
    \/ why[1] = "rss_pressure_high" /\ rss # "low"

ReasonsFor(s, held, cpu, rss) ==
    {why \in Reason : HoldsReason(why, s, held, cpu, rss)}

=============================================================================
