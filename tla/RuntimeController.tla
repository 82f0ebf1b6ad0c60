-------------------------- MODULE RuntimeController --------------------------
(***************************************************************************)
(* The runtime mode of RuntimeController (app/runtime/controller.py): the  *)
(* window of outcomes, the mode, its reasons, the time of the last change  *)
(* and the in-flight counters.  Every method body runs under self._lock    *)
(* and has no await inside, so each is one atomic step here.               *)
(*                                                                         *)
(* The methods are operators over this state; the modules that EXTEND this *)
(* one call them from the request handlers and the health endpoints.       *)
(***************************************************************************)
EXTENDS RequestWindow

CONSTANTS
    RecoverySeconds,      \* settings.runtime_recovery_seconds, in ticks
    Levels,               \* the process samples considered, a part of Level
    CounterCap            \* where the statistics counters stop (a bound)

ASSUME ControllerAssumption ==
    /\ RecoverySeconds \in Nat
    /\ Levels \subseteq Level
    /\ "low" \in Levels
    /\ CounterCap \in Nat

VARIABLES
    recent,               \* _recent
    mode,                 \* _mode
    reasons,              \* _mode_reasons
    sinceChange,          \* now - _last_mode_change_at, see ControllerInit
    transitions,          \* _mode_transitions
    inFlight,             \* _in_flight_chat and _in_flight_embeddings
    sampled               \* _last_process_wall is not None

controllerVars ==
    <<recent, mode, reasons, sinceChange, transitions, inFlight, sampled>>

Mode == {"normal", "elevated", "degraded"}

Transition == {t \in Mode \X Mode : t[1] # t[2]}

(* A statistics counter: never read by the code that updates it. *)
Bump(n) == IF n < CounterCap THEN n + 1 ELSE n

ControllerTypeOK ==
    /\ recent \in Seq(RequestOutcome)
    /\ mode \in Mode
    /\ reasons \in SUBSET Reason
    /\ sinceChange \in 0..RecoverySeconds
    /\ transitions \in [Transition -> Nat]
    /\ inFlight \in [Endpoint -> Nat]
    /\ sampled \in BOOLEAN

(***************************************************************************)
(* __init__ (and reset, which the tests call).  Without a last change the  *)
(* recovery interval counts as elapsed, exactly as with one that is old    *)
(* enough: both are sinceChange = RecoverySeconds.                         *)
(***************************************************************************)
ControllerInit ==
    /\ recent = << >>
    /\ mode = "normal"
    /\ reasons = {}
    /\ sinceChange = RecoverySeconds
    /\ transitions = [t \in Transition |-> 0]
    /\ inFlight = [e \in Endpoint |-> 0]
    /\ sampled = FALSE

-----------------------------------------------------------------------------
(* The passage of time, seen by the timestamps the controller keeps. *)
Age == /\ recent' = Aged(recent)
       /\ sinceChange' = IF sinceChange < RecoverySeconds
                         THEN sinceChange + 1 ELSE sinceChange

(* _sample_process_pressure: the first sample has no interval to measure. *)
CpuSamples == IF sampled THEN Levels ELSE {"low"}

(* Mutant of RecoveryElapsed that forgets the interval. *)
RecoveryIgnored == TRUE

RecoveryElapsed == sinceChange >= RecoverySeconds

(* The mode one level below m, for a controller under no pressure. *)
StepDown(m) == IF m = "degraded" THEN "elevated" ELSE "normal"

(* _recompute_mode: the mode that the pressure asks for. *)
NextMode(hard, soft) ==
    IF hard THEN "degraded"
    ELSE IF soft /\ mode # "degraded" THEN "elevated"
    ELSE IF RecoveryElapsed THEN StepDown(mode)
    ELSE mode

(* Mutant of SetMode that moves the mode before it names the transition. *)
SetModeUncounted(m) ==
    /\ mode' = m
    /\ sinceChange' = IF m = mode THEN sinceChange ELSE 0
    /\ UNCHANGED transitions

(* Mutant of SetMode without the early return for an unchanged mode. *)
SetModeRestamped(m) ==
    /\ mode' = m
    /\ transitions' = IF m = mode THEN transitions
                      ELSE [transitions EXCEPT ![<<mode, m>>] = Bump(@)]
    /\ sinceChange' = 0

(* _set_mode *)
SetMode(m) ==
    /\ mode' = m
    /\ transitions' = IF m = mode THEN transitions
                      ELSE [transitions EXCEPT ![<<mode, m>>] = Bump(@)]
    /\ sinceChange' = IF m = mode THEN sinceChange ELSE 0

(* _request_started_locked *)
RequestStarted(e) == inFlight' = [inFlight EXCEPT ![e] = @ + 1]

(* Mutant of Released that gives nothing back. *)
ReleasedNever(e) == inFlight

(* Mutant of Released that gives the slot back twice, unclamped. *)
ReleasedTwice(e) == [inFlight EXCEPT ![e] = @ - 2]

Released(e) ==
    [inFlight EXCEPT ![e] = IF @ > 0 THEN @ - 1 ELSE 0]

(***************************************************************************)
(* request_finished: the slot is given back, the outcome appended and the  *)
(* window pruned, the mode recomputed from it and the reasons refreshed.   *)
(* The process is sampled twice; the second sample is taken for the same   *)
(* instant, so it repeats the cpu reading, but reads the memory again:     *)
(* rss is what the reasons see, rssAgain what the mode sees.               *)
(***************************************************************************)
RequestFinished(e, result) ==
    \E cpu \in CpuSamples, rss \in Levels, rssAgain \in Levels,
       window \in {Prune(Append(recent, NewOutcome(e, result)))},
       held \in {Released(e)} :
        /\ inFlight' = held
        /\ recent' = window
        /\ SetMode(NextMode(IsHardPressure(window, held, cpu, rssAgain),
                            IsSoftPressure(window, held, cpu, rssAgain)))
        /\ reasons' = ReasonsFor(window, held, cpu, rss)
        /\ sampled' = TRUE

(***************************************************************************)
(* snapshot, behind /health, /readyz, /runtimez and /metrics: it prunes    *)
(* and refreshes the reasons, and leaves the mode as it is.                *)
(***************************************************************************)
Snapshot ==
    \E cpu \in CpuSamples, rss \in Levels, window \in {Prune(recent)} :
        /\ recent' = window
        /\ reasons' = ReasonsFor(window, inFlight, cpu, rss)
        /\ sampled' = TRUE
        /\ UNCHANGED <<mode, sinceChange, transitions, inFlight>>

=============================================================================
