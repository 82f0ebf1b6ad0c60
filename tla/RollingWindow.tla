---------------------------- MODULE RollingWindow -----------------------------
(***************************************************************************)
(* A rolling window of outcomes, as RuntimeController                      *)
(* (app/runtime/controller.py) and AdaptiveConcurrencyController           *)
(* (app/services/adaptive_concurrency.py) each keep one: pruning, the p95  *)
(* of the latencies and the error rates.  Pure definitions, no state.      *)
(*                                                                         *)
(* A timestamp is kept as an age, now - timestamp, in ticks; ages stop     *)
(* growing one tick past the window, where the next prune drops the entry. *)
(* Latencies are natural numbers and rates are compared as percentages     *)
(* without the code's rounding to six digits.                              *)
(***************************************************************************)
EXTENDS Integers, Sequences, FiniteSets

CONSTANTS
    WindowSize,           \* how many outcomes are kept
    WindowSeconds,        \* how long an outcome is kept, in ticks
    Latencies             \* the latencies a request can show

ASSUME WindowAssumption ==
    /\ WindowSize \in Nat
    /\ WindowSeconds \in Nat
    /\ Latencies \subseteq Nat

MaxAge == WindowSeconds + 1

(***************************************************************************)
(* What is remembered of how a request ended.  Its status code, auth flag  *)
(* and retry count are only reported by /metrics and its success flag is   *)
(* never read; no decision depends on them, so they are left out.          *)
(***************************************************************************)
Result == [latency : Latencies, retryable : BOOLEAN, timedOut : BOOLEAN]

(* One tick of the clock seen by the entries of the window. *)
Aged(s) ==
    [i \in DOMAIN s |-> [s[i] EXCEPT !.age = IF @ < MaxAge THEN @ + 1 ELSE @]]

-----------------------------------------------------------------------------
(* Mutant of Prune that pops no more than one entry for its age. *)
PruneOne(s) ==
    LET t == IF Len(s) > WindowSize THEN Tail(s) ELSE s
    IN  IF t # << >> /\ t[1].age > WindowSeconds THEN Tail(t) ELSE t

(* Mutant of NewestOnly with the comparison off by one. *)
NewestOnlyLate(s) ==
    IF Len(s) > WindowSize + 1 THEN SubSeq(s, Len(s) - WindowSize, Len(s)) ELSE s

(***************************************************************************)
(* _prune: first the size, then entries popped from the left while the     *)
(* oldest is older than the window.                                        *)
(***************************************************************************)
NewestOnly(s) ==
    IF Len(s) > WindowSize THEN SubSeq(s, Len(s) - WindowSize + 1, Len(s))
                           ELSE s

Fresh(s) == {i \in DOMAIN s : s[i].age <= WindowSeconds}

Prune(s) ==
    LET t == NewestOnly(s)
    IN  IF Fresh(t) = {} THEN << >>
        ELSE LET first == CHOOSE i \in Fresh(t) : \A j \in Fresh(t) : i <= j
             IN  SubSeq(t, first, Len(t))

(* What the pruning from the left relies on: the oldest comes first. *)
OldestFirst(s) == \A i, j \in DOMAIN s : i <= j => s[j].age <= s[i].age

AllFresh(s) == Fresh(s) = DOMAIN s

-----------------------------------------------------------------------------
(***************************************************************************)
(* The p95 of statistics.quantiles(latencies, n=100, method="inclusive"):  *)
(* with m + 1 values in ascending order v[0..m], 95 * m is divided by 100  *)
(* into j and d, and the result interpolates between v[j] and v[j + 1].    *)
(* A single latency is its own p95.  The result is scaled by 100.          *)
(***************************************************************************)
Ordered(s, I, k) ==
    CHOOSE v \in {s[i].result.latency : i \in I} :
        /\ Cardinality({i \in I : s[i].result.latency < v}) <= k
        /\ k < Cardinality({i \in I : s[i].result.latency <= v})

P95x100(s, I) ==
    LET m == Cardinality(I) - 1
        j == (95 * m) \div 100
        d == (95 * m) % 100
    IN  IF m = 0 THEN 100 * Ordered(s, I, 0)
        ELSE Ordered(s, I, j) * (100 - d) + Ordered(s, I, j + 1) * d

(* Mutant of ErrorsAbove for which a rate on the threshold is above it. *)
ErrorsReach(s, pct) ==
    100 * Cardinality({i \in DOMAIN s : s[i].result.retryable}) >= pct * Len(s)

ErrorsAbove(s, pct) ==
    100 * Cardinality({i \in DOMAIN s : s[i].result.retryable}) > pct * Len(s)

TimeoutsAbove(s, pct) ==
    100 * Cardinality({i \in DOMAIN s : s[i].result.timedOut}) > pct * Len(s)

=============================================================================
