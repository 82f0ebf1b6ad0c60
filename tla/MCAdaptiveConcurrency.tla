----------------------- MODULE MCAdaptiveConcurrency ------------------------
(* The instances of AdaptiveConcurrency that TLC checks. *)
EXTENDS AdaptiveConcurrency

TheLatencies == {1, 5, 9}

Good == [latency |-> 1, retryable |-> FALSE, timedOut |-> FALSE]
Slow == [latency |-> 9, retryable |-> FALSE, timedOut |-> FALSE]
Failed == [latency |-> 1, retryable |-> TRUE, timedOut |-> FALSE]
TimedOut == [latency |-> 1, retryable |-> FALSE, timedOut |-> TRUE]

AllEnds == {Good, Slow, Failed, TimedOut}

=============================================================================
