------------------------- MODULE MCRequestAdmission --------------------------
(***************************************************************************)
(* Values of the constants of RequestAdmission for TLC.  Three chat and    *)
(* two embeddings requests are named; a configuration chooses which of     *)
(* them are sent.                                                          *)
(***************************************************************************)
EXTENDS RequestAdmission, TLC

CONSTANTS c1, c2, c3, c4, e1, e2, e3

ChatRequests == {c1, c2, c3, c4}

MCEndpointOf ==
    [r \in Requests |-> IF r \in ChatRequests THEN "chat" ELSE "embeddings"]

\* e1 is small, e2 too large for degraded mode, e3 too large for any.
MCInputs == [r \in Requests |-> CASE r = e2 -> 2 [] r = e3 -> 3 [] OTHER -> 1]

Both(chat, embeddings) ==
    [e \in Endpoint |-> IF e = "chat" THEN chat ELSE embeddings]

One == Both(1, 1)
OneTwo == Both(1, 2)
Two == Both(2, 2)
Zero == Both(0, 0)
Never == Both(100, 100)

\* Latencies 1, 5 and 9 lie below, between and above these limits.
SoftLimit == Both(4, 4)
HardLimit == Both(8, 8)

Ended(latency, retryable) ==
    [latency |-> latency, retryable |-> retryable, timedOut |-> FALSE]

AnyResult == Both({Ended(1, FALSE), Ended(5, FALSE), Ended(9, FALSE)},
                  {Ended(1, FALSE), Ended(1, TRUE)})
GoodOrFailed == Both({Ended(1, FALSE), Ended(1, TRUE)},
                     {Ended(1, FALSE), Ended(1, TRUE)})
OnlyGood == Both({Ended(1, FALSE)}, {Ended(1, FALSE)})

\* Requests to the same endpoint with the same inputs are interchangeable.
SameRequests == Permutations({c1, c2, c3, c4} \cap Requests)

=============================================================================
