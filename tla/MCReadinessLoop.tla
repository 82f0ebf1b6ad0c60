--------------------------- MODULE MCReadinessLoop ---------------------------
(***************************************************************************)
(* Values of the constants of ReadinessLoop for TLC: chat clients only.    *)
(***************************************************************************)
EXTENDS ReadinessLoop

MCEndpointOf == [r \in Requests |-> "chat"]
MCInputs == [r \in Requests |-> 1]

Both(chat, embeddings) ==
    [e \in Endpoint |-> IF e = "chat" THEN chat ELSE embeddings]

One == Both(1, 1)
Never == Both(100, 100)
SoftLimit == Both(4, 4)
HardLimit == Both(8, 8)

Ended(latency) == [latency |-> latency, retryable |-> FALSE, timedOut |-> FALSE]

FastOrHard == Both({Ended(1), Ended(9)}, {})

=============================================================================
