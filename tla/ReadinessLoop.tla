---------------------------- MODULE ReadinessLoop ----------------------------
(***************************************************************************)
(* One replica in service: clients that keep sending requests, an upstream *)
(* that may fail for a while, the readiness probe of Kubernetes on /readyz *)
(* and the traffic it routes.  The mode is recomputed only when a request  *)
(* ends, the probe reads it, and the probe decides whether requests come:  *)
(* the question is whether the loop recovers.                              *)
(***************************************************************************)
EXTENDS RequestAdmission

CONSTANT ReadinessFailOnDegraded   \* settings.readiness_fail_on_degraded

ASSUME ReadinessAssumption == ReadinessFailOnDegraded \in BOOLEAN

VARIABLES
    upstream,             \* Vertex AI: "ok" or "failing"
    routed                \* whether the replica is sent new requests

loopVars == <<vars, upstream, routed>>

(* Type correctness of the replica and its surroundings. *)
LoopTypeOK == /\ TypeOK
              /\ upstream \in {"ok", "failing"}
              /\ routed \in BOOLEAN

LoopInit == /\ Init
            /\ upstream = "ok"
            /\ routed = TRUE

-----------------------------------------------------------------------------
(* snapshot's "ready", which /readyz turns into 200 or 503. *)
Ready == ~(ReadinessFailOnDegraded /\ mode = "degraded")

(* A request reaches the replica only while it is routed to. *)
RoutedArrival(r) ==
    /\ routed
    /\ Arrive(r)
    /\ UNCHANGED <<upstream, routed>>

LoopPoll(r) ==
    /\ Poll(r)
    /\ UNCHANGED <<upstream, routed>>

Healthy(e, result) == /\ result.latency <= SoftLatency[e]
                      /\ ~result.retryable
                      /\ ~result.timedOut

(* A healthy upstream gives healthy answers; a failing one gives any. *)
Answer(r) ==
    /\ \E result \in Results[EndpointOf[r]] :
           /\ upstream = "ok" => Healthy(EndpointOf[r], result)
           /\ FinishWith(r, result)
    /\ UNCHANGED <<upstream, routed>>

(* The client has its answer and sends its next request. *)
Reissue(r) ==
    /\ pc[r] \in {"done", "shed", "invalid"}
    /\ pc' = [pc EXCEPT ![r] = "new"]
    /\ verdict' = [verdict EXCEPT ![r] = "none"]
    /\ UNCHANGED <<controllerVars, waited, slept, queueVars>>
    /\ UNCHANGED <<upstream, routed>>

UpstreamTurns ==
    /\ upstream' \in {"ok", "failing"} \ {upstream}
    /\ UNCHANGED <<vars, routed>>

(* GET /readyz by the kubelet, and what the service's endpoints become. *)
Probe ==
    /\ Scrape
    /\ routed' = Ready
    /\ UNCHANGED upstream

LoopTick ==
    /\ Tick
    /\ UNCHANGED <<upstream, routed>>

(* A request is at one place: at most one of these is enabled for it. *)
Proceed(r) == RoutedArrival(r) \/ LoopPoll(r) \/ Answer(r) \/ Reissue(r)

LoopNext ==
    \/ \E r \in Requests : Proceed(r)
    \/ UpstreamTurns
    \/ Probe
    \/ LoopTick

(***************************************************************************)
(* The event loop and the clock as in Fairness; the kubelet keeps probing; *)
(* clients keep sending requests for as long as they are routed.           *)
(***************************************************************************)
LoopFairness ==
    /\ WF_loopVars(LoopTick)
    /\ WF_loopVars(Probe)
    /\ \A r \in Requests : WF_loopVars(Proceed(r))

LoopSpec == LoopInit /\ [][LoopNext]_loopVars /\ LoopFairness

-----------------------------------------------------------------------------
(***************************************************************************)
(* Once the upstream stays healthy the replica returns to normal mode, and *)
(* stays there: the failures it remembers leave the window, and each       *)
(* recovery interval ends while requests still come to recompute the mode. *)
(***************************************************************************)
ReturnsToNormal == <>[](upstream = "ok") => <>[](mode = "normal")

=============================================================================
