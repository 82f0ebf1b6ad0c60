------------------------------- MODULE Upstream -------------------------------
(***************************************************************************)
(* A call to Vertex AI as the two services see it (app/services/           *)
(* http_client.py): how it can end, which ends are retried, what the       *)
(* except clauses of the services make of the end that a request dies of   *)
(* when they report to RuntimeController.request_finished, and what the    *)
(* exception handlers of app/main.py make of it for the client.            *)
(***************************************************************************)
EXTENDS Naturals

(***************************************************************************)
(*   "ok"            2xx with a usable body                                *)
(*   "malformed"     2xx that the service refuses, HTTPException 502       *)
(*   "garbled"       2xx whose body is no JSON, or breaks the service      *)
(*   "throttled"     VertexUpstreamError, 429                              *)
(*   "busy"          VertexUpstreamError, 500, 502, 503 or 504             *)
(*   "unauthorized"  VertexUpstreamError, 401 or 403                       *)
(*   "refused"       VertexUpstreamError, any other status, 4xx as a rule   *)
(*   "unanswered"    httpx.TimeoutException after REQUEST_TIMEOUT_SECONDS  *)
(*   "noToken"       VertexAuthError, no access token could be had         *)
(***************************************************************************)
UpstreamStatus ==
    [throttled |-> 429, busy |-> 503, unauthorized |-> 401, refused |-> 400]

Outcome == {"ok", "malformed", "garbled", "unanswered", "noToken"}
             \cup DOMAIN UpstreamStatus

Failure == Outcome \ {"ok"}

(* is_retryable_upstream_error *)
Retryable(o) == o \in {"throttled", "busy"}

(* Mutant of ReportedStatus without the clause for any other exception. *)
ReportedStatusNamed(o) ==
    CASE o \in DOMAIN UpstreamStatus -> UpstreamStatus[o]
      [] o = "malformed"             -> 502
      [] OTHER                       -> 200

(* upstream_status after the except clauses. *)
ReportedStatus(o) ==
    CASE o = "ok"                    -> 200
      [] o \in DOMAIN UpstreamStatus -> UpstreamStatus[o]
      [] o = "malformed"             -> 502
      [] OTHER                       -> 500

(* The status of the envelope by the exception handlers of the app. *)
EnvelopeStatus(o) ==
    CASE o \in DOMAIN UpstreamStatus -> UpstreamStatus[o]
      [] o = "malformed"             -> 502
      [] o = "noToken"               -> 503
      [] OTHER                       -> 500

(* The status classes that /metrics and /runtimez count. *)
Class(status) == status \div 100

(* What request_finished is told, apart from the latency. *)
Report == [status : Nat, retryable : BOOLEAN, timedOut : BOOLEAN,
           auth : BOOLEAN, retries : Nat]

(***************************************************************************)
(* The except clauses.  timed_out is set for HTTPException 504, which      *)
(* nothing raises, and, for embeddings, for the built-in TimeoutError,     *)
(* which httpx.TimeoutException does not derive from: an unanswered call   *)
(* falls through to "except Exception".                                    *)
(***************************************************************************)
ReportOf(o, retries) ==
    [status |-> ReportedStatus(o), retryable |-> Retryable(o), timedOut |-> FALSE,
     auth |-> o = "unauthorized", retries |-> retries]

=============================================================================
