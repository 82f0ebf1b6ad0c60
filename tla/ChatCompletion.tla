---------------------------- MODULE ChatCompletion ----------------------------
(***************************************************************************)
(* A chat request from the route that looks up its model                   *)
(* (app/routes/chat.py), through the slot that RequestAdmission is about,  *)
(* to the service that holds it (app/services/vertex_chat.py): the whole   *)
(* answer with its retries (create_chat_completion), or the stream         *)
(* (create_chat_completion_stream), an async generator that Starlette      *)
(* drives: it sends the headers of the 200 first, then runs the generator  *)
(* from yield to yield, and abandons it when the client goes away.  A step *)
(* runs from one await, or yield, to the next.                             *)
(***************************************************************************)
EXTENDS Upstream, ModeEnvironment, ModelRegistry

CONSTANTS
    Configurations,       \* settings that the process may be given
    Names,                \* model names that clients ask for
    RetryAttempts,        \* settings.chat_retry_attempts
    RuntimeAdaptive,      \* settings.runtime_adaptive_mode
    Answers               \* how a call can end, a part of Outcome

ASSUME ChatAssumption ==
    /\ Configurations \subseteq Configuration
    /\ Names \subseteq STRING
    /\ RetryAttempts \in Nat
    /\ RuntimeAdaptive \in BOOLEAN
    /\ Answers \subseteq Outcome

VARIABLES
    config,               \* the settings the process started with
    asked,                \* payload.model, Blank when it is left out
    model,                \* the model Vertex is called with, body["model"]
    runtimeMode,          \* runtime_controller.current_mode()
    streams,              \* payload.stream
    place,                \* where the request is
    firstMode,            \* the mode at the first call
    budget,               \* max_attempts
    calls,                \* the calls made to Vertex
    complete,             \* the upstream said [DONE] (saw_done)
    client,               \* what the client knows of the end
    cause,                \* how the last call ended
    reports               \* what request_finished was told, each time

payloadVars == <<config, asked, streams>>
callVars == <<payloadVars, model, firstMode, budget, calls>>
endVars == <<complete, client, cause, reports>>
vars == <<runtimeMode, place, callVars, endVars>>

Place == {"new", "ready", "calling", "backoff", "reading", "yielded", "abandoned", "over"}

Init ==
    /\ config \in {s \in Configurations : Starts(s)}
    /\ asked \in Names
    /\ model = Blank
    /\ runtimeMode \in RuntimeMode
    /\ streams \in BOOLEAN
    /\ place = "new"
    /\ firstMode = runtimeMode
    /\ budget = 1
    /\ calls = 0
    /\ complete = FALSE
    /\ client = "waits"
    /\ cause = "ok"
    /\ reports = << >>

(* Other requests end and may change the mode at any time. *)
ModeTurns ==
    /\ runtimeMode' \in Turns(runtimeMode)
    /\ UNCHANGED <<place, callVars, endVars>>

(* Mutant of Finish that returns before the finally clause. *)
FinishUnreported(o, retries, told) ==
    /\ place' = "over"
    /\ cause' = o
    /\ client' = told
    /\ UNCHANGED <<runtimeMode, callVars, complete, reports>>

(* The except clause for o, finally, and what the client is left with. *)
Finish(o, retries, told) ==
    /\ place' = "over"
    /\ cause' = o
    /\ client' = told
    /\ reports' = Append(reports, ReportOf(o, retries))
    /\ UNCHANGED <<runtimeMode, callVars>>

-----------------------------------------------------------------------------
(***************************************************************************)
(* ensure_supported_model, before the route asks for a slot: a model that  *)
(* no one configured is answered 400.  What happens to the others until    *)
(* they hold a slot, or are shed, is RequestAdmission.                     *)
(***************************************************************************)
Accept ==
    /\ place = "new"
    /\ ChatAccepts(config, asked)
    /\ place' = "ready"
    /\ UNCHANGED <<runtimeMode, callVars, endVars>>

Reject ==
    /\ place = "new"
    /\ ~ChatAccepts(config, asked)
    /\ place' = "over"
    /\ client' = "envelope"
    /\ UNCHANGED <<runtimeMode, callVars, complete, cause, reports>>

-----------------------------------------------------------------------------
(* create_chat_completion and _chat_request_with_retry. *)

(* Mutant of MaxAttempts that retries in degraded mode as in elevated. *)
MaxAttemptsElevated(mode) ==
    IF RuntimeAdaptive /\ mode # "normal"
    THEN IF RetryAttempts > 1 THEN RetryAttempts ELSE 1
    ELSE RetryAttempts + 1

MaxAttempts(mode) ==
    IF RuntimeAdaptive /\ mode = "degraded" THEN 1
    ELSE IF RuntimeAdaptive /\ mode = "elevated"
         THEN IF RetryAttempts > 1 THEN RetryAttempts ELSE 1
    ELSE RetryAttempts + 1

Call ==
    /\ place = "ready"
    /\ ~streams
    /\ place' = "calling"
    /\ model' = Resolve(config, asked)
    /\ firstMode' = runtimeMode
    /\ budget' = MaxAttempts(runtimeMode)
    /\ calls' = 1
    /\ UNCHANGED <<runtimeMode, payloadVars, endVars>>

Answered ==
    /\ place = "calling"
    /\ ~streams
    /\ "ok" \in Answers
    /\ Finish("ok", calls - 1, "answer")
    /\ UNCHANGED complete

(* Mutant of Retried that forgets which failures are safe to retry. *)
RetriedAnyhow(o) == o # "ok" /\ calls < budget

(* Mutant of Retried that passes the budget by one. *)
RetriedOnceMore(o) == Retryable(o) /\ calls <= budget

Retried(o) == Retryable(o) /\ calls < budget

BackOff ==
    /\ place = "calling"
    /\ ~streams
    /\ \E o \in Answers : Retried(o) /\ cause' = o
    /\ place' = "backoff"
    /\ UNCHANGED <<runtimeMode, callVars, complete, client, reports>>

CallAgain ==
    /\ place = "backoff"
    /\ place' = "calling"
    /\ calls' = calls + 1
    /\ UNCHANGED <<runtimeMode, payloadVars, model, firstMode, budget, endVars>>

(* The retries are known once the last call returned a parsed body, which  *)
(* may still be refused, or break the service.                             *)
RetriesKnown(o) ==
    CASE o = "malformed" -> {calls - 1}
      [] o = "garbled"   -> {0, calls - 1}
      [] OTHER           -> {0}

Fail ==
    /\ place = "calling"
    /\ ~streams
    /\ \E o \in Answers \cap Failure :
          /\ ~Retried(o)
          /\ \E n \in RetriesKnown(o) : Finish(o, n, "envelope")
    /\ UNCHANGED complete

-----------------------------------------------------------------------------
(* create_chat_completion_stream, run by StreamingResponse. *)
Open ==
    /\ place = "ready"
    /\ streams
    /\ place' = "calling"
    /\ model' = Resolve(config, asked)
    /\ firstMode' = runtimeMode
    /\ calls' = 1
    /\ UNCHANGED <<runtimeMode, payloadVars, budget, endVars>>

(* The client goes before the generator has run at all: nothing runs. *)
LeaveEarly ==
    /\ place = "ready"
    /\ streams
    /\ place' = "over"
    /\ client' = "gone"
    /\ UNCHANGED <<runtimeMode, callVars, complete, cause, reports>>

Opened ==
    /\ place = "calling"
    /\ streams
    /\ "ok" \in Answers
    /\ place' = "reading"
    /\ UNCHANGED <<runtimeMode, callVars, endVars>>

OpenFails ==
    /\ place = "calling"
    /\ streams
    /\ \E o \in Answers \ {"ok", "malformed", "garbled"} : Finish(o, 0, "broken")
    /\ UNCHANGED complete

Chunk ==
    /\ place = "reading"
    /\ place' = "yielded"
    /\ UNCHANGED <<runtimeMode, callVars, endVars>>

Resume ==
    /\ place = "yielded"
    /\ place' = "reading"
    /\ UNCHANGED <<runtimeMode, callVars, endVars>>

(* [DONE] or the end of the lines: finally, then the proxy's own [DONE]. *)
StreamEnds ==
    /\ place = "reading"
    /\ complete' \in BOOLEAN
    /\ Finish("ok", 0, "done")

StreamFails ==
    /\ place = "reading"
    /\ \E o \in Answers \cap {"malformed", "garbled", "unanswered"} :
          Finish(o, 0, "broken")
    /\ UNCHANGED complete

(***************************************************************************)
(* The client goes while the generator awaits the upstream: the await is   *)
(* cancelled, which no except clause catches, so finally reports a 200.    *)
(* When it goes during a yield, the generator is closed by the event loop  *)
(* some time later.                                                        *)
(***************************************************************************)
LeaveReading ==
    /\ streams
    /\ place \in {"calling", "reading"}
    /\ Finish("ok", 0, "gone")
    /\ UNCHANGED complete

(* Mutant of LeaveYielded whose generator is dropped without being closed. *)
LeaveYieldedUnclosed ==
    /\ place = "yielded"
    /\ place' = "over"
    /\ client' = "gone"
    /\ UNCHANGED <<runtimeMode, callVars, complete, cause, reports>>

LeaveYielded ==
    /\ place = "yielded"
    /\ place' = "abandoned"
    /\ client' = "gone"
    /\ UNCHANGED <<runtimeMode, callVars, complete, cause, reports>>

Collected ==
    /\ place = "abandoned"
    /\ Finish("ok", 0, "gone")
    /\ UNCHANGED complete

-----------------------------------------------------------------------------
UpstreamTurn == Answered \/ BackOff \/ Fail \/ Opened \/ OpenFails

StreamTurn == StreamEnds \/ StreamFails

Next == \/ ModeTurns
        \/ Accept \/ Reject
        \/ Call \/ CallAgain \/ Open \/ Chunk \/ Resume
        \/ UpstreamTurn \/ StreamTurn
        \/ LeaveEarly \/ LeaveReading \/ LeaveYielded \/ Collected

(***************************************************************************)
(* The event loop runs what is due; a call ends, at the latest with the    *)
(* client's timeout; and an answer is finite, so that a stream which is    *)
(* read over and over comes to its end.  Resume assumes a client that      *)
(* reads on or leaves: the code sets no limit to one that does neither.    *)
(***************************************************************************)
Fairness == /\ WF_vars(Accept \/ Reject \/ Call \/ CallAgain \/ Open \/ Resume)
            /\ WF_vars(UpstreamTurn)
            /\ SF_vars(StreamTurn)
            /\ WF_vars(Collected)

Spec == Init /\ [][Next]_vars /\ Fairness

-----------------------------------------------------------------------------
(* Type correctness: where every variable takes its values. *)
TypeOK ==
    /\ config \in Configurations /\ Starts(config)
    /\ asked \in Names
    /\ model \in {Blank} \cup Allowed(config)
    /\ runtimeMode \in RuntimeMode /\ firstMode \in RuntimeMode
    /\ streams \in BOOLEAN /\ complete \in BOOLEAN
    /\ place \in Place
    /\ budget \in 1..(RetryAttempts + 1)
    /\ calls \in 0..(RetryAttempts + 1)
    /\ client \in {"waits", "answer", "envelope", "done", "broken", "gone"}
    /\ cause \in Outcome
    /\ reports \in Seq(Report)

(***************************************************************************)
(* A chat request implements a SlotHolder: it gives back the slot that it  *)
(* began to use, once and with one report that agrees with what its client *)
(* was told, from whichever await or yield it ends; a slot is lost only    *)
(* with a stream that never began.                                         *)
(***************************************************************************)
Slot ==
    CASE place = "new"                  -> "none"
      [] place = "ready"                -> "held"
      [] place = "over" /\ calls > 0    -> "returned"
      [] place = "over" /\ calls = 0    -> IF client = "gone" THEN "lost" ELSE "none"
      [] OTHER                          -> "used"

Told ==
    CASE client = "waits"               -> "nothing"
      [] client = "gone"                -> "gone"
      [] client \in {"answer", "done"}  -> "success"
      [] OTHER                          -> "failure"

Holder == INSTANCE SlotHolder WITH
            slot <- Slot, told <- Told, said <- reports,
            Successes <- {r \in Report : Class(r.status) = 2},
            Failures <- {r \in Report : Class(r.status) # 2}

ImplementsSlotHolder == Holder!Spec

(***************************************************************************)
(* The controller's status counts agree with what clients see, although    *)
(* the except clauses of the service and the exception handlers of the app *)
(* are two separate ladders: an envelope is reported in its own class, and *)
(* a request is reported as a success only if it did not fail.             *)
(***************************************************************************)
ReportMatchesAnswer ==
    \A i \in DOMAIN reports :
        /\ client = "envelope"
             => Class(reports[i].status) = Class(EnvelopeStatus(cause))
        /\ client \in {"envelope", "broken"} => Class(reports[i].status) # 2
        /\ client \in {"answer", "done"} => Class(reports[i].status) = 2

(***************************************************************************)
(* docs/compatibility.md:21: aliases are resolved to raw model ids before  *)
(* the call.  Vertex is called with a configured model and never with an   *)
(* alias, and a client that names a configured model gets that one, not    *)
(* what an alias of the same name stands for.                              *)
(***************************************************************************)
UpstreamModelConfigured ==
    calls > 0 => /\ model \in Allowed(config) \ Aliases(config)
                 /\ asked \in Allowed(config) => model = asked

(***************************************************************************)
(* docs/compatibility.md:81: the list is the allowlist.  Each listed id is *)
(* accepted by the endpoint of its kind and stands there for the target it *)
(* is listed with; each name that an endpoint accepts is listed with its   *)
(* kind, except for a chat name that is the embedding model's id too.      *)
(***************************************************************************)
ListingHonoured ==
    LET list == Listed(config)
    IN  /\ \A id \in DOMAIN list :
              IF list[id].kind = "embedding" THEN EmbeddingAccepts(config, id)
              ELSE /\ ChatAccepts(config, id)
                   /\ Resolve(config, id) =
                         IF list[id].target = Blank THEN id ELSE list[id].target
        /\ \A id \in Names \ {Blank} :
              /\ EmbeddingAccepts(config, id)
                   => id \in DOMAIN list /\ list[id].kind = "embedding"
              /\ ChatAccepts(config, id) /\ ~EmbeddingAccepts(config, id)
                   => id \in DOMAIN list /\ list[id].kind = "chat"

(***************************************************************************)
(* tests/test_runtime_chat_policy.py: a request that meets degraded mode   *)
(* is not retried, nor is a stream; no request passes the budget of the    *)
(* mode it met, and one that fails on a retryable status used it up.       *)
(***************************************************************************)
BudgetOfMode ==
    /\ streams => calls <= 1
    /\ RuntimeAdaptive /\ firstMode = "degraded" => calls <= 1
    /\ RuntimeAdaptive /\ firstMode = "elevated" /\ calls > 1 => calls <= RetryAttempts
    /\ client = "envelope" /\ Retryable(cause) => calls = MaxAttempts(firstMode)

(***************************************************************************)
(* docs/compatibility.md:62: only retry-safe failures are retried.         *)
(***************************************************************************)
OnlySafeRetries ==
    [][calls > 0 /\ calls' > calls => Retryable(cause)]_vars

(* A request that began to call Vertex is reported in the end. *)
ReportedInTheEnd == calls > 0 ~> reports # << >>

(***************************************************************************)
(* docs/architecture.md:58: failure rather than partial success.  A client *)
(* is told that the stream is done only if the upstream said so.           *)
(***************************************************************************)
DoneIsComplete == client = "done" => complete

=============================================================================
