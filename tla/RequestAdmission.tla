-------------------------- MODULE RequestAdmission ---------------------------
(***************************************************************************)
(* The life of the requests to /v1/chat/completions and /v1/embeddings:    *)
(* admission with the in-flight caps and the bounded queue                 *)
(* (RuntimeController.acquire_request_slot), the run, and the release of   *)
(* the slot (request_finished).  The process is one asyncio event loop, so *)
(* a handler runs without interruption between two awaits and a step here  *)
(* is what happens from one await to the next:                             *)
(*                                                                         *)
(*   "new" -- arrival --> "queued"    asleep in the poll loop              *)
(*                        "running"   holds a slot, awaiting the upstream  *)
(*                        "shed"      answered 429                         *)
(*                        "invalid"   answered 400, see Start              *)
(*   "queued" -- poll --> "queued", "running", "shed" or "invalid"         *)
(*   "running" --> "done"             answered, slot given back            *)
(*             --> "abandoned"        a stream that never began, see Abandon *)
(***************************************************************************)
EXTENDS RuntimeController

CONSTANTS
    Requests,             \* the requests that clients send
    EndpointOf,           \* the endpoint each of them is sent to
    Inputs,               \* its number of inputs (1 for chat)
    Results,              \* per endpoint, how a request can end
    MaxInFlight,          \* settings.*_max_in_flight_requests
    DegradedMaxInFlight,  \* settings.runtime_degraded_*_max_in_flight
    DegradedMaxInputs,    \* settings.runtime_degraded_max_embedding_inputs
    MaxInputs,            \* settings.embedding_max_inputs_per_request
    AdaptiveMode,         \* settings.runtime_adaptive_mode
    QueueEnabled,         \* settings.queue_enabled
    QueueDisableOnDegraded, \* settings.queue_disable_on_degraded
    QueueMaxDepth,        \* settings.*_queue_max_depth
    QueueMaxWait,         \* settings.*_queue_max_wait_ms, in ticks
    PollInterval          \* settings.queue_poll_interval_ms, in ticks

ASSUME AdmissionAssumption ==
    /\ IsFiniteSet(Requests)
    /\ EndpointOf \in [Requests -> Endpoint]
    /\ Inputs \in [Requests -> Nat]
    /\ Results \in [Endpoint -> SUBSET Result]
    /\ {MaxInFlight, DegradedMaxInFlight, QueueMaxDepth, QueueMaxWait}
         \subseteq [Endpoint -> Nat]
    /\ {DegradedMaxInputs, MaxInputs, PollInterval} \subseteq Nat
    /\ {AdaptiveMode, QueueEnabled, QueueDisableOnDegraded} \subseteq BOOLEAN

VARIABLES
    pc,                   \* where each request is
    verdict,              \* the reason a shed request was given
    waited,               \* ticks since it entered the queue
    slept,                \* ticks since it last went to sleep
    queued,               \* _queued_chat and _queued_embeddings
    shed,                 \* _request_shed
    queueAdmitted,        \* _queue_admitted_total
    queueTimeouts         \* _queue_timeouts_total

requestVars == <<pc, verdict, waited, slept>>
queueVars == <<queued, shed, queueAdmitted, queueTimeouts>>
vars == <<controllerVars, requestVars, queueVars>>

ShedReason == {"absolute_in_flight_cap", "degraded_in_flight_cap",
               "degraded_input_count", "queue_full", "queue_timeout",
               "queue_disabled_on_degraded"}

Place == {"new", "queued", "running", "shed", "invalid", "abandoned", "done"}

(* Times stop growing where a longer one makes no difference. *)
MaxWaited(r) == QueueMaxWait[EndpointOf[r]] + 1

(* Type correctness: where every variable of the model takes its values. *)
TypeOK ==
    /\ ControllerTypeOK
    /\ pc \in [Requests -> Place]
    /\ verdict \in [Requests -> ShedReason \cup {"none"}]
    /\ waited \in [Requests -> Nat]
    /\ slept \in [Requests -> Nat]
    /\ queued \in [Endpoint -> Nat]
    /\ shed \in [Endpoint \X ShedReason -> Nat]
    /\ queueAdmitted \in [Endpoint -> Nat]
    /\ queueTimeouts \in [Endpoint -> Nat]

Init ==
    /\ ControllerInit
    /\ pc = [r \in Requests |-> "new"]
    /\ verdict = [r \in Requests |-> "none"]
    /\ waited = [r \in Requests |-> 0]
    /\ slept = [r \in Requests |-> 0]
    /\ queued = [e \in Endpoint |-> 0]
    /\ shed = [k \in Endpoint \X ShedReason |-> 0]
    /\ queueAdmitted = [e \in Endpoint |-> 0]
    /\ queueTimeouts = [e \in Endpoint |-> 0]

-----------------------------------------------------------------------------
(* _capacity_decision_locked *)

Tightened == AdaptiveMode /\ mode = "degraded"

(* "reject": an embeddings request too large for the degraded mode. *)
TooLarge(r) == /\ EndpointOf[r] = "embeddings"
               /\ Tightened
               /\ Inputs[r] > DegradedMaxInputs

OverDegraded(e) == Tightened /\ inFlight[e] >= DegradedMaxInFlight[e]

(* The cap in force, the lower one of the two that may apply. *)
EffectiveCap(e) ==
    IF Tightened /\ DegradedMaxInFlight[e] < MaxInFlight[e]
    THEN DegradedMaxInFlight[e] ELSE MaxInFlight[e]

(* Mutant of OverCap with the comparison off by one. *)
OverCapLate(e) == inFlight[e] > MaxInFlight[e]

OverCap(e) == inFlight[e] >= MaxInFlight[e]

(* Mutant of AtCapacity without the degraded cap. *)
AtCapacityAbsolute(e) == OverCap(e)

(* "wait": no slot now; otherwise the decision is "start". *)
AtCapacity(e) == OverCap(e) \/ OverDegraded(e)

(* The two endpoints test their caps in opposite order. *)
CapacityReason(e) ==
    IF OverCap(e) /\ (e = "chat" \/ ~OverDegraded(e))
    THEN "absolute_in_flight_cap" ELSE "degraded_in_flight_cap"

QueueClosed == QueueDisableOnDegraded /\ mode = "degraded"

(* Mutant of QueueFull with the comparison off by one. *)
QueueFullLate(e) == queued[e] > QueueMaxDepth[e]

QueueFull(e) == queued[e] >= QueueMaxDepth[e]

-----------------------------------------------------------------------------
(***************************************************************************)
(* create_embedding_response answers 400 to a request with too many inputs *)
(* before the try whose finally calls request_finished: the slot taken by  *)
(* the route is not given back.  There is no await between the two.        *)
(***************************************************************************)
Oversized(r) == EndpointOf[r] = "embeddings" /\ Inputs[r] > MaxInputs

(* The deadline and the sleep end with the call that holds them. *)
Forget(r) == /\ waited' = [waited EXCEPT ![r] = 0]
             /\ slept' = [slept EXCEPT ![r] = 0]

Start(r) ==
    /\ RequestStarted(EndpointOf[r])
    /\ pc' = [pc EXCEPT ![r] = IF Oversized(r) THEN "invalid" ELSE "running"]
    /\ Forget(r)
    /\ UNCHANGED <<recent, mode, reasons, sinceChange, transitions, sampled>>
    /\ UNCHANGED verdict

(* Mutant of Shed whose count is lost. *)
ShedUncounted(r, why) ==
    /\ pc' = [pc EXCEPT ![r] = "shed"]
    /\ verdict' = [verdict EXCEPT ![r] = why]
    /\ Forget(r)
    /\ UNCHANGED <<controllerVars, shed>>

(* _record_rejection, and the 429 that the route raises from it. *)
Shed(r, why) ==
    /\ pc' = [pc EXCEPT ![r] = "shed"]
    /\ verdict' = [verdict EXCEPT ![r] = why]
    /\ shed' = [shed EXCEPT ![<<EndpointOf[r], why>>] = Bump(@)]
    /\ Forget(r)
    /\ UNCHANGED controllerVars

(***************************************************************************)
(* acquire_request_slot, up to its return or its first sleep.              *)
(***************************************************************************)
StartNow(r) ==
    /\ pc[r] = "new"
    /\ ~TooLarge(r)
    /\ ~AtCapacity(EndpointOf[r])
    /\ Start(r)
    /\ UNCHANGED queueVars

RejectLarge(r) ==
    /\ pc[r] = "new"
    /\ TooLarge(r)
    /\ Shed(r, "degraded_input_count")
    /\ UNCHANGED <<queued, queueAdmitted, queueTimeouts>>

TurnAway(r) ==
    /\ pc[r] = "new"
    /\ ~TooLarge(r)
    /\ AtCapacity(EndpointOf[r])
    /\ \/ /\ ~QueueEnabled
          /\ Shed(r, CapacityReason(EndpointOf[r]))
       \/ /\ QueueEnabled
          /\ QueueClosed
          /\ Shed(r, "queue_disabled_on_degraded")
       \/ /\ QueueEnabled
          /\ ~QueueClosed
          /\ QueueFull(EndpointOf[r])
          /\ Shed(r, "queue_full")
    /\ UNCHANGED <<queued, queueAdmitted, queueTimeouts>>

Enqueue(r) ==
    /\ pc[r] = "new"
    /\ ~TooLarge(r)
    /\ AtCapacity(EndpointOf[r])
    /\ QueueEnabled
    /\ ~QueueClosed
    /\ ~QueueFull(EndpointOf[r])
    /\ pc' = [pc EXCEPT ![r] = "queued"]
    /\ queued' = [queued EXCEPT ![EndpointOf[r]] = @ + 1]
    /\ waited' = [waited EXCEPT ![r] = 0]
    /\ slept' = [slept EXCEPT ![r] = 0]
    /\ UNCHANGED <<controllerVars, verdict, shed, queueAdmitted, queueTimeouts>>

Arrive(r) == StartNow(r) \/ RejectLarge(r) \/ TurnAway(r) \/ Enqueue(r)

-----------------------------------------------------------------------------
(***************************************************************************)
(* One turn of the poll loop of acquire_request_slot.  asyncio.sleep       *)
(* returns once the interval is over, or later if the loop is busy.        *)
(***************************************************************************)
Awake(r) == pc[r] = "queued" /\ slept[r] >= PollInterval

(* Mutant of Expired: a waiter without a deadline. *)
ExpiredNever(r) == FALSE

Expired(r) == waited[r] >= QueueMaxWait[EndpointOf[r]]

(* Mutant of LeaveQueue that forgets to lower the depth. *)
LeaveQueueUncounted(r) == UNCHANGED queued

LeaveQueue(r) ==
    LET e == EndpointOf[r]
    IN  queued' = [queued EXCEPT ![e] = IF @ > 0 THEN @ - 1 ELSE 0]

PollStart(r) ==
    /\ Awake(r)
    /\ ~TooLarge(r)
    /\ ~AtCapacity(EndpointOf[r])
    /\ LeaveQueue(r)
    /\ queueAdmitted' = [queueAdmitted EXCEPT ![EndpointOf[r]] = Bump(@)]
    /\ Start(r)
    /\ UNCHANGED <<shed, queueTimeouts>>

PollRejectLarge(r) ==
    /\ Awake(r)
    /\ TooLarge(r)
    /\ LeaveQueue(r)
    /\ Shed(r, "degraded_input_count")
    /\ UNCHANGED <<queueAdmitted, queueTimeouts>>

(* Mutant of PollClosed that looks at the queue before it asks for a slot. *)
PollClosedFirst(r) ==
    /\ Awake(r)
    /\ ~TooLarge(r)
    /\ QueueClosed
    /\ LeaveQueue(r)
    /\ Shed(r, "queue_disabled_on_degraded")
    /\ UNCHANGED <<queueAdmitted, queueTimeouts>>

PollClosed(r) ==
    /\ Awake(r)
    /\ ~TooLarge(r)
    /\ AtCapacity(EndpointOf[r])
    /\ QueueClosed
    /\ LeaveQueue(r)
    /\ Shed(r, "queue_disabled_on_degraded")
    /\ UNCHANGED <<queueAdmitted, queueTimeouts>>

PollTimeout(r) ==
    /\ Awake(r)
    /\ ~TooLarge(r)
    /\ AtCapacity(EndpointOf[r])
    /\ ~QueueClosed
    /\ Expired(r)
    /\ LeaveQueue(r)
    /\ queueTimeouts' = [queueTimeouts EXCEPT ![EndpointOf[r]] = Bump(@)]
    /\ Shed(r, "queue_timeout")
    /\ UNCHANGED queueAdmitted

SleepAgain(r) ==
    /\ Awake(r)
    /\ ~TooLarge(r)
    /\ AtCapacity(EndpointOf[r])
    /\ ~QueueClosed
    /\ ~Expired(r)
    /\ slept' = [slept EXCEPT ![r] = 0]
    /\ UNCHANGED <<controllerVars, pc, verdict, waited, queueVars>>

Poll(r) == \/ PollStart(r)
           \/ PollRejectLarge(r)
           \/ PollClosed(r)
           \/ PollTimeout(r)
           \/ SleepAgain(r)

-----------------------------------------------------------------------------
(* The finally clause of the three services: the request ends with result. *)
FinishWith(r, result) ==
    /\ pc[r] = "running"
    /\ RequestFinished(EndpointOf[r], result)
    /\ pc' = [pc EXCEPT ![r] = "done"]
    /\ UNCHANGED <<verdict, waited, slept, queueVars>>

Finish(r) == \E result \in Results[EndpointOf[r]] : FinishWith(r, result)

(***************************************************************************)
(* A chat stream whose client leaves after the route made the generator    *)
(* and before the server first runs it: a generator that never began has   *)
(* no finally clause to run, and the slot is not given back.               *)
(***************************************************************************)
Abandon(r) ==
    /\ EndpointOf[r] = "chat"
    /\ pc[r] = "running"
    /\ pc' = [pc EXCEPT ![r] = "abandoned"]
    /\ UNCHANGED <<controllerVars, verdict, waited, slept, queueVars>>

(* A scrape of /health, /readyz, /runtimez or /metrics. *)
Scrape ==
    /\ Snapshot
    /\ UNCHANGED <<requestVars, queueVars>>

(* A tick of the clock: every timestamp is one tick older. *)
Tick ==
    /\ Age
    /\ waited' = [r \in Requests |->
                    IF pc[r] = "queued" /\ waited[r] < MaxWaited(r)
                    THEN waited[r] + 1 ELSE waited[r]]
    /\ slept' = [r \in Requests |->
                    IF pc[r] = "queued" /\ slept[r] < PollInterval
                    THEN slept[r] + 1 ELSE slept[r]]
    /\ UNCHANGED <<mode, reasons, transitions, inFlight, sampled>>
    /\ UNCHANGED <<pc, verdict, queueVars>>

Next == \/ \E r \in Requests : Arrive(r) \/ Poll(r) \/ Finish(r) \/ Abandon(r)
        \/ Scrape
        \/ Tick

(***************************************************************************)
(* The clock advances; the event loop gets round to every sleeper that is  *)
(* due; an upstream call ends, at the latest with the client's timeout.    *)
(* Clients need not send anything.                                         *)
(***************************************************************************)
Fairness == /\ WF_vars(Tick)
            /\ \A r \in Requests : WF_vars(Poll(r)) /\ WF_vars(Finish(r))

Spec == Init /\ [][Next]_vars /\ Fairness

-----------------------------------------------------------------------------
(* Requests of endpoint e that hold a slot, wait, or were shed for why. *)
At(e, places) == {r \in Requests : EndpointOf[r] = e /\ pc[r] \in places}

(* A slot is held by the requests that run, and for good by the two kinds *)
(* of request whose slot is lost.                                         *)
Holding == {"running", "invalid", "abandoned"}

ShedFor(e, why) == {r \in At(e, {"shed"}) : verdict[r] = why}

(***************************************************************************)
(* The in-flight counter is the number of requests that took a slot and    *)
(* did not give it back: those that run, and the invalid and abandoned     *)
(* ones, whose slots are lost.  So no slot is given back twice and the     *)
(* clamp at zero in request_finished never hides a lost count.             *)
(***************************************************************************)
SlotsAccounted ==
    \A e \in Endpoint : inFlight[e] = Cardinality(At(e, Holding))

(***************************************************************************)
(* The absolute caps hold in every mode, whatever the order in which       *)
(* newcomers and waiters are admitted.                                     *)
(***************************************************************************)
AbsoluteCap == \A e \in Endpoint : inFlight[e] <= MaxInFlight[e]

(***************************************************************************)
(* The queue depth is the number of requests asleep in the poll loop, on   *)
(* every way out of the loop, and never passes its bound.                  *)
(***************************************************************************)
QueueAccounted ==
    \A e \in Endpoint : /\ queued[e] = Cardinality(At(e, {"queued"}))
                        /\ queued[e] <= QueueMaxDepth[e]

(***************************************************************************)
(* vertex_proxy_request_shed_total counts every 429 once, under the reason *)
(* the client was given, and the queue timeouts are those shed for it.     *)
(***************************************************************************)
ShedCountedOnce ==
    \A e \in Endpoint :
        /\ \A why \in ShedReason :
               shed[<<e, why>>] = Cardinality(ShedFor(e, why))
        /\ queueTimeouts[e] = shed[<<e, "queue_timeout">>]

(***************************************************************************)
(* Degraded mode sheds load: while it lasts no request is admitted, new or *)
(* from the queue, that passes the degraded cap or is too large.           *)
(***************************************************************************)
DegradedAdmission ==
    [][\A r \in Requests :
          Tightened /\ pc[r] \in {"new", "queued"} /\ pc'[r] \in {"running", "invalid"}
            => /\ inFlight'[EndpointOf[r]] <= DegradedMaxInFlight[EndpointOf[r]]
               /\ ~TooLarge(r)]_vars

(***************************************************************************)
(* No request is shed while its endpoint has a slot to give, unless it is  *)
(* too large for the degraded mode.  Newcomers and waiters ask for a slot  *)
(* before any rule of the queue, off, closed or full, turns them away.     *)
(* Nothing is claimed of a waiter whose budget is over: the documents say  *)
(* that it is refused, the code starts it if it can.                       *)
(***************************************************************************)
NoIdleRefusal ==
    [][\A r \in Requests :
          pc[r] # "shed" /\ pc'[r] = "shed"
            => \/ AtCapacity(EndpointOf[r])
               \/ verdict'[r] = "degraded_input_count"
               \/ pc[r] = "queued" /\ Expired(r)]_vars

(***************************************************************************)
(* The whole of admission implements a SlotPool: modes, deadlines, polls   *)
(* and scrapes only choose among the steps that it allows.  In particular  *)
(* no newcomer waits or is refused for lack of a slot while the cap in     *)
(* force leaves one, and the cap moves only when a request ends.           *)
(***************************************************************************)
StageOf ==
    [p \in Place |-> CASE p = "new" -> "outside"
                     [] p = "queued" -> "waiting"
                     [] p \in Holding -> "holding"
                     [] p = "shed" -> "refused"
                     [] p = "done" -> "released"]

Large == {r \in Requests : /\ EndpointOf[r] = "embeddings"
                           /\ Inputs[r] > DegradedMaxInputs}

Pools == INSTANCE SlotPool WITH
            Client <- Requests, Pool <- Endpoint, PoolOf <- EndpointOf,
            Slots <- MaxInFlight, Places <- QueueMaxDepth, Choosy <- Large,
            stage <- [r \in Requests |-> StageOf[pc[r]]],
            open <- [e \in Endpoint |-> EffectiveCap(e)]

ImplementsSlotPool == Pools!Spec

(***************************************************************************)
(* The mode comes down one level at a time, and not before the recovery    *)
(* interval since its last change: from degraded to normal takes two.  So  *)
(* it turns as ModeEnvironment lets it turn for the services.              *)
(***************************************************************************)
Services == INSTANCE ModeEnvironment

GradualRecovery ==
    [][ /\ mode' \in Services!Turns(mode)
        /\ (mode = "degraded" /\ mode' = "elevated") \/ (mode = "elevated" /\ mode' = "normal")
             => sinceChange >= RecoverySeconds /\ sinceChange' = 0]_vars

(***************************************************************************)
(* vertex_proxy_runtime_mode_transitions counts every change of the mode:  *)
(* the entries into a mode less the exits from it tell whether it is the   *)
(* current one, and the direct way from degraded to normal is never taken. *)
(***************************************************************************)
Balance(m) ==
    LET other == Mode \ {m}
        In(a)  == transitions[<<a, m>>]
        Out(a) == transitions[<<m, a>>]
        now    == IF mode = m THEN 1 ELSE 0
        start  == IF m = "normal" THEN 1 ELSE 0
    IN  \A a, b \in other : a # b => In(a) + In(b) + start = Out(a) + Out(b) + now

TransitionsBalance ==
    /\ \A m \in Mode : Balance(m)
    /\ transitions[<<"degraded", "normal">>] = 0

(***************************************************************************)
(* The mode and its reasons are computed by two lists of conditions that   *)
(* must agree: a request that ends and leaves a reason behind does not     *)
(* leave the mode normal.  Only the memory is read afresh for each list.   *)
(***************************************************************************)
ReasonRaisesMode ==
    [][\A r \in Requests :
          /\ pc[r] = "running" /\ pc'[r] = "done"
          /\ \E why \in reasons' : why[1] # "rss_pressure_high"
          => mode' # "normal"]_vars

(***************************************************************************)
(* The window stays within its size and holds its outcomes oldest first,   *)
(* which is why it is enough for _prune to pop from the left.              *)
(***************************************************************************)
WindowInOrder == Len(recent) <= WindowSize /\ OldestFirst(recent)

(***************************************************************************)
(* Neither the mode nor its reasons are ever moved by an outcome older     *)
(* than the window: what runs out of time is out of mind.                  *)
(***************************************************************************)
DecidedOnFreshWindow ==
    [][mode' # mode \/ reasons' # reasons => AllFresh(recent')]_vars

(***************************************************************************)
(* While the process itself is under no pressure the mode is raised for a  *)
(* cause: an outcome still in the window that failed, timed out or was     *)
(* slow for its endpoint, or more requests in flight than a bound.  No     *)
(* rate or p95 is above its limit by itself, of an empty window or of one  *)
(* without a single bad outcome.                                           *)
(***************************************************************************)
Symptom(o) == \/ o.result.retryable
              \/ o.result.timedOut
              \/ o.result.latency > SoftLatency[o.endpoint]
              \/ o.result.latency > HardLatency[o.endpoint]

Crowded(held) == \E e \in Endpoint : \/ held[e] > SoftInFlight[e]
                                    \/ held[e] > HardInFlight[e]

Raised == \/ mode = "normal" /\ mode' # "normal"
          \/ mode = "elevated" /\ mode' = "degraded"

RaisedForCause ==
    [][Levels = {"low"} /\ Raised
         => \/ Crowded(inFlight')
            \/ \E i \in Fresh(recent') : Symptom(recent'[i])]_vars

(***************************************************************************)
(* Every request in the queue leaves it: admitted, shed or timed out.      *)
(***************************************************************************)
WaitersLeave == \A r \in Requests : pc[r] = "queued" ~> pc[r] # "queued"

(***************************************************************************)
(* app/routes/metrics.py:36 exports the counter as the current in-flight   *)
(* requests: a request that was answered is no longer counted.             *)
(***************************************************************************)
SlotsReleased ==
    \A e \in Endpoint : inFlight[e] = Cardinality(At(e, {"running"}))

(***************************************************************************)
(* docs/bounded-queue.md:113: if capacity opens before the queue wait      *)
(* budget expires, the request starts.                                     *)
(***************************************************************************)
StartsOnceCapacityOpens ==
    \A r \in Requests :
        (pc[r] = "queued" /\ ~AtCapacity(EndpointOf[r]) /\ ~Expired(r))
            ~> pc[r] \in Holding \cup {"done"}

=============================================================================
