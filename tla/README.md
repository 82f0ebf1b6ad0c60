# Verification of vertex-openai-proxy

TLA+ models of the proxy in `src/app`, the TLC runs that check them and the
theorems that TLAPS proves about them. Everything here is translated from the
Python code at the commit under `src/`; docs and tests are quoted only for what
they promise. Paths below are relative to `src/`.

- `PROJECT.json` maps each definition to the lines it models, and lists the
  runs, the mutants (a plausible bug for each property, which the property must
  catch), the findings, the hazards and the theorems.
- `X.tla` models a component, `MCX.tla` gives its constants values for TLC,
  `*.cfg` is one run each, `*Proofs.tla` holds the theorems.

To check: `tlc -config Admission.cfg MCRequestAdmission` (a run; PROJECT.json
names the module of each cfg) and `tlapm AdmissionProofs.tla` (a proof module).

## 1. The system

The proxy is one asyncio process that serves an OpenAI-style API and calls
Vertex AI. A handler runs without interruption between two `await`s; the
`threading.Lock` of the controller is never held across one. So the grain of
every model is a step from one await (or, in the stream's generator, one yield)
to the next, and every interleaving of such steps of several requests is
explored.

| Component | Source | State | Operations |
|---|---|---|---|
| Admission and bounded queue | `app/runtime/controller.py:109-208, 319-338, 387-455, 557-584` | in-flight counters, queue depths, shed / admitted / timeout counters | `acquire_request_slot` (decide, enqueue, poll), `request_finished` |
| Runtime mode | `app/runtime/controller.py:214-299, 340-385, 457-607` | window of outcomes, mode, reasons, last change, transitions, cpu baseline | `request_finished`, `snapshot`, `current_mode` |
| Adaptive fan-out | `app/services/adaptive_concurrency.py` | window of batches, current rung, last adjustment | `get_effective_concurrency`, `record_outcome`, `get_metrics` |
| Embeddings service | `app/services/vertex_embeddings.py` | per request: semaphore, a task per input, retries | `create_embedding_response` |
| Chat service | `app/services/vertex_chat.py` | per request: attempts; a generator for a stream | `create_chat_completion`, `create_chat_completion_stream` |
| Upstream client | `app/services/http_client.py` | none | one call, and how it may end |
| Access tokens | `app/vertex_auth.py` | cached token and its expiry | `get_vertex_access_token` |
| Health and metrics | `app/routes/health.py`, `app/routes/metrics.py` | none of their own, but reading has side effects | `/health`, `/readyz`, `/runtimez`, `/metrics` |
| Settings and model registry | `app/config.py`, `app/model_registry.py`, `app/routes/models.py` | read at start | checks at start, resolution of names, `GET /v1/models` |
| Application, errors, auth, schemas, logging | `app/main.py`, `app/errors.py`, `app/auth.py`, `app/schemas`, `app/utils` | none | exception handlers, wiring and validation |
| Harness, scripts, chart | `harness`, `scripts`, `charts`, `k8s` | none | developer tooling and deployment data |

How they interact. A route checks the model that is asked for, takes a slot from
the controller, which may put the request to sleep in a poll loop, and calls the
service; the service calls Vertex
with a token from the cache and, in its `finally` clause, reports the end of the
request to the controller (`request_finished`), which gives the slot back,
appends to the window and recomputes the mode. The mode decides the caps of
later admissions, the retry budget of chat requests, the top of the fan-out's
ladder and, with `READINESS_FAIL_ON_DEGRADED`, whether `/readyz` says ready and
so whether Kubernetes sends requests at all. The embeddings service reads the
fan-out's limit at its start and reports how the batch went at its end; the
health endpoints read that limit too, and the read may change it.

What is hard here:

- *Slots.* The slot is taken in one function and given back in another: each way
  a request can end must pass exactly one `request_finished`.
- *The poll loop.* A waiter sleeps outside any lock; when it wakes the mode, the
  counters and its deadline have all moved. Four exits each undo the same count.
- *Feedback.* Mode, caps, readiness and traffic form a loop that is evaluated
  only when some request ends.
- *Fan-out.* `asyncio.gather` returns at the first failure and leaves the other
  tasks running; the limit may change under a running batch.
- *Streams.* The generator is driven, cancelled and abandoned by the server, at
  times before it runs at all.
- *Two ladders.* What a failure is counted as is decided in the services' `except`
  clauses, what the client is told in the exception handlers of the app.
- *Names.* Default, models, aliases and the embedding model overlap freely; three
  functions, in two files, must agree on what a name means.
- *Tokens.* Several calls miss the cache at once and write it in any order.

What makes each part correct is stated in section 3, property by property, and
the hazards with their lines are in `PROJECT.json`.

## 2. The modules

Shared vocabulary:

- `RollingWindow`: a window of outcomes: `Prune`, the p95 exactly as
  `statistics.quantiles(n=100, method="inclusive")` interpolates it, error and
  timeout rates. Both controllers keep one.
- `ModeEnvironment`: the runtime mode as a service sees it, changing at any time
  but never from degraded to normal at once. That is no assumption: `RequestAdmission`
  instantiates the module (`Services`), and `GradualRecovery` says, with its own
  `Turns`, that the controller's mode moves so.
- `Upstream`: the ends of a call to Vertex, which are retryable, what the
  `except` clauses make of each in the report to the controller
  (`ReportedStatus`), and what the exception handlers of `app/main.py` answer
  (`EnvelopeStatus`).
- `ModelRegistry`: the settings about models as a record, the checks at start
  (`Starts`), what a name is resolved to (`Resolve`) and the list (`Listed`). Pure
  operators; the settings do not change while the process runs.

Components:

- `RequestWindow` and `RuntimeController`: pressure, reasons, mode, transitions.
  The methods are operators over the controller's variables: `RequestFinished`,
  `Snapshot`, `RequestStarted`. The second process sample of a request's end
  repeats the cpu reading (the same instant) and reads the memory afresh; the
  first sample ever reads no cpu. A timestamp is kept as an age in ticks.
- `RequestAdmission` EXTENDS it with the requests: `Arrive` (decide at once),
  `Poll` (one turn of the poll loop, with its exits in the code's order),
  `Finish`, `Abandon`, `Scrape` and the clock. `pc` is where a request is,
  `verdict` the reason of its 429. A too large batch goes to "invalid": 400, slot
  kept. A stream whose client leaves before the generator runs goes to
  "abandoned": no `finally` clause ever runs, slot kept.
- `SlotPool` is what admission promises, without modes, clocks or polls: slots,
  waiting places, and a number of slots given out that moves only when a holder
  leaves. `RequestAdmission` maps to it (`Pools`): a request's place is its stage,
  and the cap in force, `EffectiveCap`, is the number of slots given out.
- `SlotHolder` is the other half of that promise: what a request that was let in
  does with its slot. It uses it, gives it back once (`GiveBack`, the `Finish` of
  `RequestAdmission`) with one report that agrees with what the client is told, or,
  as a stream that never began, loses it (`Lose`, its `Abandon`). Both services map
  to it (`Holder` in `ChatCompletion` and in `EmbeddingBatch`, where the tasks that
  outlive the answer are stutters).
- `ReadinessLoop` composes `RequestAdmission` with clients that send again
  after each answer, an upstream that fails for a while, the readiness probe,
  and a service that routes to ready replicas.
- `AdaptiveConcurrency`: `BatchBegins` reads the limit, `BatchEnds` is
  `record_outcome` after a `request_finished` that may have turned the mode,
  `Look` is a probe. `Decided` is `_decide_next_concurrency` on the ladder.
- `EmbeddingBatch`: one request: a task per input (`Acquire`, `Succeed`,
  `BackOff`, `CallAgain`, `Fail`), and `Answer` or `Refuse` for the handler,
  after which tasks may go on.
- `ChatCompletion`: one request, from the model check of the route (`Accept`,
  `Reject`) under settings that the process started with, whole (`Call`, `BackOff`,
  `CallAgain`, `Answered`, `Fail`) or streamed (`Open`, `Opened`, `OpenFails`,
  `Chunk`, `Resume`, `StreamEnds`, `StreamFails`), and a client that leaves before
  the generator ran, during an await, or during a yield.
- `TokenCache`: concurrent calls that use the cache, ADC (no await) or the
  metadata server (`Ask`, `Issue`, `Receive`, `AskFails`).

Operators named "...Uncounted", "...Late" and the like, each marked "Mutant of",
are variants of the definition below them that a plausible bug would give; no
specification uses them. They show that a property can fail.

## 3. The runs

### Admission (`MCRequestAdmission`)

Three chat requests on one slot with one waiting place and three embeddings
requests on two slots, one of which is small, one too large for degraded mode and
one too large for any. Failures drive the mode through all levels (two outcomes in
the window are enough to pass both thresholds) and degraded mode closes the
queue. Three chat requests are a runner, a waiter and a newcomer; every exit of
the poll loop is taken.

- `SlotsAccounted`, `AbsoluteCap`: the in-flight counter is exactly the set of
  requests that took a slot and did not give it back, and the caps hold however
  newcomers and waiters interleave.
- `QueueAccounted`: the depth is the number of sleepers, within its bound.
- `ShedCountedOnce`: each 429 is counted once, under the reason it was given.
- `DegradedAdmission`: in degraded mode nothing is admitted past the degraded
  cap or over the degraded size, from the queue or directly.
- `NoIdleRefusal`: no request is shed while its endpoint has a slot to give, the
  ones too large for the mode apart. A waiter whose budget is over is left out,
  since code and documents disagree about it (section 4).
- `ImplementsSlotPool`: the whole is a `SlotPool`. It forbids, beyond the above,
  that a newcomer waits while the cap in force leaves a slot, that the queue passes
  its places, and that the cap moves at any step but the end of a request. It has
  no clock, so it lets a waiter be refused at any time.
- `RaisedForCause`: with the process idle the mode is raised only with too many
  requests in flight or with an outcome, still in the window, that failed, timed
  out or was slow for its endpoint. The soft error threshold is 0 here, so that a
  rate on its threshold is a case that occurs.

### ModePressure (`MCRequestAdmission`)

Two chat and one embeddings request, every latency level, errors, in-flight
thresholds of 0 and 1 and process samples, with the queue off.
`TransitionsBalance`: the transition counters tell the current mode.
`GradualRecovery`: down one level at a time, a recovery interval apart.
`ReasonRaisesMode`: the two spelled-out lists of conditions agree.
`WindowInOrder`: the window holds its outcomes oldest first and within its size,
through any mix of appends, prunes by size and by age, and scrapes; popping from
the left is enough only because of that. `DecidedOnFreshWindow`: neither the mode
nor the reasons move on a window that still has an outcome older than it keeps.

### ReadinessTraffic, ReadinessStuck (`MCReadinessLoop`)

Two clients on one slot who never stop and wait for their answers (none abandons a
stream). `LoopTypeOK`: the state stays typed through every reissue, no counter
negative. With the gate off `ReturnsToNormal` holds (once the upstream stays
healthy the replica is normal for good) and so does `WaitersLeave` (every sleeper
leaves the queue, although a newcomer can take each slot that opens). With the
gate on, ReadinessStuck is the counterexample: the replica is degraded, gets no
request, and so never recomputes its mode.

### SlotLeak, QueueBarging (`MCRequestAdmission`)

`SlotsReleased` fails for an embeddings request with too many inputs (400 with its
slot kept), and for a chat stream that is abandoned before it runs.
`StartsOnceCapacityOpens` fails because slots are not handed to waiters: a newcomer
takes the one that opened between two polls.

### FanoutAdaptive (`MCAdaptiveConcurrency`)

Two batches, probes, a mode that turns at any time, base 6 on the ladder 6-8-12-16,
a window of two samples, a cooldown of two ticks. `FollowsMode`: a batch begins
within the ceiling of the mode of that moment. `RaisedOnEvidence`: one rung up, on a
window of enough samples, all recent and none timed out, once per cooldown.
`LoweredForCause`: down one rung for a recent batch that failed, timed out or was
slow, or to the lowest for a mode that takes the rung away. `ReachesCeiling`: a
healthy window and batches that keep ending bring the fan-out to the top.

### BatchFanout, BatchTimeout (`MCEmbeddingBatch`)

Four inputs, one or two permits, two retries. `FanoutBound`: calls in flight
within the limit, during backoffs and after the answer too. `WholeOrNothing`,
`BudgetUsedUp`, and `Settles`: the handler answers and every task ends, the ones
that gather left behind too. `ReportMatchesAnswer`: counted in the class of the
answer, with all the retries of a batch that succeeds and none of one that fails.
`ImplementsSlotHolder`: one report, at the answer, that no later end of
a task changes. `TimeoutsCounted` fails: an unanswered call is not
reported as timed out, so the timeout rate and its thresholds never see one.

### ChatEnds, ChatTruncated (`MCChatCompletion`)

One request in every mode, streamed or not, for any of seven names (two models, the
embedding model, two aliases, an unknown one and none), with every upstream outcome
and a client that may leave. The settings are three sets of models times the alias
lists of up to two of nine entries, right and wrong ones; the 55 of them that the
process starts with are the initial states. `ReportedInTheEnd`: a
request that called Vertex is reported (and by `ImplementsSlotHolder` not twice). `ReportMatchesAnswer`: in the
class that its client was answered, and as a success only if it did not fail.
`BudgetOfMode`: the retries of the mode it met. `OnlySafeRetries`.
`ImplementsSlotHolder`: the slot is used, and given back once with a report that
agrees with the client's end, from whichever await or yield the request ends.
`UpstreamModelConfigured`: Vertex gets a configured model, never an alias, and a
model's own name is never redirected. `ListingHonoured`: each listed id is accepted
by the endpoint of its kind and stands for the target it is listed with, and each
accepted name is listed, a chat name that is also the embedding model's id apart
(section 4). `DoneIsComplete` fails: an upstream that stops without
`[DONE]` is closed with the proxy's own `[DONE]`.

### TokenInterleavings (`MCTokenCache`)

Two concurrent calls, tokens that live four to six ticks, a margin of two,
requests of up to two ticks. `CacheHonest`: the cache never believes in a token
beyond its life, whoever wrote it. `ServedWithMargin`: each token handed out
lives for longer than the margin. Both under the assumption `LongLived`.

### Bounds and fairness

Bounds: requests, ticks, windows of two, `CounterCap` (statistics counters stop
there; it exceeds the number of requests where a property reads them), ages stop
one past the window and waits one past the budget, where a longer time makes no
difference. Latencies are 1, 5 and 9 around the thresholds 4 and 8. Symmetry is
used in runs without liveness, over chat requests and calls that are
interchangeable.

Fairness: the clock advances; the event loop resumes whatever is due (weak
fairness of `Poll`, of tasks and handlers); an upstream call ends because
`httpx` has a timeout. `ChatCompletion` has strong fairness of the stream's end,
since a stream that is read over and over is finite, and weak fairness of `Resume`,
which takes for granted that a client reads on or leaves: one that stalls for ever,
with the connection open, keeps its slot and is not covered. Clients need not send
anything, except in `ReadinessLoop`, whose question is about clients that do.
`AdaptiveConcurrency` assumes the clock only and puts the traffic in the property.

`CHECK_DEADLOCK FALSE` is set where a single request is over for good.

## 4. Where the code departs from its documents

Each of these is a run that TLC fails, with the quotation in `PROJECT.json`:

1. A batch with too many inputs keeps its slot for good (SlotLeak): the check
   is after the route took the slot and before the `try` that gives it back.
2. A waiter can time out although capacity opened in time (QueueBarging).
3. A degraded replica behind its own readiness gate never recovers
   (ReadinessStuck): the mode is recomputed only when a request ends.
4. An unanswered embeddings call is never counted as a timeout (BatchTimeout):
   `httpx.TimeoutException` is not the built-in `TimeoutError`.
5. A stream that the upstream cuts ends with a clean `[DONE]` (ChatTruncated).

Also visible in the models, without a run or a property of their own: a poll after
the deadline starts the request when it finds a slot (`PollStart`, against
README.md:168 and docs/bounded-queue.md:113); the recovery interval is measured from the last change of the
mode and not from the last pressure (`RecoveryElapsed`, against README.md:106);
a mode that lowers the ceiling sends the fan-out to the lowest rung and not one
step down (`Kept`, against docs/architecture.md:52), even when only a probe
reads it; a batch that fails reports no retries (`Refuse`); a stream whose
upstream refuses it breaks off after a 200 (`OpenFails`); a stream that is
abandoned before its generator first runs is never reported (`LeaveEarly`, and
`Abandon`, which SlotLeak reaches too); a chat name that is also the embedding
model's id can be asked for but is not listed as a chat model (`Listed`); and an
empty `VERTEX_CHAT_MODEL` passes the checks at start and is sent to Vertex for
requests that name no model (excluded by `Configuration`).

## 5. The proofs

All for arbitrary constants that satisfy the named assumptions, which TLC
evaluates in the runs. Eight modules hold theorems.

- `WindowProofs`: the operators that both controllers share. `PruneExact`: on a
  window in order, `_prune` keeps exactly the newest entries within the size and the
  age (`NewestTail` and `FreshTail` say which tail that is, `LeastElement` that its
  first place exists). Pruning, appending and ageing keep the order. `P95Between`:
  `quantiles(n=100)[94]` lies between two of the latencies; `Ranks` shows that the
  two indices exist for every number of outcomes, one included. So a p95 or a rate
  above a bound has an outcome behind it (`SlowSomewhere`, `RateShows`).
- `AdmissionProofs`: first what the controller's operators do to
  `ControllerTypeOK`, then `TypeCorrect`, `SlotsCounted`, `CapsHold`,
  `QueueCounted`, `ShedAccounting` and `PoolImplemented`.
  Every step is first classified (`EveryStep`: a request is admitted, refused,
  queues, ends, loses its slot, or no one moves), and the counts of the sets of
  requests at a place follow from adding or removing one element (`Enters`,
  `Exits`, `Stays`). The inductive invariant is `Accounted`: the counters equal
  the sets they count, so the clamps at zero in the code never act.
  `ShedAccounting` assumes that `CounterCap`, a bound of the model, is at least
  the number of requests.
  `PoolImplemented` is the refinement: the same classification, with `Accounted`
  to read a counter as the number of holders or waiters (`FullIsAtCapacity`),
  maps each step to `Take`, `Wait`, `Refuse`, `Release` or a stutter.
- `AdmissionStepProofs`: the action properties. Each is a predicate on steps
  (`HeldBack`, `RefusedAtCapacity`, `Recovers`, `Agrees`, `DecidesOnFresh`,
  `Explained`) with a lemma that every step satisfies it, from which
  `DegradedModeHolds`, `NoRefusalWithRoom`, `RecoveryIsGradual`,
  `ReasonsAgreeWithMode`, `DecisionsAreFresh` and `RaisesHaveCauses` follow. The
  last two need the order of the window, the inductive invariant
  `TypeOK /\ WindowInOrder` (`WindowKeepsOrder`): without it a recent outcome
  on the left could hide old ones from `_prune`. `TransitionAccounting` has the
  invariant `Balanced`, which also bounds the counted transitions by the requests
  that ended, as each ends one turn at most. `LostSlotsShutEndpoint` draws the
  consequence of SlotLeak: an endpoint that lost as many slots as its cap never
  admits a request again.
- `LoopProofs`: `LoopTypes`, `LoopCapsHold`, `LoopQueueCounted`, and
  `LoopKeepsPromises`: all the action properties of admission, in service, with
  clients that never stop; only `Reissue` is new to the step lemmas, which carry
  over. `DegradedGateLocks`: with the
  readiness gate on, a replica that is drained in degraded mode is out of service
  for ever, whatever upstream, clock and probe do. The counterexample of
  ReadinessStuck is thus not an artefact of its bounds.
- `AdaptiveProofs`: `TypeCorrect`, `BatchesFollowMode`, `RisesOnEvidence`,
  `FallsForCause`. The key fact is `LadderPrefix`: a lower ceiling leaves a
  prefix of the ladder and perhaps a new top, so a rung that is kept has the
  same neighbour below, and one that is taken away lies above the new ceiling.
  That the evidence for a rise, and the cause of a fall, are recent needs the
  invariant `InOrder`, the order of this controller's window, from `WindowProofs`.
- `BatchProofs`: `BatchTypes`, `FanoutKept`, `AllOrNone`, `RetriesUsedUp`,
  `BatchStatusesAgree`. The semaphore counts
  the tasks that hold a permit, not the calls, so the invariant bounds the
  holders; and it ties the answer and the report to the task whose failure gather
  took, which the tasks left behind cannot disturb (`ReplyKept`). The sum of the
  retries is written as the size of a set of pairs, which needs no recursion.
  `BatchHoldsSlot` is the refinement of `SlotHolder`: the first permit taken is its
  `Begin`, the reply its `GiveBack`, every other step a stutter.
- `ChatProofs`: `ChatTypes`, `StatusesAgree`, `BudgetKept`,
  `RetriesSafe`, `AliasesResolved`, `ListMatchesEndpoints`, for any settings, names
  and retry budget, and `HolderImplemented`, the refinement of `SlotHolder`: each
  step is classified as one between two awaits (a stutter), one on the way to the
  first call, or one of the seven ends, each of which is `GiveBack`. The registry
  comes first: the last entry of an alias exists (a finite set of positions has a
  greatest element), and the checks at start make it a model (`AliasMeansModel`).
  The invariant of the request is in four parts: how far it is (`Progress`), the
  model it was accepted with (`Resolved`), what it may spend (`Spending`: a request
  in its backoff still has a call left and died of a retryable failure), and how it
  ended (`Ended`).
- `TokenProofs`: `TokenTypes`, `CacheNeverOverstates`, `TokensLive`, under
  `LongLived`. The invariant relates the claim of a token on its way, less the
  ticks since its call read the clock, to its real life, because the code counts
  the expiry from before the request.

Checked by TLC only: all liveness (`WaitersLeave`, `ReturnsToNormal`, `Settles`,
`ReachesCeiling`, `ReportedInTheEnd`), which is out of the prover's reach here.
Every invariant and action property of a passing run is a theorem. In the loop,
`TransitionsBalance` and `ShedCountedOnce` are not: clients that never stop drive
any counter to `CounterCap`, a bound of the model and not of the code.

## 6. What is not modelled, and why

- The text of payloads, log lines, error messages and metrics; the
  normalisation of response fields; validation of request bodies. The models
  start from valid requests with at least one input.
- The internal bearer token (a comparison without state), the manual
  `VERTEX_ACCESS_TOKEN` (it bypasses the cache), `admission_check`,
  `reset_vertex_access_token_cache` and `reset` (no code of the service calls
  them), the harness, the scripts and the chart.
- `admission_state_inconsistent` (503): unreachable, since a decision to wait
  always comes with a rejection.
- Handlers that are cancelled: the server in use does not cancel a handler whose
  client went away, only the body of a streaming response, so a request asleep in
  the queue or in a call runs on. A server that did would leave the queue depth
  raised, as the sleep is not in a `try`.
- The calls of tasks that outlive their batch against the caps on requests: no
  document bounds them, so there is no property to state.
- Rounding of rates (six digits) and latencies (three), and the clock running
  backwards. The p95 is a library function, written out as it interpolates.

External behaviour assumed, from how the code uses it: `StreamingResponse` sends
the headers before it runs the generator and abandons it when the client goes;
`asyncio.Semaphore` serves waiters in order; `asyncio.gather` leaves the other
tasks running; Kubernetes stops routing to a replica whose probe fails. An
`EMBEDDING_MAX_CONCURRENCY` of zero, which the code accepts and then waits on for
ever, is excluded by `BatchAssumption`.

## 7. Plan

Done, in order of importance: admission and mode, readiness loop, fan-out, batch,
chat, tokens, the abstract pool and the abstract holder of a slot with their
refinement proofs, the model registry, the statuses, and proofs for every
component. Next:

1. Several replicas behind one service in `ReadinessLoop`: whether the load that a
   degraded replica sheds degrades the others in turn.
2. An abstract specification of the fan-out (a limit that moves by rungs within
   a ceiling) that `AdaptiveConcurrency` implements.
