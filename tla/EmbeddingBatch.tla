---------------------------- MODULE EmbeddingBatch ----------------------------
(***************************************************************************)
(* One embeddings request that holds its slot: create_embedding_response   *)
(* (app/services/vertex_embeddings.py).  A task per input takes a permit   *)
(* of the request's own semaphore, calls Vertex, and retries with the      *)
(* permit in hand.  asyncio.gather hands the first failure to the handler  *)
(* and leaves the other tasks running, so the request is answered, and its *)
(* slot given back, while tasks go on.  A step runs from await to await.   *)
(***************************************************************************)
EXTENDS Upstream, FiniteSets

CONSTANTS
    Count,                \* the number of inputs, normalized_input
    Limits,               \* the values get_effective_concurrency returns
    RetryAttempts,        \* settings.embedding_retry_attempts
    Answers               \* how a call can end, a part of Outcome

ASSUME BatchAssumption ==
    /\ Count \in Nat \ {0}
    /\ Limits \subseteq Nat \ {0}
    /\ RetryAttempts \in Nat
    /\ Answers \subseteq Outcome

VARIABLES
    limit,                \* effective_concurrency, the permits
    task,                 \* where the task of each input is
    retries,              \* attempts of _request_embedding_with_retry
    cause,                \* the failure that ended a task
    first,                \* the task whose failure gather took, or 0
    reply,                \* what the client was answered
    report                \* what request_finished and record_outcome were told

vars == <<limit, task, retries, cause, first, reply, report>>

Input == 1..Count

NoReport == ReportOf("ok", 0)

Init ==
    /\ limit \in Limits
    /\ task = [i \in Input |-> "waiting"]
    /\ retries = [i \in Input |-> 0]
    /\ cause = [i \in Input |-> "ok"]
    /\ first = 0
    /\ reply = "none"
    /\ report = NoReport

-----------------------------------------------------------------------------
(* Mutant of Holding whose permit is free during the backoff. *)
HoldingCallsOnly == {i \in Input : task[i] = "calling"}

(* Mutant of Holding whose permit is lost when the task fails. *)
HoldingForGood == {i \in Input : task[i] \in {"calling", "backoff", "failed"}}

(* The permits are held from the first call to the end of the task. *)
Holding == {i \in Input : task[i] \in {"calling", "backoff"}}

(* The semaphore serves the tasks in the order in which they were created. *)
Acquire(i) ==
    /\ task[i] = "waiting"
    /\ \A j \in Input : task[j] = "waiting" => i <= j
    /\ Cardinality(Holding) < limit
    /\ task' = [task EXCEPT ![i] = "calling"]
    /\ UNCHANGED <<limit, retries, cause, first, reply, report>>

Succeed(i) ==
    /\ task[i] = "calling"
    /\ "ok" \in Answers
    /\ task' = [task EXCEPT ![i] = "done"]
    /\ UNCHANGED <<limit, retries, cause, first, reply, report>>

(* Mutant of Retried that gives one more attempt than configured. *)
RetriedOnceMore(i, o) == Retryable(o) /\ retries[i] <= RetryAttempts

(* Mutant of Retried that gives up one attempt early. *)
RetriedOnceLess(i, o) == Retryable(o) /\ retries[i] + 1 < RetryAttempts

Retried(i, o) == Retryable(o) /\ retries[i] < RetryAttempts

BackOff(i) ==
    /\ task[i] = "calling"
    /\ \E o \in Answers : Retried(i, o)
    /\ task' = [task EXCEPT ![i] = "backoff"]
    /\ retries' = [retries EXCEPT ![i] = @ + 1]
    /\ UNCHANGED <<limit, cause, first, reply, report>>

CallAgain(i) ==
    /\ task[i] = "backoff"
    /\ task' = [task EXCEPT ![i] = "calling"]
    /\ UNCHANGED <<limit, retries, cause, first, reply, report>>

Fail(i) ==
    /\ task[i] = "calling"
    /\ \E o \in Answers \cap Failure :
          /\ ~Retried(i, o)
          /\ cause' = [cause EXCEPT ![i] = o]
    /\ task' = [task EXCEPT ![i] = "failed"]
    /\ first' = IF first = 0 THEN i ELSE first
    /\ UNCHANGED <<limit, retries, reply, report>>

-----------------------------------------------------------------------------
(* The sum of the attempts of all tasks, counted as pairs of a task and the *)
(* number of one of its retries.                                           *)
RetriesMade ==
    Cardinality({p \in Input \X (1..RetryAttempts) : p[2] <= retries[p[1]]})

(* Mutant of Answer that reports the retries of the last input only. *)
AnswerLastRetries ==
    /\ reply = "none"
    /\ \A i \in Input : task[i] = "done"
    /\ reply' = "vectors"
    /\ report' = ReportOf("ok", retries[Count])
    /\ UNCHANGED <<limit, task, retries, cause, first>>

(* Mutant of Answer that takes the tasks that ended for all of them. *)
AnswerEnded ==
    /\ reply = "none"
    /\ \A i \in Input : task[i] \in {"done", "failed"}
    /\ reply' = "vectors"
    /\ report' = ReportOf("ok", RetriesMade)
    /\ UNCHANGED <<limit, task, retries, cause, first>>

(* gather returned: the vectors in input order, and the finally clause. *)
Answer ==
    /\ reply = "none"
    /\ \A i \in Input : task[i] = "done"
    /\ reply' = "vectors"
    /\ report' = ReportOf("ok", RetriesMade)
    /\ UNCHANGED <<limit, task, retries, cause, first>>

(* Mutant of Refuse for each task that fails, whether or not it is the first. *)
RefuseEach ==
    \E i \in Input :
        /\ task[i] = "failed"
        /\ reply' = "error"
        /\ report' = ReportOf(cause[i], 0)
        /\ UNCHANGED <<limit, task, retries, cause, first>>

(* gather raised: an except clause, which knows of no retries, and finally. *)
Refuse ==
    /\ reply = "none"
    /\ first # 0
    /\ reply' = "error"
    /\ report' = ReportOf(cause[first], 0)
    /\ UNCHANGED <<limit, task, retries, cause, first>>

TaskStep(i) == Acquire(i) \/ Succeed(i) \/ BackOff(i) \/ CallAgain(i) \/ Fail(i)

Next == Answer \/ Refuse \/ \E i \in Input : TaskStep(i)

(***************************************************************************)
(* The event loop resumes the handler and every task that is due, and a    *)
(* call ends, at the latest with the client's timeout.                     *)
(***************************************************************************)
Fairness == WF_vars(Answer \/ Refuse) /\ \A i \in Input : WF_vars(TaskStep(i))

Spec == Init /\ [][Next]_vars /\ Fairness

-----------------------------------------------------------------------------
(* Type correctness; in particular no task passes its retry budget. *)
TypeOK ==
    /\ limit \in Limits
    /\ task \in [Input -> {"waiting", "calling", "backoff", "done", "failed"}]
    /\ retries \in [Input -> 0..RetryAttempts]
    /\ cause \in [Input -> Outcome]
    /\ first \in 0..Count
    /\ reply \in {"none", "vectors", "error"}
    /\ report \in Report

(***************************************************************************)
(* README.md:88: a request never has more upstream calls in flight than    *)
(* its limit, not even while some of its tasks back off or after it was    *)
(* answered.                                                               *)
(***************************************************************************)
FanoutBound == Cardinality({i \in Input : task[i] = "calling"}) <= limit

(***************************************************************************)
(* docs/compatibility.md:57: vectors are answered for all inputs or none,  *)
(* and an error only when a task failed, in particular never because of a  *)
(* failure that a retry made good.                                         *)
(***************************************************************************)
WholeOrNothing ==
    /\ reply = "vectors" => \A i \in Input : task[i] = "done"
    /\ reply = "error" => \E i \in Input : task[i] = "failed" /\ cause[i] # "ok"

(***************************************************************************)
(* A retryable failure is final only when the retry budget is used up, and *)
(* any failure that the request is reported with is one of its tasks'.     *)
(***************************************************************************)
BudgetUsedUp ==
    /\ \A i \in Input : task[i] = "failed" /\ Retryable(cause[i])
                          => retries[i] = RetryAttempts
    /\ report.retryable => \E i \in Input : /\ task[i] = "failed"
                                            /\ retries[i] = RetryAttempts

(***************************************************************************)
(* What the controller counts is the class of what the client was answered *)
(* although the except clauses of the service and the exception handlers   *)
(* of the app are two ladders, and although tasks that were left behind    *)
(* can fail in other ways, and be retried, after the answer.  The retries  *)
(* of a batch that succeeds are all that it ever makes; of one that fails  *)
(* none is reported, whatever it made before it failed.                    *)
(***************************************************************************)
ReportMatchesAnswer ==
    /\ reply = "vectors" => /\ Class(report.status) = 2
                            /\ report.retries = RetriesMade
    /\ reply = "error" => /\ Class(report.status) # 2
                          /\ report.retries = 0
                          /\ Class(report.status) = Class(EnvelopeStatus(cause[first]))

(***************************************************************************)
(* A batch implements a SlotHolder: it gives back its slot once, with one  *)
(* report that agrees with its reply, and the tasks that it leaves behind  *)
(* change neither, however they end.                                       *)
(***************************************************************************)
Slot ==
    CASE reply # "none"                               -> "returned"
      [] \A i \in Input : task[i] = "waiting"         -> "held"
      [] OTHER                                        -> "used"

Told ==
    CASE reply = "none"    -> "nothing"
      [] reply = "vectors" -> "success"
      [] reply = "error"   -> "failure"

Holder == INSTANCE SlotHolder WITH
            streams <- FALSE, slot <- Slot, told <- Told,
            said <- IF reply = "none" THEN << >> ELSE <<report>>,
            Successes <- {r \in Report : Class(r.status) = 2},
            Failures <- {r \in Report : Class(r.status) # 2}

ImplementsSlotHolder == Holder!Spec

(***************************************************************************)
(* The request is answered, and the tasks it leaves behind come to an end. *)
(***************************************************************************)
Settles ==
    <>(/\ reply # "none"
       /\ \A i \in Input : task[i] \in {"done", "failed"})

(***************************************************************************)
(* README.md:122: timeouts count into the timeout rate.  A request that    *)
(* died of an unanswered upstream call is reported as timed out.           *)
(***************************************************************************)
TimeoutsCounted ==
    reply = "error" /\ cause[first] = "unanswered" => report.timedOut

=============================================================================
