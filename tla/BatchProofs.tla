----------------------------- MODULE BatchProofs ------------------------------
(***************************************************************************)
(* Proofs about EmbeddingBatch, for any number of inputs, limit and retry  *)
(* budget.  FanoutBound is about the calls but the permits are what the    *)
(* semaphore counts, so the invariant bounds the tasks that hold one; and  *)
(* the reply and the report are tied to the tasks through the failure that *)
(* gather took, which no task that is left behind can replace.             *)
(***************************************************************************)
EXTENDS EmbeddingBatch, FiniteSetTheorems, TLAPS

PermitsBounded == Cardinality(Holding) <= limit

FailuresKnown ==
    /\ \A i \in Input : task[i] = "failed"
         => /\ cause[i] # "ok"
            /\ Retryable(cause[i]) => retries[i] = RetryAttempts
    /\ first # 0 => task[first] = "failed"

ReplyKnown ==
    /\ reply = "none" => report = NoReport
    /\ reply = "vectors" => /\ \A i \in Input : task[i] = "done"
                            /\ report = ReportOf("ok", RetriesMade)
    /\ reply = "error" => first # 0 /\ report = ReportOf(cause[first], 0)

Invariant == TypeOK /\ PermitsBounded /\ FailuresKnown /\ ReplyKnown

(***************************************************************************)
(* What the operators of the model return.                                 *)
(***************************************************************************)
LEMMA RetriesMadeType ==
    ASSUME retries \in [Input -> 0..RetryAttempts]
    PROVE  RetriesMade \in Nat
<1> DEFINE All == Input \X (1..RetryAttempts)
<1>1. IsFiniteSet(Input) /\ IsFiniteSet(1..RetryAttempts)
  BY FS_Interval, BatchAssumption DEF Input
<1>2. IsFiniteSet(All)
  BY <1>1, FS_Product
<1> HIDE DEF All
<1>3. {p \in All : p[2] <= retries[p[1]]} \subseteq All
  OBVIOUS
<1> QED
  BY <1>2, <1>3, FS_Subset, FS_CardinalityType DEF RetriesMade, All

LEMMA ReportType ==
    ASSUME NEW o \in Outcome, NEW n \in Nat
    PROVE  ReportOf(o, n) \in Report
<1>1. ReportedStatus(o) \in Nat
  BY DEF ReportedStatus, UpstreamStatus
<1> QED
  BY <1>1 DEF ReportOf, Report, Retryable

(* The clauses of the service and the handlers of the app, case by case. *)
LEMMA FailureClasses ==
    ASSUME NEW o \in Failure
    PROVE  /\ Class(ReportedStatus(o)) = Class(EnvelopeStatus(o))
           /\ Class(ReportedStatus(o)) # 2
<1>1. CASE o \in DOMAIN UpstreamStatus
  BY <1>1 DEF UpstreamStatus, ReportedStatus, EnvelopeStatus, Class
<1>2. CASE o \in {"malformed", "garbled", "unanswered", "noToken"}
  <2>1. o \notin DOMAIN UpstreamStatus /\ o # "ok"
    BY <1>2 DEF UpstreamStatus
  <2>2. /\ ReportedStatus(o) \in {500, 502}
        /\ EnvelopeStatus(o) \in {500, 502, 503}
    BY <1>2, <2>1 DEF ReportedStatus, EnvelopeStatus
  <2>3. \A status \in {500, 502, 503} : Class(status) = 5
    BY DEF Class
  <2> QED
    BY <2>2, <2>3
<1> QED
  BY <1>1, <1>2 DEF Failure, Outcome

LEMMA SuccessClass == Class(ReportedStatus("ok")) = 2
<1>1. "ok" \notin DOMAIN UpstreamStatus
  BY DEF UpstreamStatus
<1>2. ReportedStatus("ok") = 200
  BY <1>1 DEF ReportedStatus
<1> QED
  BY <1>2 DEF Class

-----------------------------------------------------------------------------
LEMMA HoldingFinite == IsFiniteSet(Holding) /\ Cardinality(Holding) \in Nat
<1>1. IsFiniteSet(Input)
  BY FS_Interval, BatchAssumption DEF Input
<1>2. Holding \subseteq Input
  BY DEF Holding
<1> QED
  BY <1>1, <1>2, FS_Subset, FS_CardinalityType

LEMMA InitInvariant == Init => Invariant
<1> SUFFICES ASSUME Init PROVE Invariant
  OBVIOUS
<1>1. TypeOK
  <2>1. NoReport \in Report
    BY ReportType DEF NoReport, Outcome
  <2> QED
    BY <2>1, BatchAssumption DEF Init, TypeOK, Outcome
<1>2. PermitsBounded
  <2>1. Holding = {}
    BY DEF Init, Holding
  <2> QED
    BY <1>1, <2>1, FS_EmptySet, BatchAssumption DEF PermitsBounded, TypeOK
<1>3. FailuresKnown /\ ReplyKnown
  BY DEF Init, FailuresKnown, ReplyKnown
<1> QED
  BY <1>1, <1>2, <1>3 DEF Invariant

LEMMA LimitType == TypeOK => limit \in Nat
  BY BatchAssumption DEF TypeOK

(* A step that takes no new permit keeps the bound. *)
LEMMA FewerPermits ==
    ASSUME Invariant, Holding' \subseteq Holding, limit' = limit
    PROVE  PermitsBounded'
<1>1. Cardinality(Holding') \in Nat /\ Cardinality(Holding') <= Cardinality(Holding)
  BY HoldingFinite, FS_Subset, FS_CardinalityType
<1> QED
  BY <1>1, HoldingFinite, LimitType DEF PermitsBounded, Invariant

(* A task that still runs cannot disturb what the client was answered. *)
LEMMA ReplyKept ==
    ASSUME Invariant, UNCHANGED <<reply, report>>,
           NEW i \in Input, task[i] # "done",
           first # 0 => first' = first /\ cause'[first] = cause[first]
    PROVE  ReplyKnown'
<1>1. reply # "vectors"
  BY DEF Invariant, ReplyKnown
<1>2. reply = "none" => report' = NoReport'
  BY DEF Invariant, ReplyKnown, NoReport, ReportOf, ReportedStatus, Retryable
<1>3. reply = "error" => first' # 0 /\ report' = ReportOf(cause'[first'], 0)
  BY DEF Invariant, ReplyKnown
<1> QED
  BY <1>1, <1>2, <1>3 DEF ReplyKnown

(* A task takes a permit only while there is one. *)
LEMMA AcquireInvariant ==
    ASSUME Invariant, NEW i \in Input, Acquire(i)
    PROVE  Invariant'
<1>1. TypeOK'
  BY DEF Acquire, Invariant, TypeOK
<1>2. PermitsBounded'
  <2>1. Holding' = Holding \cup {i} /\ i \notin Holding
    BY DEF Acquire, Invariant, TypeOK, Holding
  <2>2. Cardinality(Holding') = Cardinality(Holding) + 1
    BY <2>1, HoldingFinite, FS_AddElement
  <2>3. Cardinality(Holding) < limit /\ limit' = limit
    BY DEF Acquire
  <2> QED
    BY <2>2, <2>3, HoldingFinite, LimitType DEF PermitsBounded, Invariant
<1>3. FailuresKnown'
  BY DEF Acquire, Invariant, TypeOK, FailuresKnown
<1>4. ReplyKnown'
  BY ReplyKept DEF Acquire
<1> QED
  BY <1>1, <1>2, <1>3, <1>4 DEF Invariant

LEMMA TaskInvariant ==
    ASSUME Invariant, NEW i \in Input,
           Succeed(i) \/ BackOff(i) \/ CallAgain(i) \/ Fail(i)
    PROVE  Invariant'
<1>1. PermitsBounded'
  <2>1. /\ Holding' \subseteq Holding
        /\ limit' = limit
    BY DEF Succeed, BackOff, CallAgain, Fail, Invariant, TypeOK, Holding
  <2> QED
    BY <2>1, FewerPermits
<1>2. CASE Succeed(i) \/ CallAgain(i)
  <2>1. TypeOK'
    BY <1>2 DEF Succeed, CallAgain, Invariant, TypeOK
  <2>2. FailuresKnown'
    <3>1. PICK state : task' = [task EXCEPT ![i] = state]
      BY <1>2 DEF Succeed, CallAgain
    <3>2. task[i] # "failed" /\ state # "failed"
      BY <1>2, <2>1, <3>1 DEF Succeed, CallAgain, Invariant, TypeOK
    <3>3. UNCHANGED <<retries, cause, first>>
      BY <1>2 DEF Succeed, CallAgain
    <3>4. first # 0 => first \in Input
      BY BatchAssumption DEF Invariant, TypeOK, Input
    <3> QED
      BY <3>1, <3>2, <3>3, <3>4 DEF Invariant, TypeOK, FailuresKnown
  <2>3. ReplyKnown'
    BY <1>2, ReplyKept DEF Succeed, CallAgain
  <2> QED
    BY <1>1, <2>1, <2>2, <2>3 DEF Invariant
<1>3. CASE BackOff(i)
  <2>1. retries[i] \in 0..RetryAttempts /\ retries[i] < RetryAttempts
    BY <1>3 DEF BackOff, Retried, Invariant, TypeOK
  <2>2. TypeOK'
    BY <1>3, <2>1, BatchAssumption DEF BackOff, Invariant, TypeOK
  <2>3. FailuresKnown'
    BY <1>3 DEF BackOff, Invariant, TypeOK, FailuresKnown
  <2>4. ReplyKnown'
    BY <1>3, ReplyKept DEF BackOff
  <2> QED
    BY <1>1, <2>2, <2>3, <2>4 DEF Invariant
<1>4. CASE Fail(i)
  <2>1. PICK o \in Answers \cap Failure :
            /\ ~Retried(i, o)
            /\ cause' = [cause EXCEPT ![i] = o]
    BY <1>4 DEF Fail
  <2>2. o \in Outcome /\ o # "ok"
    BY <2>1 DEF Failure
  <2>3. Retryable(o) => retries[i] = RetryAttempts
    BY <2>1, BatchAssumption DEF Retried, Invariant, TypeOK
  <2>4. TypeOK'
    <3>1. first' \in 0..Count
      BY <1>4, BatchAssumption DEF Fail, Invariant, TypeOK, Input
    <3> QED
      BY <1>4, <2>1, <2>2, <3>1 DEF Fail, Invariant, TypeOK
  <2>5. FailuresKnown'
    BY <1>4, <2>1, <2>2, <2>3 DEF Fail, Invariant, TypeOK, FailuresKnown, Input
  <2>6. ReplyKnown'
    <3>1. first # 0 => first' = first /\ cause'[first] = cause[first]
      BY <1>4, <2>1 DEF Fail, Invariant, TypeOK, FailuresKnown, Input
    <3> QED
      BY <1>4, <3>1, ReplyKept DEF Fail
  <2> QED
    BY <1>1, <2>4, <2>5, <2>6 DEF Invariant
<1> QED
  BY <1>2, <1>3, <1>4

LEMMA ReplyInvariant ==
    ASSUME Invariant, Answer \/ Refuse
    PROVE  Invariant'
<1>1. PermitsBounded'
  <2>1. Holding' \subseteq Holding /\ limit' = limit
    BY DEF Answer, Refuse, Holding
  <2> QED
    BY <2>1, FewerPermits
<1>2. report' \in Report
  <2>1. CASE Answer
    <3>1. RetriesMade \in Nat
      BY RetriesMadeType DEF Invariant, TypeOK
    <3> QED
      BY <2>1, <3>1, ReportType DEF Answer, Outcome
  <2>2. CASE Refuse
    <3>1. first \in Input
      BY <2>2, BatchAssumption DEF Refuse, Invariant, TypeOK, Input
    <3> QED
      BY <2>2, <3>1, ReportType DEF Refuse, Invariant, TypeOK
  <2> QED
    BY <2>1, <2>2
<1>3. TypeOK' /\ FailuresKnown'
  BY <1>2 DEF Answer, Refuse, Invariant, TypeOK, FailuresKnown
<1>4. ReplyKnown'
  <2>1. CASE Answer
    <3>1. RetriesMade' = RetriesMade
      BY <2>1 DEF Answer, RetriesMade
    <3> QED
      BY <2>1, <3>1 DEF Answer, ReplyKnown
  <2>2. CASE Refuse
    BY <2>2 DEF Refuse, ReplyKnown
  <2> QED
    BY <2>1, <2>2
<1> QED
  BY <1>1, <1>3, <1>4 DEF Invariant

LEMMA NextInvariant == Invariant /\ [Next]_vars => Invariant'
<1> SUFFICES ASSUME Invariant, [Next]_vars PROVE Invariant'
  OBVIOUS
<1>1. CASE UNCHANGED vars
  <2>1. RetriesMade' = RetriesMade /\ Holding' = Holding
    BY <1>1 DEF vars, RetriesMade, Holding
  <2> QED
    BY <1>1, <2>1 DEF vars, Invariant, TypeOK, PermitsBounded, FailuresKnown,
                      ReplyKnown
<1>2. CASE Next
  BY <1>2, AcquireInvariant, TaskInvariant, ReplyInvariant DEF Next, TaskStep
<1> QED
  BY <1>1, <1>2

LEMMA AlwaysInvariant == Spec => []Invariant
  BY InitInvariant, NextInvariant, PTL DEF Spec

(***************************************************************************)
(* Type correctness of a batch, for any limit and retry budget: no task    *)
(* passes its budget and the retries that are added up are a number.       *)
(***************************************************************************)
THEOREM BatchTypes == Spec => []TypeOK
<1>1. Invariant => TypeOK
  BY DEF Invariant
<1> QED
  BY <1>1, AlwaysInvariant, PTL

(***************************************************************************)
(* A batch never has more calls to Vertex open than the limit that         *)
(* EMBEDDING_MAX_CONCURRENCY, or the adaptive controller, gave it.         *)
(***************************************************************************)
THEOREM FanoutKept == Spec => []FanoutBound
<1>1. Invariant => FanoutBound
  <2> SUFFICES ASSUME Invariant PROVE FanoutBound
    OBVIOUS
  <2> DEFINE Calling == {i \in Input : task[i] = "calling"}
  <2>1. Calling \subseteq Holding
    BY DEF Holding
  <2>2. Cardinality(Calling) \in Nat /\ Cardinality(Calling) <= Cardinality(Holding)
    BY <2>1, HoldingFinite, FS_Subset, FS_CardinalityType
  <2> QED
    BY <2>2, HoldingFinite, LimitType DEF FanoutBound, Invariant, PermitsBounded
<1> QED
  BY <1>1, AlwaysInvariant, PTL

(***************************************************************************)
(* create_embedding_response answers vectors for all the inputs or none.   *)
(***************************************************************************)
THEOREM AllOrNone == Spec => []WholeOrNothing
<1>1. Invariant => WholeOrNothing
  BY BatchAssumption
     DEF Invariant, TypeOK, Input, FailuresKnown, ReplyKnown, WholeOrNothing
<1> QED
  BY <1>1, AlwaysInvariant, PTL

(***************************************************************************)
(* No failure that is safe to retry fails a batch before the input it      *)
(* struck has used up its retries.                                         *)
(***************************************************************************)
THEOREM RetriesUsedUp == Spec => []BudgetUsedUp
<1>1. Invariant => BudgetUsedUp
  <2> SUFFICES ASSUME Invariant PROVE BudgetUsedUp
    OBVIOUS
  <2>1. report.retryable => first # 0 /\ Retryable(cause[first])
    <3>1. ~NoReport.retryable /\ ~ReportOf("ok", RetriesMade).retryable
      BY DEF NoReport, ReportOf, Retryable
    <3>2. ReportOf(cause[first], 0).retryable = Retryable(cause[first])
      BY DEF ReportOf
    <3> QED
      BY <3>1, <3>2 DEF Invariant, TypeOK, ReplyKnown
  <2>2. first # 0 => first \in Input
    BY BatchAssumption DEF Invariant, TypeOK, Input
  <2> QED
    BY <2>1, <2>2 DEF Invariant, FailuresKnown, BudgetUsedUp
<1> QED
  BY <1>1, AlwaysInvariant, PTL

(***************************************************************************)
(* The except clauses of create_embedding_response and the exception       *)
(* handlers of the app agree: a batch is counted in the class of what its  *)
(* client was answered, for every way in which a call can fail, and the    *)
(* retries that it reports are those of all its tasks, or none.            *)
(***************************************************************************)
THEOREM BatchStatusesAgree == Spec => []ReportMatchesAnswer
<1>1. Invariant => ReportMatchesAnswer
  <2> SUFFICES ASSUME Invariant PROVE ReportMatchesAnswer
    OBVIOUS
  <2>1. reply = "vectors" => /\ report.status = ReportedStatus("ok")
                             /\ report.retries = RetriesMade
    BY DEF Invariant, ReplyKnown, ReportOf
  <2>2. ASSUME reply = "error"
        PROVE  /\ cause[first] \in Failure
               /\ report.status = ReportedStatus(cause[first])
               /\ report.retries = 0
    <3>1. first \in Input
      BY <2>2, BatchAssumption DEF Invariant, TypeOK, Input, ReplyKnown
    <3> QED
      BY <2>2, <3>1 DEF Invariant, TypeOK, FailuresKnown, ReplyKnown, ReportOf, Failure
  <2> QED
    BY <2>1, <2>2, SuccessClass, FailureClasses DEF ReportMatchesAnswer
<1> QED
  BY <1>1, AlwaysInvariant, PTL

-----------------------------------------------------------------------------
(***************************************************************************)
(* A batch, seen as the holder of its slot: a task that takes a permit     *)
(* begins to use it, the reply gives it back, and no other step counts.    *)
(***************************************************************************)
LEMMA HolderInit == Init => Holder!Init
  BY DEF Init, Holder!Init, Slot, Told

LEMMA ReportCounts ==
    ASSUME NEW o \in Outcome, NEW n \in Nat
    PROVE  ReportOf(o, n) \in {r \in Report : o = "ok" <=> Class(r.status) = 2}
<1>1. ReportOf(o, n) \in Report /\ ReportOf(o, n).status = ReportedStatus(o)
  BY ReportType DEF ReportOf
<1>2. o # "ok" => Class(ReportedStatus(o)) # 2
  BY FailureClasses DEF Failure
<1> QED
  BY <1>1, <1>2, SuccessClass

LEMMA HolderTask ==
    ASSUME Invariant, NEW i \in Input, TaskStep(i)
    PROVE  Holder!Begin \/ UNCHANGED Holder!holderVars
<1>1. UNCHANGED <<reply, report>> /\ Told' = Told
  BY DEF TaskStep, Acquire, Succeed, BackOff, CallAgain, Fail, Told
<1>2. PICK state \in {"calling", "backoff", "done", "failed"} :
          task' = [task EXCEPT ![i] = state]
  BY DEF TaskStep, Acquire, Succeed, BackOff, CallAgain, Fail
<1>3. ~(\A j \in Input : task'[j] = "waiting")
  BY <1>2 DEF Invariant, TypeOK
<1>4. Slot' = IF reply # "none" THEN "returned" ELSE "used"
  BY <1>1, <1>3 DEF Slot
<1>5. CASE reply = "none" /\ \A j \in Input : task[j] = "waiting"
  BY <1>1, <1>4, <1>5 DEF Holder!Begin, Slot
<1>6. CASE ~(reply = "none" /\ \A j \in Input : task[j] = "waiting")
  BY <1>1, <1>4, <1>6 DEF Holder!holderVars, Slot
<1> QED
  BY <1>5, <1>6

LEMMA HolderReply ==
    ASSUME Invariant, Answer \/ Refuse
    PROVE  Holder!GiveBack
<1>1. PICK i \in Input : task[i] \in {"done", "failed"}
  <2>1. 1 \in Input
    BY BatchAssumption DEF Input
  <2>2. Refuse => first \in Input /\ task[first] = "failed"
    BY BatchAssumption DEF Refuse, Invariant, TypeOK, FailuresKnown, Input
  <2> QED
    BY <2>1, <2>2 DEF Answer
<1>2. Slot = "used" /\ Slot' = "returned"
  BY <1>1 DEF Answer, Refuse, Slot
<1>3. Told = "nothing" /\ Told' = IF Answer THEN "success" ELSE "failure"
  BY DEF Answer, Refuse, Told
<1>4. report' \in IF Told' = "failure" THEN {r \in Report : Class(r.status) # 2}
                  ELSE {r \in Report : Class(r.status) = 2}
  <2>1. CASE Answer
    <3>1. RetriesMade \in Nat /\ "ok" \in Outcome
      BY RetriesMadeType DEF Invariant, TypeOK, Outcome
    <3> QED
      BY <1>3, <2>1, <3>1, ReportCounts DEF Answer
  <2>2. CASE ~Answer
    <3>1. cause[first] \in Outcome \ {"ok"} /\ report' = ReportOf(cause[first], 0)
      BY <2>2, BatchAssumption
         DEF Refuse, Invariant, TypeOK, FailuresKnown, Input
    <3> QED
      BY <1>3, <2>2, <3>1, ReportCounts
  <2> QED
    BY <2>1, <2>2
<1>5. reply = "none" /\ reply' # "none"
  BY DEF Answer, Refuse
<1> QED
  BY <1>2, <1>3, <1>4, <1>5 DEF Holder!GiveBack

(***************************************************************************)
(* For any number of inputs, limit and retry budget a batch does with its  *)
(* slot what admission takes for granted: it gives it back once, with one  *)
(* report that agrees with its reply, and the tasks that go on afterwards  *)
(* change nothing of that.                                                 *)
(***************************************************************************)
THEOREM BatchHoldsSlot == Spec => ImplementsSlotHolder
<1>1. Invariant /\ [Next]_vars => [Holder!Next]_(Holder!holderVars)
  <2> SUFFICES ASSUME Invariant, [Next]_vars
               PROVE  [Holder!Next]_(Holder!holderVars)
    OBVIOUS
  <2>1. CASE UNCHANGED vars
    BY <2>1 DEF vars, Holder!holderVars, Slot, Told
  <2>2. CASE Next
    BY <2>2, HolderTask, HolderReply DEF Next, Holder!Next
  <2> QED
    BY <2>1, <2>2
<1> QED
  BY <1>1, HolderInit, AlwaysInvariant, PTL
     DEF Spec, ImplementsSlotHolder, Holder!Spec

=============================================================================
