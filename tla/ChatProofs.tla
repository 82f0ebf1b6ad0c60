------------------------------ MODULE ChatProofs ------------------------------
(***************************************************************************)
(* Proofs about ChatCompletion, for any settings the process starts with,  *)
(* any names asked for and any retry budget.  First the registry by        *)
(* itself: what a name that the route accepts is resolved to, and what the *)
(* list says.  Then the invariant of a request, in four parts: the types,  *)
(* how far it is, what it may still spend, and how it ended.               *)
(***************************************************************************)
EXTENDS ChatCompletion, SequenceTheorems, WellFoundedInduction, TLAPS

-----------------------------------------------------------------------------
(* The greatest element of a non-empty set of numbers below a bound.       *)
LEMMA LatestElement ==
    ASSUME NEW n \in Nat, NEW S \in SUBSET (0..n), S # {}
    PROVE  \E i \in S : \A j \in S : j <= i
<1> DEFINE R == {p \in Nat \X Nat : p[1] < p[2]}
           T == {n - i : i \in S}
<1>1. IsWellFoundedOn(R, Nat)
  BY NatLessThanWellFounded, Zenon DEF OpToRel
<1>2. T \subseteq Nat /\ T # {}
  <2>1. \A i \in S : n - i \in Nat /\ n - i \in T
    OBVIOUS
  <2>2. PICK i \in S : TRUE
    OBVIOUS
  <2> QED
    BY <2>1, <2>2
<1>3. \E t \in T : \A u \in T : ~(<<u, t>> \in R)
  <2> HIDE DEF R, T
  <2> QED
    BY <1>1, <1>2, WFMin
<1>4. PICK i \in S : \A u \in T : ~(<<u, n - i>> \in R)
  BY <1>3
<1>5. ASSUME NEW j \in S PROVE j <= i
  <2>1. n - j \in T /\ n - j \in Nat /\ n - i \in Nat
    OBVIOUS
  <2>2. ~(<<n - j, n - i>> \in R)
    BY <1>4, <2>1
  <2>3. ~(n - j < n - i)
    BY <2>1, <2>2
  <2> QED
    BY <2>3
<1> QED
  BY <1>5

(* The last entry of an alias is an entry of that alias. *)
LEMMA LastEntryIsOne ==
    ASSUME NEW s \in Configuration, NEW a \in Aliases(s)
    PROVE  /\ LastEntry(s, a) \in DOMAIN s.aliases
           /\ s.aliases[LastEntry(s, a)].alias = a
<1> DEFINE S == {i \in DOMAIN s.aliases : s.aliases[i].alias = a}
<1>1. DOMAIN s.aliases = 1..Len(s.aliases) /\ Len(s.aliases) \in Nat
  <2>1. s.aliases \in Seq([alias : STRING, target : STRING])
    BY DEF Configuration
  <2> QED
    BY <2>1, LenProperties
<1>2. S \subseteq 0..Len(s.aliases) /\ S # {}
  BY <1>1 DEF Aliases
<1>3. \E i \in S : \A j \in S : j <= i
  <2> HIDE DEF S
  <2> QED
    BY <1>1, <1>2, LatestElement
<1>4. \E i \in DOMAIN s.aliases :
         /\ s.aliases[i].alias = a
         /\ \A j \in DOMAIN s.aliases : s.aliases[j].alias = a => j <= i
  BY <1>3
<1> QED
  BY <1>4 DEF LastEntry

(* What the settings that a process starts with say about an alias. *)
LEMMA AliasMeansModel ==
    ASSUME NEW s \in Configuration, Starts(s), NEW a \in Aliases(s)
    PROVE  /\ a # Blank /\ a \notin Allowed(s)
           /\ AliasTarget(s, a) \in Allowed(s)
           /\ AliasTarget(s, a) # Blank
<1> DEFINE e == s.aliases[LastEntry(s, a)]
<1>1. EntryAccepted(s, e) /\ e.alias = a
  BY LastEntryIsOne DEF Starts
<1> QED
  BY <1>1 DEF EntryAccepted, AliasTarget

(* What the endpoint accepts is resolved to a model, and a model to itself. *)
LEMMA ResolvedToModel ==
    ASSUME NEW s \in Configuration, Starts(s), NEW n, ChatAccepts(s, n)
    PROVE  /\ Resolve(s, n) \in Allowed(s) \ Aliases(s)
           /\ n \in Allowed(s) => Resolve(s, n) = n
<1>1. \A a \in Aliases(s) : a \notin Allowed(s) /\ AliasTarget(s, a) \in Allowed(s)
  BY AliasMeansModel
<1>2. CASE n = Blank
  <2>1. s.default \in Allowed(s) /\ Blank \notin Allowed(s)
    BY DEF Configuration, Allowed
  <2> QED
    BY <1>1, <1>2, <2>1 DEF Resolve
<1>3. CASE n # Blank
  BY <1>1, <1>3 DEF Resolve, ChatAccepts
<1> QED
  BY <1>2, <1>3

LEMMA ListIsHonest ==
    ASSUME config \in Configuration, Starts(config)
    PROVE  ListingHonoured
<1> DEFINE list == Listed(config)
<1>1. /\ DOMAIN list = ListedIds(config)
      /\ \A id \in ListedIds(config) :
            list[id] = IF id = config.embedding THEN EmbeddingEntry
                       ELSE ChatEntry(config, id)
  BY DEF Listed
<1>2. ASSUME NEW id \in ListedIds(config), id # config.embedding
      PROVE  /\ list[id].kind = "chat"
             /\ ChatAccepts(config, id)
             /\ Resolve(config, id) =
                  IF list[id].target = Blank THEN id ELSE list[id].target
  <2>1. list[id] = ChatEntry(config, id)
    BY <1>1, <1>2
  <2>2. CASE id \in Aliases(config)
    <3>1. id # Blank /\ AliasTarget(config, id) # Blank
      BY <2>2, AliasMeansModel
    <3> QED
      BY <2>1, <2>2, <3>1 DEF ChatEntry, ChatAccepts, Resolve
  <2>3. CASE id \notin Aliases(config)
    <3>1. id \in Allowed(config) /\ id # Blank
      BY <1>2, <2>3 DEF ListedIds, Allowed
    <3> QED
      BY <2>1, <2>3, <3>1 DEF ChatEntry, ChatAccepts, Resolve
  <2> QED
    BY <2>2, <2>3
<1>3. config.embedding \in ListedIds(config)
  BY DEF ListedIds
<1>4. list[config.embedding].kind = "embedding"
  BY <1>1, <1>3 DEF EmbeddingEntry
<1>5. ASSUME NEW id \in ListedIds(config)
      PROVE  IF list[id].kind = "embedding" THEN EmbeddingAccepts(config, id)
             ELSE /\ ChatAccepts(config, id)
                  /\ Resolve(config, id) =
                       IF list[id].target = Blank THEN id ELSE list[id].target
  <2> HIDE DEF list
  <2> QED
    BY <1>2, <1>4, <1>5 DEF EmbeddingAccepts
<1>6. ASSUME NEW id \in Names \ {Blank}
      PROVE  /\ EmbeddingAccepts(config, id)
                  => id \in DOMAIN list /\ list[id].kind = "embedding"
             /\ ChatAccepts(config, id) /\ ~EmbeddingAccepts(config, id)
                  => id \in DOMAIN list /\ list[id].kind = "chat"
  <2>1. ChatAccepts(config, id) => id \in ListedIds(config)
    BY <1>6 DEF ChatAccepts, ListedIds
  <2>2. EmbeddingAccepts(config, id) <=> id = config.embedding
    BY <1>6 DEF EmbeddingAccepts
  <2> HIDE DEF list
  <2> QED
    BY <1>1, <1>2, <1>3, <1>4, <2>1, <2>2
<1> QED
  BY <1>1, <1>5, <1>6 DEF ListingHonoured

-----------------------------------------------------------------------------
Unstarted == {"new", "ready"}
Ongoing == {"calling", "backoff", "reading", "yielded", "abandoned"}

(* How far the request is: what it called and what it has reported. *)
Progress ==
    /\ place \in Unstarted => calls = 0 /\ client = "waits" /\ cause = "ok"
    /\ place \in Ongoing
         => calls > 0 /\ client = IF place = "abandoned" THEN "gone" ELSE "waits"
    /\ place = "over" /\ calls = 0 => client \in {"envelope", "gone"} /\ cause = "ok"
    /\ place = "over" /\ calls > 0
         => \E n \in Nat : reports = <<ReportOf(cause, n)>>
    /\ place # "over" \/ calls = 0 => reports = << >>

(* The model it was accepted with, and the one that it calls. *)
Resolved ==
    /\ place \notin {"new", "over"} => ChatAccepts(config, asked)
    /\ calls > 0 => model = Resolve(config, asked) /\ ChatAccepts(config, asked)

(* What it may spend on calls: CallAgain meets what BackOff has checked. *)
Spending ==
    /\ streams => calls <= 1
    /\ ~streams /\ calls > 0 => budget = MaxAttempts(firstMode) /\ calls <= budget
    /\ place = "backoff" => ~streams /\ Retryable(cause) /\ calls < budget
    /\ place \in {"reading", "yielded", "abandoned"} => streams

(* What the client was left with against how the last call ended. *)
Ended ==
    /\ client = "envelope" /\ calls > 0 => cause # "ok"
    /\ client = "envelope" /\ Retryable(cause) => calls = MaxAttempts(firstMode)
    /\ client = "broken" => cause # "ok"
    /\ client \in {"answer", "done"} => cause = "ok"

Invariant == TypeOK /\ Progress /\ Resolved /\ Spending /\ Ended

LEMMA BudgetRange ==
    ASSUME NEW m \in RuntimeMode
    PROVE  /\ MaxAttempts(m) \in 1..(RetryAttempts + 1)
           /\ RuntimeAdaptive /\ m = "degraded" => MaxAttempts(m) = 1
           /\ RuntimeAdaptive /\ m = "elevated" /\ MaxAttempts(m) > 1
                => MaxAttempts(m) <= RetryAttempts
  BY ChatAssumption DEF MaxAttempts, RuntimeMode

LEMMA ReportType ==
    ASSUME NEW o \in Outcome, NEW n \in Nat
    PROVE  ReportOf(o, n) \in Report
<1>1. ReportedStatus(o) \in Nat
  BY DEF ReportedStatus, UpstreamStatus
<1> QED
  BY <1>1 DEF ReportOf, Report, Retryable

LEMMA InitInvariant == Init => Invariant
<1> SUFFICES ASSUME Init PROVE Invariant
  OBVIOUS
<1>1. TypeOK
  <2>1. /\ Starts(config) /\ config \in Configurations
        /\ model \in {Blank} \cup Allowed(config)
    BY DEF Init
  <2>2. reports \in Seq(Report)
    BY EmptySeq DEF Init
  <2>3. cause \in Outcome
    BY DEF Init, Outcome
  <2>4. budget \in 1..(RetryAttempts + 1) /\ calls \in 0..(RetryAttempts + 1)
    BY ChatAssumption DEF Init
  <2> QED
    BY <2>1, <2>2, <2>3, <2>4 DEF Init, TypeOK, Place
<1> QED
  BY <1>1 DEF Init, Invariant, Progress, Resolved, Spending, Ended, Unstarted,
              Ongoing, Retryable

(* Every way to finish is the end of a request that called Vertex. *)
LEMMA FinishInvariant ==
    ASSUME Invariant, place \in Ongoing, complete' \in BOOLEAN,
           NEW o \in Outcome, NEW n \in Nat, Finish(o, n, client'),
           client' \in {"answer", "envelope", "done", "broken", "gone"},
           client' \in {"envelope", "broken"} => o # "ok",
           client' = "envelope" /\ Retryable(o) => calls = MaxAttempts(firstMode),
           client' \in {"answer", "done"} => o = "ok"
    PROVE  Invariant'
<1>1. reports' = <<ReportOf(o, n)>> /\ ReportOf(o, n) \in Report
  <2>1. reports = << >> /\ ReportOf(o, n) \in Report
    BY ReportType DEF Invariant, Progress, Ongoing
  <2> QED
    BY <2>1 DEF Finish
<1>2. TypeOK'
  BY <1>1 DEF Finish, callVars, payloadVars, Invariant, TypeOK, Place
<1>3. Progress'
  BY <1>1 DEF Finish, callVars, payloadVars, Invariant, Progress, Ongoing, Unstarted
<1>4. Resolved' /\ Spending'
  BY DEF Finish, callVars, payloadVars, Invariant, Resolved, Spending,
         ChatAccepts, Resolve, MaxAttempts
<1>5. Ended'
  BY DEF Finish, callVars, payloadVars, Invariant, Ended, MaxAttempts
<1> QED
  BY <1>2, <1>3, <1>4, <1>5 DEF Invariant

(* The steps that neither call Vertex nor finish a request that did. *)
LEMMA QuietInvariant ==
    ASSUME Invariant,
           \/ ModeTurns \/ Accept \/ Reject \/ LeaveEarly \/ LeaveYielded
           \/ Opened \/ Chunk \/ Resume \/ BackOff
    PROVE  Invariant'
<1> USE DEF callVars, payloadVars, endVars
<1>1. TypeOK'
  <2>1. CASE ModeTurns
    <3>1. runtimeMode' \in RuntimeMode
      BY <2>1 DEF ModeTurns, Turns, RuntimeMode
    <3> QED
      BY <2>1, <3>1 DEF ModeTurns, Invariant, TypeOK
  <2>2. CASE BackOff
    BY <2>2, ChatAssumption DEF BackOff, Invariant, TypeOK, Place
  <2>3. CASE Accept \/ Reject \/ LeaveEarly \/ LeaveYielded \/ Opened \/ Chunk \/ Resume
    BY <2>3 DEF Accept, Reject, LeaveEarly, LeaveYielded, Opened, Chunk, Resume,
                Invariant, TypeOK, Place
  <2> QED
    BY <2>1, <2>2, <2>3
<1>2. Progress'
  BY DEF ModeTurns, Accept, Reject, LeaveEarly, LeaveYielded, Opened, Chunk,
         Resume, BackOff, Invariant, Progress, Unstarted, Ongoing
<1>3. Resolved'
  BY DEF ModeTurns, Accept, Reject, LeaveEarly, LeaveYielded, Opened, Chunk,
         Resume, BackOff, Invariant, Resolved, ChatAccepts, Resolve
<1>4. Spending'
  BY DEF ModeTurns, Accept, Reject, LeaveEarly, LeaveYielded, Opened, Chunk,
         Resume, BackOff, Retried, Invariant, Spending, MaxAttempts
<1>5. Ended'
  BY DEF ModeTurns, Accept, Reject, LeaveEarly, LeaveYielded, Opened, Chunk,
         Resume, BackOff, Invariant, Ended, Progress, Unstarted, Ongoing,
         MaxAttempts, Retryable
<1> QED
  BY <1>1, <1>2, <1>3, <1>4, <1>5 DEF Invariant

(* The steps that call Vertex. *)
LEMMA CallInvariant ==
    ASSUME Invariant, Call \/ Open \/ CallAgain
    PROVE  Invariant'
<1> USE DEF callVars, payloadVars, endVars
<1>1. TypeOK'
  <2>1. CASE Call \/ Open
    <3>1. config \in Configuration /\ Starts(config) /\ ChatAccepts(config, asked)
      BY <2>1, ChatAssumption DEF Call, Open, Invariant, TypeOK, Resolved
    <3>2. Resolve(config, asked) \in Allowed(config)
      BY <3>1, ResolvedToModel
    <3>3. MaxAttempts(runtimeMode) \in 1..(RetryAttempts + 1)
      BY BudgetRange DEF Invariant, TypeOK
    <3>4. 1 \in 0..(RetryAttempts + 1)
      BY ChatAssumption
    <3> QED
      BY <2>1, <3>2, <3>3, <3>4 DEF Call, Open, Invariant, TypeOK, Place
  <2>2. CASE CallAgain
    <3>1. calls + 1 \in 0..(RetryAttempts + 1)
      BY <2>2, ChatAssumption DEF CallAgain, Invariant, TypeOK, Spending
    <3> QED
      BY <2>2, <3>1 DEF CallAgain, Invariant, TypeOK, Place
  <2> QED
    BY <2>1, <2>2
<1>2. Progress'
  BY DEF Call, Open, CallAgain, Invariant, Progress, Unstarted, Ongoing, TypeOK
<1>3. Resolved'
  BY DEF Call, Open, CallAgain, Invariant, Resolved, Progress, Ongoing, ChatAccepts, Resolve
<1>4. Spending'
  <2>1. CASE Call
    <3>1. MaxAttempts(runtimeMode) \in 1..(RetryAttempts + 1)
      BY BudgetRange DEF Invariant, TypeOK
    <3> QED
      BY <2>1, <3>1, ChatAssumption DEF Call, Spending, MaxAttempts
  <2>2. CASE Open
    BY <2>2 DEF Open, Spending
  <2>3. CASE CallAgain
    BY <2>3 DEF CallAgain, Invariant, TypeOK, Spending, Progress, Ongoing, MaxAttempts
  <2> QED
    BY <2>1, <2>2, <2>3
<1>5. Ended'
  BY DEF Call, Open, CallAgain, Invariant, Progress, Unstarted, Ongoing, Ended
<1> QED
  BY <1>1, <1>2, <1>3, <1>4, <1>5 DEF Invariant

(* The steps after which the request is reported. *)
LEMMA EndInvariant ==
    ASSUME Invariant,
           \/ Answered \/ Fail \/ OpenFails
           \/ StreamEnds \/ StreamFails \/ LeaveReading \/ Collected
    PROVE  Invariant'
<1>1. place \in Ongoing
  BY DEF Answered, Fail, OpenFails, StreamEnds, StreamFails, LeaveReading,
         Collected, Ongoing
<1>2. complete' \in BOOLEAN
  BY DEF Answered, Fail, OpenFails, StreamEnds, StreamFails, LeaveReading,
         Collected, Invariant, TypeOK
<1>3. calls - 1 \in Nat /\ 0 \in Nat /\ "ok" \in Outcome
  BY <1>1, ChatAssumption DEF Invariant, TypeOK, Progress, Outcome
<1>4. CASE Answered \/ StreamEnds \/ LeaveReading \/ Collected
  <2>1. PICK n \in {0, calls - 1}, told \in {"answer", "done", "gone"} :
            Finish("ok", n, told)
    BY <1>4 DEF Answered, StreamEnds, LeaveReading, Collected
  <2>2. client' = told /\ n \in Nat
    BY <1>3, <2>1 DEF Finish
  <2> QED
    BY <1>1, <1>2, <1>3, <2>1, <2>2, FinishInvariant
<1>5. CASE OpenFails \/ StreamFails
  <2>1. PICK o \in Outcome \ {"ok"} : Finish(o, 0, "broken")
    BY <1>5, ChatAssumption DEF OpenFails, StreamFails
  <2>2. client' = "broken"
    BY <2>1 DEF Finish
  <2> QED
    BY <1>1, <1>2, <1>3, <2>1, <2>2, FinishInvariant
<1>6. CASE Fail
  <2>0. PICK o \in Answers \cap Failure :
            /\ ~Retried(o)
            /\ \E n \in RetriesKnown(o) : Finish(o, n, "envelope")
    BY <1>6 DEF Fail
  <2>1. PICK n \in RetriesKnown(o) : ~Retried(o) /\ Finish(o, n, "envelope")
    BY <2>0
  <2>2. o \in Outcome /\ o # "ok"
    BY <2>0 DEF Failure
  <2>3. n \in Nat
    BY <1>3, <2>1 DEF RetriesKnown
  <2>4. Retryable(o) => calls = MaxAttempts(firstMode)
    <3>1. budget = MaxAttempts(firstMode) /\ calls <= budget
      BY <1>1, <1>6 DEF Fail, Invariant, Spending, Progress
    <3> QED
      BY <2>1, <3>1, ChatAssumption DEF Retried, Invariant, TypeOK
  <2>5. client' = "envelope"
    BY <2>1 DEF Finish
  <2> QED
    BY <1>1, <1>2, <2>1, <2>2, <2>3, <2>4, <2>5, FinishInvariant
<1> QED
  BY <1>4, <1>5, <1>6

LEMMA NextInvariant == Invariant /\ [Next]_vars => Invariant'
<1> SUFFICES ASSUME Invariant, [Next]_vars PROVE Invariant'
  OBVIOUS
<1>1. CASE UNCHANGED vars
  BY <1>1 DEF vars, callVars, payloadVars, endVars, Invariant, TypeOK, Progress,
              Resolved, Spending, Ended, ChatAccepts, Resolve, MaxAttempts
<1>2. CASE Next
  <2>1. \/ ModeTurns \/ Accept \/ Reject \/ LeaveEarly \/ LeaveYielded
        \/ Opened \/ Chunk \/ Resume \/ BackOff
        \/ Call \/ Open \/ CallAgain
        \/ Answered \/ Fail \/ OpenFails
        \/ StreamEnds \/ StreamFails \/ LeaveReading \/ Collected
    BY <1>2 DEF Next, UpstreamTurn, StreamTurn
  <2> QED
    BY <2>1, QuietInvariant, CallInvariant, EndInvariant
<1> QED
  BY <1>1, <1>2

LEMMA AlwaysInvariant == Spec => []Invariant
  BY InitInvariant, NextInvariant, PTL DEF Spec

-----------------------------------------------------------------------------
(* The variables of a chat request stay within their types. *)
THEOREM ChatTypes == Spec => []TypeOK
<1>1. Invariant => TypeOK
  BY DEF Invariant
<1> QED
  BY <1>1, AlwaysInvariant, PTL

(* The two ladders, failure by failure. *)
LEMMA FailureClasses ==
    ASSUME NEW o \in Failure
    PROVE  /\ Class(ReportedStatus(o)) = Class(EnvelopeStatus(o))
           /\ Class(ReportedStatus(o)) # 2
<1>1. CASE o \in DOMAIN UpstreamStatus
  BY <1>1 DEF UpstreamStatus, ReportedStatus, EnvelopeStatus, Class
<1>2. CASE o \in {"malformed", "garbled", "unanswered", "noToken"}
  <2>1. o \notin DOMAIN UpstreamStatus /\ o # "ok"
    BY <1>2 DEF UpstreamStatus
  <2>2. /\ ReportedStatus(o) = IF o = "malformed" THEN 502 ELSE 500
        /\ EnvelopeStatus(o) = IF o = "malformed" THEN 502
                               ELSE IF o = "noToken" THEN 503 ELSE 500
    BY <1>2, <2>1 DEF ReportedStatus, EnvelopeStatus
  <2>3. 502 \div 100 = 5 /\ 500 \div 100 = 5 /\ 503 \div 100 = 5
    OBVIOUS
  <2> QED
    BY <2>2, <2>3 DEF Class
<1> QED
  BY <1>1, <1>2 DEF Failure, Outcome

LEMMA SuccessClass == Class(ReportedStatus("ok")) = 2
<1>1. "ok" \notin DOMAIN UpstreamStatus
  BY DEF UpstreamStatus
<1>2. ReportedStatus("ok") = 200
  BY <1>1 DEF ReportedStatus
<1> QED
  BY <1>2 DEF Class

(***************************************************************************)
(* The two ladders of except clauses and exception handlers agree: what    *)
(* the controller counts is the class of what the client was answered.     *)
(***************************************************************************)
THEOREM StatusesAgree == Spec => []ReportMatchesAnswer
<1>1. \A o \in Failure :
        /\ Class(ReportedStatus(o)) = Class(EnvelopeStatus(o))
        /\ Class(ReportedStatus(o)) # 2
  BY FailureClasses
<1>2. Class(ReportedStatus("ok")) = 2
  BY SuccessClass
<1>3. Invariant => ReportMatchesAnswer
  <2> SUFFICES ASSUME Invariant, NEW i \in DOMAIN reports
               PROVE  /\ client = "envelope"
                           => Class(reports[i].status) = Class(EnvelopeStatus(cause))
                      /\ client \in {"envelope", "broken"} => Class(reports[i].status) # 2
                      /\ client \in {"answer", "done"} => Class(reports[i].status) = 2
    BY DEF ReportMatchesAnswer
  <2>1. reports # << >>
    OBVIOUS
  <2>2. place = "over" /\ calls > 0
    BY <2>1 DEF Invariant, Progress, TypeOK
  <2>3. PICK n \in Nat : reports = <<ReportOf(cause, n)>>
    BY <2>2 DEF Invariant, Progress
  <2>4. reports[i].status = ReportedStatus(cause)
    BY <2>3 DEF ReportOf
  <2>5. client \in {"envelope", "broken"} => cause \in Failure
    BY <2>2 DEF Invariant, TypeOK, Ended, Failure
  <2>6. client \in {"answer", "done"} => cause = "ok"
    BY DEF Invariant, Ended
  <2> QED
    BY <1>1, <1>2, <2>4, <2>5, <2>6
<1> QED
  BY <1>3, AlwaysInvariant, PTL

(***************************************************************************)
(* Whatever the settings and the name asked for, Vertex is called with a   *)
(* configured model, never with an alias.                                  *)
(***************************************************************************)
THEOREM AliasesResolved == Spec => []UpstreamModelConfigured
<1>1. Invariant => UpstreamModelConfigured
  <2> SUFFICES ASSUME Invariant, calls > 0
               PROVE  /\ model \in Allowed(config) \ Aliases(config)
                      /\ asked \in Allowed(config) => model = asked
    BY DEF UpstreamModelConfigured
  <2>1. config \in Configuration /\ Starts(config)
    BY ChatAssumption DEF Invariant, TypeOK
  <2>2. model = Resolve(config, asked) /\ ChatAccepts(config, asked)
    BY DEF Invariant, Resolved
  <2> QED
    BY <2>1, <2>2, ResolvedToModel
<1> QED
  BY <1>1, AlwaysInvariant, PTL

(***************************************************************************)
(* What GET /v1/models lists is what the two endpoints accept, with the    *)
(* target that a chat request for it is sent to.                           *)
(***************************************************************************)
THEOREM ListMatchesEndpoints == Spec => []ListingHonoured
<1>1. Invariant => ListingHonoured
  <2>1. Invariant => config \in Configuration /\ Starts(config)
    BY ChatAssumption DEF Invariant, TypeOK
  <2> QED
    BY <2>1, ListIsHonest
<1> QED
  BY <1>1, AlwaysInvariant, PTL

(***************************************************************************)
(* A request keeps within the budget of the mode it met at its first call, *)
(* whatever the mode becomes, and uses it up before it fails on a status   *)
(* that is safe to retry.                                                  *)
(***************************************************************************)
THEOREM BudgetKept == Spec => []BudgetOfMode
<1>1. Invariant => BudgetOfMode
  <2> SUFFICES ASSUME Invariant PROVE BudgetOfMode
    OBVIOUS
  <2>1. /\ calls \in Nat /\ MaxAttempts(firstMode) \in Nat
        /\ RuntimeAdaptive /\ firstMode = "degraded" => MaxAttempts(firstMode) = 1
        /\ RuntimeAdaptive /\ firstMode = "elevated" /\ MaxAttempts(firstMode) > 1
             => MaxAttempts(firstMode) <= RetryAttempts
    BY BudgetRange, ChatAssumption DEF Invariant, TypeOK
  <2>2. calls <= 1 \/ calls <= MaxAttempts(firstMode)
    BY <2>1 DEF Invariant, Spending, TypeOK
  <2>3. /\ streams => calls <= 1
        /\ client = "envelope" /\ Retryable(cause) => calls = MaxAttempts(firstMode)
    BY DEF Invariant, Spending, Ended
  <2> QED
    BY <2>1, <2>2, <2>3, ChatAssumption DEF BudgetOfMode
<1> QED
  BY <1>1, AlwaysInvariant, PTL

(***************************************************************************)
(* No step calls Vertex again after a failure that is not safe to retry.   *)
(***************************************************************************)
THEOREM RetriesSafe == Spec => OnlySafeRetries
<1>1. Invariant /\ [Next]_vars => [calls > 0 /\ calls' > calls => Retryable(cause)]_vars
  <2> SUFFICES ASSUME Invariant, Next, calls > 0, calls' > calls
               PROVE  Retryable(cause)
    OBVIOUS
  <2>1. CASE CallAgain
    BY <2>1 DEF CallAgain, Invariant, Spending
  <2>2. CASE Call \/ Open
    BY <2>2 DEF Call, Open, Invariant, Progress, Unstarted
  <2>3. CASE ~(CallAgain \/ Call \/ Open)
    <3>1. calls' = calls
      BY <2>3 DEF Next, UpstreamTurn, StreamTurn, ModeTurns, Accept, Reject, Chunk,
                  Resume, Answered, BackOff, Fail, Opened, OpenFails, StreamEnds,
                  StreamFails, LeaveEarly, LeaveReading, LeaveYielded, Collected,
                  Finish, callVars, payloadVars
    <3> QED
      BY <3>1 DEF Invariant, TypeOK
  <2> QED
    BY <2>1, <2>2, <2>3
<1> QED
  BY <1>1, AlwaysInvariant, PTL DEF Spec, OnlySafeRetries

-----------------------------------------------------------------------------
(* A report is a failure's if, and only if, it was made of one.            *)
LEMMA ReportCounts ==
    ASSUME NEW o \in Outcome, NEW n \in Nat
    PROVE  ReportOf(o, n) \in {r \in Report : o = "ok" <=> Class(r.status) = 2}
<1>1. ReportOf(o, n) \in Report /\ ReportOf(o, n).status = ReportedStatus(o)
  BY ReportType DEF ReportOf
<1>2. Class(ReportedStatus("ok")) = 2
  BY SuccessClass
<1>3. o # "ok" => Class(ReportedStatus(o)) # 2
  BY FailureClasses DEF Failure
<1> QED
  BY <1>1, <1>2, <1>3

LEMMA HolderInit == Init => Holder!Init
  BY DEF Init, Holder!Init, Slot, Told

(* The steps between two awaits, or yields, of a request with its slot.    *)
LEMMA HolderUnmoved ==
    ASSUME Invariant,
           ModeTurns \/ BackOff \/ CallAgain \/ Opened \/ Chunk \/ Resume
    PROVE  UNCHANGED Holder!holderVars
<1>1. Slot' = Slot /\ Told' = Told
  <2>1. CASE ModeTurns
    BY <2>1 DEF ModeTurns, callVars, endVars, Slot, Told
  <2>2. CASE ~ModeTurns
    <3>1. /\ {place, place'} \subseteq {"calling", "backoff", "reading", "yielded"}
          /\ client' = client
      BY <2>2 DEF BackOff, CallAgain, Opened, Chunk, Resume, endVars
    <3> QED
      BY <3>1 DEF Slot, Told
  <2> QED
    BY <2>1, <2>2
<1>2. UNCHANGED <<streams, reports>>
  BY DEF ModeTurns, BackOff, CallAgain, Opened, Chunk, Resume, callVars,
         payloadVars, endVars
<1> QED
  BY <1>1, <1>2 DEF Holder!holderVars

(* The ways to the first call, and those that never come to it.            *)
LEMMA HolderMoves ==
    ASSUME Invariant,
           Accept \/ Reject \/ Call \/ Open \/ LeaveEarly \/ LeaveYielded
    PROVE  Holder!Next
<1> USE DEF Invariant, Progress, Unstarted, Ongoing, Slot, Told, callVars,
            payloadVars, endVars
<1>1. CASE Accept
  BY <1>1 DEF Accept, Holder!Next, Holder!Enter
<1>2. CASE Reject
  BY <1>2 DEF Reject, Holder!Next, Holder!TurnDown
<1>3. CASE Call \/ Open
  BY <1>3 DEF Call, Open, Holder!Next, Holder!Begin
<1>4. CASE LeaveEarly
  BY <1>4 DEF LeaveEarly, Holder!Next, Holder!Lose
<1>5. CASE LeaveYielded
  BY <1>5 DEF LeaveYielded, Spending, Holder!Next, Holder!GoAway
<1> QED
  BY <1>1, <1>2, <1>3, <1>4, <1>5

(* Every end of a request that called Vertex gives its slot back.          *)
LEMMA HolderFinish ==
    ASSUME Invariant, place \in Ongoing, NEW o \in Outcome, NEW n \in Nat,
           NEW end \in {"answer", "done", "envelope", "broken", "gone"},
           Finish(o, n, end), o = "ok" <=> end \notin {"envelope", "broken"},
           end = "gone" => streams, place = "abandoned" => end = "gone"
    PROVE  Holder!GiveBack
<1>1. Slot = "used" /\ Slot' = "returned"
  BY DEF Finish, callVars, Invariant, Progress, Ongoing, Slot
<1>2. Told' = CASE end = "gone"               -> "gone"
                [] end \in {"answer", "done"} -> "success"
                [] OTHER                      -> "failure"
  BY DEF Finish, Told
<1>3. Told \in {"nothing", Told'}
  BY <1>2 DEF Invariant, Progress, Told
<1>4. reports = << >> /\ reports' = <<ReportOf(o, n)>>
  <2>1. reports = << >> /\ ReportOf(o, n) \in Report
    BY ReportType DEF Invariant, Progress, Ongoing
  <2> QED
    BY <2>1 DEF Finish
<1>5. ReportOf(o, n) \in {r \in Report : o = "ok" <=> Class(r.status) = 2}
  BY ReportCounts
<1>6. o # "ok" <=> Told' = "failure"
  BY <1>2
<1>7. reports'[1] \in IF Told' = "failure"
                      THEN {r \in Report : Class(r.status) # 2}
                      ELSE {r \in Report : Class(r.status) = 2}
  BY <1>4, <1>5, <1>6
<1>8. Told' \in {"success", "failure"} \/ (streams /\ Told' = "gone")
  BY <1>2
<1>9. UNCHANGED streams /\ Len(reports') = 1
  BY <1>4 DEF Finish, callVars, payloadVars
<1> QED
  BY <1>1, <1>3, <1>4, <1>7, <1>8, <1>9 DEF Holder!GiveBack

LEMMA HolderEnds ==
    ASSUME Invariant,
           \/ Answered \/ Fail \/ OpenFails
           \/ StreamEnds \/ StreamFails \/ LeaveReading \/ Collected
    PROVE  Holder!GiveBack
<1>1. /\ place \in Ongoing
      /\ calls - 1 \in Nat /\ 0 \in Nat /\ "ok" \in Outcome
  BY ChatAssumption
     DEF Answered, Fail, OpenFails, StreamEnds, StreamFails, LeaveReading,
         Collected, Ongoing, Invariant, TypeOK, Progress, Outcome
<1>2. CASE Answered \/ StreamEnds
  <2>1. PICK n \in Nat, end \in {"answer", "done"} : Finish("ok", n, end)
    BY <1>1, <1>2 DEF Answered, StreamEnds
  <2>2. place # "abandoned"
    BY <1>2 DEF Answered, StreamEnds
  <2> QED
    BY <1>1, <2>1, <2>2, HolderFinish
<1>3. CASE LeaveReading \/ Collected
  <2>1. Finish("ok", 0, "gone") /\ streams
    BY <1>3 DEF LeaveReading, Collected, Invariant, Spending
  <2> QED
    BY <1>1, <2>1, HolderFinish
<1>4. CASE Fail \/ OpenFails \/ StreamFails
  <2>1. PICK o \in Outcome \ {"ok"}, n \in Nat, end \in {"envelope", "broken"} :
            Finish(o, n, end)
    <3>1. CASE Fail
      <4>1. PICK o \in Answers \cap Failure, n \in {0, calls - 1} :
                Finish(o, n, "envelope")
        BY <3>1 DEF Fail, RetriesKnown
      <4> QED
        BY <1>1, <4>1 DEF Failure
    <3>2. CASE OpenFails \/ StreamFails
      BY <1>1, <3>2, ChatAssumption DEF OpenFails, StreamFails
    <3> QED
      BY <1>4, <3>1, <3>2
  <2>2. place # "abandoned"
    BY <1>4 DEF Fail, OpenFails, StreamFails
  <2> QED
    BY <1>1, <2>1, <2>2, HolderFinish
<1> QED
  BY <1>2, <1>3, <1>4

(***************************************************************************)
(* For any settings, names and retry budget a chat request, streamed or    *)
(* not, does with its slot what admission takes for granted: whichever way *)
(* it ends, it gives the slot back once and calls request_finished once if *)
(* it began to call Vertex, and loses the slot only if it never began.     *)
(***************************************************************************)
THEOREM HolderImplemented == Spec => ImplementsSlotHolder
<1>1. Invariant /\ [Next]_vars => [Holder!Next]_(Holder!holderVars)
  <2> SUFFICES ASSUME Invariant, [Next]_vars
               PROVE  [Holder!Next]_(Holder!holderVars)
    OBVIOUS
  <2>1. CASE UNCHANGED vars
    BY <2>1 DEF vars, callVars, payloadVars, endVars, Holder!holderVars, Slot, Told
  <2>2. CASE Next
    <3>1. \/ ModeTurns \/ BackOff \/ CallAgain \/ Opened \/ Chunk \/ Resume
          \/ Accept \/ Reject \/ Call \/ Open \/ LeaveEarly \/ LeaveYielded
          \/ Answered \/ Fail \/ OpenFails
          \/ StreamEnds \/ StreamFails \/ LeaveReading \/ Collected
      BY <2>2 DEF Next, UpstreamTurn, StreamTurn
    <3> QED
      BY <3>1, HolderUnmoved, HolderMoves, HolderEnds DEF Holder!Next
  <2> QED
    BY <2>1, <2>2
<1> QED
  BY <1>1, HolderInit, AlwaysInvariant, PTL
     DEF Spec, ImplementsSlotHolder, Holder!Spec

=============================================================================
