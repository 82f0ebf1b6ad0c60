----------------------------- MODULE TokenProofs ------------------------------
(***************************************************************************)
(* Proofs about TokenCache, for any number of calls and any lifetimes that *)
(* are LongLived.  What the cache believes cannot be shown alone: a token  *)
(* on its way carries a claim that is corrected only on arrival, so the    *)
(* invariant relates the claim of every offered token, less the ticks      *)
(* since its call read the clock, to its life.                             *)
(***************************************************************************)
EXTENDS TokenCache, TLAPS

Underway ==
    \A c \in Calls :
        /\ stage[c] = "issued" => offered[c] # Nothing
        /\ offered[c] # Nothing
             => /\ stage[c] = "issued"
                /\ offered[c].claim - since[c] <= offered[c].life
                /\ Patience + Margin < offered[c].claim

Invariant == TypeOK /\ CacheHonest /\ Underway /\ ServedWithMargin

LEMMA OlderFacts ==
    ASSUME NEW m \in Int, NEW n \in Int, m <= n
    PROVE  /\ Older(m) \in Int /\ Older(n) \in Int
           /\ Older(m) <= Older(n)
           /\ n - 1 <= Older(n)
BY DEF Older

LEMMA InitInvariant == Init => Invariant
BY TokenAssumption DEF Init, Invariant, TypeOK, CacheHonest, Underway, ServedWithMargin

(* A call that gets a token: from the cache, from ADC or from its answer. *)
LEMMA ServeInvariant ==
    ASSUME LongLived, Invariant, NEW c \in Calls,
           FromCache(c) \/ FromAdc(c) \/ Receive(c)
    PROVE  Invariant'
<1>1. CASE FromCache(c)
  <2>1. cached \in Token /\ cached.life > Margin
    BY <1>1, TokenAssumption DEF FromCache, Usable, Invariant, TypeOK, CacheHonest, Token
  <2>2. TypeOK'
    BY <1>1, <2>1 DEF FromCache, Invariant, TypeOK
  <2>3. CacheHonest' /\ Underway'
    BY <1>1 DEF FromCache, Invariant, CacheHonest, Underway
  <2>4. ServedWithMargin'
    BY <1>1, <2>1 DEF FromCache, Invariant, TypeOK, ServedWithMargin
  <2> QED
    BY <2>2, <2>3, <2>4 DEF Invariant
<1>2. CASE FromAdc(c)
  <2>1. PICK life \in AdcLives : cached' = [claim |-> Assumed, life |-> life]
    BY <1>2 DEF FromAdc
  <2>2. cached' \in Token /\ Assumed <= life /\ Margin < life
    BY <2>1, TokenAssumption DEF Token, LongLived
  <2>3. TypeOK'
    BY <1>2, <2>2 DEF FromAdc, Invariant, TypeOK
  <2>4. CacheHonest' /\ Underway'
    BY <1>2, <2>1, <2>2 DEF FromAdc, Invariant, CacheHonest, Underway
  <2>5. ServedWithMargin'
    BY <1>2, <2>1, <2>2 DEF FromAdc, Invariant, TypeOK, ServedWithMargin
  <2> QED
    BY <2>3, <2>4, <2>5 DEF Invariant
<1>3. CASE Receive(c)
  <2>1. /\ offered[c] \in Token /\ since[c] \in 0..Patience
        /\ offered[c].claim - since[c] <= offered[c].life
        /\ Patience + Margin < offered[c].claim
    BY <1>3 DEF Receive, Invariant, TypeOK, Underway
  <2>2. /\ cached' = [claim |-> Claimed(c), life |-> offered[c].life]
        /\ Claimed(c) = offered[c].claim - since[c]
    BY <1>3 DEF Receive, Claimed
  <2>3. /\ cached' \in Token
        /\ cached'.claim <= cached'.life
        /\ cached'.life > Margin
    BY <2>1, <2>2, TokenAssumption DEF Token
  <2>4. TypeOK'
    BY <1>3, <2>3, TokenAssumption DEF Receive, Invariant, TypeOK
  <2>5. CacheHonest' /\ Underway'
    BY <1>3, <2>3 DEF Receive, Invariant, TypeOK, CacheHonest, Underway
  <2>6. ServedWithMargin'
    BY <1>3, <2>3 DEF Receive, Invariant, TypeOK, ServedWithMargin
  <2> QED
    BY <2>4, <2>5, <2>6 DEF Invariant
<1> QED
  BY <1>1, <1>2, <1>3

(* A call that asks the metadata server, and what becomes of its request. *)
LEMMA AskInvariant ==
    ASSUME LongLived, Invariant, NEW c \in Calls,
           Ask(c) \/ Issue(c) \/ AskFails(c)
    PROVE  Invariant'
<1>1. CASE Ask(c)
  BY <1>1, TokenAssumption
     DEF Ask, Invariant, TypeOK, CacheHonest, Underway, ServedWithMargin
<1>2. CASE Issue(c)
  <2>1. PICK life \in MetadataLives :
            offered' = [offered EXCEPT ![c] = [claim |-> life, life |-> life]]
    BY <1>2 DEF Issue
  <2>2. [claim |-> life, life |-> life] \in Token /\ Patience + Margin < life
    BY TokenAssumption DEF Token, LongLived
  <2>3. since[c] \in Nat /\ life - since[c] <= life
    BY TokenAssumption DEF Invariant, TypeOK
  <2>4. TypeOK'
    BY <1>2, <2>1, <2>2 DEF Issue, Invariant, TypeOK
  <2>5. Underway'
    <3>1. offered'[c] = [claim |-> life, life |-> life]
      BY <2>1 DEF Invariant, TypeOK
    <3>2. [claim |-> life, life |-> life] # Nothing
      BY <2>2, TokenAssumption
    <3> QED
      BY <1>2, <2>1, <2>2, <2>3, <3>1, <3>2 DEF Issue, Invariant, TypeOK, Underway
  <2>6. CacheHonest' /\ ServedWithMargin'
    BY <1>2 DEF Issue, Invariant, CacheHonest, ServedWithMargin
  <2> QED
    BY <2>4, <2>5, <2>6 DEF Invariant
<1>3. CASE AskFails(c)
  BY <1>3, TokenAssumption
     DEF AskFails, Invariant, TypeOK, CacheHonest, Underway, ServedWithMargin
<1> QED
  BY <1>1, <1>2, <1>3

(* A tick of the clock. *)
LEMMA TickInvariant ==
    ASSUME Invariant, Tick
    PROVE  Invariant'
<1>1. CacheHonest' /\ cached' \in Token \cup {Nothing}
  <2>1. CASE cached = Nothing
    BY <2>1 DEF Tick, CacheHonest
  <2>2. CASE cached # Nothing
    <3>1. /\ cached.claim \in Int /\ cached.life \in Int
          /\ cached.claim <= cached.life
      BY <2>2 DEF Invariant, TypeOK, CacheHonest, Token
    <3>2. cached' = [claim |-> Older(cached.claim), life |-> Older(cached.life)]
      BY <2>2 DEF Tick, Elapse
    <3> QED
      BY <3>1, <3>2, OlderFacts DEF CacheHonest, Token
  <2> QED
    BY <2>1, <2>2
<1>2. ASSUME NEW c \in Calls
      PROVE  /\ since'[c] \in 0..Patience
             /\ offered'[c] \in Token \cup {Nothing}
             /\ stage[c] = "issued" => offered'[c] # Nothing
             /\ offered'[c] # Nothing
                  => /\ stage[c] = "issued"
                     /\ offered'[c].claim - since'[c] <= offered'[c].life
                     /\ Patience + Margin < offered'[c].claim
  <2>1. /\ since[c] \in 0..Patience
        /\ since'[c] = IF stage[c] = "idle" THEN 0 ELSE since[c] + 1
        /\ stage[c] # "idle" => since[c] < Patience
        /\ Patience \in Nat
    BY TokenAssumption DEF Tick, Invariant, TypeOK
  <2>2. since'[c] \in 0..Patience
    BY <2>1
  <2>3. CASE offered[c] = Nothing
    BY <2>2, <2>3 DEF Tick, Invariant, Underway
  <2>4. CASE offered[c] # Nothing
    <3>1. /\ offered[c] \in Token
          /\ stage[c] = "issued"
          /\ offered[c].claim - since[c] <= offered[c].life
          /\ Patience + Margin < offered[c].claim
      BY <2>4 DEF Invariant, TypeOK, Underway
    <3>2. offered'[c] = [claim |-> offered[c].claim, life |-> Older(offered[c].life)]
      BY <2>4, <3>1 DEF Tick, Token
    <3>3. offered[c].life - 1 <= Older(offered[c].life) /\ Older(offered[c].life) \in Int
      BY <3>1, OlderFacts DEF Token
    <3>4. offered'[c] \in Token /\ offered'[c] # Nothing
      BY <3>1, <3>2, <3>3, TokenAssumption DEF Token
    <3>5. offered'[c].claim - since'[c] <= offered'[c].life
      BY <2>1, <3>1, <3>2, <3>3 DEF Token
    <3> QED
      BY <2>2, <3>1, <3>2, <3>4, <3>5
  <2> QED
    BY <2>3, <2>4
<1>3. TypeOK'
  BY <1>1, <1>2 DEF Tick, Invariant, TypeOK
<1>4. Underway'
  BY <1>2 DEF Tick, Underway
<1>5. ServedWithMargin'
  BY DEF Tick, ServedWithMargin
<1> QED
  BY <1>1, <1>3, <1>4, <1>5 DEF Invariant

LEMMA NextInvariant ==
    ASSUME LongLived
    PROVE  Invariant /\ [Next]_vars => Invariant'
<1> SUFFICES ASSUME Invariant, [Next]_vars
             PROVE  Invariant'
  OBVIOUS
<1>1. CASE UNCHANGED vars
  BY <1>1 DEF vars, Invariant, TypeOK, CacheHonest, Underway, ServedWithMargin
<1>2. CASE Next
  BY <1>2, ServeInvariant, AskInvariant, TickInvariant DEF Next, CallStep
<1> QED
  BY <1>1, <1>2

LEMMA AlwaysInvariant ==
    ASSUME LongLived
    PROVE  Spec => []Invariant
<1>1. Invariant /\ [Next]_vars => Invariant'
  BY NextInvariant
<1> QED
  BY <1>1, InitInvariant, PTL DEF Spec

(* The variables of the token cache stay within their types. *)
THEOREM TokenTypes ==
    ASSUME LongLived
    PROVE  Spec => []TypeOK
<1>1. Spec => []Invariant
  BY AlwaysInvariant
<1>2. Invariant => TypeOK
  BY DEF Invariant
<1> QED
  BY <1>1, <1>2, PTL

(***************************************************************************)
(* Whatever the calls that fetch a token at the same time, the cache never *)
(* believes in a token longer than it lives.                               *)
(***************************************************************************)
THEOREM CacheNeverOverstates ==
    ASSUME LongLived
    PROVE  Spec => []CacheHonest
<1>1. Spec => []Invariant
  BY AlwaysInvariant
<1>2. Invariant => CacheHonest
  BY DEF Invariant
<1> QED
  BY <1>1, <1>2, PTL

(***************************************************************************)
(* Every token handed out by get_vertex_access_token lives for longer than *)
(* the margin.                                                             *)
(***************************************************************************)
THEOREM TokensLive ==
    ASSUME LongLived
    PROVE  Spec => []ServedWithMargin
<1>1. Spec => []Invariant
  BY AlwaysInvariant
<1>2. Invariant => ServedWithMargin
  BY DEF Invariant
<1> QED
  BY <1>1, <1>2, PTL

=============================================================================
