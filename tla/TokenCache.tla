------------------------------ MODULE TokenCache ------------------------------
(***************************************************************************)
(* The access token that every upstream call fetches first:                *)
(* get_vertex_access_token (app/vertex_auth.py) with its one cached token. *)
(* Calls interleave at the metadata request, the only await: several may   *)
(* find the cache empty or nearly expired, each asks on its own, and each  *)
(* writes the cache when its answer comes.  VERTEX_ACCESS_TOKEN is unset;  *)
(* with it nothing here runs.                                              *)
(*                                                                         *)
(* Times are kept relative to now, in ticks: an expiry as the ticks left   *)
(* until it, and the moment a call began as the ticks since.               *)
(***************************************************************************)
EXTENDS Integers

CONSTANTS
    Calls,                \* the calls under way at a time
    Margin,               \* 60 seconds
    Assumed,              \* 300 seconds, the expiry given to an ADC token
    AdcLives,             \* how long an ADC token really lives
    MetadataLives,        \* how long a metadata token lives, its expires_in
    Patience,             \* the longest a metadata request takes
    Nothing               \* no token, None

(* claim: ticks to the expiry the cache believes in; life: to the real one. *)
Token == [claim : Int, life : Int]

ASSUME TokenAssumption ==
    /\ {Margin, Assumed, Patience} \subseteq Nat
    /\ AdcLives \subseteq Nat
    /\ MetadataLives \subseteq Nat
    /\ Nothing \notin Token

(***************************************************************************)
(* What the environment must provide: an ADC token, fresh from its         *)
(* refresh, lives as long as the code assumes, and a metadata token        *)
(* outlives the request that asks for it by more than the margin.          *)
(***************************************************************************)
LongLived ==
    /\ Margin < Assumed
    /\ \A life \in AdcLives : Assumed <= life
    /\ \A life \in MetadataLives : Patience + Margin < life

VARIABLES
    cached,               \* _cached_token and _cached_token_expiry, or Nothing
    stage,                \* where each call is
    since,                \* ticks since it read the clock
    offered,              \* the token the metadata server issued to it
    got                   \* the token it was last given, or Nothing

vars == <<cached, stage, since, offered, got>>

Init ==
    /\ cached = Nothing
    /\ stage = [c \in Calls |-> "idle"]
    /\ since = [c \in Calls |-> 0]
    /\ offered = [c \in Calls |-> Nothing]
    /\ got = [c \in Calls |-> Nothing]

-----------------------------------------------------------------------------
(* Mutant of Usable that serves a token up to its very expiry. *)
UsableToTheEnd == cached # Nothing /\ cached.claim > 0

Usable == cached # Nothing /\ cached.claim > Margin

FromCache(c) ==
    /\ stage[c] = "idle"
    /\ Usable
    /\ got' = [got EXCEPT ![c] = cached]
    /\ UNCHANGED <<cached, stage, since, offered>>

(* Mutant of FromAdc that caches what ADC returns, even if it is None. *)
FromAdcUnchecked(c) ==
    /\ stage[c] = "idle"
    /\ ~Usable
    /\ \E life \in AdcLives \cup {Nothing} : cached' = [claim |-> Assumed, life |-> life]
    /\ got' = [got EXCEPT ![c] = cached']
    /\ UNCHANGED <<stage, since, offered>>

(* google.auth refreshes without an await: the call returns in one step. *)
FromAdc(c) ==
    /\ stage[c] = "idle"
    /\ ~Usable
    /\ \E life \in AdcLives : cached' = [claim |-> Assumed, life |-> life]
    /\ got' = [got EXCEPT ![c] = cached']
    /\ UNCHANGED <<stage, since, offered>>

(* ADC has no token: the metadata server is asked. *)
Ask(c) ==
    /\ stage[c] = "idle"
    /\ ~Usable
    /\ stage' = [stage EXCEPT ![c] = "asking"]
    /\ since' = [since EXCEPT ![c] = 0]
    /\ got' = [got EXCEPT ![c] = Nothing]
    /\ UNCHANGED <<cached, offered>>

(* The server issues a token and says how long it will live. *)
Issue(c) ==
    /\ stage[c] = "asking"
    /\ \E life \in MetadataLives :
          offered' = [offered EXCEPT ![c] = [claim |-> life, life |-> life]]
    /\ stage' = [stage EXCEPT ![c] = "issued"]
    /\ UNCHANGED <<cached, since, got>>

(* Mutant of Claimed that counts from the arrival of the answer. *)
ClaimedOnArrival(c) == offered[c].claim

(* The expiry is counted from the clock read before the request. *)
Claimed(c) == offered[c].claim - since[c]

Receive(c) ==
    /\ stage[c] = "issued"
    /\ cached' = [claim |-> Claimed(c), life |-> offered[c].life]
    /\ got' = [got EXCEPT ![c] = cached']
    /\ stage' = [stage EXCEPT ![c] = "idle"]
    /\ since' = [since EXCEPT ![c] = 0]
    /\ offered' = [offered EXCEPT ![c] = Nothing]

(* httpx.HTTPError: the call raises VertexAuthError, the cache is kept. *)
AskFails(c) ==
    /\ stage[c] \in {"asking", "issued"}
    /\ stage' = [stage EXCEPT ![c] = "idle"]
    /\ since' = [since EXCEPT ![c] = 0]
    /\ offered' = [offered EXCEPT ![c] = Nothing]
    /\ UNCHANGED <<cached, got>>

(***************************************************************************)
(* A tick of the clock.  What the server said stays said: the claim of an  *)
(* offered token is expires_in and does not move.  A token that expired    *)
(* long ago is as one that just did.  No request outlasts Patience.        *)
(***************************************************************************)
Older(n) == IF n > 0 THEN n - 1 ELSE n

Elapse(t) == [claim |-> Older(t.claim), life |-> Older(t.life)]

Tick ==
    /\ \A c \in Calls : stage[c] # "idle" => since[c] < Patience
    /\ cached' = IF cached = Nothing THEN Nothing ELSE Elapse(cached)
    /\ since' = [c \in Calls |-> IF stage[c] = "idle" THEN 0 ELSE since[c] + 1]
    /\ offered' = [c \in Calls |->
                     IF offered[c] = Nothing THEN Nothing
                     ELSE [offered[c] EXCEPT !.life = Older(@)]]
    /\ got' = [c \in Calls |-> Nothing]
    /\ UNCHANGED stage

CallStep(c) == FromCache(c) \/ FromAdc(c) \/ Ask(c) \/ Issue(c) \/ Receive(c) \/ AskFails(c)

Next == Tick \/ \E c \in Calls : CallStep(c)

Spec == /\ Init
        /\ [][Next]_vars
        /\ WF_vars(Tick)
        /\ \A c \in Calls : WF_vars(Issue(c) \/ Receive(c) \/ AskFails(c))

-----------------------------------------------------------------------------
(* Type correctness: where every variable takes its values. *)
TypeOK ==
    /\ cached \in Token \cup {Nothing}
    /\ stage \in [Calls -> {"idle", "asking", "issued"}]
    /\ since \in [Calls -> 0..Patience]
    /\ offered \in [Calls -> Token \cup {Nothing}]
    /\ got \in [Calls -> Token \cup {Nothing}]

(***************************************************************************)
(* The cache never believes in a token for longer than the token lives,    *)
(* whichever of several calls wrote it last and however late its answer    *)
(* came.                                                                   *)
(***************************************************************************)
CacheHonest == cached # Nothing => cached.claim <= cached.life

(***************************************************************************)
(* Every token handed to an upstream call lives for longer than the margin *)
(* at that moment: one from the cache, and one that was waited for.        *)
(***************************************************************************)
ServedWithMargin == \A c \in Calls : got[c] # Nothing => got[c].life > Margin

=============================================================================
