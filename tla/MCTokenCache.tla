----------------------------- MODULE MCTokenCache -----------------------------
(* The instance of TokenCache that TLC checks. *)
EXTENDS TokenCache, TLC

SameCalls == Permutations(Calls)

=============================================================================
