------------------------------ MODULE SlotHolder ------------------------------
(***************************************************************************)
(* What a request does with its slot, as admission takes it for granted    *)
(* and the services promise it: it uses the slot, gives it back once, and  *)
(* with that says once how it ended, in agreement with what its client is  *)
(* told and never to be corrected, whatever of it runs on.  A client that  *)
(* goes away ends a stream only, and loses the slot of one that never      *)
(* began.  GiveBack is the Finish of RequestAdmission and Lose its         *)
(* Abandon.  ChatCompletion and EmbeddingBatch implement this module, the  *)
(* latter from the try of create_embedding_response on: the batches that   *)
(* lose their slot before it are RequestAdmission's Oversized.             *)
(***************************************************************************)
EXTENDS Naturals, Sequences

CONSTANTS
    Successes,            \* reports that count the request as served
    Failures              \* reports that count it as failed

VARIABLES
    streams,              \* whether the answer is a stream
    slot,                 \* what became of the slot
    told,                 \* what the client was told
    said                  \* what was reported, each time

holderVars == <<streams, slot, told, said>>

Init ==
    /\ streams \in BOOLEAN
    /\ slot \in {"none", "held"}
    /\ told = "nothing"
    /\ said = << >>

(* Before it asks for a slot a request may be turned down for what it is. *)
TurnDown ==
    /\ slot = "none" /\ told = "nothing"
    /\ told' = "failure"
    /\ UNCHANGED <<streams, slot, said>>

Enter ==
    /\ slot = "none" /\ told = "nothing"
    /\ slot' = "held"
    /\ UNCHANGED <<streams, told, said>>

Begin ==
    /\ slot = "held"
    /\ slot' = "used"
    /\ UNCHANGED <<streams, told, said>>

Lose ==
    /\ slot = "held" /\ streams
    /\ slot' = "lost"
    /\ told' = "gone"
    /\ UNCHANGED <<streams, said>>

GoAway ==
    /\ slot = "used" /\ streams
    /\ told = "nothing" /\ told' = "gone"
    /\ UNCHANGED <<streams, slot, said>>

GiveBack ==
    /\ slot = "used" /\ slot' = "returned"
    /\ told \in {"nothing", told'}
    /\ told' \in {"success", "failure"} \/ (streams /\ told' = "gone")
    /\ said = << >> /\ Len(said') = 1
    /\ said'[1] \in IF told' = "failure" THEN Failures ELSE Successes
    /\ UNCHANGED streams

Next == TurnDown \/ Enter \/ Begin \/ Lose \/ GoAway \/ GiveBack

Spec == Init /\ [][Next]_holderVars

=============================================================================
