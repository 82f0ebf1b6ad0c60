--------------------------- MODULE MCEmbeddingBatch ---------------------------
(* The instances of EmbeddingBatch that TLC checks. *)
EXTENDS EmbeddingBatch

AnyAnswer == Outcome

=============================================================================
