---------------------------- MODULE ModelRegistry -----------------------------
(***************************************************************************)
(* Which models are served (app/config.py, app/model_registry.py): the     *)
(* settings that the process refuses to start with, what a requested name  *)
(* stands for, and the list that GET /v1/models answers.  The settings are *)
(* read at the start and do not change.  A configuration is a record:      *)
(*                                                                         *)
(*   secret     INTERNAL_BEARER_TOKEN is none of the insecure defaults     *)
(*   default    VERTEX_CHAT_MODEL                                          *)
(*   models     VERTEX_CHAT_MODELS, as a set                               *)
(*   aliases    VERTEX_CHAT_MODEL_ALIASES, a sequence of [alias, target];  *)
(*              an entry without "=" is one whose target is Blank          *)
(*   embedding  VERTEX_EMBEDDING_MODEL                                     *)
(***************************************************************************)
EXTENDS Naturals, Sequences

Blank == ""

(* VERTEX_CHAT_MODEL has a default; leaving it empty is not modelled. *)
Configuration ==
    [secret : BOOLEAN, default : STRING \ {Blank}, models : SUBSET STRING,
     aliases : Seq([alias : STRING, target : STRING]), embedding : STRING]

(* allowed_chat_models *)
Allowed(s) == ({s.default} \cup s.models) \ {Blank}

(* Mutant of EntryAccepted that lets an alias reuse the id of a model. *)
EntryAcceptedReusing(s, e) == e.alias # Blank /\ e.target \in Allowed(s)

(* The checks chat_model_alias_map makes on each entry before it uses it. *)
EntryAccepted(s, e) ==
    /\ e.alias # Blank /\ e.target # Blank
    /\ e.target \in Allowed(s)
    /\ e.alias \notin Allowed(s)

(* validate_runtime_settings: the process starts. *)
Starts(s) == /\ s.secret
             /\ \A i \in DOMAIN s.aliases : EntryAccepted(s, s.aliases[i])

(* The keys of chat_model_alias_map, and what the last entry gives each. *)
Aliases(s) == {s.aliases[i].alias : i \in DOMAIN s.aliases}

LastEntry(s, a) ==
    CHOOSE i \in DOMAIN s.aliases :
        /\ s.aliases[i].alias = a
        /\ \A j \in DOMAIN s.aliases : s.aliases[j].alias = a => j <= i

AliasTarget(s, a) == s.aliases[LastEntry(s, a)].target

-----------------------------------------------------------------------------
(* resolve_chat_model; Blank is a request that names no model. *)
ChatAccepts(s, name) == name \in {Blank} \cup Aliases(s) \cup Allowed(s)

Resolve(s, name) ==
    IF name = Blank THEN s.default
    ELSE IF name \in Aliases(s) THEN AliasTarget(s, name)
    ELSE name

(* resolve_embedding_model *)
EmbeddingAccepts(s, name) == name \in {Blank, s.embedding}

-----------------------------------------------------------------------------
(* list_models *)
ChatEntry(s, id) ==
    [kind |-> "chat",
     target |-> IF id \in Aliases(s) THEN AliasTarget(s, id) ELSE Blank]

EmbeddingEntry == [kind |-> "embedding", target |-> Blank]

ListedIds(s) == Allowed(s) \cup Aliases(s) \cup {s.embedding}

(* Mutant of Listed that merges the two dictionaries the other way round. *)
ListedChatLast(s) ==
    [id \in ListedIds(s) |-> IF id \in Allowed(s) \cup Aliases(s)
                             THEN ChatEntry(s, id) ELSE EmbeddingEntry]

(* The embedding entry replaces a chat entry of the same id. *)
Listed(s) ==
    [id \in ListedIds(s) |-> IF id = s.embedding
                             THEN EmbeddingEntry ELSE ChatEntry(s, id)]

=============================================================================
