--------------------------- MODULE MCChatCompletion ---------------------------
(***************************************************************************)
(* Values of the constants of ChatCompletion for TLC.  "flash" is the      *)
(* default model, "pro" may be configured beside it, "embed" is the        *)
(* embedding model, whose id may also be a chat model's or an alias, and   *)
(* "ghost" is configured by no one.                                        *)
(***************************************************************************)
EXTENDS ChatCompletion

AnyAnswer == Outcome

Entry(alias, target) == [alias |-> alias, target |-> target]

\* Two that are right, a second target, a reused id, the embedding model's
\* id, a chain of aliases, an unknown target, and one without an alias.
Entries == {Entry("fast", "pro"), Entry("quick", "flash"), Entry("fast", "flash"),
            Entry("pro", "flash"), Entry("embed", "flash"), Entry("quick", "fast"),
            Entry("fast", "ghost"), Entry(Blank, "flash"), Entry("fast", Blank)}

UpToTwo(S) == {<< >>} \cup {<<a>> : a \in S} \cup {<<a, b>> : a, b \in S}

Settings(modelSets, aliasLists) ==
    [secret : BOOLEAN, default : {"flash"}, models : modelSets,
     aliases : aliasLists, embedding : {"embed"}]

ManySettings ==
    Settings({{}, {"flash", "pro"}, {"pro", "embed"}}, UpToTwo(Entries))

PlainSettings == Settings({{"pro"}}, {<<Entry("fast", "pro")>>})

AnyName == {Blank, "flash", "pro", "embed", "fast", "quick", "ghost"}

=============================================================================
