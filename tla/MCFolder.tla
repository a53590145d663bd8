------------------------------ MODULE MCFolder ------------------------------
EXTENDS Folder

A == Path(None, None, "a")
B == Path(None, None, "b")
A2 == Path(None, "d2", "a")
MCOrder == <<A2, A, B>>
MCDocuments == {"d1", "d2", "empty"}

\* One word recurs in both documents, one is defined.
MCClaims == [d \in MCDocuments |->
                IF d = "d1" THEN << <<"term", "one">>, <<"word">> >>
                ELSE IF d = "d2" THEN << <<"terms">>, <<"two">> >> ELSE <<>>]
MCDefinitions == [d \in MCDocuments |-> IF d = "d1" THEN {<<"word">>} ELSE {}]
MCStem == [x \in {"term", "terms", "word", "one", "two"} |-> IF x = "terms" THEN "term" ELSE x]
MCPlural == [x \in DOMAIN MCStem |-> IF x = "term" THEN "terms" ELSE x]

NoName == [n \in {"a", "b"} |-> None]
MCRegistered == {[path |-> A, filename |-> "a", urn |-> Canonical("kg")]}
MCExternal == {[name |-> "a", doc |-> "d2"]}
MCFolders == {(A :> "d1") @@ (B :> "d2")}
MCSaves == {[path |-> B, doc |-> "empty"], [path |-> A, doc |-> "d2"]}
MCAdditions == {[id |-> <<"two">>, label |-> <<"two">>]}
MCPicks == {{}, {<<"term">>}}
Symmetry == Permutations(Workers)
=============================================================================
