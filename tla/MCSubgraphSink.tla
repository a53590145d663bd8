--------------------------- MODULE MCSubgraphSink ---------------------------
(***************************************************************************)
(* Two facts of two actors about one term, the first of them observed at   *)
(* two times; a record upserted in two versions, once more in a batch, and *)
(* appended without a version.                                             *)
(***************************************************************************)
EXTENDS SubgraphSink, RuntimeCapture, TLC

MCSlug == [id \in {"r", "s"} |-> id]

Rec(id, body) == [id |-> id, body |-> body]

Fact == AppendFact("a", "b", "x", 1)
FactLater == AppendFact("a", "b", "x", 2)
OtherFact == AppendInference(<<<<"c", "a">>, <<"a", "a">>>>, "y", 1)
First == UpsertRecord(Rec("r", "p"), 1, "x", 1)
Second == UpsertRecord(Rec("r", "p"), 2, "x", 1)
Both == AppendRecords(<<Item(Rec("r", "p"), 2), Item(Rec("s", "q"), 1),
                        Item(Rec("r", "q"), 3)>>, "y", 1)

Plain == AppendRecord(Rec("r", "p"), "x", 1)

MCEnvelopes == {Fact, FactLater, OtherFact, First, Second, Both, Plain}
Names == <<Both.key, First.key, Fact.key, Second.key, Plain.key, OtherFact.key>>
MCHashOrders == {Names, Reverse(Names)}

MCTargets == {[nodes |-> {EntityId("a")}, sources |-> {}],
              [nodes |-> {RecordId(Rec("r", "p"))}, sources |-> {}],
              [nodes |-> {}, sources |-> {"x"}]}

Symmetry == Permutations(Producers)
=============================================================================
