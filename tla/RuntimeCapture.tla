--------------------------- MODULE RuntimeCapture ---------------------------
(***************************************************************************)
(* src/versum/capture.py: how what an actor asserts at run time becomes an *)
(* envelope for the sink.  A digest stands for what it is taken of, so a   *)
(* key is the knowledge it digests.                                        *)
(*                                                                         *)
(* Left out: predicates, dimensions and captured evidence, which are part  *)
(* of key and content alike, and the wording of identifiers.  A statement  *)
(* is the sequence of the terms in it.  Version 0 is no version.           *)
(***************************************************************************)
EXTENDS Naturals, Sequences, SequencesExt

CONSTANT Slug          \* what an identifier of a record is inside a node id

EntityId(term) == [kind |-> "entity", name |-> term, digest |-> "-"]
RecordId(rec) == [kind |-> "record", name |-> Slug[rec.id], digest |-> "-"]
RevisionId(rec) == [kind |-> "record", name |-> Slug[rec.id], digest |-> rec.body]

Node(id, name, version, body) ==
    [id |-> id, name |-> name, version |-> version, body |-> body]

Key(kind, path, items, actor) ==
    [kind |-> kind, path |-> path, items |-> items, actor |-> actor]

Envelope(key, stamp, nodes, relations) ==
    [key |-> key, source |-> key.actor, stamp |-> stamp, nodes |-> nodes,
     relations |-> relations]

Terms(path) == UNION {{path[i][1], path[i][2]} : i \in DOMAIN path}

\* The first subject carries the text of the whole path; what is mentioned twice
\* keeps the statement it got first.
Statement(path, term) == IF term = path[1][1] THEN FlattenSeq(path) ELSE <<term>>

Walk(kind, path, actor, stamp) ==
    Envelope(Key(kind, path, <<>>, actor), stamp,
             {Node(EntityId(t), t, 0, Statement(path, t)) : t \in Terms(path)},
             {<<i, EntityId(path[i][1]), EntityId(path[i][2])>> : i \in DOMAIN path})

AppendFact(subject, object, actor, stamp) ==
    Walk("fact", <<<<subject, object>>>>, actor, stamp)

AppendInference(path, actor, stamp) == Walk("inference", path, actor, stamp)

Item(rec, version) == [id |-> rec.id, body |-> rec.body, version |-> version]

AppendRecord(rec, actor, stamp) ==
    Envelope(Key("record", <<>>, <<Item(rec, 0)>>, actor), stamp,
             {Node(RevisionId(rec), rec.id, 0, <<rec.body>>)}, {})

KeyWithoutVersion(rec, version, actor) == Key("record", <<>>, <<Item(rec, 0)>>, actor)

VersionKey(rec, version, actor) == Key("record", <<>>, <<Item(rec, version)>>, actor)

UpsertRecord(rec, version, actor, stamp) ==
    Envelope(VersionKey(rec, version, actor), stamp,
             {Node(RecordId(rec), rec.id, version, <<rec.body>>)}, {})

\* Of the items of a batch that share a node id the last is kept.
AppendRecords(items, actor, stamp) ==
    Envelope(Key("records", <<>>, items, actor), stamp,
             {Node(RecordId(items[i]), items[i].id, items[i].version, <<items[i].body>>) :
                 i \in {i \in DOMAIN items :
                           \A j \in DOMAIN items :
                               RecordId(items[j]) = RecordId(items[i]) => j <= i}},
             {})
=============================================================================
