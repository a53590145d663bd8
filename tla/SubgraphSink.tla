---------------------------- MODULE SubgraphSink ----------------------------
(***************************************************************************)
(* src/versum/ingestion/subgraph.py, with the stripping of store/erasure.py*)
(* and the record reads of store/retrieve.py: one transaction file per     *)
(* idempotency key, published by an exclusive hard link.  Producers upsert *)
(* at once and may die between any two file operations; a purge goes       *)
(* through the files one by one; a reader lists them and then reads them   *)
(* one by one.                                                             *)
(*                                                                         *)
(* Abstractions.  The temporary files are left out: no reader's pattern    *)
(* matches them, and a dead producer's stays for ever.  Appending the      *)
(* event and folding the tombstones is one step (Erasure has the steps).   *)
(* There is one eraser (Erasure has several).                              *)
(***************************************************************************)
EXTENDS Naturals, FiniteSets, Sequences, SequencesExt

CONSTANTS Producers,
          Envelopes,     \* what producers may want to write
          HashOrders,    \* the orders the file names may sort in
          Targets,       \* what may be erased: records of a set of nodes and one of sources
          MaxCalls, MaxErasures, MaxReads, MaxFaults   \* bounds

ASSUME BoundAssumption == {MaxCalls, MaxErasures, MaxReads, MaxFaults} \subseteq Nat

ASSUME EnvelopeAssumption ==
    \A e \in Envelopes :
        /\ e = [key |-> e.key, source |-> e.source, stamp |-> e.stamp, nodes |-> e.nodes,
                relations |-> e.relations]
        /\ IsFiniteSet(e.nodes)
        /\ \A n \in e.nodes : n.version \in Nat

VARIABLES
    files,      \* the transaction files, by key
    order,      \* the keys in the order of their file names
    pc, env,    \* where each producer is, and with which envelope
    tombs,      \* _erasure.json
    purge,      \* the purge under way: what, and the files still to look at
    reader,     \* the reader: tombstones, files still to read, transactions read
    era,        \* history: how often a purge has changed or dropped the file of a key
    receipts,   \* history: what upsert has answered
    refused,    \* history: the conflicts it has raised
    calls, erasures, reads, faults   \* counters for the bounds

vars == <<files, order, pc, env, tombs, purge, reader, era, receipts, refused,
          calls, erasures, reads, faults>>

Keys == {e.key : e \in Envelopes}
NoEnvelope == CHOOSE e \in Envelopes : TRUE    \* of a producer that is idle
Nothing == [nodes |-> {}, sources |-> {}]
Join(a, b) == [nodes |-> a.nodes \union b.nodes, sources |-> a.sources \union b.sources]
Hides(t, id, source) == id \in t.nodes \/ source \in t.sources

Ids(e) == {n.id : n \in e.nodes}

(* What DimensionedSubgraph.from_dict accepts, as far as a purge could matter. *)
Valid(e) ==
    /\ e.nodes # {}
    /\ \A m, n \in e.nodes : m.id = n.id => m = n
    /\ \A r \in e.relations : {r[2], r[3]} \subseteq Ids(e)

NoPurge == [on |-> FALSE, target |-> Nothing, todo |-> {}]
NoReader == [at |-> "idle", tombs |-> Nothing, todo |-> {}, got |-> <<>>, acked |-> {}]

ASSUME OrderAssumption == \A o \in HashOrders : o \in Seq(Keys) /\ Keys \subseteq ToSet(o)

\* Of the files that are still to do, the one whose name sorts first.
FirstName(todo) ==
    order[CHOOSE i \in DOMAIN order :
             order[i] \in todo /\ \A j \in 1..(i - 1) : order[j] \notin todo]

Init ==
    /\ files = << >>
    /\ order \in HashOrders
    /\ pc = [p \in Producers |-> "idle"]
    /\ env = [p \in Producers |-> NoEnvelope]
    /\ tombs = Nothing
    /\ purge = NoPurge
    /\ reader = NoReader
    /\ era = [k \in Keys |-> 0]
    /\ receipts = {} /\ refused = {}
    /\ calls = 0 /\ erasures = 0 /\ reads = 0 /\ faults = 0

-----------------------------------------------------------------------------
(* upsert *)

\* The answer of an upsert, with the era of the file it is about.
Answer(p, status) == [who |-> p, env |-> env[p], status |-> status, era |-> era[env[p].key]]

Finish(p) == pc' = [pc EXCEPT ![p] = "idle"] /\ env' = [env EXCEPT ![p] = NoEnvelope]

\* The call, up to where it has looked whether the file exists.
Upsert(p, e) ==
    /\ calls < MaxCalls
    /\ pc[p] = "idle"
    /\ Valid(e)
    /\ pc' = [pc EXCEPT ![p] = IF e.key \in DOMAIN files THEN "compare" ELSE "link"]
    /\ env' = [env EXCEPT ![p] = e]
    /\ calls' = calls + 1
    /\ UNCHANGED <<files, order, tombs, purge, reader, era, receipts, refused, erasures,
                   reads, faults>>

\* The file is read again, and may be gone: that raises.
Compare(p) ==
    /\ pc[p] = "compare"
    /\ Finish(p)
    /\ LET k == env[p].key IN
       IF k \notin DOMAIN files THEN UNCHANGED <<receipts, refused>>
       ELSE IF files[k] = env[p]
       THEN receipts' = receipts \union {Answer(p, "unchanged")} /\ UNCHANGED refused
       ELSE /\ refused' = refused \union {[env |-> env[p], by |-> files[k], era |-> era[k]]}
            /\ UNCHANGED receipts
    /\ UNCHANGED <<files, order, tombs, purge, reader, era, calls, erasures, reads, faults>>

Publish(p) ==
    /\ Finish(p)
    /\ files' = [k \in DOMAIN files \union {env[p].key} |->
                    IF k = env[p].key THEN env[p] ELSE files[k]]
    /\ receipts' = receipts \union {Answer(p, "inserted")}

LinkOver(p) ==
    /\ pc[p] = "link"
    /\ Publish(p)
    /\ UNCHANGED <<order, tombs, purge, reader, era, refused, calls, erasures, reads, faults>>

\* os.link, which fails on a file that is there.  What follows changes nothing that
\* anybody reads, so dying after it and returning come to the same.
Link(p) ==
    /\ pc[p] = "link"
    /\ IF env[p].key \in DOMAIN files
       THEN pc' = [pc EXCEPT ![p] = "compare"] /\ UNCHANGED <<files, env, receipts>>
       ELSE Publish(p)
    /\ UNCHANGED <<order, tombs, purge, reader, era, refused, calls, erasures, reads, faults>>

Die(p) ==
    /\ faults < MaxFaults
    /\ pc[p] # "idle"
    /\ Finish(p)
    /\ faults' = faults + 1
    /\ UNCHANGED <<files, order, tombs, purge, reader, era, receipts, refused, calls,
                   erasures, reads>>

-----------------------------------------------------------------------------
(* Erasure *)

Delete(t) ==
    /\ erasures < MaxErasures
    /\ tombs' = Join(tombs, t)
    /\ erasures' = erasures + 1
    /\ UNCHANGED <<files, order, pc, env, purge, reader, era, receipts, refused, calls,
                   reads, faults>>

PurgeBegin(t) ==
    /\ erasures < MaxErasures
    /\ ~purge.on
    /\ purge' = [on |-> TRUE, target |-> t, todo |-> DOMAIN files]
    /\ erasures' = erasures + 1
    /\ UNCHANGED <<files, order, pc, env, tombs, reader, era, receipts, refused, calls,
                   reads, faults>>

KeepRelations(e, t) ==
    [e EXCEPT !.nodes = {n \in @ : n.id \notin t.nodes}]

Reduced(e, t) ==
    LET gone == Ids(e) \intersect t.nodes IN
    [e EXCEPT !.nodes = {n \in @ : n.id \notin t.nodes},
              !.relations = {r \in @ : {r[2], r[3]} \intersect gone = {}}]

PurgeFile ==
    /\ purge.on /\ purge.todo # {}
    /\ LET k == FirstName(purge.todo)
           t == purge.target
       IN  /\ purge' = [purge EXCEPT !.todo = @ \ {k}]
           /\ IF k \in DOMAIN files
                 /\ (files[k].source \in t.sources \/ Ids(files[k]) \intersect t.nodes # {})
              THEN /\ era' = [era EXCEPT ![k] = @ + 1]
                   /\ files' = IF files[k].source \in t.sources
                                  \/ Ids(files[k]) \subseteq t.nodes
                               THEN [j \in DOMAIN files \ {k} |-> files[j]]
                               ELSE [files EXCEPT ![k] = Reduced(@, t)]
              ELSE UNCHANGED <<era, files>>
    /\ UNCHANGED <<order, pc, env, tombs, reader, receipts, refused, calls, erasures, reads,
                   faults>>

PurgeEnd ==
    /\ purge.on /\ purge.todo = {}
    /\ purge' = NoPurge
    /\ tombs' = Join(tombs, purge.target)
    /\ UNCHANGED <<files, order, pc, env, reader, era, receipts, refused, calls, erasures,
                   reads, faults>>

-----------------------------------------------------------------------------
(* Reading: iter_records *)

ReadBegin ==
    /\ reads < MaxReads
    /\ reader.at = "idle"
    /\ reader' = [at |-> "read", tombs |-> tombs, got |-> <<>>, acked |-> receipts,
                  todo |-> DOMAIN files]
    /\ reads' = reads + 1
    /\ UNCHANGED <<files, order, pc, env, tombs, purge, era, receipts, refused, calls,
                   erasures, faults>>

\* A listed file that is gone raises, and there is no answer.
ReadFile ==
    /\ reader.at = "read" /\ reader.todo # {}
    /\ LET k == FirstName(reader.todo) IN
       reader' = IF k \notin DOMAIN files THEN NoReader
                 ELSE [reader EXCEPT !.todo = @ \ {k}, !.got = Append(@, files[k])]
    /\ UNCHANGED <<files, order, pc, env, tombs, purge, era, receipts, refused, calls,
                   erasures, reads, faults>>

Done == reader.at = "read" /\ reader.todo = {}

ReadEnd ==
    /\ Done
    /\ reader' = NoReader
    /\ UNCHANGED <<files, order, pc, env, tombs, purge, era, receipts, refused, calls,
                   erasures, reads, faults>>

Supersedes(got, m, i, n, j) == i < j

\* Of the versions of a node id the highest is kept, of equal ones the first read.
\* (m is a node of the i-th transaction, n of the j-th.)
Overrides(got, m, i, n, j) ==
    m.version > n.version \/ (m.version = n.version /\ i < j)

Latest(got, n, j) ==
    n.version > 0 =>
        \A i \in DOMAIN got : \A m \in got[i].nodes :
            (m.id = n.id /\ m.version > 0) => ~Overrides(got, m, i, n, j)

Record(n, e) == [node |-> n, source |-> e.source]

Records(got) ==
    UNION {{Record(n, got[j]) : n \in {n \in got[j].nodes : Latest(got, n, j)}} :
              j \in DOMAIN got}

IterRecords(got, t) == {r \in Records(got) : ~Hides(t, r.node.id, r.source)}

-----------------------------------------------------------------------------

Next ==
    \/ \E p \in Producers :
          \/ \E e \in Envelopes : Upsert(p, e)
          \/ Compare(p) \/ Link(p) \/ Die(p)
    \/ \E t \in Targets : Delete(t) \/ PurgeBegin(t)
    \/ PurgeFile \/ PurgeEnd
    \/ ReadBegin \/ ReadFile \/ ReadEnd

Spec == Init /\ [][Next]_vars

-----------------------------------------------------------------------------
(* Properties *)

\* Whatever producers and purges do to it, every transaction still passes the
\* validation of load_dimensioned_subgraphs, which is fail-closed for the whole store:
\* one transaction with a dangling relation would make every read raise.
Loadable == \A k \in DOMAIN files : Valid(files[k])

\* A receipt is about what is stored: as long as no purge has touched the file since,
\* it holds exactly the envelope the receipt was given for, whoever wrote it.
Durable ==
    \A r \in receipts :
        r.era = era[r.env.key] =>
            r.env.key \in DOMAIN files /\ files[r.env.key] = r.env

\* A conflict is raised for a reason: a purge has taken something out of what the key
\* is bound to, or the same knowledge was stored with another time of observation.
\* Versions, actors and batches never collide.
ConflictJustified ==
    \A c \in refused :
        \/ c.era > 0
        \/ c.by.stamp # c.env.stamp /\ [c.by EXCEPT !.stamp = c.env.stamp] = c.env

\* A reader never goes back: of a record whose version some upsert had acknowledged
\* when the read began, and which no purge has touched, it reads that version or a
\* later one, whatever the order of the file names, and lists no earlier one.
Fresh ==
    Done => \A a \in reader.acked : \A n \in a.env.nodes :
        (n.version > 0 /\ a.era = era[a.env.key]) =>
            /\ \E r \in Records(reader.got) :
                  r.node.id = n.id /\ r.node.version >= n.version
            /\ \A r \in IterRecords(reader.got, reader.tombs) :
                  r.node.id = n.id => r.node.version >= n.version

Abstract == INSTANCE KeyedStore WITH Documents <- Envelopes, store <- files

\* The sink implements the keyed store: a key is bound once and whole.
ImplementsKeyedStore == Abstract!Spec
=============================================================================
