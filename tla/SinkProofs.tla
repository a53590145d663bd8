----------------------------- MODULE SinkProofs -----------------------------
(***************************************************************************)
(* The sink of dimensioned subgraphs, for any number of producers, any     *)
(* envelopes, erasures, reads and faults: it implements the keyed store,   *)
(* its receipts hold, and a reader never goes back.                        *)
(*                                                                         *)
(* What is in a file is what some envelope still has after purges took     *)
(* nodes and relations out of it (Remains).  The eras, which count what    *)
(* purges do to a key, tie a receipt to the file it is about; the reader   *)
(* still has to read, or has read, whatever was acknowledged before.       *)
(***************************************************************************)
EXTENDS SubgraphSink, RuntimeCapture, FoldTheorems, SequenceTheorems

Document(key, source, stamp, nodes, relations) ==
    [key |-> key, source |-> source, stamp |-> stamp, nodes |-> nodes,
     relations |-> relations]

\* What an envelope may be when some of its nodes and relations are gone.
Remains ==
    UNION {{Document(e.key, e.source, e.stamp, N, R) :
               N \in SUBSET e.nodes, R \in SUBSET e.relations} : e \in Envelopes}

Typed ==
    /\ order \in HashOrders
    /\ pc \in [Producers -> {"idle", "compare", "link"}]
    /\ env = [p \in Producers |-> env[p]]
    /\ \A p \in Producers : pc[p] # "idle" => env[p] \in Envelopes /\ Valid(env[p])
    /\ files \in [DOMAIN files -> Remains]
    /\ DOMAIN files \subseteq Keys
    /\ \A k \in DOMAIN files : files[k].key = k
    /\ era \in [Keys -> Nat]

\* A file that no purge has touched holds an envelope.
Untouched == \A k \in DOMAIN files : era[k] = 0 => files[k] \in Envelopes

\* A receipt is given for an envelope and does not know of eras to come.
Dated ==
    \A r \in receipts :
        r.env \in Envelopes /\ r.era \in Nat /\ r.era <= era[r.env.key]

StoreInv == Typed /\ Loadable /\ Untouched /\ Dated /\ Durable

----------------------------------------------------------------------------
(* Documents.                                                              *)

LEMMA RemainsFacts ==
  ASSUME NEW d \in Remains
  PROVE  \E e \in Envelopes :
            /\ d = Document(e.key, e.source, e.stamp, d.nodes, d.relations)
            /\ d.key = e.key /\ d.source = e.source /\ d.stamp = e.stamp
            /\ d.nodes \subseteq e.nodes /\ d.relations \subseteq e.relations
  <1>1. PICK e \in Envelopes :
           \E N \in SUBSET e.nodes : \E R \in SUBSET e.relations :
              d = Document(e.key, e.source, e.stamp, N, R)
    BY DEF Remains
  <1>2. PICK N \in SUBSET e.nodes, R \in SUBSET e.relations :
           d = Document(e.key, e.source, e.stamp, N, R)
    BY <1>1
  <1> QED
    BY <1>2 DEF Document

LEMMA RemainsIntro ==
  ASSUME NEW e \in Envelopes, NEW N \in SUBSET e.nodes, NEW R \in SUBSET e.relations
  PROVE  Document(e.key, e.source, e.stamp, N, R) \in Remains
  BY DEF Remains

LEMMA EnvelopeRemains ==
  ASSUME NEW e \in Envelopes
  PROVE  e \in Remains
  <1>1. e = Document(e.key, e.source, e.stamp, e.nodes, e.relations)
    BY EnvelopeAssumption DEF Document
  <1>2. e.nodes \in SUBSET e.nodes /\ e.relations \in SUBSET e.relations
    OBVIOUS
  <1>3. Document(e.key, e.source, e.stamp, e.nodes, e.relations) \in Remains
    BY <1>2, RemainsIntro
  <1> QED
    BY <1>1, <1>3

\* Nodes taken out of a document, with the relations that hang on them, leave a
\* document that is valid unless it is empty.
LEMMA ReducedFacts ==
  ASSUME NEW d \in Remains, NEW t
  PROVE  /\ Reduced(d, t) \in Remains
         /\ Reduced(d, t).key = d.key
         /\ Reduced(d, t).source = d.source /\ Reduced(d, t).stamp = d.stamp
         /\ Reduced(d, t).nodes = {n \in d.nodes : n.id \notin t.nodes}
         /\ Reduced(d, t).relations \subseteq d.relations
         /\ Valid(d) /\ ~(Ids(d) \subseteq t.nodes) => Valid(Reduced(d, t))
  <1>1. PICK e \in Envelopes :
            /\ d = Document(e.key, e.source, e.stamp, d.nodes, d.relations)
            /\ d.key = e.key /\ d.source = e.source /\ d.stamp = e.stamp
            /\ d.nodes \subseteq e.nodes /\ d.relations \subseteq e.relations
    BY RemainsFacts
  <1> DEFINE N == {n \in d.nodes : n.id \notin t.nodes}
             R == {r \in d.relations : {r[2], r[3]} \intersect (Ids(d) \intersect t.nodes) = {}}
  <1>2. Reduced(d, t) = Document(e.key, e.source, e.stamp, N, R)
    <2>1. Reduced(d, t) = [d EXCEPT !.nodes = N, !.relations = R]
      BY DEF Reduced
    <2> HIDE DEF N, R
    <2>2. ASSUME NEW M, NEW S, d = Document(e.key, e.source, e.stamp, M, S)
          PROVE  [d EXCEPT !.nodes = N, !.relations = R]
                   = Document(e.key, e.source, e.stamp, N, R)
      <3>1. [d EXCEPT !.nodes = N] = Document(e.key, e.source, e.stamp, N, S)
        BY <2>2 DEF Document
      <3>2. [Document(e.key, e.source, e.stamp, N, S) EXCEPT !.relations = R]
              = Document(e.key, e.source, e.stamp, N, R)
        BY DEF Document
      <3>3. [d EXCEPT !.nodes = N, !.relations = R]
              = [[d EXCEPT !.nodes = N] EXCEPT !.relations = R]
        OBVIOUS
      <3> QED
        BY <3>1, <3>2, <3>3, Zenon
    <2> QED
      BY <1>1, <2>1, <2>2, Zenon
  <1>3. N \in SUBSET e.nodes /\ R \in SUBSET e.relations
    BY <1>1
  <1>4. Reduced(d, t) \in Remains
    BY <1>2, <1>3, RemainsIntro
  <1>5. /\ Reduced(d, t).key = d.key
        /\ Reduced(d, t).source = d.source /\ Reduced(d, t).stamp = d.stamp
        /\ Reduced(d, t).nodes = N /\ Reduced(d, t).relations = R
    BY <1>1, <1>2 DEF Document
  <1>6. ASSUME Valid(d), ~(Ids(d) \subseteq t.nodes) PROVE Valid(Reduced(d, t))
    <2>1. N # {}
      BY <1>6 DEF Ids
    <2>2. \A m, n \in N : m.id = n.id => m = n
      BY <1>6 DEF Valid
    <2>3. ASSUME NEW r \in R PROVE {r[2], r[3]} \subseteq {n.id : n \in N}
      <3>1. {r[2], r[3]} \subseteq Ids(d) \ t.nodes
        BY <1>6 DEF Valid
      <3> QED
        BY <3>1 DEF Ids
    <2> QED
      BY <1>5, <2>1, <2>2, <2>3 DEF Valid, Ids
  <1> QED
    BY <1>4, <1>5, <1>6

----------------------------------------------------------------------------
(* The store.                                                              *)

LEMMA StoreInit == Init => StoreInv
  <1> SUFFICES ASSUME Init PROVE StoreInv
    OBVIOUS
  <1> USE DEF Init
  <1>1. DOMAIN files = {} /\ files \in [DOMAIN files -> Remains]
    OBVIOUS
  <1>2. era \in [Keys -> Nat]
    OBVIOUS
  <1>3. Typed
    BY <1>1, <1>2 DEF Typed
  <1> QED
    BY <1>1, <1>3 DEF StoreInv, Loadable, Untouched, Dated, Durable

\* What a step that leaves files and eras alone must see to: the producers, and what
\* it answers.
LEMMA FilesUntouched ==
  ASSUME StoreInv, Typed', UNCHANGED <<files, era>>,
         \A r \in receipts' \ receipts :
            /\ r.env \in Envelopes /\ r.era = era[r.env.key]
            /\ r.env.key \in DOMAIN files /\ files[r.env.key] = r.env
  PROVE  StoreInv'
  <1> USE DEF StoreInv
  <1>1. Loadable' /\ Untouched'
    BY DEF Loadable, Untouched, Valid, Ids
  <1>2. \A r \in receipts' \ receipts : r.env.key \in Keys
    BY DEF Keys
  <1>3. Dated' /\ Durable'
    BY <1>2 DEF Dated, Durable, Typed
  <1> QED
    BY <1>1, <1>3

LEMMA PublishStep ==
  ASSUME StoreInv, NEW p \in Producers, pc[p] = "link", env[p].key \notin DOMAIN files,
         Publish(p), UNCHANGED <<order, era>>
  PROVE  StoreInv'
  <1> DEFINE e == env[p]
  <1> USE DEF StoreInv
  <1>1. e \in Envelopes /\ Valid(e) /\ e.key \in Keys /\ e \in Remains
    BY EnvelopeRemains DEF Typed, Keys
  <1>2. /\ DOMAIN files' = DOMAIN files \union {e.key} /\ files'[e.key] = e
        /\ \A k \in DOMAIN files : files'[k] = files[k]
        /\ receipts' = receipts \union {Answer(p, "inserted")}
        /\ files' = [k \in DOMAIN files' |-> files'[k]]
    BY DEF Publish
  <1>3. Typed'
    <2>1. /\ pc' = [pc EXCEPT ![p] = "idle"] /\ env' = [env EXCEPT ![p] = NoEnvelope]
      BY DEF Publish, Finish
    <2>2. files' \in [DOMAIN files' -> Remains] /\ DOMAIN files' \subseteq Keys
      BY <1>1, <1>2 DEF Typed
    <2>3. pc' \in [Producers -> {"idle", "compare", "link"}]
      BY <2>1 DEF Typed
    <2>4. env' = [q \in Producers |-> env'[q]]
      BY <2>1 DEF Typed
    <2>5. \A q \in Producers : pc'[q] # "idle" => env'[q] \in Envelopes /\ Valid(env'[q])
      BY <2>1 DEF Typed
    <2>6. \A k \in DOMAIN files' : files'[k].key = k
      BY <1>2 DEF Typed
    <2> QED
      BY <2>2, <2>3, <2>4, <2>5, <2>6 DEF Typed, Valid, Ids
  <1>4. Loadable'
    BY <1>1, <1>2 DEF Loadable, Valid, Ids
  <1>5. Untouched'
    BY <1>1, <1>2 DEF Untouched
  <1>6. Answer(p, "inserted").env = e /\ Answer(p, "inserted").era = era[e.key]
    BY DEF Answer
  <1>7. Dated'
    <2>1. era[e.key] \in Nat
      BY <1>1 DEF Typed
    <2> QED
      BY <1>1, <1>2, <1>6, <2>1 DEF Dated
  <1>8. Durable'
    <2>1. ASSUME NEW r \in receipts, r.era = era[r.env.key]
          PROVE  r.env.key \in DOMAIN files' /\ files'[r.env.key] = r.env
      BY <1>2, <2>1 DEF Durable
    <2> QED
      BY <1>2, <1>6, <2>1 DEF Durable
  <1> QED
    BY <1>3, <1>4, <1>5, <1>7, <1>8

\* A purge has to change the file of k, or to drop it.
Touched(k, t) == files[k].source \in t.sources \/ Ids(files[k]) \intersect t.nodes # {}
Dropped(k, t) == files[k].source \in t.sources \/ Ids(files[k]) \subseteq t.nodes

LEMMA PurgeFileCases ==
  ASSUME PurgeFile
  PROVE  LET k == FirstName(purge.todo)
             t == purge.target
         IN  \/ UNCHANGED <<files, era>>
             \/ /\ k \in DOMAIN files /\ Touched(k, t)
                /\ era' = [era EXCEPT ![k] = @ + 1]
                /\ \/ files' = [j \in DOMAIN files \ {k} |-> files[j]]
                   \/ /\ ~Dropped(k, t)
                      /\ files' = [files EXCEPT ![k] = Reduced(@, t)]
  BY DEF PurgeFile, Touched, Dropped

LEMMA PurgeFileStep ==
  ASSUME StoreInv, PurgeFile
  PROVE  StoreInv'
  <1> DEFINE k == FirstName(purge.todo)
             t == purge.target
  <1> USE DEF StoreInv
  <1>1. UNCHANGED <<order, pc, env, receipts>>
    BY DEF PurgeFile
  <1>2. CASE UNCHANGED <<files, era>>
    <2>1. Typed'
      BY <1>1, <1>2 DEF Typed, Valid, Ids
    <2> QED
      BY <1>1, <1>2, <2>1, FilesUntouched
  <1>3. ASSUME k \in DOMAIN files, era' = [era EXCEPT ![k] = @ + 1],
               files' \in [DOMAIN files' -> Remains], DOMAIN files' \subseteq DOMAIN files,
               \A j \in DOMAIN files : j # k => j \in DOMAIN files' /\ files'[j] = files[j],
               k \in DOMAIN files' => files'[k].key = k /\ Valid(files'[k])
        PROVE  StoreInv'
    <2>1. era' \in [Keys -> Nat] /\ era'[k] = era[k] + 1 /\ era[k] \in Nat
          /\ \A j \in Keys : j # k => era'[j] = era[j]
      BY <1>3 DEF Typed
    <2>2. Typed'
      BY <1>1, <1>3, <2>1 DEF Typed, Valid, Ids
    <2>3. Loadable'
      BY <1>3 DEF Loadable, Valid, Ids
    <2>4. Untouched'
      BY <1>3, <2>1 DEF Untouched, Typed
    <2>5. Dated'
      <3>1. ASSUME NEW r \in receipts PROVE r.era <= era'[r.env.key]
        <4>1. r.env.key \in Keys /\ r.era \in Nat /\ r.era <= era[r.env.key]
          BY DEF Dated, Keys
        <4>2. era[r.env.key] \in Nat /\ era'[r.env.key] \in Nat
          BY <4>1, <2>1 DEF Typed
        <4> QED
          BY <2>1, <4>1, <4>2
      <3> QED
        BY <1>1, <3>1 DEF Dated
    <2>6. Durable'
      <3>1. ASSUME NEW r \in receipts, r.era = era'[r.env.key]
            PROVE  r.env.key \in DOMAIN files' /\ files'[r.env.key] = r.env
        <4>1. r.env.key \in Keys /\ r.era \in Nat /\ r.era <= era[r.env.key]
          BY DEF Dated, Keys
        <4>2. r.env.key # k
          BY <2>1, <3>1, <4>1
        <4> QED
          BY <1>3, <2>1, <3>1, <4>1, <4>2 DEF Durable
      <3> QED
        BY <1>1, <3>1 DEF Durable
    <2> QED
      BY <2>2, <2>3, <2>4, <2>5, <2>6
  <1>4. ASSUME k \in DOMAIN files, era' = [era EXCEPT ![k] = @ + 1],
               files' = [j \in DOMAIN files \ {k} |-> files[j]]
        PROVE  StoreInv'
    BY <1>3, <1>4 DEF Typed
  <1>5. ASSUME k \in DOMAIN files, era' = [era EXCEPT ![k] = @ + 1], ~Dropped(k, t),
               files' = [files EXCEPT ![k] = Reduced(@, t)]
        PROVE  StoreInv'
    <2>1. files[k] \in Remains /\ Valid(files[k]) /\ files[k].key = k
      BY <1>5 DEF Typed, Loadable
    <2>2. Reduced(files[k], t) \in Remains /\ Reduced(files[k], t).key = k
          /\ Valid(Reduced(files[k], t))
      BY <1>5, <2>1, ReducedFacts DEF Dropped
    <2>3. /\ files' \in [DOMAIN files' -> Remains] /\ DOMAIN files' = DOMAIN files
          /\ files'[k] = Reduced(files[k], t)
          /\ \A j \in DOMAIN files : j # k => files'[j] = files[j]
      BY <1>5, <2>2 DEF Typed
    <2> QED
      BY <1>3, <1>5, <2>2, <2>3
  <1> QED
    BY <1>2, <1>4, <1>5, PurgeFileCases

LEMMA StoreStep == StoreInv /\ [Next]_vars => StoreInv'
  <1> SUFFICES ASSUME StoreInv, [Next]_vars PROVE StoreInv'
    OBVIOUS
  <1> USE DEF StoreInv
  <1>1. ASSUME NEW p \in Producers, NEW e \in Envelopes, Upsert(p, e) PROVE StoreInv'
    <2>1. UNCHANGED <<files, order, era, receipts>> /\ Valid(e)
      BY <1>1 DEF Upsert
    <2>2. Typed'
      BY <1>1, <2>1 DEF Upsert, Typed, Valid, Ids
    <2> QED
      BY <2>1, <2>2, FilesUntouched
  <1>2. ASSUME NEW p \in Producers, Compare(p) PROVE StoreInv'
    <2>1. UNCHANGED <<files, order, era>> /\ pc[p] = "compare"
      BY <1>2 DEF Compare
    <2>2. Typed'
      BY <1>2, <2>1 DEF Compare, Finish, Typed, Valid, Ids
    <2>3. env[p] \in Envelopes
      BY <2>1 DEF Typed
    <2>4. receipts' = receipts
          \/ /\ receipts' = receipts \union {Answer(p, "unchanged")}
             /\ env[p].key \in DOMAIN files /\ files[env[p].key] = env[p]
      BY <1>2 DEF Compare
    <2>5. /\ Answer(p, "unchanged").env = env[p]
          /\ Answer(p, "unchanged").era = era[env[p].key]
      BY DEF Answer
    <2> QED
      BY <2>1, <2>2, <2>3, <2>4, <2>5, FilesUntouched
  <1>3. ASSUME NEW p \in Producers, Link(p) PROVE StoreInv'
    <2>1. UNCHANGED <<order, era>> /\ pc[p] = "link"
      BY <1>3 DEF Link
    <2>2. CASE env[p].key \in DOMAIN files
      <3>1. UNCHANGED <<files, env, receipts>> /\ pc' = [pc EXCEPT ![p] = "compare"]
        BY <1>3, <2>2 DEF Link
      <3>2. Typed'
        BY <2>1, <3>1 DEF Typed, Valid, Ids
      <3> QED
        BY <2>1, <3>1, <3>2, FilesUntouched
    <2>3. CASE env[p].key \notin DOMAIN files
      BY <1>3, <2>1, <2>3, PublishStep DEF Link
    <2> QED
      BY <2>2, <2>3
  <1>4. ASSUME NEW p \in Producers, Die(p) PROVE StoreInv'
    <2>1. UNCHANGED <<files, order, era, receipts>>
      BY <1>4 DEF Die
    <2>2. Typed'
      BY <1>4, <2>1 DEF Die, Finish, Typed, Valid, Ids
    <2> QED
      BY <2>1, <2>2, FilesUntouched
  <1>5. CASE UNCHANGED <<files, order, pc, env, era, receipts>>
    <2>1. Typed'
      BY <1>5 DEF Typed, Valid, Ids
    <2> QED
      BY <1>5, <2>1, FilesUntouched
  <1>6. CASE PurgeFile
    BY <1>6, PurgeFileStep
  <1> QED
    BY <1>1, <1>2, <1>3, <1>4, <1>5, <1>6
    DEF Next, vars, Delete, PurgeBegin, PurgeEnd, ReadBegin, ReadFile, ReadEnd

(***************************************************************************)
(* The store's invariant holds of every behaviour of the sink.             *)
(***************************************************************************)
THEOREM StoreInvariant == Spec => []StoreInv
  BY StoreInit, StoreStep, PTL DEF Spec

(***************************************************************************)
(* No interleaving of producers that die and purges that strip leaves a    *)
(* transaction behind that makes load_dimensioned_subgraphs raise.         *)
(***************************************************************************)
THEOREM EveryTransactionLoads == Spec => []Loadable
  <1>1. StoreInv => Loadable
    BY DEF StoreInv
  <1> QED
    BY <1>1, StoreInvariant, PTL

(***************************************************************************)
(* What upsert answered is what is stored, for as long as no purge touches *)
(* the file, whoever else writes under the same key.                       *)
(***************************************************************************)
THEOREM ReceiptsHold == Spec => []Durable
  <1>1. StoreInv => Durable
    BY DEF StoreInv
  <1> QED
    BY <1>1, StoreInvariant, PTL

----------------------------------------------------------------------------
(* The sink implements the keyed store.                                    *)

LEMMA ImplementsStep ==
  ASSUME StoreInv, [Next]_vars
  PROVE  [Abstract!Next]_files
  <1> USE DEF StoreInv
  <1>1. ASSUME NEW p \in Producers, Link(p) PROVE [Abstract!Next]_files
    <2>1. CASE env[p].key \in DOMAIN files
      BY <1>1, <2>1 DEF Link
    <2>2. CASE env[p].key \notin DOMAIN files
      <3>1. env[p] \in Envelopes
        BY <1>1 DEF Link, Typed
      <3>2. Abstract!Put(env[p])
        BY <1>1, <2>2 DEF Link, Publish, Abstract!Put
      <3> QED
        BY <3>1, <3>2 DEF Abstract!Next
    <2> QED
      BY <2>1, <2>2
  <1>2. CASE PurgeFile
    <2> DEFINE k == FirstName(purge.todo)
               t == purge.target
    <2>1. CASE UNCHANGED <<files, era>>
      BY <2>1
    <2>2. ASSUME k \in DOMAIN files, files' = [j \in DOMAIN files \ {k} |-> files[j]]
          PROVE  [Abstract!Next]_files
      BY <2>2 DEF Abstract!Next, Abstract!Free
    <2>3. ASSUME k \in DOMAIN files, Touched(k, t), ~Dropped(k, t),
                 files' = [files EXCEPT ![k] = Reduced(@, t)]
          PROVE  [Abstract!Next]_files
      <3>1. files[k] \in Remains
        BY <2>3 DEF Typed
      <3>2. \E n \in files[k].nodes : n.id \in t.nodes
        BY <2>3 DEF Touched, Dropped, Ids
      <3>3. Abstract!Reduces(Reduced(files[k], t), files[k])
        BY <3>1, <3>2, ReducedFacts DEF Abstract!Reduces
      <3>4. /\ DOMAIN files' = DOMAIN files /\ files'[k] = Reduced(files[k], t)
            /\ \A j \in DOMAIN files \ {k} : files'[j] = files[j]
        BY <2>3 DEF Typed
      <3>5. Abstract!Redact(k)
        BY <3>3, <3>4 DEF Abstract!Redact
      <3> QED
        BY <2>3, <3>5 DEF Abstract!Next
    <2> QED
      BY <1>2, <2>1, <2>2, <2>3, PurgeFileCases
  <1>3. CASE UNCHANGED files
    BY <1>3
  <1> QED
    BY <1>1, <1>2, <1>3
    DEF Next, vars, Upsert, Compare, Die, Delete, PurgeBegin, PurgeEnd, ReadBegin, ReadFile,
        ReadEnd

(***************************************************************************)
(* A key is bound to a whole envelope, once; afterwards it only loses      *)
(* nodes to a purge, or is set free by one.  Two producers that both find  *)
(* no file, the hard link that decides between them, and a producer that   *)
(* dies on the way are all steps, or stutters, of the keyed store.         *)
(***************************************************************************)
THEOREM SinkImplementsStore == Spec => ImplementsKeyedStore
  <1>1. Init => Abstract!Init
    BY DEF Init, Abstract!Init
  <1>2. StoreInv /\ [Next]_vars => [Abstract!Next]_files
    BY ImplementsStep
  <1> QED
    BY <1>1, <1>2, StoreInvariant, PTL DEF Spec, ImplementsKeyedStore, Abstract!Spec

----------------------------------------------------------------------------
(* What append_fact, append_inference, append_record and append_records    *)
(* capture: the key says it all but the time, and an id that is versioned  *)
(* is versioned everywhere.                                                *)

\* The mark "-" in an id says that no digest is part of it.
Body(rec) == rec.body # "-"
Version == Nat \ {0}

Captured(e) ==
    \/ \E subject, object, actor, stamp : e = AppendFact(subject, object, actor, stamp)
    \/ \E path, actor, stamp : e = AppendInference(path, actor, stamp)
    \/ \E rec, actor, stamp : Body(rec) /\ e = AppendRecord(rec, actor, stamp)
    \/ \E rec, actor, stamp : \E v \in Version : e = UpsertRecord(rec, v, actor, stamp)
    \/ \E items, actor, stamp :
          /\ \A i \in DOMAIN items : items[i].version \in Version
          /\ e = AppendRecords(items, actor, stamp)

Versioned(id) == id.kind = "record" /\ id.digest = "-"

LEMMA SlugOfItem ==
  ASSUME NEW rec, NEW v
  PROVE  Item(rec, v).id = rec.id /\ Item(rec, v).body = rec.body /\ Item(rec, v).version = v
  BY DEF Item

LEMMA CapturedVersions ==
  ASSUME NEW e \in Envelopes, Captured(e), NEW n \in e.nodes
  PROVE  n.version > 0 <=> Versioned(n.id)
  <1> USE DEF Versioned, Envelope, Node
  <1>1. ASSUME NEW subject, NEW object, NEW actor, NEW stamp,
               e = AppendFact(subject, object, actor, stamp)
        PROVE  n.version > 0 <=> Versioned(n.id)
    BY <1>1 DEF AppendFact, Walk, EntityId
  <1>2. ASSUME NEW path, NEW actor, NEW stamp, e = AppendInference(path, actor, stamp)
        PROVE  n.version > 0 <=> Versioned(n.id)
    BY <1>2 DEF AppendInference, Walk, EntityId
  <1>3. ASSUME NEW rec, NEW actor, NEW stamp, Body(rec), e = AppendRecord(rec, actor, stamp)
        PROVE  n.version > 0 <=> Versioned(n.id)
    BY <1>3 DEF AppendRecord, RevisionId, Body
  <1>4. ASSUME NEW rec, NEW actor, NEW stamp, NEW v \in Version,
               e = UpsertRecord(rec, v, actor, stamp)
        PROVE  n.version > 0 <=> Versioned(n.id)
    BY <1>4 DEF UpsertRecord, RecordId, Version
  <1>5. ASSUME NEW items, NEW actor, NEW stamp, e = AppendRecords(items, actor, stamp),
               \A i \in DOMAIN items : items[i].version \in Version
        PROVE  n.version > 0 <=> Versioned(n.id)
    <2>1. PICK i \in DOMAIN items :
             n = Node(RecordId(items[i]), items[i].id, items[i].version, <<items[i].body>>)
      BY <1>5 DEF AppendRecords
    <2> QED
      BY <1>5, <2>1 DEF RecordId, Version
  <1> QED
    BY <1>1, <1>2, <1>3, <1>4, <1>5 DEF Captured

\* What a key is the digest of.
Content(k) ==
    CASE k.kind \in {"fact", "inference"} ->
            [nodes |-> {Node(EntityId(t), t, 0, Statement(k.path, t)) : t \in Terms(k.path)},
             relations |-> {<<i, EntityId(k.path[i][1]), EntityId(k.path[i][2])>> :
                               i \in DOMAIN k.path}]
      [] k.kind = "record" ->
            [nodes |-> {Node(IF k.items[1].version = 0 THEN RevisionId(k.items[1])
                             ELSE RecordId(k.items[1]),
                             k.items[1].id, k.items[1].version, <<k.items[1].body>>)},
             relations |-> {}]
      [] OTHER ->
            [nodes |-> {Node(RecordId(k.items[i]), k.items[i].id, k.items[i].version,
                             <<k.items[i].body>>) :
                           i \in {i \in DOMAIN k.items :
                                     \A j \in DOMAIN k.items :
                                        RecordId(k.items[j]) = RecordId(k.items[i]) => j <= i}},
             relations |-> {}]

LEMMA KeySaysAll ==
  ASSUME NEW e, Captured(e)
  PROVE  e = Document(e.key, e.key.actor, e.stamp, Content(e.key).nodes, Content(e.key).relations)
  <1> DEFINE Goal(x) == x = Document(x.key, x.key.actor, x.stamp, Content(x.key).nodes,
                                     Content(x.key).relations)
  <1> USE DEF Document, Envelope
  <1>1. ASSUME NEW kind \in {"fact", "inference"}, NEW path, NEW actor, NEW stamp
        PROVE  Goal(Walk(kind, path, actor, stamp))
    <2>1. Key(kind, path, <<>>, actor).kind = kind /\ Key(kind, path, <<>>, actor).path = path
          /\ Key(kind, path, <<>>, actor).actor = actor
      BY DEF Key
    <2> QED
      BY <2>1 DEF Walk, Content
  <1>2. ASSUME NEW rec, NEW actor, NEW stamp PROVE Goal(AppendRecord(rec, actor, stamp))
    <2> DEFINE k == Key("record", <<>>, <<Item(rec, 0)>>, actor)
    <2>1. /\ k.kind = "record" /\ k.actor = actor /\ k.items[1].id = rec.id
          /\ k.items[1].body = rec.body /\ k.items[1].version = 0
      BY SlugOfItem DEF Key
    <2>2. RevisionId(k.items[1]) = RevisionId(rec)
      BY <2>1 DEF RevisionId
    <2> HIDE DEF k
    <2>3. Content(k) = [nodes |-> {Node(RevisionId(rec), rec.id, 0, <<rec.body>>)},
                        relations |-> {}]
      BY <2>1, <2>2 DEF Content
    <2>4. AppendRecord(rec, actor, stamp)
            = Envelope(k, stamp, {Node(RevisionId(rec), rec.id, 0, <<rec.body>>)}, {})
      BY DEF AppendRecord, k
    <2> QED
      BY <2>1, <2>3, <2>4
  <1>3. ASSUME NEW rec, NEW actor, NEW stamp, NEW v \in Version
        PROVE  Goal(UpsertRecord(rec, v, actor, stamp))
    <2> DEFINE k == Key("record", <<>>, <<Item(rec, v)>>, actor)
    <2>1. /\ k.kind = "record" /\ k.actor = actor /\ k.items[1].id = rec.id
          /\ k.items[1].body = rec.body /\ k.items[1].version = v /\ v # 0
      BY SlugOfItem DEF Key, Version
    <2>2. RecordId(k.items[1]) = RecordId(rec)
      BY <2>1 DEF RecordId
    <2> HIDE DEF k
    <2>3. Content(k) = [nodes |-> {Node(RecordId(rec), rec.id, v, <<rec.body>>)},
                        relations |-> {}]
      BY <2>1, <2>2 DEF Content
    <2>4. UpsertRecord(rec, v, actor, stamp)
            = Envelope(k, stamp, {Node(RecordId(rec), rec.id, v, <<rec.body>>)}, {})
      BY DEF UpsertRecord, VersionKey, k
    <2> QED
      BY <2>1, <2>3, <2>4
  <1>4. ASSUME NEW items, NEW actor, NEW stamp PROVE Goal(AppendRecords(items, actor, stamp))
    <2>1. /\ Key("records", <<>>, items, actor).kind = "records"
          /\ Key("records", <<>>, items, actor).items = items
          /\ Key("records", <<>>, items, actor).actor = actor
      BY DEF Key
    <2> QED
      BY <2>1 DEF AppendRecords, Content
  <1> HIDE DEF Goal
  <1>5. Goal(e)
    <2>1. \A subject, object, actor, stamp : Goal(AppendFact(subject, object, actor, stamp))
      BY <1>1 DEF AppendFact
    <2>2. \A path, actor, stamp : Goal(AppendInference(path, actor, stamp))
      BY <1>1 DEF AppendInference
    <2> QED
      BY <1>2, <1>3, <1>4, <2>1, <2>2 DEF Captured
  <1> QED
    BY <1>5 DEF Goal

\* So two captures under one key differ in the time of observation at most.
LEMMA SameKnowledge ==
  ASSUME NEW d, NEW e, Captured(d), Captured(e), d.key = e.key
  PROVE  [d EXCEPT !.stamp = e.stamp] = e
  <1> DEFINE N == Content(e.key).nodes
             R == Content(e.key).relations
  <1>1. d = Document(e.key, e.key.actor, d.stamp, N, R)
    BY KeySaysAll
  <1>2. e = Document(e.key, e.key.actor, e.stamp, N, R)
    BY KeySaysAll
  <1> HIDE DEF N, R
  <1>3. ASSUME NEW k, NEW a, NEW s, d = Document(k, a, s, N, R), NEW t
        PROVE  [d EXCEPT !.stamp = t] = Document(k, a, t, N, R)
    BY <1>3 DEF Document
  <1> QED
    BY <1>1, <1>2, <1>3, Zenon

LEMMA ConflictStep ==
  ASSUME \A e \in Envelopes : Captured(e), StoreInv, ConflictJustified, [Next]_vars
  PROVE  ConflictJustified'
  <1> USE DEF StoreInv
  <1>1. ASSUME NEW p \in Producers, Compare(p) PROVE ConflictJustified'
    <2> DEFINE k == env[p].key
               c == [env |-> env[p], by |-> files[k], era |-> era[k]]
    <2>1. env[p] \in Envelopes /\ k \in Keys
      BY <1>1 DEF Compare, Typed, Keys
    <2>2. \/ refused' = refused
          \/ refused' = refused \union {c} /\ k \in DOMAIN files /\ files[k] # env[p]
      BY <1>1 DEF Compare
    <2>3. ASSUME k \in DOMAIN files, files[k] # env[p]
          PROVE  \/ c.era > 0
                 \/ /\ c.by.stamp # c.env.stamp
                    /\ [c.by EXCEPT !.stamp = c.env.stamp] = c.env
      <3>1. CASE era[k] = 0
        <4>1. files[k] \in Envelopes /\ files[k].key = env[p].key
          BY <2>3, <3>1 DEF Untouched, Typed
        <4>2. [files[k] EXCEPT !.stamp = env[p].stamp] = env[p]
          BY <2>1, <4>1, SameKnowledge
        <4>3. files[k].stamp # env[p].stamp
          <5>1. files[k] = Document(k, k.actor, files[k].stamp, Content(k).nodes,
                                    Content(k).relations)
            BY <4>1, KeySaysAll
          <5>2. env[p] = Document(k, k.actor, env[p].stamp, Content(k).nodes,
                                  Content(k).relations)
            BY <2>1, KeySaysAll
          <5> QED
            BY <2>3, <5>1, <5>2, Zenon
        <4> QED
          BY <4>2, <4>3
      <3>2. CASE era[k] # 0
        <4>1. era[k] \in Nat
          BY <2>1 DEF Typed
        <4> QED
          BY <3>2, <4>1
      <3> QED
        BY <3>1, <3>2
    <2> QED
      BY <2>2, <2>3 DEF ConflictJustified
  <1>2. CASE UNCHANGED refused
    BY <1>2 DEF ConflictJustified
  <1> QED
    BY <1>1, <1>2
    DEF Next, vars, Upsert, Link, Publish, Die, Delete, PurgeBegin, PurgeFile, PurgeEnd,
        ReadBegin, ReadFile, ReadEnd

(***************************************************************************)
(* Whatever is captured, by whoever, in whatever versions and batches: an  *)
(* upsert is refused only when a purge has been at work under its key or   *)
(* the same knowledge was observed at another time.                        *)
(***************************************************************************)
THEOREM ConflictsHaveReasons ==
  ASSUME \A e \in Envelopes : Captured(e)
  PROVE  Spec => []ConflictJustified
  <1>1. Init => ConflictJustified
    BY DEF Init, ConflictJustified
  <1>2. StoreInv /\ ConflictJustified /\ [Next]_vars => ConflictJustified'
    BY ConflictStep
  <1> QED
    BY <1>1, <1>2, StoreInvariant, PTL DEF Spec

----------------------------------------------------------------------------
(* A reader never goes back.                                               *)

\* Of what was acknowledged when the read began and is still as it was, the reader has
\* read the envelope or has its file still to read.
ReaderInv ==
    reader.at # "idle" =>
        /\ reader = [at |-> "read", tombs |-> reader.tombs, got |-> reader.got,
                     acked |-> reader.acked, todo |-> reader.todo]
        /\ reader.got \in Seq(Remains)
        /\ reader.acked \subseteq receipts
        /\ \A a \in reader.acked : a.era = era[a.env.key] =>
              \/ a.env.key \in reader.todo
              \/ \E j \in DOMAIN reader.got : reader.got[j] = a.env

\* While the reader waits, receipts are added and eras go on.
LEMMA ReaderWaits ==
  ASSUME StoreInv, ReaderInv, reader' = reader, receipts \subseteq receipts',
         \A a \in receipts : a.era = era'[a.env.key] => a.era = era[a.env.key]
  PROVE  ReaderInv'
  BY DEF ReaderInv

LEMMA ReadFileStep ==
  ASSUME StoreInv, ReaderInv, ReadFile
  PROVE  ReaderInv'
  <1> DEFINE k == FirstName(reader.todo)
  <1> USE DEF StoreInv
  <1>1. UNCHANGED <<era, receipts, files>>
    BY DEF ReadFile
  <1>2. CASE k \notin DOMAIN files
    <2>1. reader' = NoReader
      BY <1>2 DEF ReadFile
    <2> QED
      BY <2>1 DEF ReaderInv, NoReader
  <1>3. CASE k \in DOMAIN files
    <2>1. reader' = [reader EXCEPT !.todo = @ \ {k}, !.got = Append(@, files[k])]
          /\ reader.at = "read"
      BY <1>3 DEF ReadFile
    <2>2. reader' = [at |-> "read", tombs |-> reader.tombs,
                     got |-> Append(reader.got, files[k]), acked |-> reader.acked,
                     todo |-> reader.todo \ {k}]
      BY <2>1 DEF ReaderInv
    <2>3. reader.got \in Seq(Remains) /\ files[k] \in Remains
      BY <1>3, <2>1 DEF ReaderInv, Typed
    <2>4. /\ Append(reader.got, files[k]) \in Seq(Remains)
          /\ \A j \in DOMAIN reader.got : j \in DOMAIN Append(reader.got, files[k])
                /\ Append(reader.got, files[k])[j] = reader.got[j]
          /\ \E j \in DOMAIN Append(reader.got, files[k]) :
                Append(reader.got, files[k])[j] = files[k]
      <3>1. Len(reader.got) + 1 \in DOMAIN Append(reader.got, files[k])
        BY <2>3
      <3> QED
        BY <2>3, <3>1
    <2>5. ASSUME NEW a \in reader.acked, a.era = era[a.env.key], a.env.key = k
          PROVE  files[k] = a.env
      BY <2>1, <2>5 DEF ReaderInv, Durable
    <2>6. reader.acked \subseteq receipts /\ \A a \in reader.acked : a.era = era[a.env.key] =>
              \/ a.env.key \in reader.todo
              \/ \E j \in DOMAIN reader.got : reader.got[j] = a.env
      BY <2>1 DEF ReaderInv
    <2>7. /\ reader'.at = "read" /\ reader'.tombs = reader.tombs
          /\ reader'.got = Append(reader.got, files[k])
          /\ reader'.acked = reader.acked /\ reader'.todo = reader.todo \ {k}
      BY <2>2
    <2>8. \A a \in reader'.acked : a.era = era'[a.env.key] =>
              \/ a.env.key \in reader'.todo
              \/ \E j \in DOMAIN reader'.got : reader'.got[j] = a.env
      BY <1>1, <2>4, <2>5, <2>6, <2>7
    <2> QED
      BY <1>1, <2>2, <2>4, <2>6, <2>7, <2>8 DEF ReaderInv
  <1> QED
    BY <1>2, <1>3

LEMMA ReaderStep ==
  ASSUME StoreInv, ReaderInv, [Next]_vars
  PROVE  ReaderInv'
  <1> USE DEF StoreInv
  <1>1. CASE ReadBegin
    <2>1. /\ reader' = [at |-> "read", tombs |-> tombs, got |-> <<>>, acked |-> receipts,
                        todo |-> DOMAIN files]
          /\ UNCHANGED <<files, era, receipts>>
      BY <1>1 DEF ReadBegin
    <2>2. \A a \in receipts : a.era = era[a.env.key] => a.env.key \in DOMAIN files
      BY DEF Durable
    <2> QED
      BY <2>1, <2>2 DEF ReaderInv
  <1>2. CASE ReadFile
    BY <1>2, ReadFileStep
  <1>3. CASE ReadEnd
    BY <1>3 DEF ReadEnd, ReaderInv, NoReader
  <1>4. CASE PurgeFile
    <2>1. reader' = reader /\ receipts' = receipts
      BY <1>4 DEF PurgeFile
    <2>2. ASSUME NEW a \in receipts, a.era = era'[a.env.key] PROVE a.era = era[a.env.key]
      <3>1. a.env.key \in Keys /\ a.era \in Nat /\ a.era <= era[a.env.key]
            /\ era[a.env.key] \in Nat
        BY DEF Dated, Keys, Typed
      <3>2. era' = era \/ \E k \in Keys : era' = [era EXCEPT ![k] = @ + 1]
        BY <1>4, PurgeFileCases DEF Typed
      <3> QED
        BY <2>2, <3>1, <3>2 DEF Typed
    <2> QED
      BY <2>1, <2>2, ReaderWaits
  <1>5. CASE UNCHANGED <<reader, era>> /\ receipts \subseteq receipts'
    BY <1>5, ReaderWaits
  <1> QED
    BY <1>1, <1>2, <1>3, <1>4, <1>5
    DEF Next, vars, Upsert, Compare, Link, Publish, Die, Delete, PurgeBegin, PurgeEnd

----------------------------------------------------------------------------
(* Among the versions a reader has met of a record there is a highest one. *)

\* The versions above 0 of an id that were read.
Versions(got, id) ==
    {v \in Nat \ {0} : \E j \in DOMAIN got : \E m \in got[j].nodes :
                        m.id = id /\ m.version = v}

LEMMA NodesFinite ==
  ASSUME NEW d \in Remains
  PROVE  IsFiniteSet(d.nodes) /\ \A n \in d.nodes : n.version \in Nat
  <1>1. PICK e \in Envelopes : d.nodes \subseteq e.nodes
    BY RemainsFacts
  <1>2. IsFiniteSet(e.nodes) /\ \A n \in e.nodes : n.version \in Nat
    BY EnvelopeAssumption
  <1> QED
    BY <1>1, <1>2, FS_Subset

LEMMA VersionsFinite ==
  ASSUME NEW got \in Seq(Remains), NEW id
  PROVE  IsFiniteSet(Versions(got, id))
  <1> DEFINE node == [j \in 1..Len(got) |-> got[j].nodes]
             sets == {got[j].nodes : j \in 1..Len(got)}
             version == [n \in UNION sets |-> n.version]
             versions == {n.version : n \in UNION sets}
  <1>1. Len(got) \in Nat /\ DOMAIN got = 1..Len(got)
        /\ \A j \in DOMAIN got : got[j] \in Remains
    OBVIOUS
  <1>2. IsFiniteSet(1..Len(got))
    BY <1>1, FS_Interval
  <1>3. node \in Surjection(1..Len(got), sets)
    BY DEF Surjection
  <1>4. IsFiniteSet(sets)
    BY <1>2, <1>3, FS_Surjection
  <1>5. \A N \in sets : IsFiniteSet(N)
    BY <1>1, NodesFinite
  <1>6. IsFiniteSet(UNION sets)
    BY <1>4, <1>5, FS_UNION
  <1>7. version \in Surjection(UNION sets, versions)
    BY DEF Surjection
  <1>8. IsFiniteSet(versions)
    BY <1>6, <1>7, FS_Surjection
  <1>9. Versions(got, id) \subseteq versions
    BY <1>1 DEF Versions
  <1> QED
    BY <1>8, <1>9, FS_Subset

\* The first node that has the highest version is the one the reader lists.
LEMMA HighestIsListed ==
  ASSUME NEW got \in Seq(Remains), NEW id, Versions(got, id) # {}
  PROVE  \E r \in Records(got) :
            r.node.id = id /\ \A v \in Versions(got, id) : v <= r.node.version
  <1>0. Versions(got, id) \in SUBSET Nat /\ IsFiniteSet(Versions(got, id))
    BY VersionsFinite DEF Versions
  <1>1. PICK v \in Versions(got, id) : \A w \in Versions(got, id) : w <= v
    BY <1>0, HighestNumber
  <1> DEFINE places == {j \in Nat : j \in DOMAIN got /\
                           \E m \in got[j].nodes : m.id = id /\ m.version = v}
  <1>2. places # {} /\ places \subseteq Nat /\ v \in Nat /\ v > 0
    BY DEF Versions
  <1>3. PICK j \in places : \A i \in places : j <= i
    BY <1>2, LeastNumber
  <1>4. PICK n \in got[j].nodes : n.id = id /\ n.version = v
    OBVIOUS
  <1>5. ASSUME NEW i \in DOMAIN got, NEW m \in got[i].nodes, m.id = id, m.version > 0
        PROVE  ~Overrides(got, m, i, n, j)
    <2>1. got[i] \in Remains /\ i \in Nat /\ j \in Nat
      OBVIOUS
    <2>2. m.version \in Nat
      BY <2>1, NodesFinite
    <2>3. m.version \in Versions(got, id)
      BY <1>5, <2>2 DEF Versions
    <2>4. m.version <= v
      BY <1>1, <2>3
    <2>5. m.version = v => i \in places
      BY <1>5, <2>1
    <2>6. m.version = v => j <= i
      BY <1>3, <2>5
    <2> QED
      BY <1>2, <1>4, <2>1, <2>2, <2>4, <2>6 DEF Overrides
  <1>6. Latest(got, n, j)
    BY <1>4, <1>5 DEF Latest
  <1>7. Record(n, got[j]) \in Records(got)
    BY <1>4, <1>6 DEF Records
  <1>8. Record(n, got[j]).node = n
    BY DEF Record
  <1> QED
    BY <1>1, <1>4, <1>7, <1>8

LEMMA ReaderIsFresh ==
  ASSUME \A e \in Envelopes : Captured(e), StoreInv, ReaderInv
  PROVE  Fresh
  <1> SUFFICES ASSUME Done, NEW a \in reader.acked, NEW n \in a.env.nodes,
                      n.version > 0, a.era = era[a.env.key]
               PROVE  /\ \E r \in Records(reader.got) :
                            r.node.id = n.id /\ r.node.version >= n.version
                      /\ \A r \in IterRecords(reader.got, reader.tombs) :
                            r.node.id = n.id => r.node.version >= n.version
    BY DEF Fresh
  <1> DEFINE got == reader.got
  <1>1. got \in Seq(Remains) /\ a \in receipts
        /\ \E i \in DOMAIN got : got[i] = a.env
    BY DEF ReaderInv, Done
  <1>2. PICK i \in DOMAIN got : got[i] = a.env
    BY <1>1
  <1>3. a.env \in Envelopes /\ n.version \in Nat
    BY <1>1, EnvelopeAssumption DEF StoreInv, Dated
  <1> HIDE DEF got
  <1>4. n.version \in Versions(got, n.id)
    BY <1>2, <1>3 DEF Versions
  <1>5. \E r \in Records(got) : r.node.id = n.id /\ r.node.version >= n.version
    <2>1. PICK r \in Records(got) :
             r.node.id = n.id /\ \A v \in Versions(got, n.id) : v <= r.node.version
      BY <1>1, <1>4, HighestIsListed
    <2> QED
      BY <1>4, <2>1
  <1>6. ASSUME NEW r \in Records(got), r.node.id = n.id PROVE r.node.version >= n.version
    <2>1. PICK j \in DOMAIN got :
             r \in {Record(m, got[j]) : m \in {m \in got[j].nodes : Latest(got, m, j)}}
      BY DEF Records
    <2>2. PICK m \in got[j].nodes : Latest(got, m, j) /\ r = Record(m, got[j])
      BY <2>1
    <2>3. r.node = m /\ m.id = n.id
      BY <1>6, <2>2 DEF Record
    <2>4. got[j] \in Remains
      BY <1>1
    <2>5. PICK e \in Envelopes : got[j].nodes \subseteq e.nodes
      BY <2>4, RemainsFacts
    <2>6. m.version > 0 /\ m.version \in Nat
      <3>1. Versioned(n.id)
        BY <1>3, CapturedVersions
      <3>2. m.version > 0
        BY <2>2, <2>3, <2>5, <3>1, CapturedVersions
      <3> QED
        BY <2>4, <3>2, NodesFinite
    <2>7. ~Overrides(got, n, i, m, j)
      BY <1>2, <2>2, <2>3, <2>6 DEF Latest
    <2> QED
      BY <1>3, <2>3, <2>6, <2>7 DEF Overrides
  <1> QED
    BY <1>5, <1>6 DEF IterRecords, got

(***************************************************************************)
(* A reader that has finished lists, of every record whose version was     *)
(* acknowledged before it began and that no purge has touched, that        *)
(* version or a later one, and none before it, whatever is upserted while  *)
(* it reads and whatever order the file names have.                        *)
(***************************************************************************)
THEOREM ReadersNeverGoBack ==
  ASSUME \A e \in Envelopes : Captured(e)
  PROVE  Spec => []Fresh
  <1>1. Init => ReaderInv
    BY DEF Init, ReaderInv, NoReader
  <1>2. StoreInv /\ ReaderInv /\ [Next]_vars => ReaderInv'
    BY ReaderStep
  <1>3. StoreInv /\ ReaderInv => Fresh
    BY ReaderIsFresh
  <1> QED
    BY <1>1, <1>2, <1>3, StoreInvariant, PTL DEF Spec
=============================================================================
