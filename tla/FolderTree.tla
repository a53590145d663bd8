----------------------------- MODULE FolderTree -----------------------------
(***************************************************************************)
(* src/versum/store/hierarchy.py and the operations of distribution.py:    *)
(* folders in a tree have a store each.  What a folder remembers flows up  *)
(* to those above it, and down only what it has published.                 *)
(*                                                                         *)
(* Abstractions.  A store is read at once, and its filters say at once     *)
(* what its log says (Erasure has the steps of both).  Nodes of the claims *)
(* store and of the sink are documents alike.                              *)
(***************************************************************************)
EXTENDS Naturals, FiniteSets, Sequences, SequencesExt

CONSTANTS FolderOrder,   \* every folder, in the order of their paths
          Parent,        \* of every folder, or None for the root
          None,
          Docs,          \* ids of documents
          SourceOf,      \* of every document
          InitialHeld,   \* what the stores may begin with: sets of [in, doc]
          MaxEdits, MaxReads   \* bounds

ASSUME TreeAssumption == \A f \in Range(FolderOrder) : Parent[f] \in Range(FolderOrder) \union {None}

VARIABLES
    stores,   \* the folders that have a store
    held,     \* which folder has which document
    erased,   \* which of them are deleted
    shared,   \* by folder: the documents and sources it has published
    reader,   \* a read of a folder
    history,  \* what held during the read: always and at some time
    edits, reads   \* counters for the bounds

vars == <<stores, held, erased, shared, reader, history, edits, reads>>

Folders == Range(FolderOrder)
SourceIds == {SourceOf[d] : d \in Docs}
Idle == [at |-> "idle"]
In(f, d) == [in |-> f, doc |-> d]

-----------------------------------------------------------------------------
(* Scopes *)

\* The folders above one.
Above[f \in Folders] == IF Parent[f] = None THEN {} ELSE {Parent[f]} \union Above[Parent[f]]
Below(f) == {g \in Folders : f \in Above[g]}

InOrder(set) == SelectSeq(FolderOrder, LAMBDA f : f \in set)

\* The folder itself first, then those below it.
ScopeOrder(f) == InOrder({f} \intersect stores) \o InOrder(Below(f) \intersect stores)

\* The shallowest first.
Ancestors(f) ==
    SetToSortSeq(Above[f] \intersect stores, LAMBDA g, h : g \in Above[h])

Live(f) == {d \in Docs : In(f, d) \in held \ erased}
Distributes(published, d) == d \in published \/ SourceOf[d] \in published

-----------------------------------------------------------------------------
(* Changes of a store *)

AllLive == held \ erased
Sharing(s) == {r \in [in : Folders, doc : Docs] : Distributes(s[r.in], r.doc)}

\* What a read may have met at any time, and what it must have met.
Remembered ==
    history' = [seen |-> history.seen \union (held' \ erased'),
                kept |-> history.kept \intersect (held' \ erased'),
                granted |-> history.granted \union Sharing(shared'),
                steady |-> history.steady \intersect Sharing(shared')]

Edit(f, action) ==
    /\ edits < MaxEdits
    /\ edits' = edits + 1
    /\ action
    /\ stores' = stores \union {f}
    /\ Remembered
    /\ UNCHANGED <<reader, reads>>

Capture(f, d) ==
    Edit(f, held' = held \union {In(f, d)} /\ UNCHANGED <<erased, shared>>)
Delete(f, d) ==
    /\ In(f, d) \notin erased
    /\ Edit(f, erased' = erased \union {In(f, d)} /\ UNCHANGED <<held, shared>>)
Restore(f, d) ==
    /\ In(f, d) \in erased
    /\ Edit(f, erased' = erased \ {In(f, d)} /\ UNCHANGED <<held, shared>>)

Share(f, published) ==
    Edit(f, shared' = [shared EXCEPT ![f] = published] /\ UNCHANGED <<held, erased>>)

PublishNode(f, d) == Share(f, shared[f] \union {d})
UnpublishNode(f, d) == Share(f, shared[f] \ {d})
PublishSource(f, s) == Share(f, shared[f] \union {s})
UnpublishSource(f, s) == Share(f, shared[f] \ {s})

-----------------------------------------------------------------------------
(* aggregate_docs and aggregate_dimensioned_docs, one store after the other *)

LastWins(found, docs, f) == [d \in DOMAIN found \union docs |-> IF d \in docs THEN f ELSE found[d]]

\* What has been found stays.
FirstWins(found, docs, f) ==
    [d \in DOMAIN found \union docs |-> IF d \in DOMAIN found THEN found[d] ELSE f]

ReadBegin(f) ==
    /\ reader = Idle
    /\ reads < MaxReads
    /\ reads' = reads + 1
    /\ reader' = [at |-> "scopes", of |-> f, todo |-> ScopeOrder(f), found |-> << >>]
    /\ history' = [seen |-> AllLive, kept |-> AllLive,
                   granted |-> Sharing(shared), steady |-> Sharing(shared)]
    /\ UNCHANGED <<stores, held, erased, shared, edits>>

ReadScope ==
    /\ reader.at = "scopes" /\ reader.todo # <<>>
    /\ LET f == Head(reader.todo) IN
       reader' = [reader EXCEPT !.todo = Tail(@), !.found = FirstWins(@, Live(f), f)]
    /\ UNCHANGED <<stores, held, erased, shared, history, edits, reads>>

ReadAncestors ==
    /\ reader.at = "scopes" /\ reader.todo = <<>>
    /\ reader' = [reader EXCEPT !.at = "ancestors", !.todo = Ancestors(reader.of)]
    /\ UNCHANGED <<stores, held, erased, shared, history, edits, reads>>

\* What an ancestor has published is read before its documents.
ReadShares ==
    /\ reader.at = "ancestors" /\ reader.todo # <<>>
    /\ reader' = IF shared[Head(reader.todo)] = {} THEN [reader EXCEPT !.todo = Tail(@)]
                 ELSE [reader EXCEPT !.at = "documents"]
                      @@ [published |-> shared[Head(reader.todo)]]
    /\ UNCHANGED <<stores, held, erased, shared, history, edits, reads>>

ReadAncestor ==
    /\ reader.at = "documents"
    /\ LET f == Head(reader.todo)
           docs == {d \in Live(f) : Distributes(reader.published, d)}
       IN  reader' = [at |-> "ancestors", of |-> reader.of, todo |-> Tail(reader.todo),
                      found |-> FirstWins(reader.found, docs, f)]
    /\ UNCHANGED <<stores, held, erased, shared, history, edits, reads>>

ReadEnd ==
    /\ reader.at = "ancestors" /\ reader.todo = <<>>
    /\ reader' = Idle
    /\ UNCHANGED <<stores, held, erased, shared, history, edits, reads>>

-----------------------------------------------------------------------------
Init ==
    /\ held \in InitialHeld
    /\ stores = {r.in : r \in held}
    /\ erased = {}
    /\ shared = [f \in Folders |-> {}]
    /\ reader = Idle
    /\ history = [seen |-> {}, kept |-> {}, granted |-> {}, steady |-> {}]
    /\ edits = 0 /\ reads = 0

Next ==
    \/ \E f \in Folders :
           \/ \E d \in Docs : \/ Capture(f, d) \/ Delete(f, d) \/ Restore(f, d)
                              \/ PublishNode(f, d) \/ UnpublishNode(f, d)
           \/ \E s \in SourceIds : PublishSource(f, s) \/ UnpublishSource(f, s)
           \/ ReadBegin(f)
    \/ ReadScope \/ ReadAncestors \/ ReadShares \/ ReadAncestor \/ ReadEnd

Spec == Init /\ [][Next]_vars

-----------------------------------------------------------------------------
\* A read that ends, however the stores change meanwhile: every document it has found was
\* somewhere in its scope, and above the folder only where it was published; it has found
\* every document that was there all the time; the folder's own come before those of others,
\* and those below before those above (hierarchy._aggregate).
Within(f) == {f} \union Below(f)

ReadRight ==
    reader.at = "ancestors" /\ reader.todo = <<>> =>
        LET f == reader.of
            found == reader.found
        IN  /\ \A d \in DOMAIN found :
                   /\ In(found[d], d) \in history.seen
                   /\ \/ found[d] \in Within(f)
                      \/ found[d] \in Above[f] /\ In(found[d], d) \in history.granted
            /\ \A r \in history.kept :
                   /\ r.in \in Above[f] /\ r \in history.steady => r.doc \in DOMAIN found
                   /\ r.in = f => found[r.doc] = f
                   /\ r.in \in Below(f) => found[r.doc] \in Within(f)
=============================================================================
