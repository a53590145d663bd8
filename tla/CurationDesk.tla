---------------------------- MODULE CurationDesk ----------------------------
(***************************************************************************)
(* The folder operations of concept/curate.py, and materialize.py: a queue *)
(* of suggestions is made from the tables, confirmed into the tables, and  *)
(* the tables are exported under canonical urns.                           *)
(*                                                                         *)
(* Abstractions.  Every edge of semantic_edges.csv grounds a concept (the  *)
(* code skips the others).  The library column, fingerprints and the       *)
(* manifest of an export are left out.                                     *)
(***************************************************************************)
EXTENDS FolderStore, Curation

CONSTANT Picks    \* what a curator may pick: sets of concepts, {} for the threshold

Reading(job) == [job |-> job, calm |-> TRUE, at |-> "read", read |-> <<>>]

Rows(table) == IF store[table] = None THEN {} ELSE store[table]

\* The read of one table after the other.  Only a materialisation makes do without one
\* of the required tables.
Read(x, table) ==
    /\ w' = [w EXCEPT ![x] = IF store[table] = None /\ w[x].job # "materialize" THEN Idle
                             ELSE [w[x] EXCEPT !.read = Append(w[x].read, Rows(table))]]
    /\ done' = None
    /\ UNCHANGED <<folder, stubs, store, suggested, counters>>

\* The worker of a job that is about to read the n-th table.
AboutToRead(x, job, n) == w[x].at = "read" /\ w[x].job = job /\ Len(w[x].read) = n - 1

ReadNext(x, job, tables) ==
    \E n \in DOMAIN tables : AboutToRead(x, job, n) /\ Read(x, tables[n])

-----------------------------------------------------------------------------
(* suggest_folder *)

SuggestBegin(x) == Begin(x, Reading("suggest"))
SuggestRead(x) == ReadNext(x, "suggest", <<"claims", "definitions", "concepts">>)

SuggestWrite(x) ==
    /\ AboutToRead(x, "suggest", 4)
    /\ LET r == w[x].read
           s == Suggest(r[1], r[2], r[3])
       IN  Writing(x, <<Write("suggested_concepts", s.concepts),
                        Write("suggested_edges", s.edges)>>, "end",
                   {c \in r[3] : Mentioning(r[1], {c.label, c.id}) # {}})
    /\ suggested' = {}
    /\ done' = None
    /\ UNCHANGED <<folder, stubs, store, counters>>

SuggestEnd(x) ==
    /\ w[x].at = "end" /\ w[x].job = "suggest"
    /\ Finish(x)
    /\ suggested' = IF w[x].calm THEN w[x].keep ELSE {}
    /\ UNCHANGED <<folder, stubs, store, counters>>

-----------------------------------------------------------------------------
(* confirm_folder *)

ConfirmBegin(x, least, pick) ==
    Begin(x, [job |-> "confirm", calm |-> TRUE, at |-> "read", read |-> <<>>,
              least |-> least, pick |-> pick])
ConfirmRead(x) == ReadNext(x, "confirm", <<"suggested_concepts", "suggested_edges">>)

\* A pick overrides the threshold.
Confirmed(concepts, least, pick) ==
    {c \in concepts : IF pick # {} THEN c.id \in pick ELSE c.sources >= least}

EdgesTo(edges, ids) == {e \in edges : e.dst \in ids}

ConfirmWrite(x) ==
    /\ AboutToRead(x, "confirm", 3)
    /\ LET kept == Confirmed(w[x].read[1], w[x].least, w[x].pick) IN
       Writing(x, <<Write("concepts", {[id |-> c.id, label |-> c.label] : c \in kept}),
                    Write("edges", EdgesTo(w[x].read[2], {c.id : c \in kept}))>>, "end",
               [least |-> w[x].least, pick |-> w[x].pick])
    /\ done' = None
    /\ UNCHANGED <<folder, stubs, store, suggested, counters>>

ConfirmEnd(x) ==
    /\ w[x].at = "end" /\ w[x].job = "confirm"
    /\ Finish(x)
    /\ UNCHANGED <<folder, stubs, store, suggested, counters>>

-----------------------------------------------------------------------------
(* materialize *)

MaterializeBegin(x) == Begin(x, Reading("materialize"))
MaterializeRead(x) == ReadNext(x, "materialize", <<"claims", "concepts", "edges", "sources">>)

\* The canonical urn on record for a source: of several rows the last.
CanonicalOf(sources, urn) ==
    LET rows == SelectSeq(Order, LAMBDA p : \E s \in sources : s.urn = urn /\ s.path = p) IN
    IF rows = <<>> THEN None
    ELSE (CHOOSE s \in sources : s.urn = urn /\ s.path = Last(rows)).canonical

\* The same for the source of a claim.
CanonicalOfItem(claims, sources, item) ==
    IF \E c \in claims : c.item = item
    THEN CanonicalOf(sources, (CHOOSE c \in claims : c.item = item).urn)
    ELSE None

Keyed(rows, canonical(_)) ==
    {[canonical |-> canonical(r), row |-> r] : r \in {r \in rows : canonical(r) # None}}

ConceptsEverywhere(concepts, edges) ==
    {[canonical |-> e.canonical, row |-> c] : c \in concepts, e \in edges}

\* A concept once under every canonical urn that grounds it.
ConceptKeys(concepts, edges) ==
    UNION {{[canonical |-> e.canonical, row |-> c] : e \in {e \in edges : e.row.dst = c.id}} :
              c \in concepts}

MaterializeWrite(x) ==
    /\ AboutToRead(x, "materialize", 5)
    /\ LET r == w[x].read
           claims == Keyed(r[1], LAMBDA c : CanonicalOf(r[4], c.urn))
           edges == Keyed(r[3], LAMBDA e : CanonicalOfItem(r[1], r[4], e.src))
       IN  Writing(x, <<Write("target_claims", claims),
                        Write("target_concepts", ConceptKeys(r[2], edges)),
                        Write("target_edges", edges)>>, "end", None)
    /\ done' = None
    /\ UNCHANGED <<folder, stubs, store, suggested, counters>>

MaterializeEnd(x) ==
    /\ w[x].at = "end" /\ w[x].job = "materialize"
    /\ Finish(x)
    /\ UNCHANGED <<folder, stubs, store, suggested, counters>>

Desk(x) ==
    \/ SuggestBegin(x) \/ SuggestRead(x) \/ SuggestWrite(x) \/ SuggestEnd(x)
    \/ \E least \in 1 .. MinSources, pick \in Picks : ConfirmBegin(x, least, pick)
    \/ ConfirmRead(x) \/ ConfirmWrite(x) \/ ConfirmEnd(x)
    \/ MaterializeBegin(x) \/ MaterializeRead(x) \/ MaterializeWrite(x) \/ MaterializeEnd(x)
=============================================================================
