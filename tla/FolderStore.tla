---------------------------- MODULE FolderStore ----------------------------
(***************************************************************************)
(* What the operations on a folder and its .versum directory share: the    *)
(* identity of a file (identity/core.py, io/consume.py, store/kg.py), the  *)
(* tables, the workers that rewrite them, and what disturbs them.          *)
(*                                                                         *)
(* A document stands for its bytes and both of their digests.  A path has  *)
(* a directory, a name, and the digest the write door may have put before  *)
(* the name.  A row that the code may have twice carries the path it comes *)
(* from, so that tables can be sets.                                       *)
(***************************************************************************)
EXTENDS Naturals, FiniteSets, Sequences, SequencesExt

CONSTANTS Workers,
          None,
          Order,        \* every path there may be, in the order of their names
          Documents,
          Empty,        \* the documents without text
          Unreadable,   \* those that the extraction refuses
          Claims,       \* by document: its claims, each a sequence of tokens
          Definitions,  \* by document: the terms it defines
          CanonicalId,  \* by name: the identifier a profile finds in it, or None
          Registered,   \* the rows of the KG registry: [path, filename, urn]
          Sidecar,      \* by name: the urn of a KG sidecar that matches it, or None
          MaxCalls, MaxEdits, MaxFaults   \* bounds

ASSUME DocumentAssumption ==
    /\ Empty \union Unreadable \subseteq Documents
    /\ \A d \in Empty \union Unreadable : Claims[d] = <<>> /\ Definitions[d] = {}
    /\ \A d \in Documents : Claims[d] \in Seq(Range(Claims[d]))
ASSUME OrderAssumption == Order \in Seq({Order[i] : i \in DOMAIN Order})
ASSUME BoundAssumption == {MaxCalls, MaxEdits, MaxFaults} \subseteq Nat

VARIABLES
    folder,    \* the files, by path
    stubs,     \* .versum/stubs: by title, the urn on the stub
    store,     \* the tables, by name; None is one that is not there
    w,         \* the workers
    done,      \* history: what has finished in the step just taken
    suggested, \* history: what the last whole suggestion was made from
    calls, edits, faults   \* counters for the bounds

vars == <<folder, stubs, store, w, done, suggested, calls, edits, faults>>
counters == <<calls, edits, faults>>

Tables == {"registry", "claims", "sources", "definitions", "concepts", "edges",
           "suggested_concepts", "suggested_edges",
           "target_claims", "target_concepts", "target_edges"}
Required == {"claims", "suggested_concepts", "suggested_edges"}
Idle == [at |-> "idle"]
Paths == Range(Order)
Path(dir, tag, name) == [dir |-> dir, tag |-> tag, name |-> name]
Admissible(doc) == doc \notin Empty \union Unreadable

-----------------------------------------------------------------------------
(* Identity *)

\* Registry.row_for: by path, and by filename when its rows agree about it.
RowsFor(path) ==
    LET byPath == {r \in Registered : r.path = path}
        byName == {r \in Registered : path.tag = None /\ r.filename = path.name}
    IN  IF byPath # {} THEN byPath
        ELSE IF \A q, r \in byName : q.urn = r.urn THEN byName ELSE {}

ReuseUrn(path) == IF RowsFor(path) = {} THEN None ELSE (CHOOSE r \in RowsFor(path) : TRUE).urn

Canonical(id) == [kind |-> "canonical", of |-> id]
ByContent(doc) == [kind |-> "sha256", of |-> doc]
Fallback(doc) == [kind |-> "fallback", of |-> doc]    \* the write door's own form

\* deterministic_identity; no PDF carries a title here.
Minted(path, doc) ==
    IF CanonicalId[path.name] # None THEN Canonical(CanonicalId[path.name])
    ELSE ByContent(doc)

\* The urn that is not minted but reused: of the registry, else of a KG sidecar.
Reused(path) == IF ReuseUrn(path) # None THEN ReuseUrn(path) ELSE Sidecar[path.name]
IndexUrn(path, doc) == IF Reused(path) # None THEN Reused(path) ELSE Minted(path, doc)

\* None is neither a document nor a urn.
ASSUME NoneAssumption ==
    /\ None \notin Documents
    /\ \A d \in Documents : None \notin {ByContent(d), Fallback(d)}
    /\ \A p \in Paths : Canonical(CanonicalId[p.name]) # None

-----------------------------------------------------------------------------
(* Workers.  What one is about to write is a sequence of tables and rows;  *)
(* a table is truncated and then written.                                  *)

\* The files that are there, in the order of their names.
Listed(found, path) == IF path \in DOMAIN folder THEN Append(found, path) ELSE found
Listing == FoldLeft(Listed, <<>>, Order)
Alone(x) == \A y \in Workers \ {x} : w[y] = Idle
Goto(x, at) == w' = [w EXCEPT ![x].at = at]
Finish(x) == /\ w' = [w EXCEPT ![x] = Idle]
             /\ done' = w[x]

\* Whose result a call or an edit may spoil: a materialisation that of another one,
\* everything else that of everything else but a materialisation.
Spoils(job, other) == job = "materialize" <=> other = "materialize"
Disturbed(job) ==
    [y \in Workers |-> IF w[y] # Idle /\ Spoils(job, w[y].job)
                       THEN [w[y] EXCEPT !.calm = FALSE] ELSE w[y]]

\* A call that begins while another worker is busy counts as a fault.
Begin(x, state) ==
    /\ calls < MaxCalls
    /\ w[x] = Idle
    /\ Alone(x) \/ faults < MaxFaults
    /\ faults' = IF Alone(x) THEN faults ELSE faults + 1
    /\ calls' = calls + 1
    /\ w' = [Disturbed(state.job) EXCEPT
                ![x] = [state EXCEPT
                           !.calm = \A y \in Workers : w[y] = Idle \/ ~Spoils(state.job, w[y].job)]]
    /\ done' = None
    /\ UNCHANGED <<folder, stubs, store, suggested, edits>>

Write(table, rows) == [table |-> table, rows |-> rows]
Written(x) == Head(w[x].out)
Advanced(state) ==
    [state EXCEPT !.out = Tail(@), !.at = IF Len(state.out) = 1 THEN state.then ELSE "open"]

\* What a materialisation finds as it would write it, it leaves alone.
Unchanged(x) == w[x].job = "materialize" /\ store[Written(x).table] = Written(x).rows

\* A worker that is going to write, where it is then, and what it still needs there.
Writing(x, out, then, keep) ==
    w' = [w EXCEPT ![x] = [job |-> @.job, calm |-> @.calm, at |-> "open", out |-> out,
                           then |-> then, keep |-> keep]]

TableSkip(x) ==
    /\ w[x].at = "open" /\ Unchanged(x)
    /\ w' = [w EXCEPT ![x] = Advanced(@)]
    /\ done' = None
    /\ UNCHANGED <<folder, stubs, store, suggested, counters>>

TableOpen(x) ==
    /\ w[x].at = "open" /\ ~Unchanged(x)
    /\ store' = [store EXCEPT ![Written(x).table] = {}]
    /\ Goto(x, "write")
    /\ done' = None
    /\ UNCHANGED <<folder, stubs, suggested, counters>>

TableWrite(x) ==
    /\ w[x].at = "write"
    /\ store' = [store EXCEPT ![Written(x).table] = Written(x).rows]
    /\ w' = [w EXCEPT ![x] = Advanced(@)]
    /\ done' = None
    /\ UNCHANGED <<folder, stubs, suggested, counters>>

\* A worker dies.
Crash(x) ==
    /\ faults < MaxFaults
    /\ w[x] # Idle
    /\ w' = [w EXCEPT ![x] = Idle]
    /\ done' = None
    /\ faults' = faults + 1
    /\ UNCHANGED <<folder, stubs, store, suggested, calls, edits>>

-----------------------------------------------------------------------------
(* The user and the curator *)

Edit(action) ==
    /\ edits < MaxEdits
    /\ edits' = edits + 1
    /\ w' = Disturbed("edit")
    /\ action
    /\ done' = None
    /\ UNCHANGED <<stubs, suggested, calls, faults>>

SaveFile(path, doc) ==
    /\ folder' = [p \in DOMAIN folder \union {path} |-> IF p = path THEN doc ELSE folder[p]]
    /\ UNCHANGED store
RemoveFile(path) ==
    /\ path \in DOMAIN folder
    /\ folder' = [p \in DOMAIN folder \ {path} |-> folder[p]]
    /\ UNCHANGED store
AddConcept(concept) ==
    /\ store' = [store EXCEPT !["concepts"] = @ \union {concept}]
    /\ UNCHANGED folder
=============================================================================
