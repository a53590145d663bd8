----------------------------- MODULE KGCuration -----------------------------
(***************************************************************************)
(* curate_domain_folder and curate_kg of src/versum/concept/canon.py: the  *)
(* domains of a KG are curated one after the other, each in its own files, *)
(* and their partials are merged into canon.json and convergence.json.     *)
(*                                                                         *)
(* Abstractions.  The claims of a domain are rewritten by others at once   *)
(* (sync.py and materialize.py overwrite the file in place).  Claims carry *)
(* no domain column, so that their domain is that of the folder.           *)
(***************************************************************************)
EXTENDS Canon

CONSTANTS Workers,
          Torn,                       \* a file that has been truncated
          DomainOrder, SourceOrder,   \* sequences
          InitialClaims,              \* by domain, for every initial state
          Pool,                       \* by domain: the claims it may come to have
          MaxCalls, MaxEdits, MaxFaults   \* bounds

VARIABLES
    claims,   \* claims.csv, by domain
    tables,   \* the other files of a domain, by domain and name; None is no file
    global,   \* canon.json and convergence.json, by name
    w,        \* the workers
    done,     \* history: what has finished in the step just taken
    calls, edits, faults   \* counters for the bounds

vars == <<claims, tables, global, w, done, calls, edits, faults>>
counters == <<calls, edits, faults>>

Domains == Range(DomainOrder)
DomainTables == {"concepts", "semantic_edges", "composition_edges", "partial"}
Idle == [at |-> "idle"]

Init ==
    /\ claims \in InitialClaims
    /\ tables = [d \in Domains |-> [t \in DomainTables |-> None]]
    /\ global = [canon |-> None, convergence |-> None]
    /\ w = [x \in Workers |-> Idle]
    /\ done = None
    /\ calls = 0 /\ edits = 0 /\ faults = 0

Disturbed == [y \in Workers |-> IF w[y] = Idle THEN Idle ELSE [w[y] EXCEPT !.calm = FALSE]]

-----------------------------------------------------------------------------
\* A call that begins while another worker is busy counts as a fault.
Begin(x, job, domains, depth) ==
    LET alone == \A y \in Workers : w[y] = Idle IN
    /\ calls < MaxCalls /\ w[x] = Idle
    /\ alone \/ faults < MaxFaults
    /\ faults' = IF alone THEN faults ELSE faults + 1
    /\ calls' = calls + 1
    /\ w' = [Disturbed EXCEPT ![x] = [job |-> job, at |-> "next", depth |-> depth,
                                      of |-> domains, todo |-> domains, partials |-> <<>>,
                                      out |-> <<>>, calm |-> alone]]
    /\ done' = None
    /\ UNCHANGED <<claims, tables, global, edits>>

CurateKG(x, depth) ==
    Begin(x, "kg", SelectSeq(DomainOrder, LAMBDA d : claims[d] # None), depth)
CurateDomainFolder(x, d, depth) == Begin(x, "domain", <<d>>, depth)

Write(file, rows) == [file |-> file, rows |-> rows]

\* What there is to write of the next domain.  A domain without claims has none.
CurateDomain(x) ==
    /\ w[x].at = "next" /\ w[x].todo # <<>>
    /\ LET d == Head(w[x].todo)
           rows == IF claims[d] = None THEN {} ELSE claims[d]
           canon == BuildCanon(rows, w[x].depth)
       IN  w' = [w EXCEPT ![x].at = "open",
                          ![x].out = <<Write("concepts", ConceptRows(canon)),
                                       Write("semantic_edges", EdgeRows(canon)),
                                       Write("composition_edges", ComposesRows(canon)),
                                       Write("partial", DomainPartial(rows, canon))>>]
    /\ done' = None
    /\ UNCHANGED <<claims, tables, global, counters>>

\* Every file is truncated and then written.
TableOpen(x) ==
    /\ w[x].at = "open" /\ w[x].todo # <<>>
    /\ tables' = [tables EXCEPT ![Head(w[x].todo)][Head(w[x].out).file] = Torn]
    /\ w' = [w EXCEPT ![x].at = "write"]
    /\ done' = None
    /\ UNCHANGED <<claims, global, counters>>

TableWrite(x) ==
    /\ w[x].at = "write" /\ w[x].todo # <<>>
    /\ tables' = [tables EXCEPT ![Head(w[x].todo)][Head(w[x].out).file] = Head(w[x].out).rows]
    /\ w' = [w EXCEPT ![x].out = Tail(@),
                      ![x].at = IF Len(w[x].out) = 1 THEN "reread" ELSE "open"]
    /\ done' = None
    /\ UNCHANGED <<claims, global, counters>>

\* The partial is read back; another curation of the domain may have truncated it.
Reread(x) ==
    /\ w[x].at = "reread"
    /\ LET partial == tables[Head(w[x].todo)]["partial"] IN
       w' = [w EXCEPT ![x] = IF partial = Torn THEN Idle
                             ELSE [@ EXCEPT !.todo = Tail(@), !.at = "next",
                                            !.partials = Append(@, partial)]]
    /\ done' = None
    /\ UNCHANGED <<claims, tables, global, counters>>

Merge(x) ==
    /\ w[x].at = "next" /\ w[x].todo = <<>> /\ w[x].job = "kg"
    /\ w' = [w EXCEPT ![x].at = "open",
                      ![x].out = <<Write("canon", MergePartials(w[x].partials)),
                                   Write("convergence", Curve(w[x].partials, SourceOrder))>>]
    /\ done' = None
    /\ UNCHANGED <<claims, tables, global, counters>>

GlobalOpen(x) ==
    /\ w[x].at = "open" /\ w[x].todo = <<>>
    /\ global' = [global EXCEPT ![Head(w[x].out).file] = Torn]
    /\ w' = [w EXCEPT ![x].at = "write"]
    /\ done' = None
    /\ UNCHANGED <<claims, tables, counters>>

GlobalWrite(x) ==
    /\ w[x].at = "write" /\ w[x].todo = <<>>
    /\ global' = [global EXCEPT ![Head(w[x].out).file] = Head(w[x].out).rows]
    /\ w' = [w EXCEPT ![x].out = Tail(@), ![x].at = IF Len(w[x].out) = 1 THEN "end" ELSE "open"]
    /\ done' = None
    /\ UNCHANGED <<claims, tables, counters>>

End(x) ==
    /\ \/ w[x].at = "end"
       \/ w[x].at = "next" /\ w[x].todo = <<>> /\ w[x].job = "domain"
    /\ w' = [w EXCEPT ![x] = Idle]
    /\ done' = w[x]
    /\ UNCHANGED <<claims, tables, global, counters>>

-----------------------------------------------------------------------------
Crash(x) ==
    /\ faults < MaxFaults /\ w[x] # Idle
    /\ w' = [w EXCEPT ![x] = Idle]
    /\ done' = None
    /\ faults' = faults + 1
    /\ UNCHANGED <<claims, tables, global, calls, edits>>

\* A synchronisation or a materialisation gives a domain other claims.
Resync(d, rows) ==
    /\ edits < MaxEdits
    /\ claims' = [claims EXCEPT ![d] = rows]
    /\ w' = Disturbed
    /\ done' = None
    /\ edits' = edits + 1
    /\ UNCHANGED <<tables, global, calls, faults>>

Work(x) ==
    \/ \E depth \in 1 .. 2 : CurateKG(x, depth)
    \/ \E depth \in 1 .. 2, d \in Domains : CurateDomainFolder(x, d, depth)
    \/ CurateDomain(x) \/ TableOpen(x) \/ TableWrite(x) \/ Reread(x)
    \/ Merge(x) \/ GlobalOpen(x) \/ GlobalWrite(x) \/ End(x) \/ Crash(x)

Next ==
    \/ \E x \in Workers : Work(x)
    \/ \E d \in Domains : \E rows \in SUBSET Pool[d] : Resync(d, rows)

Spec == Init /\ [][Next]_vars

-----------------------------------------------------------------------------
\* What an undisturbed curation of the KG leaves: canon.json has the concepts of all the
\* domains' tables, each with the claims of their edges; every claim of a domain is
\* clustered or counted as unclustered; and the curve ends at the number of concepts
\* (canon.merge_partials, curate_kg).
Current == done # None /\ done.calm

ItemsOf(id) ==
    {e.src : e \in {e \in UNION {tables[d]["semantic_edges"] : d \in Range(done.of)} : e.dst = id}}

CanonAccounts ==
    Current /\ done.job = "kg" =>
        LET canon == global["canon"]
            curve == global["convergence"]
            domains == Range(done.of)
            ids == {r.id : r \in UNION {tables[d]["concepts"] : d \in domains}}
        IN  /\ canon.concepts = [id \in ids |-> ItemsOf(id)]
            /\ canon.n = canon.unclustered +
                         Cardinality(UNION {{e.src : e \in tables[d]["semantic_edges"]} : d \in domains})
            /\ curve # <<>> => Last(curve).distinct = Cardinality(ids)
            /\ \A i \in DOMAIN curve : curve[i].distinct =
                   curve[i].new + IF i = 1 THEN 0 ELSE curve[i - 1].distinct

\* A composite concept that an undisturbed curation of a domain writes is composed of two
\* concepts of the domain, and in enough sources one unit has a claim of each
\* (canon._compose).
CompositeWitnessed ==
    Current =>
        \A d \in Range(done.of) : \A row \in tables[d]["composition_edges"] :
            LET edges == tables[d]["semantic_edges"]
                grounds(s, u, id) == \E c \in claims[d] :
                    /\ c.source = s /\ c.unit = u
                    /\ \E e \in edges : e.src = c.item /\ e.dst = id
            IN  /\ row.dst.members \subseteq {r.id : r \in tables[d]["concepts"]}
                /\ Cardinality({s \in Sources(claims[d]) :
                       \E u \in {c.unit : c \in claims[d]} \ {None} :
                           \A m \in row.dst.members : grounds(s, u, m)}) >= MinSupport
=============================================================================
