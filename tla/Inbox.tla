------------------------------- MODULE Inbox -------------------------------
(***************************************************************************)
(* src/versum/ingestion: acquire.py, provenance.py, year.py, route.py and  *)
(* pipeline.py.  Workers acquire files and URLs into one inbox and process *)
(* it into the review folder.  Every pass loads the whole ledger, works on *)
(* files, and writes the whole ledger back; nothing is locked, and a       *)
(* worker may die between any two file operations.                         *)
(*                                                                         *)
(* Abstractions.  Bytes are a document, which is also their digest.  Of a  *)
(* row, what follows from its urn and status is left out (kind, method,    *)
(* title, location).  A year is only found or not yet found.  Rows are     *)
(* written in one piece after the truncation, as the buffer of a small     *)
(* file is.                                                                *)
(***************************************************************************)
EXTENDS Naturals, FiniteSets, Sequences, Functions

CONSTANTS Workers,
          Items,        \* what is handed to acquire: [input, url, base, canon, gives]
          Broken,       \* the documents that _looks_broken refuses
          None,         \* no canonical identifier, no document, no name
          Torn,         \* a sidecar or a record that is cut off and does not parse
          MaxAcquires, MaxRuns, MaxFaults   \* bounds

ASSUME BoundAssumption == {MaxAcquires, MaxRuns, MaxFaults} \subseteq Nat

\* What the items can give, the names it is kept under, and the identities it can have.
Docs == UNION {item.gives : item \in Items}
Names == [base : {item.base : item \in Items}, tag : Docs \union {None}]
Inputs == {item.input : item \in Items}
Urns == [kind : {"canonical"}, of : {item.canon : item \in Items}]
        \union [kind : {"url"}, of : Inputs] \union [kind : {"sha256"}, of : Docs]
ASSUME NamesAssumption == None \notin Names \union Urns

\* No answer is no answer, and what is cut off is not a sidecar.
ASSUME ValuesAssumption ==
    /\ None \notin {"complete", "failed", "raised", "resumed"}
    /\ Torn \notin [urn : Urns, sha : Docs \union {None}, dated : BOOLEAN]
                    \union {"running", "complete", "failed"}

VARIABLES
    rows,      \* _acquire_log.csv
    files,     \* by folder and name: the document
    side,      \* by folder and name of the artifact: its sidecar
    pending,   \* _pending_fetch: the urns that have a citation there
    records,   \* _runs: by ledger, the status on record
    w,         \* the workers
    acked,     \* history: what acquire has said to have stored
    answer,    \* history: what process has answered in the step just taken
    hist,      \* history: what has disturbed the inbox
    acquires, starts, faults   \* counters for the bounds

vars == <<rows, files, side, pending, records, w, acked, answer, hist, acquires, starts,
          faults>>
counters == <<acquires, starts, faults>>

Folders == {"inbox", "review", "failed", "duplicates"}
Idle == [at |-> "idle"]

Urn(kind, of) == [kind |-> kind, of |-> of]
Name(base, tag) == [base |-> base, tag |-> tag]     \* tag: the digest it starts with
Settled == {"acquired", "registered", "review"}

\* The rows that a loop does something with.
Treats(pass) == IF pass = "provenance" THEN {"acquired", "registered"}
                ELSE {"registered", "review"}
NextIndex(pass, log, i) ==
    LET more == {j \in i + 1 .. Len(log) : log[j].status \in Treats(pass)} IN
    IF more = {} THEN Len(log) + 1 ELSE CHOOSE j \in more : \A k \in more : j <= k

Put(f, x, v) == [y \in DOMAIN f \union {x} |-> IF y = x THEN v ELSE f[y]]
Drop(f, x) == Restrict(f, DOMAIN f \ {x})
Largest(S) == IF S = {} THEN 0 ELSE CHOOSE i \in S : \A j \in S : j <= i

Init ==
    /\ rows = <<>>
    /\ files = [d \in Folders |-> << >>]
    /\ side = [d \in {"inbox", "review"} |-> << >>]
    /\ pending = {}
    /\ records = << >>
    /\ w = [x \in Workers |-> Idle]
    /\ acked = {} /\ answer = None /\ hist = {}
    /\ acquires = 0 /\ starts = 0 /\ faults = 0

Goto(x, at) == w' = [w EXCEPT ![x].at = at]
Rest(x) == w' = [w EXCEPT ![x] = Idle]
Alone(x) == \A y \in Workers \ {x} : w[y] = Idle

\* A call that begins while another worker is busy counts as a fault.
Overlap(x, more) ==
    IF Alone(x) THEN UNCHANGED faults /\ hist' = hist \union more
    ELSE faults < MaxFaults /\ faults' = faults + 1 /\ hist' = hist \union more \union {"overlap"}

-----------------------------------------------------------------------------
(* acquire *)

\* The dictionaries keep the last row of a urn and of an input.
ByUrn(log, urn) == Largest({i \in DOMAIN log : log[i].urn = urn})
ByInput(log, input) == Largest({i \in DOMAIN log : log[i].input = input})

\* The identity of an item of which these bytes were had, or none.
Identity(item, doc) ==
    IF item.canon # None THEN Urn("canonical", item.canon)
    ELSE IF doc = None THEN Urn("url", item.input)
    ELSE Urn("sha256", doc)

LocalName(item, doc) ==
    IF Name(item.base, None) \in DOMAIN files["inbox"] THEN Name(item.base, doc)
    ELSE Name(item.base, None)

ArtifactName(item, doc) ==
    IF item.url THEN Name(item.base, doc) ELSE LocalName(item, doc)

Row(item, urn, status, name, doc) ==
    [input |-> item.input, urn |-> urn, was |-> None, status |-> status, name |-> name,
     sha |-> doc]

\* The row an item with bytes belongs to, or 0.
Existing(log, item, urn) ==
    IF ByUrn(log, urn) = 0 /\ item.url THEN ByInput(log, item.input) ELSE ByUrn(log, urn)

RefilledForgets(row, item, urn, name, doc) ==
    [row EXCEPT !.status = "acquired", !.name = name, !.sha = doc, !.urn = urn]

\* The row brought up to date.  A failed row keeps the urn it has; the one of a file
\* gets the path of the file.
Refilled(row, item, urn, name, doc) ==
    LET found == [row EXCEPT !.status = "acquired", !.name = name, !.sha = doc] IN
    IF row.status = "citation-only"
    THEN [found EXCEPT !.urn = urn, !.was = IF row.urn = urn THEN None ELSE row.urn]
    ELSE IF item.url THEN found ELSE [found EXCEPT !.input = item.input]

\* Whether an existing row is brought up to date instead of a new one being appended.
Refills(row, item) ==
    row.status = "failed" \/ (item.url /\ row.status = "citation-only")

\* An answer that something is a duplicate stores nothing and is not among these.
Acked(urn, doc) == [urn |-> urn, doc |-> doc]

\* What an acquire that will not answer at once is about to do.
Plan(x, log, name, drop, ack) ==
    /\ w' = [w EXCEPT ![x] = [at |-> "place", job |-> "acquire", log |-> log, name |-> name,
                              drop |-> drop, ack |-> ack]]

AcquireBytes(x, item, doc) ==
    LET urn == Identity(item, doc)
        name == ArtifactName(item, doc)
        i == Existing(rows, item, urn)
        new == IF i # 0 /\ Refills(rows[i], item)
               THEN [rows EXCEPT ![i] = Refilled(@, item, urn, name, doc)]
               ELSE Append(rows, Row(item, urn, "acquired", name, doc))
        drop == IF i # 0 /\ item.url /\ rows[i].status = "citation-only"
                THEN rows[i].urn ELSE None
    IN  IF i # 0 /\ rows[i].status \in Settled
        THEN UNCHANGED w
        ELSE Plan(x, new, name, drop, Acked(urn, doc))

AcquireCitation(x, item) ==
    LET urn == Identity(item, None) IN
    IF ByUrn(rows, urn) # 0
    THEN UNCHANGED w
    ELSE Plan(x, Append(rows, Row(item, urn, "citation-only", None, None)),
              None, None, Acked(urn, None))

\* A failed row that is refilled under an identity that is not the one it has.
Refetched(item, doc) ==
    LET i == Existing(rows, item, Identity(item, doc)) IN
    /\ doc # None /\ i # 0
    /\ rows[i].status = "failed" /\ rows[i].urn # Identity(item, doc)

Acquire(x, item, doc) ==
    /\ acquires < MaxAcquires
    /\ w[x] = Idle
    /\ doc \in item.gives
    /\ IF doc # None THEN AcquireBytes(x, item, doc) ELSE AcquireCitation(x, item)
    /\ acquires' = acquires + 1
    /\ Overlap(x, IF Refetched(item, doc) THEN {"refetch"} ELSE {})
    /\ UNCHANGED <<rows, files, side, pending, records, acked, starts>>
    /\ answer' = None

\* Another row has the name already, or the bytes under it are overwritten.
Reused(x) ==
    LET name == w[x].name IN
    \/ name \in DOMAIN files["inbox"] /\ files["inbox"][name] # w[x].ack.doc
    \/ Cardinality({i \in DOMAIN w[x].log : w[x].log[i].name = name}) > 1

\* The copy, or the citation.
Place(x) ==
    /\ w[x].at = "place"
    /\ IF w[x].name = None
       THEN /\ pending' = pending \union {w[x].ack.urn}
            /\ UNCHANGED <<files, hist>>
       ELSE /\ files' = [files EXCEPT !["inbox"] = Put(@, w[x].name, w[x].ack.doc)]
            /\ hist' = IF Reused(x) THEN hist \union {"names"} ELSE hist
            /\ UNCHANGED pending
    /\ Goto(x, IF w[x].drop = None THEN "save" ELSE "drop")
    /\ UNCHANGED <<rows, side, records, acked, counters>>
    /\ answer' = None

DropCitation(x) ==
    /\ w[x].at = "drop"
    /\ pending' = pending \ {w[x].drop}
    /\ Goto(x, "save")
    /\ UNCHANGED <<rows, files, side, records, acked, hist, counters>>
    /\ answer' = None

-----------------------------------------------------------------------------
(* save_log, which truncates the ledger and then writes it *)

\* At the end of an acquire, and at the end of the loops of provenance and route.
ToSave(x) ==
    \/ w[x].at = "save"
    \/ w[x].at \in {"provenance", "route"} /\ w[x].i > Len(w[x].log)

SaveOpen(x) ==
    /\ ToSave(x)
    /\ rows' = <<>>
    /\ Goto(x, "write")
    /\ UNCHANGED <<files, side, pending, records, acked, hist, counters>>
    /\ answer' = None

\* What comes after it: the answer, the year pass over the sidecars, or the audits.
SaveWrite(x) ==
    /\ w[x].at = "write"
    /\ rows' = w[x].log
    /\ CASE w[x].job = "acquire" ->
              Rest(x) /\ acked' = acked \union {w[x].ack}
         [] w[x].job = "provenance" ->
              /\ w' = [w EXCEPT ![x] = [at |-> "year", id |-> w[x].id,
                                        todo |-> DOMAIN side["inbox"]]]
              /\ UNCHANGED acked
         [] w[x].job = "route" ->
              w' = [w EXCEPT ![x] = [at |-> "audit", id |-> w[x].id]] /\ UNCHANGED acked
    /\ UNCHANGED <<files, side, pending, records, hist, counters>>
    /\ answer' = None

-----------------------------------------------------------------------------
(* process: its record, which is kept under the ledger before the run *)

\* A complete record is the answer; one that does not parse raises.
Process(x) ==
    /\ starts < MaxRuns
    /\ w[x] = Idle
    /\ IF rows \in DOMAIN records /\ records[rows] \in {"complete", Torn}
       THEN /\ answer' = IF records[rows] = Torn THEN "raised" ELSE "resumed"
            /\ UNCHANGED <<records, w>>
       ELSE /\ records' = Put(records, rows, Torn)
            /\ w' = [w EXCEPT ![x] = [at |-> "start", id |-> rows]]
            /\ answer' = None
    /\ starts' = starts + 1
    /\ Overlap(x, {})
    /\ UNCHANGED <<rows, files, side, pending, acked, acquires>>

\* Provenance loads the ledger, and the urns of the sidecars that parse.
Start(x) ==
    /\ w[x].at = "start"
    /\ records' = [records EXCEPT ![w[x].id] = "running"]
    /\ w' = [w EXCEPT ![x] =
                [at |-> "provenance", job |-> "provenance", id |-> w[x].id, log |-> rows,
                 i |-> NextIndex("provenance", rows, 0), moved |-> FALSE,
                 seen |-> {<<side["inbox"][n].urn, n>> :
                              n \in {n \in DOMAIN side["inbox"] : side["inbox"][n] # Torn}}]]
    /\ UNCHANGED <<rows, files, side, pending, acked, hist, counters>>
    /\ answer' = None

\* The status goes into the record, which is Torn until it is written.
Finish(x, status) ==
    /\ records' = Put(records, w[x].id, Torn)
    /\ w' = [w EXCEPT ![x] = [at |-> "end", id |-> w[x].id, status |-> status]]

Record(x) ==
    /\ w[x].at = "end"
    /\ records' = [records EXCEPT ![w[x].id] = w[x].status]
    /\ answer' = w[x].status
    /\ Rest(x)
    /\ UNCHANGED <<rows, files, side, pending, acked, hist, counters>>

-----------------------------------------------------------------------------
(* provenance *)

Current(x) == w[x].log[w[x].i]
HasRow(x) == w[x].at \in {"provenance", "route"} /\ w[x].i <= Len(w[x].log)

\* The log in memory with the present row changed, and on to the next one.
NextRow(x, log) == w' = [w EXCEPT ![x].log = log, ![x].i = NextIndex(w[x].job, log, @)]
Marked(x, status) == [w[x].log EXCEPT ![w[x].i].status = status]

\* Replacing overwrites what is there: a name is in each folder once.
Move(name, from, to) ==
    /\ files' = [files EXCEPT ![from] = Drop(@, name),
                              ![to] = Put(@, name, files[from][name])]
    /\ hist' = IF name \in DOMAIN files[to] /\ files[to][name] # files[from][name]
               THEN hist \union {"names"} ELSE hist

ToCheck(x) ==
    /\ HasRow(x) /\ w[x].at = "provenance"
    /\ Current(x).name \in DOMAIN files["inbox"]

\* The artifact is not there.
PassOver(x) ==
    /\ HasRow(x) /\ w[x].at = "provenance"
    /\ Current(x).name \notin DOMAIN files["inbox"]
    /\ NextRow(x, w[x].log)
    /\ UNCHANGED <<rows, files, side, pending, records, acked, hist, counters>>
    /\ answer' = None

Bytes(x) == files["inbox"][Current(x).name]
Refused(x) == Bytes(x) \in Broken \/ Bytes(x) # Current(x).sha

Quarantine(x) ==
    /\ ToCheck(x) /\ Refused(x)
    /\ Move(Current(x).name, "inbox", "failed")
    /\ w' = [w EXCEPT ![x].at = "unlink", ![x].moved = TRUE, ![x].log = Marked(x, "failed")]
    /\ UNCHANGED <<rows, side, pending, records, acked, counters>>
    /\ answer' = None

UnlinkSidecar(x) ==
    /\ w[x].at = "unlink"
    /\ side' = [side EXCEPT !["inbox"] = Drop(@, Current(x).name)]
    /\ w' = [w EXCEPT ![x].at = "provenance",
                      ![x].i = NextIndex("provenance", w[x].log, @)]
    /\ UNCHANGED <<rows, files, pending, records, acked, hist, counters>>
    /\ answer' = None

Matches(sidecar, row) ==
    sidecar # Torn /\ sidecar.urn = row.urn /\ sidecar.sha = row.sha

HasSidecar(x) ==
    LET n == Current(x).name IN
    n \in DOMAIN side["inbox"] /\ Matches(side["inbox"][n], Current(x))

KeepAnySidecar(x) ==
    /\ ToCheck(x) /\ ~Refused(x) /\ Current(x).name \in DOMAIN side["inbox"]
    /\ NextRow(x, Marked(x, "registered"))
    /\ UNCHANGED <<rows, files, side, pending, records, acked, hist, counters>>
    /\ answer' = None

KeepSidecar(x) ==
    /\ ToCheck(x) /\ ~Refused(x) /\ HasSidecar(x)
    /\ NextRow(x, Marked(x, "registered"))
    /\ UNCHANGED <<rows, files, side, pending, records, acked, hist, counters>>
    /\ answer' = None

\* Which of several sidecars with one urn is first depends on the names.
Claimants(x) == {n \in DOMAIN files["inbox"] \union DOMAIN side["inbox"] :
                    <<Current(x).urn, n>> \in w[x].seen}

CollapseDelete(x) ==
    /\ ToCheck(x) /\ ~Refused(x) /\ ~HasSidecar(x)
    /\ Claimants(x) \ {Current(x).name} # {}
    /\ files' = [files EXCEPT !["inbox"] = Drop(@, Current(x).name)]
    /\ w' = [w EXCEPT ![x].moved = TRUE, ![x].log = Marked(x, "duplicate"),
                      ![x].i = NextIndex("provenance", w[x].log, @)]
    /\ UNCHANGED <<rows, side, pending, records, acked, hist, counters>>
    /\ answer' = None

Collapse(x) ==
    /\ ToCheck(x) /\ ~Refused(x) /\ ~HasSidecar(x)
    /\ Claimants(x) \ {Current(x).name} # {}
    /\ Move(Current(x).name, "inbox", "duplicates")
    /\ w' = [w EXCEPT ![x].moved = TRUE, ![x].log = Marked(x, "duplicate"),
                      ![x].i = NextIndex("provenance", w[x].log, @)]
    /\ UNCHANGED <<rows, side, pending, records, acked, counters>>
    /\ answer' = None

OpenSidecar(x) ==
    /\ ToCheck(x) /\ ~Refused(x) /\ ~HasSidecar(x)
    /\ Claimants(x) = {} \/ Current(x).name \in Claimants(x)
    /\ side' = [side EXCEPT !["inbox"] = Put(@, Current(x).name, Torn)]
    /\ Goto(x, "sidecar")
    /\ UNCHANGED <<rows, files, pending, records, acked, hist, counters>>
    /\ answer' = None

WriteSidecar(x) ==
    /\ w[x].at = "sidecar"
    /\ LET r == Current(x) IN
       /\ side' = [side EXCEPT !["inbox"] =
                       Put(@, r.name, [urn |-> r.urn, sha |-> r.sha, dated |-> FALSE])]
       /\ w' = [w EXCEPT ![x].at = "provenance",
                         ![x].i = NextIndex("provenance", w[x].log, @),
                         ![x].log = Marked(x, "registered"),
                         ![x].seen = @ \union {<<r.urn, r.name>>}]
    /\ UNCHANGED <<rows, files, pending, records, acked, hist, counters>>
    /\ answer' = None

-----------------------------------------------------------------------------
(* apply_year, over the sidecars that were there when it began *)

YearRead(x, n) ==
    /\ w[x].at = "year" /\ n \in w[x].todo
    /\ IF n \in DOMAIN side["inbox"] /\ side["inbox"][n] # Torn /\ ~side["inbox"][n].dated
       THEN /\ side' = [side EXCEPT !["inbox"][n] = Torn]
            /\ w' = [w EXCEPT ![x] = [at |-> "date", id |-> w[x].id, todo |-> w[x].todo \ {n},
                                      name |-> n, found |-> side["inbox"][n]]]
       ELSE w' = [w EXCEPT ![x].todo = @ \ {n}] /\ UNCHANGED side
    /\ UNCHANGED <<rows, files, pending, records, acked, hist, counters>>
    /\ answer' = None

YearWrite(x) ==
    /\ w[x].at = "date"
    /\ side' = [side EXCEPT !["inbox"] =
                   Put(@, w[x].name, [w[x].found EXCEPT !.dated = TRUE])]
    /\ w' = [w EXCEPT ![x] = [at |-> "year", id |-> w[x].id, todo |-> w[x].todo]]
    /\ UNCHANGED <<rows, files, pending, records, acked, hist, counters>>
    /\ answer' = None

-----------------------------------------------------------------------------
(* route_to_review *)

RouteBegin(x) ==
    /\ w[x].at = "year" /\ w[x].todo = {}
    /\ w' = [w EXCEPT ![x] = [at |-> "route", job |-> "route", id |-> w[x].id, log |-> rows,
                              i |-> NextIndex("route", rows, 0), moved |-> FALSE]]
    /\ UNCHANGED <<rows, files, side, pending, records, acked, hist, counters>>
    /\ answer' = None

ToRoute(x) == HasRow(x) /\ w[x].at = "route"
Arrived(x) == Current(x).name \in DOMAIN files["review"]
Complete(x) == /\ Current(x).name \in DOMAIN files["inbox"]
               /\ Current(x).name \in DOMAIN side["inbox"]

MoveSidecar(n) ==
    side' = [side EXCEPT !["inbox"] = Drop(@, n), !["review"] = Put(@, n, side["inbox"][n])]

LeaveThere(x) ==
    /\ ToRoute(x) /\ ~Arrived(x) /\ ~Complete(x)
    /\ NextRow(x, w[x].log)
    /\ UNCHANGED <<rows, files, side, pending, records, acked, hist, counters>>
    /\ answer' = None

FollowAlone(x) ==
    /\ ToRoute(x) /\ Arrived(x)
    /\ NextRow(x, IF Current(x).name \in DOMAIN side["review"] THEN Marked(x, "review")
                  ELSE w[x].log)
    /\ UNCHANGED <<rows, files, side, pending, records, acked, hist, counters>>
    /\ answer' = None

\* There is a file of the name in the review folder: the sidecar follows, unless one is
\* there, and with a sidecar there the row is done.
Follow(x) ==
    /\ ToRoute(x) /\ Arrived(x)
    /\ LET n == Current(x).name
           carry == n \in DOMAIN side["inbox"] /\ n \notin DOMAIN side["review"]
       IN  /\ IF carry THEN MoveSidecar(n) ELSE UNCHANGED side
           /\ NextRow(x, IF carry \/ n \in DOMAIN side["review"] THEN Marked(x, "review")
                         ELSE w[x].log)
    /\ UNCHANGED <<rows, files, pending, records, acked, hist, counters>>
    /\ answer' = None

RouteFile(x) ==
    /\ ToRoute(x) /\ ~Arrived(x) /\ Complete(x)
    /\ Move(Current(x).name, "inbox", "review")
    /\ Goto(x, "carry")
    /\ UNCHANGED <<rows, side, pending, records, acked, counters>>
    /\ answer' = None

\* Replacing a sidecar that has gone meanwhile raises.
RouteSidecar(x) ==
    /\ w[x].at = "carry"
    /\ LET n == Current(x).name IN
       IF n \in DOMAIN side["inbox"]
       THEN /\ MoveSidecar(n)
            /\ w' = [w EXCEPT ![x].at = "route", ![x].i = NextIndex("route", w[x].log, @),
                              ![x].log = Marked(x, "review")]
            /\ UNCHANGED records
       ELSE Finish(x, "failed") /\ UNCHANGED side
    /\ UNCHANGED <<rows, files, pending, acked, hist, counters>>
    /\ answer' = None

-----------------------------------------------------------------------------
(* The audits *)

FolderOf(status) == CASE status \in {"acquired", "registered"} -> "inbox"
                    [] status = "failed" -> "failed"
                    [] status = "review" -> "review"
                    [] status = "duplicate" -> "duplicates"

OrphanRow(r) ==
    IF r.status = "citation-only" THEN r.urn \notin pending
    ELSE r.name \notin DOMAIN files[FolderOf(r.status)]

Waiting == {r \in Range(rows) : r.status \in {"acquired", "registered"}}

AcquireClean ==
    /\ \A r \in Range(rows) : ~OrphanRow(r)
    /\ \A n \in DOMAIN files["inbox"] : \E r \in Waiting : r.name = n

ProvenanceClean ==
    /\ DOMAIN side["inbox"] \subseteq DOMAIN files["inbox"]
    /\ \A r \in Waiting : r.name \in DOMAIN files["inbox"] => r.name \in DOMAIN side["inbox"]

Clean == AcquireClean /\ ProvenanceClean

Audit(x) ==
    /\ w[x].at = "audit"
    /\ Finish(x, IF Clean THEN "complete" ELSE "failed")
    /\ UNCHANGED <<rows, files, side, pending, acked, hist, counters>>
    /\ answer' = None

-----------------------------------------------------------------------------

\* What a death leaves behind that no later pass repairs: a file placed or a citation
\* dropped without the row that says so, a file moved away before the ledger is written,
\* an empty ledger, half a record.
Harmful(x) ==
    \/ w[x].at \in {"drop", "write", "start", "end"}
    \/ w[x].at = "save" /\ w[x].name # None
    \/ w[x].at \in {"unlink", "provenance", "sidecar"} /\ w[x].moved

Crash(x) ==
    /\ faults < MaxFaults
    /\ w[x] # Idle
    /\ Rest(x)
    /\ hist' = IF Harmful(x) THEN hist \union {"death"} ELSE hist
    /\ faults' = faults + 1
    /\ UNCHANGED <<rows, files, side, pending, records, acked, acquires, starts>>
    /\ answer' = None

Provenance(x) ==
    \/ PassOver(x) \/ Quarantine(x) \/ UnlinkSidecar(x) \/ KeepSidecar(x) \/ Collapse(x)
    \/ OpenSidecar(x) \/ WriteSidecar(x)

Route(x) == RouteBegin(x) \/ LeaveThere(x) \/ Follow(x) \/ RouteFile(x) \/ RouteSidecar(x)

Next ==
    \E x \in Workers :
        \/ \E item \in Items : \E doc \in item.gives : Acquire(x, item, doc)
        \/ Place(x) \/ DropCitation(x) \/ SaveOpen(x) \/ SaveWrite(x)
        \/ Process(x) \/ Start(x) \/ Provenance(x)
        \/ \E n \in DOMAIN side["inbox"] \union (IF w[x].at = "year" THEN w[x].todo ELSE {}) :
              YearRead(x, n)
        \/ YearWrite(x) \/ Route(x) \/ Audit(x) \/ Record(x) \/ Crash(x)

Spec == Init /\ [][Next]_vars

-----------------------------------------------------------------------------
(* Properties *)

\* An acknowledged document is never lost: its bytes are in one of the four folders,
\* whatever passes overlap and wherever one dies, unless another one has taken its name.
BytesKept ==
    "names" \notin hist =>
        \A a \in acked : a.doc # None =>
            \E d \in Folders : \E n \in DOMAIN files[d] : files[d][n] = a.doc

\* A run that ends complete has done all of its work: nothing waits in the inbox, and
\* what is in review has the bytes of its row and a whole sidecar with its identity.
CompleteIsTrue ==
    (answer = "complete" /\ hist \intersect {"overlap", "names"} = {}) =>
        \A r \in Range(rows) :
            /\ r.status \notin {"acquired", "registered"}
            /\ r.status = "review" =>
                  /\ files["review"][r.name] = r.sha
                  /\ Matches(side["review"][r.name], r) /\ side["review"][r.name].dated

\* A run ends complete, unless the folders have been disturbed: passes one after the other,
\* and deaths in all but the windows named in Harmful, never make the audits fail.
RunsComplete ==
    answer \in {"failed", "raised"} => hist \intersect {"overlap", "names", "death"} # {}

\* An acknowledged identity stays in the ledger, as the urn of a row or as its previous
\* one, unless passes have overlapped or one has died while it wrote the ledger.
Registered ==
    (hist \subseteq {"names"} /\ \A x \in Workers : w[x].at # "write") =>
        \A a \in acked : \E r \in Range(rows) : a.urn \in {r.urn, r.was}
=============================================================================
