------------------------------ MODULE Erasure -------------------------------
(***************************************************************************)
(* src/versum/store/erasure.py and store/distribution.py at work: several  *)
(* processes delete, restore, purge, publish and unpublish nodes and whole *)
(* sources of one store, while a synchronisation pass rewrites its tables, *)
(* a producer retries its subgraph, and a reader looks at it from its own  *)
(* folder and from a folder below.                                         *)
(*                                                                         *)
(* An operation appends its event under the journal lock and does all the  *)
(* rest without it: a purge reads each table and writes it back without    *)
(* the content, then the whole log is folded anew and the filter file      *)
(* (_erasure.json or _distribution.json) is overwritten in place.          *)
(*                                                                         *)
(* Abstractions.  A filter file is determined by the events of its kind    *)
(* that its writer had read, so the position of the last of them stands    *)
(* for it; Broken is a file that does not parse.  A source has one         *)
(* subgraph transaction.                                                   *)
(***************************************************************************)
EXTENDS Tombstones, Integers, FiniteSets

CONSTANTS Erasers,     \* processes that erase or publish
          MaxOps,      \* bound: erasures and publications
          MaxLog,      \* bound: events
          MaxFaults    \* bound: operations that die half way

ASSUME BoundAssumption == {MaxOps, MaxLog, MaxFaults} \subseteq Nat
ASSUME FiniteAssumption == IsFiniteSet(Sources)

VARIABLES
    log,       \* _events.jsonl
    content,   \* what the claim tables, the concept files and the transactions hold
    filter,    \* _erasure.json and _distribution.json
    pc, op,    \* where each eraser is, and in what operation
    left,      \* the places it has still to strip
    mem,       \* the table it has read
    seen,      \* the last event of its kind that it has read
    pass,      \* the synchronisation pass, which holds the journal lock
    reader,    \* the reader
    best,      \* history: the last event either filter file has ever covered
    returned,  \* history: positions in the log of the operations that returned
    owed,      \* history: purge events whose content is not stripped yet
    clash,     \* history: two were rewriting the claim tables at once
    faults     \* operations that died half way

vars == <<log, content, filter, pc, op, left, mem, seen, pass, reader, best, returned, owed,
          clash, faults>>
work == <<pc, op, left, mem, seen>>
history == <<best, returned, owed, clash>>

Broken == -1
Filters == {"erasure", "distribution"}
FilterOf(type) == CASE type \in ErasureEvents -> "erasure"
                    [] type \in DistributionEvents -> "distribution"
                    [] OTHER -> "none"

Idle == [type |-> "none", target |-> NoSource, at |-> 0]
NoPass == [at |-> "none", source |-> NoSource, mem |-> {}]
NoRead == [at |-> "none", shared |-> {}, docs |-> {}, own |-> {}, down |-> {},
           hidden |-> {}, barred |-> {}, blind |-> {}]

SourceOrder == SetToSeq(Sources)

\* A store that was indexed by a pass for every source, and whose producers ran.
Init ==
    /\ log = [i \in DOMAIN SourceOrder |-> [type |-> "upserted", target |-> SourceOrder[i]]]
    /\ content = [claims |-> Claims, concepts |-> Concepts, sinks |-> Sinks]
    /\ filter = [f \in Filters |-> 0]
    /\ pc = [e \in Erasers |-> "idle"]
    /\ op = [e \in Erasers |-> Idle]
    /\ left = [e \in Erasers |-> << >>]
    /\ mem = [e \in Erasers |-> {}]
    /\ seen = [e \in Erasers |-> 0]
    /\ pass = NoPass
    /\ reader = NoRead
    /\ best = [f \in Filters |-> 0]
    /\ returned = {} /\ owed = {} /\ clash = FALSE
    /\ faults = 0

----------------------------------------------------------------------------
(* The files as a reader takes them: one that does not parse is empty.     *)

Loaded(f) == SubSeq(log, 1, IF filter[f] = Broken THEN 0 ELSE filter[f])
LoadTombstones == Tombstones(Loaded("erasure"))
LoadDistribution == Distribution(Loaded("distribution"))

Count(types) == Cardinality({i \in DOMAIN log : log[i].type \in types})

----------------------------------------------------------------------------
(* Erasing and publishing.                                                 *)

Budget == Count(ErasureEvents \union DistributionEvents) < MaxOps /\ Len(log) < MaxLog

\* Variant: the purge of a source forgets the tables.
PlacesSinks(type, t) ==
    IF type # "purged" THEN << >>
    ELSE IF t \in Claims THEN <<"claims">>
    ELSE IF t \in Concepts THEN <<"concepts">>
    ELSE <<"sinks">>

\* Where a purge strips, in this order.
Places(type, t) ==
    IF type # "purged" THEN << >>
    ELSE IF t \in Sources THEN <<"claims", "sinks">>
    ELSE IF t \in Claims THEN <<"claims">>
    ELSE IF t \in Concepts THEN <<"concepts">>
    ELSE <<"sinks">>

RewritesClaims(e) == pc[e] \in {"strip", "write"} /\ "claims" \in ToSet(left[e])

\* restore raises unless the filter file has the target deleted and not purged.
Check(e, t) ==
    /\ pc[e] = "idle"
    /\ Budget
    /\ t \in LoadTombstones.deleted \ LoadTombstones.purged
    /\ op' = [op EXCEPT ![e] = [Idle EXCEPT !.type = "restored", !.target = t]]
    /\ pc' = [pc EXCEPT ![e] = "append"]
    /\ UNCHANGED <<log, content, filter, left, mem, seen, pass, reader, history, faults>>

\* The event; it waits for the journal lock.
Record(e, type, t) ==
    /\ pass.at = "none"
    /\ Budget
    /\ log' = Append(log, [type |-> type, target |-> t])
    /\ op' = [op EXCEPT ![e] = [type |-> type, target |-> t, at |-> Len(log) + 1]]
    /\ left' = [left EXCEPT ![e] = Places(type, t)]
    /\ pc' = [pc EXCEPT ![e] = IF type = "purged" THEN "strip" ELSE "fold"]
    /\ owed' = IF type = "purged" THEN owed \union {Len(log) + 1} ELSE owed
    /\ clash' = \/ clash
                \/ /\ "claims" \in ToSet(Places(type, t))
                   /\ \E x \in Erasers : RewritesClaims(x)
    /\ reader' = [reader EXCEPT
          !.hidden = IF type = "restored" THEN @ \ {t} ELSE @,
          !.barred = IF type = "published" THEN @ \ {t} ELSE @]
    /\ UNCHANGED <<content, filter, mem, seen, pass, best, returned, faults>>

Begin(e, type, t) ==
    /\ pc[e] = "idle"
    /\ type \in {"deleted", "purged", "published", "unpublished"}
    /\ Record(e, type, t)

Restore(e) ==
    /\ pc[e] = "append"
    /\ Record(e, "restored", op[e].target)

\* A table, or the transaction of a source, is read ...
StripRead(e) ==
    /\ pc[e] = "strip"
    /\ left[e] # << >>
    /\ mem' = [mem EXCEPT ![e] = content[Head(left[e])]]
    /\ pc' = [pc EXCEPT ![e] = "write"]
    /\ UNCHANGED <<log, content, filter, op, left, seen, pass, reader, history, faults>>

Transaction(s, u) == {n \in s \intersect Sinks : Owner[n] = u}
SourceOf(t) == IF t \in Sources THEN t ELSE Owner[t]

\* Variant: the rest of the source goes with the node.
GoneBySource(e) == {n \in mem[e] : Owner[n] = SourceOf(op[e].target)}

\* What has to go of what was read, and what stays of the transaction.
Gone(e) == NodesOf(op[e].target) \intersect mem[e]
Kept(e) == Transaction(mem[e], SourceOf(op[e].target)) \ Gone(e)

Stripping(e, place) == pc[e] = "write" /\ Head(left[e]) = place

Stripped(e) ==
    /\ left' = [left EXCEPT ![e] = Tail(@)]
    /\ pc' = [pc EXCEPT ![e] = "strip"]
    /\ mem' = [mem EXCEPT ![e] = {}]
    /\ UNCHANGED <<log, filter, op, seen, pass, reader, history, faults>>

\* ... and is left alone if nothing of it has to go, ...
StripNothing(e) ==
    /\ pc[e] = "write"
    /\ Gone(e) = {}
    /\ Stripped(e)
    /\ UNCHANGED content

\* ... or written back without it; ...
StripTable(e) ==
    /\ \E place \in {"claims", "concepts"} :
          /\ Stripping(e, place)
          /\ content' = [content EXCEPT ![place] = mem[e] \ Gone(e)]
    /\ Gone(e) # {}
    /\ Stripped(e)

\* ... a transaction takes the place of the one there is, if any, ...
Reseal(e) ==
    /\ Stripping(e, "sinks")
    /\ Gone(e) # {} /\ Kept(e) # {}
    /\ content' = [content EXCEPT !.sinks =
          (@ \ Transaction(@, SourceOf(op[e].target))) \union Kept(e)]
    /\ Stripped(e)

\* ... or is unlinked when it would be left without nodes; ...
Unlink(e) ==
    /\ Stripping(e, "sinks")
    /\ Gone(e) # {} /\ Kept(e) = {}
    /\ LET txn == Transaction(content.sinks, SourceOf(op[e].target)) IN
          /\ txn # {}
          /\ content' = [content EXCEPT !.sinks = @ \ txn]
    /\ Stripped(e)

Quit(e) ==
    /\ pc' = [pc EXCEPT ![e] = "idle"]
    /\ op' = [op EXCEPT ![e] = Idle]
    /\ left' = [left EXCEPT ![e] = << >>]
    /\ mem' = [mem EXCEPT ![e] = {}]
    /\ seen' = [seen EXCEPT ![e] = 0]

\* ... which raises when somebody else has unlinked it.
UnlinkRaises(e) ==
    /\ Stripping(e, "sinks")
    /\ Gone(e) # {} /\ Kept(e) = {}
    /\ Transaction(content.sinks, SourceOf(op[e].target)) = {}
    /\ Quit(e)
    /\ UNCHANGED <<log, content, filter, pass, reader, history, faults>>

StripDone(e) ==
    /\ pc[e] = "strip"
    /\ left[e] = << >>
    /\ owed' = owed \ {op[e].at}
    /\ pc' = [pc EXCEPT ![e] = "fold"]
    /\ UNCHANGED <<log, content, filter, op, left, mem, seen, pass, reader, best, returned,
                   clash, faults>>

LastOf(f) == Max({0} \union {i \in DOMAIN log : FilterOf(log[i].type) = f})

\* Variant: the fold leaves out the event of the operation itself.
FoldStale(e) ==
    /\ pc[e] = "fold"
    /\ seen' = [seen EXCEPT ![e] = op[e].at - 1]
    /\ pc' = [pc EXCEPT ![e] = "open"]
    /\ UNCHANGED <<log, content, filter, op, left, mem, pass, reader, history, faults>>

\* rebuild_*_projection reads the log.
FoldRead(e) ==
    /\ pc[e] = "fold"
    /\ seen' = [seen EXCEPT ![e] = LastOf(FilterOf(op[e].type))]
    /\ pc' = [pc EXCEPT ![e] = "open"]
    /\ UNCHANGED <<log, content, filter, op, left, mem, pass, reader, history, faults>>

\* path.write_text empties the file ...
WriteOpen(e) ==
    /\ pc[e] = "open"
    /\ filter' = [filter EXCEPT ![FilterOf(op[e].type)] = Broken]
    /\ pc' = [pc EXCEPT ![e] = "close"]
    /\ UNCHANGED <<log, content, op, left, mem, seen, pass, reader, history, faults>>

\* ... and fills it; over another writer's text the result need not parse.
WriteDone(e) ==
    /\ pc[e] = "close"
    /\ LET f == FilterOf(op[e].type) IN
       /\ \E n \in {seen[e]} \union (IF filter[f] = Broken THEN {} ELSE {Broken}) :
             filter' = [filter EXCEPT ![f] = n]
       /\ best' = [best EXCEPT ![f] = IF seen[e] > @ THEN seen[e] ELSE @]
    /\ returned' = returned \union {op[e].at}
    /\ Quit(e)
    /\ UNCHANGED <<log, content, pass, reader, owed, clash, faults>>

\* The process dies, or something raises: what was done stays done.
Crash(e) ==
    /\ pc[e] # "idle"
    /\ faults < MaxFaults
    /\ faults' = faults + 1
    /\ Quit(e)
    /\ UNCHANGED <<log, content, filter, pass, reader, history>>

----------------------------------------------------------------------------
(* A synchronisation pass that treats one source whose file was edited,    *)
(* deleted or created: KGSync, as far as it matters here.                  *)

LastAbout(types, t) ==
    LET about == {i \in DOMAIN log : log[i].type \in types /\ log[i].target = t}
    IN  IF about = {} THEN "none" ELSE log[Max(about)].type

\* Its rows are read before they are dropped, or new ones follow at once.
PassBegin(u) ==
    /\ pass.at = "none"
    /\ Len(log) < MaxLog
    /\ IF LastAbout(SourceEvents, u) = "upserted"
       THEN /\ log' = Append(log, [type |-> "removed", target |-> u])
            /\ pass' = [at |-> "write", source |-> u, mem |-> content.claims]
       ELSE /\ log' = Append(log, [type |-> "upserted", target |-> u])
            /\ pass' = [at |-> "append", source |-> u, mem |-> {}]
    /\ clash' = (clash \/ \E e \in Erasers : RewritesClaims(e))
    /\ UNCHANGED <<content, filter, work, reader, best, returned, owed, faults>>

\* The file was deleted, or its new rows follow.
PassWrite ==
    /\ pass.at = "write"
    /\ content' = [content EXCEPT !.claims = pass.mem \ ClaimsOf(pass.source)]
    /\ \/ /\ pass' = NoPass
          /\ UNCHANGED log
       \/ /\ Len(log) < MaxLog
          /\ pass' = [pass EXCEPT !.at = "append", !.mem = {}]
          /\ log' = Append(log, [type |-> "upserted", target |-> pass.source])
    /\ UNCHANGED <<filter, work, reader, history, faults>>

PassAppend ==
    /\ pass.at = "append"
    /\ content' = [content EXCEPT !.claims = @ \union ClaimsOf(pass.source)]
    /\ pass' = NoPass
    /\ UNCHANGED <<log, filter, work, reader, history, faults>>

\* A producer repeats its upsert: nothing to do, a conflict, or all of it again.
Produce(u) ==
    /\ Transaction(content.sinks, u) = {}
    /\ Transaction(Sinks, u) # {}
    /\ content' = [content EXCEPT !.sinks = @ \union Transaction(Sinks, u)]
    /\ UNCHANGED <<log, filter, work, pass, reader, history, faults>>

----------------------------------------------------------------------------
(* A read: what the folder below may have, the documents, the tombstones.  *)

\* Targets somebody was told are erased, or are not shared.
ToldErased ==
    {t \in Targets : \E i \in returned :
        /\ log[i].target = t /\ log[i].type \in {"deleted", "purged"}
        /\ \A j \in (i+1)..Len(log) : ~(log[j].target = t /\ log[j].type = "restored")}
ToldPrivate ==
    {t \in Targets :
        \/ \A i \in DOMAIN log : ~(log[i].target = t /\ log[i].type = "published")
        \/ \E i \in returned :
              /\ log[i].target = t /\ log[i].type = "unpublished"
              /\ \A j \in (i+1)..Len(log) : ~(log[j].target = t /\ log[j].type = "published")}

\* History: the filter file is half written, or an older one than there has been.
Unreliable == {f \in Filters : filter[f] < best[f]}

Docs == content.claims \union content.concepts \union content.sinks

\* load_distribution and the documents; neither says anything about the other.
ReadDocs ==
    /\ reader.at = "none"   \* bound: one read
    /\ reader' = [NoRead EXCEPT !.at = "docs", !.shared = LoadDistribution, !.docs = Docs,
                     !.hidden = ToldErased, !.barred = ToldPrivate,
                     !.blind = Unreliable \intersect {"distribution"}]
    /\ UNCHANGED <<log, content, filter, work, pass, history, faults>>

\* Variant: the filter by source is forgotten for what flows down.
ReadTombstonesOfNodes ==
    /\ reader.at = "docs"
    /\ LET tombs == LoadTombstones
           own == {n \in reader.docs : n \notin tombs.deleted \union tombs.purged}
       IN  reader' = [reader EXCEPT !.at = "shown", !.docs = {}, !.own = own,
                         !.down = {n \in own : Distributes(reader.shared, n)},
                         !.blind = @ \union (Unreliable \intersect {"erasure"})]
    /\ UNCHANGED <<log, content, filter, work, pass, history, faults>>

\* The filter of docs_from_kg, then the one of _aggregate.
ReadTombstones ==
    /\ reader.at = "docs"
    /\ LET tombs == LoadTombstones
           own == {n \in reader.docs : ~Hides(tombs, n)}
       IN  reader' = [reader EXCEPT !.at = "shown", !.docs = {}, !.own = own,
                         !.down = {n \in own : Distributes(reader.shared, n)},
                         !.blind = @ \union (Unreliable \intersect {"erasure"})]
    /\ UNCHANGED <<log, content, filter, work, pass, history, faults>>

Next ==
    \/ \E e \in Erasers, t \in Targets :
          \/ Check(e, t)
          \/ \E type \in {"deleted", "purged", "published", "unpublished"} : Begin(e, type, t)
    \/ \E e \in Erasers :
          \/ Restore(e) \/ StripRead(e) \/ StripNothing(e) \/ StripTable(e)
          \/ Reseal(e) \/ Unlink(e) \/ UnlinkRaises(e) \/ StripDone(e)
          \/ FoldRead(e) \/ WriteOpen(e) \/ WriteDone(e) \/ Crash(e)
    \/ \E u \in Sources : PassBegin(u) \/ Produce(u)
    \/ PassWrite \/ PassAppend
    \/ ReadDocs \/ ReadTombstones

Spec == Init /\ [][Next]_vars

----------------------------------------------------------------------------
(* Properties.                                                             *)

Settled(types, t) == {i \in DOMAIN log : log[i].target = t /\ log[i].type \in types} \subseteq returned

\* Unless its file is half written or an older one than there has been, what a filter
\* says of a target all of whose operations have returned is what the last of them
\* asks for, and a purge is only undone by a delete (_fold_event, rebuild_*_projection).
FiltersCurrent ==
    LET tombs == LoadTombstones
        shared == LoadDistribution
    IN  \A t \in Targets :
          /\ "erasure" \notin Unreliable /\ Settled(ErasureEvents, t) =>
                /\ t \in tombs.deleted <=> LastAbout(ErasureEvents, t) = "deleted"
                /\ t \in tombs.purged <=> LastAbout({"deleted", "purged"}, t) = "purged"
          /\ "distribution" \notin Unreliable /\ Settled(DistributionEvents, t) =>
                (t \in shared <=> LastAbout(DistributionEvents, t) = "published")

\* A read that began after an erasure had returned does not show the node, in no
\* folder, whatever passes, producers and other erasers do, unless the node or its
\* source is restored meanwhile or the tombstone file fails it (docs_from_kg).
ErasedNotShown ==
    reader.at = "shown" /\ "erasure" \notin reader.blind =>
        \A n \in reader.own \union reader.down : {n, Owner[n]} \intersect reader.hidden = {}

\* A folder below sees only what it is shared: neither what was never published nor
\* what somebody was told is no longer (_aggregate).
SharedOnlyPublished ==
    reader.at = "shown" /\ "distribution" \notin reader.blind =>
        \A n \in reader.down : ~({n, Owner[n]} \intersect Targets \subseteq reader.barred)

\* The claim tables hold what a replay of the log gives, purges that are under way or
\* died excepted, unless two were rewriting them at once (_strip_*, replay_events).
ContentFollowsLog ==
    LET open == UNION {NodesOf(log[i].target) : i \in owed}
    IN  pass.at = "none" /\ ~clash => content.claims \ open = Projected(log) \ open

\* Nothing but its purge, or the purge of its source, takes a concept or a node of a
\* transaction away, however purges of its neighbours are interleaved.
OnlyPurgesRemove ==
    \A n \in (Concepts \ content.concepts) \union (Sinks \ content.sinks) :
        \E i \in DOMAIN log : log[i].type = "purged" /\ log[i].target \in {n, Owner[n]}

----------------------------------------------------------------------------
(* A claim of the repository that does not hold.                           *)

\* "The tombstone set is refolded from the log below" (replay_events).
ReplicaKeepsTombstones == Replica(log).tombstones = Tombstones(Replica(log).log)
=============================================================================
