----------------------------- MODULE Tombstones -----------------------------
(***************************************************************************)
(* The two read filters of a store and the events they are folded from:    *)
(* _fold_event, hides and distributes of src/versum/store/erasure.py and   *)
(* store/distribution.py.                                                  *)
(*                                                                         *)
(* A target is a node (a claim, a concept or a node of a subgraph) or a    *)
(* whole source; the code keeps the two in sets of their own that are      *)
(* treated alike, here they share one.  The audit records are left out.    *)
(***************************************************************************)
EXTENDS Naturals, Sequences, SequencesExt

CONSTANTS Claims, Concepts, Sinks,   \* the nodes, by the place that holds their content
          Sources,
          Owner,                     \* the source of a node; NoSource for a concept
          NoSource

Nodes == Claims \union Concepts \union Sinks
Targets == Nodes \union Sources

ASSUME OwnerAssumption ==
    /\ Owner \in [Nodes -> Sources \union {NoSource}]
    /\ \A n \in Nodes : n \in Concepts <=> Owner[n] = NoSource
    /\ Claims \intersect Concepts = {}
    /\ NoSource \notin Targets
    /\ Nodes \intersect Sources = {}

NodesOf(t) == IF t \in Sources THEN {n \in Nodes : Owner[n] = t} ELSE {t}

ErasureEvents == {"deleted", "restored", "purged"}
DistributionEvents == {"published", "unpublished"}
SourceEvents == {"upserted", "removed"}
Event == [type : ErasureEvents \union DistributionEvents, target : Targets]
         \union [type : SourceEvents, target : Sources]

----------------------------------------------------------------------------
(* The tombstones.                                                         *)

NothingErased == [deleted |-> {}, purged |-> {}]

Erase(s, e) ==
    CASE e.type = "deleted" -> [deleted |-> s.deleted \union {e.target}, purged |-> s.purged \ {e.target}]
      [] e.type = "restored" -> [s EXCEPT !.deleted = @ \ {e.target}]
      [] e.type = "purged" -> [deleted |-> s.deleted \ {e.target}, purged |-> s.purged \union {e.target}]
      [] OTHER -> s

Tombstones(log) == FoldLeft(Erase, NothingErased, log)

Hides(s, n) == {n, Owner[n]} \intersect (s.deleted \union s.purged) # {}

----------------------------------------------------------------------------
(* What flows down.                                                        *)

Share(s, e) ==
    CASE e.type = "published" -> s \union {e.target}
      [] e.type = "unpublished" -> s \ {e.target}
      [] OTHER -> s

Distribution(log) == FoldLeft(Share, {}, log)

\* Variant: once something is published, everything flows down.
DistributesAll(s, n) == s # {}

Distributes(s, n) == {n, Owner[n]} \intersect s # {}

----------------------------------------------------------------------------
(* The claims a replay of the log leaves in the tables (replay_events).    *)

ClaimsOf(t) == Claims \intersect NodesOf(t)

Project(claims, e) ==
    CASE e.type = "upserted" -> claims \union ClaimsOf(e.target)
      [] e.type \in {"removed", "purged"} -> claims \ ClaimsOf(e.target)
      [] OTHER -> claims

Projected(log) == FoldLeft(Project, {}, log)

\* The replica that replay_event_log makes: its tombstones are refolded from its own
\* log, and only then the log is copied there.
Replica(log) ==
    LET replayed == [log |-> << >>, tombstones |-> Tombstones(<< >>)]
    IN  [replayed EXCEPT !.log = log]
=============================================================================
