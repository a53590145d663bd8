------------------------------ MODULE KGStore -------------------------------
(***************************************************************************)
(* The tables of one domain of a by-domain store and what an event does to *)
(* them: KGStore.append_source / remove_source of src/versum/sync.py, the  *)
(* fold of replay_events (events.py) and the digest of snapshot.py.        *)
(*                                                                         *)
(* Abstractions.  What extraction makes of a file is its text, the pair of *)
(* the file's content and the profile it was read with; a source has one   *)
(* row in claims.csv, its text under its URN; the order of the rows is     *)
(* left out: the table is a bag.  An entry of the state file keeps the     *)
(* content's sha1 (the content itself), the (mtime, size) pair as one      *)
(* stamp, the URN, and whether the file was only seeded.  A minted URN is  *)
(* that of the bytes in the library's own urn_namespace, so that it does   *)
(* not depend on the profile.                                              *)
(***************************************************************************)
EXTENDS Naturals, Sequences, FiniteSets, SequencesExt, Bags

CONSTANTS Files, Contents, Profiles, Stamps,
          Registered,   \* files whose URN comes from a registry row or a sidecar
          None

ASSUME RegisteredAssumption == Registered \subseteq Files
ASSUME NoneAssumption == /\ None \notin Files \union Contents \union Profiles \union Stamps
                         /\ Files \intersect Contents = {}
\* The object of an event is a file or one of two names.
ASSUME FilesAssumption ==
    /\ IsFiniteSet(Files)
    /\ Files \intersect {"sync.profile.updated", "projection.baseline"} = {}

Urns == Registered \union Contents
Looks == [body : Contents, stamp : Stamps]
Texts == [body : Contents, profile : Profiles]
Rows == [urn : Urns, text : Texts]
Entries == [sha : Contents, stamp : Stamps, urn : Urns, seeded : BOOLEAN]

ASSUME RecordAssumption == None \notin Looks \union Texts \union Rows \union Entries

\* _resolve_identity: the registered URN, else one minted from the bytes.
Urn(f, c) == IF f \in Registered THEN f ELSE c

EmptyTables == [claims |-> EmptyBag,
                fps |-> [u \in Urns |-> None],
                sources |-> [f \in Files |-> None]]

----------------------------------------------------------------------------
(* remove_source: claims by URN, then the fingerprint, then the source row *)
(* by its path.                                                            *)

\* Variant: the table is emptied.
DropAllClaims(t, u) == [t EXCEPT !.claims = EmptyBag]
RowsWithout(b, u) == [r \in {r \in DOMAIN b : r.urn # u} |-> b[r]]
DropClaims(t, u) == [t EXCEPT !.claims = RowsWithout(@, u)]
\* Variant: the fingerprint of a removed source is kept.
KeepFingerprint(t, u) == t
DropFingerprint(t, u) == [t EXCEPT !.fps[u] = None]
DropSource(t, f) == [t EXCEPT !.sources[f] = None]
RemoveSource(t, f, u) == DropSource(DropFingerprint(DropClaims(t, u), u), f)

(* append_source.                                                          *)

AddClaims(t, r) == [t EXCEPT !.claims = @ (+) SetToBag({r})]
AddFingerprint(t, r) == [t EXCEPT !.fps[r.urn] = r.text]
AddSource(t, f, r) == [t EXCEPT !.sources[f] = r]
AppendSource(t, f, r) == AddSource(AddFingerprint(AddClaims(t, r), r), f, r)

----------------------------------------------------------------------------
(* Events and their replay.                                                *)

NoEntries == [f \in Files |-> None]
EmptyState == [files |-> NoEntries, profile |-> None]
EmptyStore == [tables |-> EmptyTables, state |-> EmptyState]

Upserted(f, r, e) == [type |-> "source.upserted", file |-> f, row |-> r, entry |-> e]
Removed(f, u) == [type |-> "source.removed", file |-> f, urn |-> u]
Seeded(f, e) == [type |-> "source.seeded", file |-> f, entry |-> e]
ProfileUpdated(p) == [type |-> "sync.profile.updated", profile |-> p]
Baseline(s) == [type |-> "projection.baseline", store |-> s]

\* One round of the loop of replay_events.
Apply(s, e) ==
    CASE e.type = "source.upserted" ->
            [s EXCEPT !.tables = AppendSource(@, e.file, e.row),
                      !.state.files[e.file] = e.entry]
      [] e.type = "source.removed" ->
            [s EXCEPT !.tables = RemoveSource(@, e.file, e.urn),
                      !.state.files[e.file] = None]
      [] e.type = "source.seeded" -> [s EXCEPT !.state.files[e.file] = e.entry]
      [] e.type = "sync.profile.updated" -> [s EXCEPT !.state.profile = e.profile]
      [] e.type = "projection.baseline" -> e.store

Replay(log) == FoldLeft(Apply, EmptyStore, log)

\* mint_graph_version: the rows in no particular order, and the fingerprints.
Mint(t) == [rows |-> t.claims, fps |-> t.fps]

\* What an event is about: a file, "sync:profile", or the baseline.
Object(e) == IF e.type \in {"source.upserted", "source.removed", "source.seeded"} THEN e.file
             ELSE e.type

\* EventLog.current_digest: whether the last event about its object says what e says.
IsCurrent(log, e) ==
    \E i \in DOMAIN log :
        log[i] = e /\ \A j \in (i + 1)..Len(log) : Object(log[j]) # Object(e)

----------------------------------------------------------------------------
(* plan: what a pass finds when it compares the files with the state file. *)

\* _walk and the fast path: disk[f] is None or the file's content and stamp.
NewFiles(disk, files) == {f \in Files : disk[f] # None /\ files[f] = None}
GoneFiles(disk, files) == {f \in Files : disk[f] = None /\ files[f] # None}
\* Variant: only edited files are re-extracted, never those of another profile.
ChangedIgnoresForce(disk, files, force) ==
    {f \in Files : /\ disk[f] # None /\ files[f] # None
                   /\ disk[f].stamp # files[f].stamp
                   /\ disk[f].body # files[f].sha}
ChangedFiles(disk, files, force) ==
    {f \in Files : /\ disk[f] # None /\ files[f] # None
                   /\ \/ force
                      \/ /\ disk[f].stamp # files[f].stamp
                         /\ disk[f].body # files[f].sha}
=============================================================================
