------------------------------- MODULE KGSync -------------------------------
(***************************************************************************)
(* src/versum/sync.py: the passes that keep a by-domain store in step with *)
(* a library of files (sync_once, as the poll loop of watch runs it, and   *)
(* seed_state), while the user goes on editing the files and a pass may    *)
(* die anywhere.                                                           *)
(*                                                                         *)
(* A pass holds the journal lock from beginning to end (EventLog, proved   *)
(* exclusive there), so one pass runs at a time, and a second process is   *)
(* simply the next pass.  What is not excluded is the user: every look a   *)
(* pass takes at a file is a step of its own.  Appending one event is one  *)
(* step here; EventLog says what that takes.                               *)
(*                                                                         *)
(* Abstractions, beside those of KGStore: one library and one domain; a    *)
(* table is replaced or extended in one step; planning is one step.        *)
(***************************************************************************)
EXTENDS KGStore

CONSTANTS MaxEdits,    \* bound: edits, configuration changes, forced passes, seeds
          MaxFaults    \* bound: crashes, extraction errors, damaged stores

ASSUME BoundAssumption == MaxEdits \in Nat /\ MaxFaults \in Nat

VARIABLES
    disk,        \* the library: None or the content and the stamp of each file
    config,      \* the profile the configuration names
    edits,       \* what the user did so far
    log,         \* _events.jsonl
    tables,      \* by-domain/<domain>/
    unreadable,  \* fingerprints.json does not parse
    state,       \* _sync_state.json; None while it holds half a document
    version,     \* _graph_version.json
    pc, op,      \* where the running pass is, and which operation it is
    mem,         \* its SyncState
    prof, force, \* its profile and whether it re-extracts everything
    todo,        \* the files it still has to treat, with what plan made of them
    cur,         \* what it has read of the first of them
    touched,     \* history: files the running pass has logged something about
    calm,        \* history: no edit since the last pass began
    last,        \* history: how the last pass went
    tainted,     \* history: files the code does not promise to have right
    marks,       \* history: what has gone wrong so far
    faults       \* faults so far

user == <<disk, config, edits>>
store == <<log, tables, unreadable, state, version>>
run == <<op, prof, force>>
history == <<touched, calm, last, tainted, marks, faults>>
vars == <<user, store, run, pc, mem, todo, cur, history>>

Nothing == [file |-> None, urn |-> None, text |-> None, sha |-> None,
            entry |-> None, raced |-> FALSE]

\* The store is new, or one that was indexed before there was an event log.
LegacyEntry(f, d) == [sha |-> d.body, stamp |-> d.stamp, urn |-> Urn(f, d.body),
                      seeded |-> FALSE]
LegacyRow(f, d, p) == [urn |-> Urn(f, d.body), text |-> [body |-> d.body, profile |-> p]]

Init ==
    /\ \E s \in Stamps : disk \in [Files -> {None} \union [body : Contents, stamp : {s}]]
    /\ config \in Profiles
    /\ \/ tables = EmptyTables /\ state = EmptyState /\ edits = 0
       \/ \E f \in Files, p \in Profiles :
            /\ disk[f] # None
            /\ edits = 1 /\ 1 <= MaxEdits   \* upgrading counts as one of the user's acts
            /\ tables = AppendSource(EmptyTables, f, LegacyRow(f, disk[f], p))
            /\ state = [EmptyState EXCEPT !.files[f] = LegacyEntry(f, disk[f])]
    /\ log = << >> /\ unreadable = FALSE /\ version = None
    /\ pc = "idle" /\ op = None /\ mem = EmptyState /\ prof = None /\ force = FALSE
    /\ todo = << >> /\ cur = Nothing
    /\ touched = {} /\ calm = FALSE /\ last = "none" /\ tainted = {} /\ marks = {}
    /\ faults = 0

----------------------------------------------------------------------------
(* The user and the world.                                                 *)

ByUser == /\ edits < MaxEdits
          /\ edits' = edits + 1

\* Whatever happens to the files between two looks a pass takes at them might as
\* well happen just before the second: the steps in between do not read them.
Looking == pc \in {"idle", "plan", "next", "extract", "hash", "stat", "seed"}

\* A file is created or rewritten; the stamp need not tell (same second, same size).
Edit(f) ==
    /\ ByUser
    /\ Looking
    /\ \E d \in [body : Contents, stamp : Stamps] :
          /\ disk[f] # d
          /\ disk' = [disk EXCEPT ![f] = d]
    /\ calm' = FALSE
    /\ UNCHANGED <<config, store, run, pc, mem, todo, cur, touched, last, tainted, marks, faults>>

Delete(f) ==
    /\ ByUser
    /\ Looking
    /\ disk[f] # None
    /\ disk' = [disk EXCEPT ![f] = None]
    /\ calm' = FALSE
    /\ UNCHANGED <<config, store, run, pc, mem, todo, cur, touched, last, tainted, marks, faults>>

\* The configuration is read when a pass begins.
Configure(p) ==
    /\ ByUser
    /\ pc = "idle"
    /\ config # p
    /\ config' = p
    /\ calm' = FALSE
    /\ UNCHANGED <<disk, store, run, pc, mem, todo, cur, touched, last, tainted, marks, faults>>

Fault == /\ faults < MaxFaults
         /\ faults' = faults + 1

\* fingerprints.json is left truncated, as by a purge that dies in path.write_text.
Damage ==
    /\ Fault
    /\ pc = "idle"
    /\ \E u \in Urns : tables.fps[u] # None
    /\ unreadable' = TRUE
    /\ marks' = marks \union {"damaged"}
    /\ UNCHANGED <<user, log, tables, state, version, run, pc, mem, todo, cur, touched, calm,
                   last, tainted>>

----------------------------------------------------------------------------
(* The end of a pass that does not get to its end.                         *)

Reset == /\ pc' = "idle"
         /\ mem' = EmptyState /\ todo' = << >> /\ cur' = Nothing
         /\ op' = None /\ prof' = None /\ force' = FALSE
         /\ touched' = {}

Stopped == /\ Reset
           /\ last' = "none"
           /\ tainted' = tainted \union touched
           /\ marks' = marks \union {"cut"}
           /\ UNCHANGED <<user, calm>>

\* The process dies.
Crash ==
    /\ Fault
    /\ pc # "idle"
    /\ Stopped
    /\ UNCHANGED store

\* An exception that nothing in sync_library catches: state.save is not reached.
Abort == Stopped /\ UNCHANGED faults

----------------------------------------------------------------------------
(* Beginning a pass.                                                       *)

\* bootstrap_legacy_projection.
Bootstrapped ==
    IF log = << >> /\ (tables # EmptyTables \/ state # EmptyState)
    THEN <<Baseline([tables |-> tables, state |-> state])>>
    ELSE log

\* Variant: the profile the store was indexed under is not looked at.
BeginSameProfile(forced) ==
    /\ pc = "idle"
    /\ state # None
    /\ IF forced THEN ByUser ELSE edits' = edits
    /\ op' = "sync" /\ prof' = config /\ mem' = state
    /\ force' = forced
    /\ log' = Bootstrapped
    /\ pc' = "plan"
    /\ calm' = TRUE /\ last' = "running" /\ touched' = {}
    /\ UNCHANGED <<disk, config, tables, unreadable, state, version, todo, cur, tainted,
                   marks, faults>>

\* sync_once up to the comparison of profiles; SyncState raises on half a document.
Begin(forced) ==
    /\ pc = "idle"
    /\ state # None
    /\ IF forced THEN ByUser ELSE edits' = edits
    /\ op' = "sync" /\ prof' = config /\ mem' = state
    /\ force' = (forced \/ (state.files # NoEntries /\ state.profile # config))
    /\ log' = Bootstrapped
    /\ pc' = "plan"
    /\ calm' = TRUE /\ last' = "running" /\ touched' = {}
    /\ UNCHANGED <<disk, config, tables, unreadable, state, version, todo, cur, tainted,
                   marks, faults>>

\* The profile is logged when the log does not name it already.
LogProfile == log' = IF IsCurrent(log, ProfileUpdated(prof)) THEN log
                     ELSE Append(log, ProfileUpdated(prof))

Jobs(files, kind) ==
    LET order == SetToSeq(files)
    IN  [i \in DOMAIN order |-> [file |-> order[i], kind |-> kind]]

\* plan: the removed files are treated first, then the new ones and the changed ones.
Plan ==
    /\ pc = "plan"
    /\ LogProfile
    /\ todo' = Jobs(GoneFiles(disk, mem.files), "gone")
               \o Jobs(NewFiles(disk, mem.files), "new")
               \o Jobs(ChangedFiles(disk, mem.files, force), "changed")
    /\ pc' = "next"
    /\ UNCHANGED <<user, tables, unreadable, state, version, run, mem, cur, history>>

----------------------------------------------------------------------------
(* Treating one file.                                                      *)

Job == Head(todo)
OldUrn == mem.files[Job.file].urn

\* Go on with the next file.
Skip == todo' = Tail(todo) /\ cur' = Nothing /\ pc' = "next"

\* sync_library records an exception in report["errors"] and goes on.
Failed(mark) ==
    /\ Skip
    /\ last' = "none"
    /\ tainted' = IF force \/ Job.file \in touched THEN tainted \union {Job.file} ELSE tainted
    /\ marks' = marks \union mark
    /\ UNCHANGED <<user, run, mem, touched, calm>>

\* _load_fingerprint_store on a store that does not parse: renamed out of the way.
Preserve == /\ unreadable
            /\ unreadable' = FALSE
            /\ tables' = [tables EXCEPT !.fps = EmptyTables.fps]
            /\ UNCHANGED <<log, state, version>>

\* A removed file: the event, before its rows are dropped.
TakeGone ==
    /\ pc = "next" /\ todo # << >> /\ Job.kind = "gone"
    /\ log' = Append(log, Removed(Job.file, OldUrn))
    /\ cur' = [Nothing EXCEPT !.file = Job.file]
    /\ touched' = touched \union {Job.file}
    /\ pc' = "dropclaims"
    /\ UNCHANGED <<user, tables, unreadable, state, version, run, mem, todo, calm, last,
                   tainted, marks, faults>>

\* A new or changed file that vanished since the plan was made.
TakeVanished ==
    /\ pc = "next" /\ todo # << >> /\ Job.kind \in {"new", "changed"}
    /\ disk[Job.file] = None
    /\ Failed({})
    /\ UNCHANGED <<store, faults>>

\* _resolve_identity reads the file a first time, to mint its URN.
Identify ==
    /\ pc = "next" /\ todo # << >> /\ Job.kind \in {"new", "changed"}
    /\ disk[Job.file] # None
    /\ cur' = [Nothing EXCEPT !.file = Job.file,
                              !.urn = Urn(Job.file, disk[Job.file].body)]
    /\ pc' = "extract"
    /\ UNCHANGED <<user, store, run, mem, todo, history>>

\* _extract_file reads it again.
Extract ==
    /\ pc = "extract"
    /\ disk[cur.file] # None
    /\ cur' = [cur EXCEPT !.text = [body |-> disk[cur.file].body, profile |-> prof]]
    /\ pc' = "hash"
    /\ UNCHANGED <<user, store, run, mem, todo, history>>

\* It raises, because the file is gone or because it cannot be read this time.
ExtractGone ==
    /\ pc = "extract"
    /\ disk[cur.file] = None
    /\ Failed({})
    /\ UNCHANGED <<store, faults>>

\* Variant: the file is put on record although its extraction failed.
ExtractFailRecorded ==
    /\ Fault
    /\ pc = "extract"
    /\ disk[cur.file] # None
    /\ mem' = [mem EXCEPT !.files[cur.file] = LegacyEntry(cur.file, disk[cur.file])]
    /\ Skip
    /\ last' = "none"
    /\ UNCHANGED <<user, store, run, touched, calm, tainted, marks>>

ExtractFail ==
    /\ Fault
    /\ pc = "extract"
    /\ Failed({})
    /\ UNCHANGED store

\* content_sha1 reads it a third time; nothing catches it if the file is gone.
Hash ==
    /\ pc = "hash"
    /\ \/ /\ disk[cur.file] # None
          /\ cur' = [cur EXCEPT !.sha = disk[cur.file].body]
          /\ pc' = IF Job.kind = "changed" THEN "logdrop" ELSE "stat"
          /\ UNCHANGED <<user, store, run, mem, todo, history>>
       \/ /\ disk[cur.file] = None
          /\ Abort
          /\ UNCHANGED store

\* Variant: a changed file is replaced without saying that the old rows go.
LogDropSilent ==
    /\ pc = "logdrop"
    /\ touched' = touched \union {cur.file}
    /\ pc' = "dropclaims"
    /\ UNCHANGED <<user, store, run, mem, todo, cur, calm, last, tainted, marks, faults>>

\* A changed file: its removal is logged first.
LogDrop ==
    /\ pc = "logdrop"
    /\ log' = Append(log, Removed(cur.file, OldUrn))
    /\ touched' = touched \union {cur.file}
    /\ pc' = "dropclaims"
    /\ UNCHANGED <<user, tables, unreadable, state, version, run, mem, todo, cur, calm,
                   last, tainted, marks, faults>>

(* remove_source, table by table.                                          *)

DropClaimsStep ==
    /\ pc = "dropclaims"
    /\ tables' = DropClaims(tables, OldUrn)
    /\ pc' = "dropfps"
    /\ UNCHANGED <<user, log, unreadable, state, version, run, mem, todo, cur, history>>

\* A removed file's exception ends the pass, a changed file's is recorded.
DropFps ==
    /\ pc = "dropfps"
    /\ \/ /\ ~unreadable
          /\ tables' = DropFingerprint(tables, OldUrn)
          /\ pc' = "dropsource"
          /\ UNCHANGED <<user, log, unreadable, state, version, run, mem, todo, cur, history>>
       \/ /\ Preserve
          /\ UNCHANGED faults
          /\ IF Job.kind = "gone" THEN Stopped ELSE Failed({"failed"})

DropSourceStep ==
    /\ pc = "dropsource"
    /\ tables' = DropSource(tables, cur.file)
    /\ \/ /\ Job.kind = "gone"
          /\ mem' = [mem EXCEPT !.files[cur.file] = None]
          /\ tainted' = tainted \ {cur.file}
          /\ Skip
       \/ /\ Job.kind = "changed"
          /\ pc' = "stat"
          /\ UNCHANGED <<mem, tainted, todo, cur>>
    /\ UNCHANGED <<user, log, unreadable, state, version, run, touched, calm, last, marks, faults>>

\* The stamp is taken last of all; then the event, which carries the whole entry.
LogUpsert ==
    /\ pc = "stat"
    /\ disk[cur.file] # None
    /\ LET d == disk[cur.file]
           e == [sha |-> cur.sha, stamp |-> d.stamp, urn |-> cur.urn, seeded |-> FALSE]
       IN  /\ cur' = [cur EXCEPT !.entry = e,
                                 !.raced = ~ /\ cur.text.body = d.body /\ cur.sha = d.body
                                             /\ cur.urn = Urn(cur.file, d.body)]
           /\ log' = Append(log, Upserted(cur.file, [urn |-> cur.urn, text |-> cur.text], e))
    /\ touched' = touched \union {cur.file}
    /\ pc' = "claims"
    /\ UNCHANGED <<user, tables, unreadable, state, version, run, mem, todo, calm, last,
                   tainted, marks, faults>>

\* stat raises: the file is gone, its old rows are gone too.
StatFail ==
    /\ pc = "stat"
    /\ disk[cur.file] = None
    /\ Failed(IF Job.kind = "changed" THEN {"failed"} ELSE {})
    /\ UNCHANGED <<store, faults>>

(* append_source, table by table.                                          *)

NewRow == [urn |-> cur.urn, text |-> cur.text]

\* The fingerprint store is loaded before anything is written.
AppendClaims ==
    /\ pc = "claims"
    /\ \/ /\ ~unreadable
          /\ tables' = AddClaims(tables, NewRow)
          /\ pc' = "fps"
          /\ UNCHANGED <<user, log, unreadable, state, version, run, mem, todo, cur, history>>
       \/ /\ Preserve
          /\ UNCHANGED faults
          /\ Failed({"failed"})

\* Variant: the fingerprint is computed from the file as it is now.
WriteFpsReread ==
    /\ pc = "fps"
    /\ disk[cur.file] # None
    /\ tables' = AddFingerprint(tables, [NewRow EXCEPT !.text.body = disk[cur.file].body])
    /\ pc' = "sources"
    /\ UNCHANGED <<user, log, unreadable, state, version, run, mem, todo, cur, history>>

WriteFps ==
    /\ pc = "fps"
    /\ tables' = AddFingerprint(tables, NewRow)
    /\ pc' = "sources"
    /\ UNCHANGED <<user, log, unreadable, state, version, run, mem, todo, cur, history>>

\* Variant: the entry is not put into the state.
WriteSourceNoPut ==
    /\ pc = "sources"
    /\ tables' = AddSource(tables, cur.file, NewRow)
    /\ tainted' = IF cur.raced THEN tainted \union {cur.file} ELSE tainted \ {cur.file}
    /\ Skip
    /\ UNCHANGED <<user, log, unreadable, state, version, run, mem, touched, calm, last, marks,
                   faults>>

\* sources.csv, and state.put.
WriteSource ==
    /\ pc = "sources"
    /\ tables' = AddSource(tables, cur.file, NewRow)
    /\ mem' = [mem EXCEPT !.files[cur.file] = cur.entry]
    /\ tainted' = IF cur.raced THEN tainted \union {cur.file} ELSE tainted \ {cur.file}
    /\ Skip
    /\ UNCHANGED <<user, log, unreadable, state, version, run, touched, calm, last, marks, faults>>

----------------------------------------------------------------------------
(* seed_state: every file present is declared indexed, none is read.       *)

BeginSeed ==
    /\ ByUser
    /\ pc = "idle"
    /\ state # None
    /\ op' = "seed" /\ prof' = config /\ mem' = state /\ force' = FALSE
    /\ log' = Bootstrapped
    /\ todo' = Jobs({f \in Files : disk[f] # None}, "seed")
    /\ marks' = IF \E f \in Files : disk[f] # None /\ state.files[f] # None
                THEN marks \union {"reseeded"} ELSE marks
    /\ pc' = "seed"
    /\ tainted' = Files
    /\ calm' = TRUE /\ last' = "none" /\ touched' = {}
    /\ UNCHANGED <<disk, config, tables, unreadable, state, version, cur, faults>>

Seed ==
    /\ pc = "seed"
    /\ todo # << >>
    /\ LET f == Job.file IN
       \/ /\ disk[f] # None
          /\ LET e == [sha |-> disk[f].body, stamp |-> disk[f].stamp,
                       urn |-> Urn(f, disk[f].body), seeded |-> TRUE]
             IN  /\ log' = IF IsCurrent(log, Seeded(f, e)) THEN log
                           ELSE Append(log, Seeded(f, e))
                 /\ mem' = [mem EXCEPT !.files[f] = e]
          /\ todo' = Tail(todo)
          /\ UNCHANGED <<user, tables, unreadable, state, version, run, pc, cur, history>>
       \/ /\ disk[f] = None
          /\ Abort
          /\ UNCHANGED store

\* The profile goes on record as if the files had been read with it.
SeedDone ==
    /\ pc = "seed"
    /\ todo = << >>
    /\ LogProfile
    /\ pc' = "next"
    /\ UNCHANGED <<user, tables, unreadable, state, version, run, mem, todo, cur, history>>

----------------------------------------------------------------------------
(* The end of a pass.                                                      *)

\* state.save opens the file with "w" ...
SaveOpen ==
    /\ pc = "next" /\ todo = << >>
    /\ mem' = [mem EXCEPT !.profile = prof]
    /\ state' = None
    /\ pc' = "saving"
    /\ UNCHANGED <<user, log, tables, unreadable, version, run, todo, cur, history>>

\* ... and writes the document.
SaveWrite ==
    /\ pc = "saving"
    /\ state' = mem
    /\ \/ op = "sync" /\ pc' = "stamp" /\ UNCHANGED <<mem, todo, cur, run, touched>>
       \/ op = "seed" /\ Reset
    /\ UNCHANGED <<user, log, tables, unreadable, version, calm, last, tainted, marks, faults>>

\* The graph version is minted over the tables; an unreadable store counts as empty.
Stamp ==
    /\ pc = "stamp"
    /\ version' = Mint(IF unreadable THEN [tables EXCEPT !.fps = EmptyTables.fps] ELSE tables)
    /\ Reset
    /\ last' = IF last = "running" THEN "clean" ELSE last
    /\ UNCHANGED <<user, log, tables, unreadable, state, calm, tainted, marks, faults>>

----------------------------------------------------------------------------
Step == \/ Plan \/ TakeGone \/ TakeVanished \/ Identify \/ Extract
        \/ ExtractGone \/ Hash \/ LogDrop
        \/ DropClaimsStep \/ DropFps \/ DropSourceStep \/ LogUpsert \/ StatFail
        \/ AppendClaims \/ WriteFps \/ WriteSource
        \/ Seed \/ SeedDone \/ SaveOpen \/ SaveWrite \/ Stamp

Next == \/ \E f \in Files : Edit(f) \/ Delete(f)
        \/ \E p \in Profiles : Configure(p)
        \/ Damage \/ Crash \/ ExtractFail
        \/ \E forced \in BOOLEAN : Begin(forced)
        \/ BeginSeed
        \/ Step

Spec == Init /\ [][Next]_vars

(***************************************************************************)
(* watch runs one pass after the other, and a pass that has begun goes on: *)
(* nothing in it waits for anybody.                                        *)
(***************************************************************************)
FairSpec == Spec /\ WF_vars(Step) /\ WF_vars(Begin(FALSE))

----------------------------------------------------------------------------
(* Properties.                                                             *)

(***************************************************************************)
(* "Appending precedes projection mutation" (docs/architecture): whatever  *)
(* dies when, nothing is in a table or in the state file that the log does *)
(* not account for.                                                        *)
(***************************************************************************)
Accounted(P(_)) == \E i \in DOMAIN log : P(log[i])
RowAccounted(r) == Accounted(LAMBDA e :
    \/ e.type = "source.upserted" /\ e.row = r
    \/ e.type = "projection.baseline" /\ r \in BagToSet(e.store.tables.claims))
EntryAccounted(f, x) == Accounted(LAMBDA e :
    \/ e.type \in {"source.upserted", "source.seeded"} /\ e.file = f /\ e.entry = x
    \/ e.type = "projection.baseline" /\ e.store.state.files[f] = x)
WriteAhead ==
    log # << >> =>
        /\ \A r \in BagToSet(tables.claims) : RowAccounted(r)
        /\ \A u \in Urns : tables.fps[u] # None => RowAccounted([urn |-> u, text |-> tables.fps[u]])
        /\ \A f \in Files : tables.sources[f] # None => RowAccounted(tables.sources[f])
        /\ state # None =>
              \A f \in Files : state.files[f] # None => EntryAccounted(f, state.files[f])

(***************************************************************************)
(* Replaying the log into an empty root gives the tables, the state file   *)
(* and the graph version of the store, as long as every pass so far went   *)
(* through and no file failed after something was logged about it.         *)
(***************************************************************************)
Replayed == LET r == Replay(log)
            IN  /\ r.tables = tables
                /\ r.state = state
                /\ last = "clean" => version = Mint(r.tables)
ReplayFaithful ==
    pc = "idle" /\ log # << >> /\ marks \intersect {"cut", "failed", "damaged"} = {}
        => Replayed

(***************************************************************************)
(* The state file and the three tables tell the same story, whatever order *)
(* of new, changed, removed, touched and re-profiled files led there: one  *)
(* row, one fingerprint and one source row per indexed file, and no other. *)
(***************************************************************************)
RowsOf(t, u) == {r \in BagToSet(t.claims) : r.urn = u}
Indexed(f) == state.files[f] # None /\ ~state.files[f].seeded
TablesAgree ==
    pc = "idle" /\ marks = {} =>
        /\ \A f \in Files : Indexed(f) =>
              LET r == tables.sources[f]
                  u == state.files[f].urn
              IN  /\ r # None /\ r.urn = u /\ tables.fps[u] = r.text
                  /\ RowsOf(tables, u) = {r} /\ tables.claims[r] = 1
        /\ \A r \in BagToSet(tables.claims) : \E f \in Files : tables.sources[f] = r
        /\ \A u \in Urns : tables.fps[u] # None =>
              \E f \in Files : Indexed(f) /\ state.files[f].urn = u
        /\ \A f \in Files : tables.sources[f] # None => Indexed(f)

\* The fast path cannot see that the file is another one: same mtime second, same size.
Blind(f) == /\ disk[f] # None /\ state.files[f] # None
            /\ disk[f].stamp = state.files[f].stamp
            /\ disk[f].body # state.files[f].sha

\* The store has what the library has of file f, extracted as configured.
Matches(f) ==
    LET e == state.files[f]
        r == tables.sources[f]
    IN  IF disk[f] = None THEN e = None /\ r = None
        ELSE /\ e # None /\ r # None
             /\ e.sha = disk[f].body /\ e.urn = Urn(f, disk[f].body)
             /\ r = [urn |-> e.urn, text |-> [body |-> disk[f].body, profile |-> config]]
             /\ r \in BagToSet(tables.claims)
             /\ "damaged" \in marks \/ tables.fps[e.urn] = r.text

(***************************************************************************)
(* A pass nobody interfered with leaves the store as the library is, even  *)
(* after earlier passes that died or failed; except for the files tainted  *)
(* names: those edited while a pass was reading them, those a dead pass    *)
(* was treating, those that failed in a forced pass, and the seeded ones.  *)
(***************************************************************************)
Reconciled ==
    pc = "idle" /\ last = "clean" /\ calm =>
        \A f \in Files \ tainted : Blind(f) \/ Matches(f)

(***************************************************************************)
(* "re-running with no change writes nothing" (sync.py, design note): what *)
(* an undisturbed pass recorded leaves the next one nothing to do.         *)
(***************************************************************************)
NothingLeft ==
    pc = "idle" /\ last = "clean" /\ calm =>
        /\ state.profile = config
        /\ IsCurrent(log, ProfileUpdated(config))
        /\ NewFiles(disk, state.files) = {} /\ GoneFiles(disk, state.files) = {}
        /\ ChangedFiles(disk, state.files, FALSE) = {}

(***************************************************************************)
(* The state file never claims a profile that an indexed row was not       *)
(* extracted with, though the configuration may change while a pass runs,  *)
(* and passes die or fail half way through the re-extraction.              *)
(***************************************************************************)
ProfileHonest ==
    pc = "idle" /\ state # None =>
        \A f \in Files \ tainted :
            Indexed(f) /\ state.profile # None /\ tables.sources[f] # None =>
                tables.sources[f].text.profile = state.profile

(***************************************************************************)
(* "a changed/removed file replaces its own rows and touches no others"    *)
(* (remove_source): treating one file never takes a row, a fingerprint or  *)
(* the source row from a file that the pass's state has on record.         *)
(***************************************************************************)
TouchesNoOthers ==
    [][\A f \in Files :
          cur.file # None /\ f # cur.file /\ mem.files[f] # None =>
              LET u == mem.files[f].urn
              IN  /\ RowsOf(tables, u) \subseteq RowsOf(tables', u)
                  /\ tables'.sources[f] = tables.sources[f]
                  /\ ~unreadable /\ tables.fps[u] # None => tables'.fps[u] # None]_vars

(***************************************************************************)
(* Once the user leaves the library alone, the passes run out of things to *)
(* do, whatever failed before, and the store matches the library but for   *)
(* what tainted excuses; provided the state file can be read.              *)
(***************************************************************************)
Seen(f) == f \in NewFiles(disk, state.files) \union GoneFiles(disk, state.files)
                 \union ChangedFiles(disk, state.files, FALSE)
Converges ==
    <>[](state # None =>
            \A f \in Files : ~Seen(f) /\ (f \in tainted \/ Blind(f) \/ Matches(f)))
=============================================================================
