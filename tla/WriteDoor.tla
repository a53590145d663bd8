----------------------------- MODULE WriteDoor -----------------------------
(***************************************************************************)
(* src/versum/write.py and store/index.py: a source, from the folder or    *)
(* from outside, is admitted into the registry once, and the folder is     *)
(* indexed.                                                                *)
(*                                                                         *)
(* Abstractions.  A file is read once (the code reads it for its identity, *)
(* its digest and its text).  The registry is a set: whichever row the     *)
(* code looks at first, equal bytes make a source a duplicate and an equal *)
(* urn or title of other bytes makes it fall back.  Entries, fingerprints, *)
(* planes and the manifest of an index are left out.                       *)
(***************************************************************************)
EXTENDS FolderStore

CONSTANTS External,     \* sources outside the folder: [name, doc]
          Ladder        \* what the resolver ladder may answer: urns, or None

Source(path, doc, inside) == [path |-> path, doc |-> doc, inside |-> inside]
Inside(path) == Source(path, folder[path], TRUE)
Outside(e) == Source(Path(None, None, e.name), e.doc, FALSE)

-----------------------------------------------------------------------------
(* The decision of capture_file *)

Title(path) == <<path.tag, path.name>>

\* resolve_identity, with what the ladder would answer.
CaptureUrn(source, answer) ==
    LET urn == Minted(source.path, source.doc) IN
    IF ReuseUrn(source.path) # None THEN ReuseUrn(source.path)
    ELSE IF urn.kind = "sha256" /\ answer # None THEN answer
    ELSE urn

SameBytes(rows, doc) == \E r \in rows : r.sha = doc
Taken(rows, urn, title) == \E r \in rows : r.urn = urn \/ r.title = title

AdmittedUrnOnce(rows, source, answer) ==
    LET urn == CaptureUrn(source, answer) IN
    IF Taken({r \in rows : r.sha # source.doc}, urn, Title(source.path))
    THEN Fallback(source.doc)
    ELSE IF SameBytes(rows, source.doc) THEN None ELSE urn

\* The urn a source is admitted under, or None if it is a duplicate.
AdmittedUrn(rows, source, answer) ==
    LET urn == CaptureUrn(source, answer) IN
    IF SameBytes(rows, source.doc) THEN None
    ELSE IF ~Taken(rows, urn, Title(source.path)) THEN urn
    ELSE IF \E r \in rows : r.urn = Fallback(source.doc) THEN None
    ELSE Fallback(source.doc)

TargetPlain(source) == IF source.inside THEN source.path ELSE Path(None, None, source.path.name)

\* Where the file is, or is going to be: never another file's place.
Target(source) ==
    LET plain == Path(None, None, source.path.name) IN
    IF source.inside THEN source.path
    ELSE IF plain \in DOMAIN folder /\ folder[plain] # source.doc
    THEN Path(None, source.doc, source.path.name)
    ELSE plain

Row(source, urn) ==
    [urn |-> urn, sha |-> source.doc, title |-> Title(source.path), path |-> Target(source)]

\* A source of the folder is not copied.
Admitting(job, calm, source, urn, todo) ==
    [job |-> job, calm |-> calm, at |-> IF source.inside THEN "stub" ELSE "copy",
     todo |-> todo, rows |-> store["registry"], row |-> Row(source, urn)]

-----------------------------------------------------------------------------
(* capture_file and capture_folder *)

CaptureFile(x, source, answer) ==
    LET urn == AdmittedUrn(store["registry"], source, answer) IN
    /\ Admissible(source.doc) /\ urn # None
    /\ Begin(x, Admitting("capture", TRUE, source, urn, <<>>))

CaptureFolder(x) ==
    Begin(x, [job |-> "folder", calm |-> TRUE, at |-> "next", todo |-> Listing, row |-> None])

NextFileBreaks(x, answer) ==
    /\ w[x].at = "next" /\ w[x].todo # <<>>
    /\ LET j == w[x]
           path == Head(j.todo)
           urn == AdmittedUrn(store["registry"], Inside(path), answer)
       IN  w' = [w EXCEPT ![x] =
                    IF path \notin DOMAIN folder \/ ~Admissible(folder[path]) THEN Idle
                    ELSE IF urn = None THEN [j EXCEPT !.todo = <<>>]
                    ELSE Admitting(j.job, j.calm, Inside(path), urn, Tail(j.todo))]
    /\ done' = None
    /\ UNCHANGED <<folder, stubs, store, suggested, counters>>

\* The next file of capture_folder.  One that cannot be admitted, or is gone, ends the
\* whole run with an error.
NextFile(x, answer) ==
    /\ w[x].at = "next" /\ w[x].todo # <<>>
    /\ LET j == w[x]
           path == Head(j.todo)
           urn == AdmittedUrn(store["registry"], Inside(path), answer)
       IN  w' = [w EXCEPT ![x] =
                    IF path \notin DOMAIN folder \/ ~Admissible(folder[path]) THEN Idle
                    ELSE IF urn = None THEN [j EXCEPT !.todo = Tail(j.todo)]
                    ELSE Admitting(j.job, j.calm, Inside(path), urn, Tail(j.todo))]
    /\ done' = None
    /\ UNCHANGED <<folder, stubs, store, suggested, counters>>

\* A file that is there by now is left alone, whatever it is.
Copy(x) ==
    /\ w[x].at = "copy"
    /\ LET row == w[x].row IN
       folder' = [p \in DOMAIN folder \union {row.path} |->
                     IF p \in DOMAIN folder THEN folder[p] ELSE row.sha]
    /\ Goto(x, "stub")
    /\ done' = None
    /\ UNCHANGED <<stubs, store, suggested, counters>>

\* Stubs are named by the title: the one of another source is overwritten.
WriteStub(x) ==
    /\ w[x].at = "stub"
    /\ LET row == w[x].row IN
       /\ stubs' = [t \in DOMAIN stubs \union {row.title} |->
                       IF t = row.title THEN row.urn ELSE stubs[t]]
       /\ Writing(x, <<Write("registry", w[x].rows \union {row})>>, "admitted",
                  [row |-> row, todo |-> w[x].todo])
    /\ done' = None
    /\ UNCHANGED <<folder, store, suggested, counters>>

\* capture_folder goes on to its next file, and capture_file to the index.
Admitted(x) ==
    /\ w[x].at = "admitted"
    /\ w' = [w EXCEPT ![x] = [job |-> @.job, calm |-> @.calm, at |-> "next",
                              row |-> IF @.job = "folder" THEN None ELSE @.keep.row,
                              todo |-> @.keep.todo]]
    /\ done' = None
    /\ UNCHANGED <<folder, stubs, store, suggested, counters>>

-----------------------------------------------------------------------------
(* index_folder *)

IndexFolder(x) ==
    Begin(x, [job |-> "index", calm |-> TRUE, at |-> "next", todo |-> <<>>, row |-> None])

\* At the end of a capture, of a capture_folder, or on its own.
IndexBegin(x) ==
    /\ w[x].at = "next" /\ w[x].todo = <<>>
    /\ w' = [w EXCEPT ![x] = [job |-> @.job, calm |-> @.calm, at |-> "index", row |-> @.row,
                              todo |-> Listing, got |-> {}]]
    /\ done' = None
    /\ UNCHANGED <<folder, stubs, store, suggested, counters>>

Got(path, doc) ==
    [path |-> path, doc |-> doc, urn |-> IndexUrn(path, doc), canonical |-> Reused(path)]

\* A file that is gone or that cannot be extracted is passed over.
IndexFile(x) ==
    /\ w[x].at = "index" /\ w[x].todo # <<>>
    /\ LET j == w[x]
           path == Head(j.todo) IN
       w' = [w EXCEPT ![x] =
               [j EXCEPT !.todo = Tail(j.todo),
                         !.got = IF path \in DOMAIN folder /\ folder[path] \notin Unreadable
                                 THEN j.got \union {Got(path, folder[path])} ELSE j.got]]
    /\ done' = None
    /\ UNCHANGED <<folder, stubs, store, suggested, counters>>

\* The id of a claim is made of its urn and its place in the text.
ClaimRows(got) ==
    UNION {{[item |-> <<g.urn, i>>, urn |-> g.urn, text |-> Claims[g.doc][i], path |-> g.path] :
               i \in DOMAIN Claims[g.doc]} : g \in got}

SourceRows(got) == {[urn |-> g.urn, path |-> g.path, canonical |-> g.canonical] : g \in got}
DefinitionRows(got) == UNION {Definitions[g.doc] : g \in got}

\* The tables that are written once all files have been read.
IndexRows(x) ==
    /\ w[x].at = "index" /\ w[x].todo = <<>>
    /\ LET got == w[x].got IN
       Writing(x, <<Write("claims", ClaimRows(got)), Write("sources", SourceRows(got)),
                    Write("definitions", DefinitionRows(got))>>, "end", w[x].row)
    /\ done' = None
    /\ UNCHANGED <<folder, stubs, store, suggested, counters>>

IndexEnd(x) ==
    /\ w[x].at = "end" /\ w[x].job \in {"capture", "folder", "index"}
    /\ Finish(x)
    /\ UNCHANGED <<folder, stubs, store, suggested, counters>>

Door(x) ==
    \/ \E e \in External, answer \in Ladder : CaptureFile(x, Outside(e), answer)
    \/ \E path \in DOMAIN folder, answer \in Ladder : CaptureFile(x, Inside(path), answer)
    \/ CaptureFolder(x)
    \/ \E answer \in Ladder : NextFile(x, answer)
    \/ Copy(x) \/ WriteStub(x) \/ Admitted(x)
    \/ IndexFolder(x) \/ IndexBegin(x) \/ IndexFile(x) \/ IndexRows(x) \/ IndexEnd(x)
=============================================================================
