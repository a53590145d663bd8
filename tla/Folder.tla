------------------------------- MODULE Folder -------------------------------
(***************************************************************************)
(* A folder and the workers that capture, index, curate and materialise it,*)
(* while its user edits it and a curator edits its concepts.               *)
(*                                                                         *)
(* A result is calm if, from its begin to its end, nobody else worked on   *)
(* what it reads and the user left the folder alone.                       *)
(***************************************************************************)
EXTENDS WriteDoor, CurationDesk

CONSTANTS InitialFolders,   \* the folders it may begin with
          Saves,            \* what a user may save: [path, doc]
          Additions         \* the concepts a curator may add by hand

ASSUME FilesAssumption ==
    /\ \A f \in InitialFolders : f \in [DOMAIN f -> Documents] /\ DOMAIN f \subseteq Paths
    /\ Saves \subseteq [path : Paths, doc : Documents]
    /\ \A e \in External :
          /\ e.doc \in Documents
          /\ {Path(None, None, e.name), Path(None, e.doc, e.name)} \subseteq Paths

EmptyStore == [t \in Tables |-> IF t \in Required THEN None ELSE {}]

\* What the index of the folder as it is now reads.
Indexed == {Got(p, folder[p]) : p \in {p \in DOMAIN folder : folder[p] \notin Unreadable}}

\* What an undisturbed capture_folder leaves, without what the ladder may add.
AdmitNext(rows, path) ==
    LET urn == AdmittedUrn(rows, Inside(path), None) IN
    IF path \notin DOMAIN folder \/ urn = None THEN rows
    ELSE rows \union {Row(Inside(path), urn)}
CapturedStore ==
    [EmptyStore EXCEPT !["registry"] = FoldLeft(AdmitNext, {}, Order),
                       !["claims"] = ClaimRows(Indexed),
                       !["sources"] = SourceRows(Indexed),
                       !["definitions"] = DefinitionRows(Indexed)]

\* A folder that is new, or has just been captured.
Init ==
    /\ folder \in InitialFolders
    /\ \/ store = EmptyStore
       \/ store = CapturedStore
    /\ stubs = [t \in {r.title : r \in store["registry"]} |->
                   (CHOOSE r \in store["registry"] : r.title = t).urn]
    /\ w = [x \in Workers |-> Idle]
    /\ done = None
    /\ suggested = {}
    /\ calls = 0 /\ edits = 0 /\ faults = 0

Work(x) == Door(x) \/ Desk(x) \/ TableSkip(x) \/ TableOpen(x) \/ TableWrite(x) \/ Crash(x)

Next ==
    \/ \E x \in Workers : Work(x)
    \/ \E s \in Saves : Edit(SaveFile(s.path, s.doc))
    \/ \E p \in Paths : Edit(RemoveFile(p))
    \/ \E c \in Additions : Edit(AddConcept(c))

Spec == Init /\ [][Next]_vars

-----------------------------------------------------------------------------
\* The registry has every digest and every urn once, however captures with their fallback to
\* another urn overlap or die (write.dedup).
RegistryUnique ==
    \A q, r \in store["registry"] : q.urn = r.urn \/ q.sha = r.sha => q = r

\* What a calm capture has admitted is registered, lies in the folder with the bytes it was
\* admitted for, and was indexed there (write.capture_file).
Kept(row) ==
    /\ row \in store["registry"]
    /\ row.path \in DOMAIN folder /\ folder[row.path] = row.sha
    /\ \E s \in store["sources"] : s.path = row.path

AdmittedKept == done # None /\ done.job = "capture" /\ done.calm => Kept(done.keep)

\* After a calm run over the folder every file in it has its bytes registered and is
\* indexed, and the index has nothing else (write.capture_folder).
IndexCurrent ==
    /\ store["claims"] = ClaimRows(Indexed)
    /\ store["sources"] = SourceRows(Indexed)
    /\ store["definitions"] = DefinitionRows(Indexed)

FolderCovered ==
    done # None /\ done.job = "folder" /\ done.calm =>
        /\ \A p \in DOMAIN folder : SameBytes(store["registry"], folder[p])
        /\ IndexCurrent

\* A calm confirmation of all suggestions loses no concept that the suggestion has read and
\* found mentioned, and every edge it writes leads to a concept it writes
\* (curate.suggest, curate.confirm_folder).
Ids(concepts) == {c.id : c \in concepts}

ConfirmedStay ==
    done # None /\ done.job = "confirm" /\ done.calm =>
        /\ {e.dst : e \in store["edges"]} \subseteq Ids(store["concepts"])
        /\ done.keep.least = 1 /\ done.keep.pick = {} =>
               Ids(suggested) \subseteq Ids(store["concepts"])

\* What a calm materialisation exports stands by itself: a concept under a canonical urn is
\* grounded there by an edge, and the claim of every edge is exported under the same urn
\* (materialize.materialize).
TargetGrounded ==
    done # None /\ done.job = "materialize" /\ done.calm =>
        /\ \A c \in store["target_concepts"] : \E e \in store["target_edges"] :
               e.canonical = c.canonical /\ e.row.dst = c.row.id
        /\ \A e \in store["target_edges"] : \E c \in store["target_claims"] :
               c.canonical = e.canonical /\ c.row.item = e.row.src
=============================================================================
