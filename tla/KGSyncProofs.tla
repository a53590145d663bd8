---------------------------- MODULE KGSyncProofs ----------------------------
(***************************************************************************)
(* Proofs about KGSync: for any files, contents, profiles and stamps, any  *)
(* number of passes, edits, crashes and failures.                          *)
(*                                                                         *)
(* Every proof strengthens its property to an invariant of its own, over   *)
(* the common one (Sound: the types, and what is known at each place of a  *)
(* pass of the file it is treating and of the files still to come):        *)
(*   QuietInv    in a pass nobody interferes with, a file not waiting any  *)
(*               more has the entry the next pass would compare it with;   *)
(*   HonestInv   every row is of the profile on record, or its file is     *)
(*               still to be treated by a pass that re-extracts all;       *)
(*   AccountInv  the log accounts for what is in the tables, the state     *)
(*               file, the pass's state and what it is about to write;     *)
(*   FaithInv    replaying the log gives the store that the pass is        *)
(*               making, as it will be once the step of the last event is  *)
(*               finished.                                                 *)
(***************************************************************************)
EXTENDS KGSync, FoldTheorems, SequenceTheorems

ClaimTables == UNION {[S -> Nat] : S \in SUBSET Rows}
Tables == [claims : ClaimTables, fps : [Urns -> Texts \union {None}],
           sources : [Files -> Rows \union {None}]]
Sheets == [files : [Files -> Entries \union {None}], profile : Profiles \union {None}]
Stores == [tables : Tables, state : Sheets]
Events == [type : {"source.upserted"}, file : Files, row : Rows, entry : Entries]
          \union [type : {"source.removed"}, file : Files, urn : Urns]
          \union [type : {"source.seeded"}, file : Files, entry : Entries]
          \union [type : {"sync.profile.updated"}, profile : Profiles]
          \union [type : {"projection.baseline"}, store : Stores]
JobRecords == [file : Files, kind : {"gone", "new", "changed", "seed"}]
JobsIn(s) == {s[i] : i \in 1..Len(s)}
NoTwice(s) == \A i, j \in 1..Len(s) : s[i].file = s[j].file => i = j

----------------------------------------------------------------------------
(* Tables.                                                                 *)

LEMMA DropTypes ==
  ASSUME NEW t \in Tables, NEW u \in Urns, NEW f \in Files
  PROVE  /\ DropClaims(t, u) \in Tables
         /\ DropFingerprint(t, u) \in Tables
         /\ DropSource(t, f) \in Tables
  <1>1. DropClaims(t, u) \in Tables
    <2>1. PICK S \in SUBSET Rows : t.claims \in [S -> Nat]
      BY DEF Tables, ClaimTables
    <2>2. RowsWithout(t.claims, u) \in [{x \in S : x.urn # u} -> Nat]
      BY <2>1 DEF RowsWithout
    <2>3. RowsWithout(t.claims, u) \in ClaimTables
      BY <2>2 DEF ClaimTables
    <2> QED
      BY <2>3 DEF DropClaims, Tables
  <1>2. DropFingerprint(t, u) \in Tables /\ DropSource(t, f) \in Tables
    BY DEF DropFingerprint, DropSource, Tables
  <1> QED
    BY <1>1, <1>2

LEMMA AddTypes ==
  ASSUME NEW t \in Tables, NEW f \in Files, NEW r \in Rows
  PROVE  /\ AddClaims(t, r) \in Tables
         /\ AddFingerprint(t, r) \in Tables
         /\ AddSource(t, f, r) \in Tables
  <1>1. AddClaims(t, r) \in Tables
    <2>1. PICK S \in SUBSET Rows : t.claims \in [S -> Nat]
      BY DEF Tables, ClaimTables
    <2>2. t.claims (+) SetToBag({r}) \in [S \union {r} -> Nat]
      BY <2>1 DEF SetToBag, (+)
    <2>3. t.claims (+) SetToBag({r}) \in ClaimTables
      BY <2>2 DEF ClaimTables
    <2> QED
      BY <2>3 DEF AddClaims, Tables
  <1>2. r.urn \in Urns /\ r.text \in Texts
    BY DEF Rows
  <1>3. AddFingerprint(t, r) \in Tables /\ AddSource(t, f, r) \in Tables
    BY <1>2 DEF AddFingerprint, AddSource, Tables
  <1> QED
    BY <1>1, <1>3

LEMMA EmptyTypes == EmptyTables \in Tables /\ EmptyState \in Sheets
  <1>1. EmptyBag \in [{} -> Nat]
    BY DEF EmptyBag, SetToBag
  <1>2. EmptyBag \in ClaimTables
    BY <1>1 DEF ClaimTables
  <1>3. EmptyTables \in Tables
    BY <1>2 DEF EmptyTables, Tables
  <1>4. EmptyState \in Sheets
    BY DEF EmptyState, NoEntries, Sheets
  <1> QED
    BY <1>3, <1>4

\* What each step of a removal leaves of the three tables.
LEMMA DropClaimsFields ==
  ASSUME NEW t \in Tables, NEW u
  PROVE  /\ BagToSet(DropClaims(t, u).claims) = {x \in BagToSet(t.claims) : x.urn # u}
         /\ DropClaims(t, u).fps = t.fps /\ DropClaims(t, u).sources = t.sources
  <1>1. BagToSet(DropClaims(t, u).claims) = {x \in BagToSet(t.claims) : x.urn # u}
    BY DEF DropClaims, RowsWithout, BagToSet, Tables
  <1>2. DropClaims(t, u).fps = t.fps /\ DropClaims(t, u).sources = t.sources
    BY DEF DropClaims, Tables
  <1> QED
    BY <1>1, <1>2

LEMMA DropFingerprintFields ==
  ASSUME NEW t \in Tables, NEW u
  PROVE  /\ DropFingerprint(t, u).claims = t.claims
         /\ DropFingerprint(t, u).fps = [t.fps EXCEPT ![u] = None]
         /\ DropFingerprint(t, u).sources = t.sources
  BY DEF DropFingerprint, Tables

LEMMA DropSourceFields ==
  ASSUME NEW t \in Tables, NEW f
  PROVE  /\ DropSource(t, f).claims = t.claims /\ DropSource(t, f).fps = t.fps
         /\ DropSource(t, f).sources = [t.sources EXCEPT ![f] = None]
  BY DEF DropSource, Tables

\* What each step of an addition leaves of the three tables.
LEMMA AddClaimsFields ==
  ASSUME NEW t \in Tables, NEW r
  PROVE  /\ BagToSet(AddClaims(t, r).claims) = BagToSet(t.claims) \union {r}
         /\ AddClaims(t, r).fps = t.fps /\ AddClaims(t, r).sources = t.sources
  <1>1. BagToSet(AddClaims(t, r).claims) = BagToSet(t.claims) \union {r}
    BY DEF AddClaims, SetToBag, (+), BagToSet, Tables
  <1>2. AddClaims(t, r).fps = t.fps /\ AddClaims(t, r).sources = t.sources
    BY DEF AddClaims, Tables
  <1> QED
    BY <1>1, <1>2

LEMMA AddFingerprintFields ==
  ASSUME NEW t \in Tables, NEW r
  PROVE  /\ AddFingerprint(t, r).claims = t.claims
         /\ AddFingerprint(t, r).fps = [t.fps EXCEPT ![r.urn] = r.text]
         /\ AddFingerprint(t, r).sources = t.sources
  BY DEF AddFingerprint, Tables

----------------------------------------------------------------------------
(* The files a pass has to treat.                                          *)

LEMMA JobsFacts ==
  ASSUME NEW S \in SUBSET Files, NEW kind \in {"gone", "new", "changed", "seed"}
  PROVE  LET s == Jobs(S, kind) IN
         /\ s \in Seq(JobRecords)
         /\ NoTwice(s)
         /\ JobsIn(s) = {[file |-> f, kind |-> kind] : f \in S}
  <1> DEFINE n == Cardinality(S)
             order == SetToSeq(S)
  <1>1. IsFiniteSet(S)
    BY FilesAssumption, FS_Subset
  <1>2. n \in Nat /\ ExistsBijection(1..n, S)
    BY <1>1, FS_CardinalityType
  <1>3. \E f \in [1..n -> S] : IsInjective(f)
    BY <1>2 DEF ExistsBijection, Bijection, Injection, IsInjective
  <1>4. order \in [1..n -> S] /\ IsInjective(order)
    BY <1>3 DEF SetToSeq
  <1> HIDE DEF order
  <1>5. order \in Injection(1..n, S)
    BY <1>4 DEF Injection
  <1>6. IsFiniteSet(1..n) /\ Cardinality(1..n) = n
    BY <1>2, FS_Interval
  <1>7. order \in Surjection(1..n, S)
    BY <1>1, <1>5, <1>6, FS_Injection
  <1> DEFINE s == Jobs(S, kind)
  <1>8. s = [i \in 1..n |-> [file |-> order[i], kind |-> kind]]
    BY <1>4 DEF Jobs, order
  <1>9. s \in [1..n -> JobRecords]
    BY <1>4, <1>8 DEF JobRecords
  <1>10. s \in Seq(JobRecords) /\ Len(s) = n
    BY <1>2, <1>9
  <1> HIDE DEF s
  <1>11. NoTwice(s)
    <2>1. \A i, j \in 1..n : s[i].file = s[j].file => i = j
      BY <1>4, <1>8 DEF IsInjective
    <2> QED
      BY <1>10, <2>1 DEF NoTwice
  <1>12. \A f \in S : \E i \in 1..n : order[i] = f
    BY <1>7 DEF Surjection
  <1>13. JobsIn(s) = {[file |-> f, kind |-> kind] : f \in S}
    <2>1. \A i \in 1..n : s[i] = [file |-> order[i], kind |-> kind] /\ order[i] \in S
      BY <1>4, <1>8
    <2>2. JobsIn(s) = {s[i] : i \in 1..n}
      BY <1>10 DEF JobsIn
    <2>3. ASSUME NEW f \in S PROVE [file |-> f, kind |-> kind] \in JobsIn(s)
      <3>1. PICK i \in 1..n : order[i] = f
        BY <1>12
      <3> QED
        BY <2>1, <2>2, <3>1
    <2>4. JobsIn(s) \subseteq {[file |-> f, kind |-> kind] : f \in S}
      BY <2>1, <2>2
    <2> QED
      BY <2>3, <2>4
  <1> QED
    BY <1>10, <1>11, <1>13 DEF s

LEMMA JobsTogether ==
  ASSUME NEW s \in Seq(JobRecords), NEW t \in Seq(JobRecords), NoTwice(s), NoTwice(t),
         \A x \in JobsIn(s), y \in JobsIn(t) : x.file # y.file
  PROVE  /\ s \o t \in Seq(JobRecords)
         /\ NoTwice(s \o t)
         /\ JobsIn(s \o t) = JobsIn(s) \union JobsIn(t)
  <1> DEFINE m == Len(s)
             n == Len(t)
             c == s \o t
  <1>1. m \in Nat /\ n \in Nat /\ c \in Seq(JobRecords) /\ Len(c) = m + n
    OBVIOUS
  <1>2. /\ \A i \in 1..m : c[i] = s[i] /\ s[i] \in JobsIn(s)
        /\ \A i \in 1..n : c[m + i] = t[i] /\ t[i] \in JobsIn(t)
    BY DEF JobsIn
  <1>3. \A i \in 1..(m + n) : i \in 1..m \/ \E k \in 1..n : i = m + k
    <2>1. ASSUME NEW i \in 1..(m + n), i \notin 1..m PROVE i - m \in 1..n /\ i = m + (i - m)
      BY <1>1, <2>1
    <2> QED
      BY <2>1
  <1>4. JobsIn(c) = JobsIn(s) \union JobsIn(t)
    <2>1. JobsIn(c) \subseteq JobsIn(s) \union JobsIn(t)
      BY <1>1, <1>2, <1>3 DEF JobsIn
    <2>2. ASSUME NEW x \in JobsIn(t) PROVE x \in JobsIn(c)
      <3>1. PICK k \in 1..n : x = t[k]
        BY DEF JobsIn
      <3>2. m + k \in 1..Len(c) /\ c[m + k] = x
        BY <1>1, <1>2, <3>1
      <3> QED
        BY <3>2 DEF JobsIn
    <2>3. ASSUME NEW x \in JobsIn(s) PROVE x \in JobsIn(c)
      <3>1. PICK k \in 1..m : x = s[k]
        BY DEF JobsIn
      <3>2. k \in 1..Len(c) /\ c[k] = x
        BY <1>1, <1>2, <3>1
      <3> QED
        BY <3>2 DEF JobsIn
    <2> QED
      BY <2>1, <2>2, <2>3
  <1>5. ASSUME NEW i \in 1..(m + n), NEW j \in 1..(m + n), c[i].file = c[j].file
        PROVE  i = j
    <2>1. CASE i \in 1..m /\ j \in 1..m
      <3>1. s[i].file = s[j].file
        BY <1>2, <1>5, <2>1
      <3> QED
        BY <2>1, <3>1 DEF NoTwice
    <2>2. CASE i \in 1..m /\ j \notin 1..m
      <3>1. PICK l \in 1..n : j = m + l
        BY <1>3, <2>2
      <3>2. s[i] \in JobsIn(s) /\ t[l] \in JobsIn(t) /\ s[i].file = t[l].file
        BY <1>2, <1>5, <2>2, <3>1
      <3> QED
        BY <3>2
    <2>3. CASE i \notin 1..m /\ j \in 1..m
      <3>1. PICK k \in 1..n : i = m + k
        BY <1>3, <2>3
      <3>2. s[j] \in JobsIn(s) /\ t[k] \in JobsIn(t) /\ s[j].file = t[k].file
        BY <1>2, <1>5, <2>3, <3>1
      <3> QED
        BY <3>2
    <2>4. CASE i \notin 1..m /\ j \notin 1..m
      <3>1. PICK k \in 1..n : i = m + k
        BY <1>3, <2>4
      <3>2. PICK l \in 1..n : j = m + l
        BY <1>3, <2>4
      <3>3. t[k].file = t[l].file
        BY <1>2, <1>5, <3>1, <3>2
      <3> QED
        BY <3>1, <3>2, <3>3 DEF NoTwice
    <2> QED
      BY <2>1, <2>2, <2>3, <2>4
  <1> QED
    BY <1>1, <1>4, <1>5 DEF NoTwice

----------------------------------------------------------------------------
(* Types and control.                                                      *)

CurRecords ==
    [file : Files \union {None}, urn : Urns \union {None}, text : Texts \union {None},
     sha : Contents \union {None}, entry : Entries \union {None}, raced : BOOLEAN]

Typed ==
    /\ disk \in [Files -> {None} \union Looks]
    /\ config \in Profiles
    /\ log \in Seq(Events)
    /\ tables \in Tables
    /\ state \in Sheets \union {None}
    /\ mem \in Sheets
    /\ prof \in Profiles \union {None}
    /\ force \in BOOLEAN
    /\ todo \in Seq(JobRecords)
    /\ cur \in CurRecords

Dropping == {"dropclaims", "dropfps", "dropsource"}
Adding == {"claims", "fps", "sources"}
Treating == {"extract", "hash", "logdrop", "stat"} \union Dropping \union Adding

\* What is known of the file a pass is treating.
Known ==
    pc \in Treating =>
        /\ todo # << >> /\ cur.file = todo[1].file
        /\ pc \notin Dropping => todo[1].kind \in {"new", "changed"}
        /\ pc = "logdrop" => todo[1].kind = "changed"
        /\ pc \in Dropping => todo[1].kind \in {"gone", "changed"}
        /\ todo[1].kind # "gone" =>
              /\ cur.urn \in Urns
              /\ pc # "extract" => cur.text \in Texts /\ cur.text.profile = prof
              /\ pc \notin {"extract", "hash"} => cur.sha \in Contents
        /\ pc \in Adding => cur.entry \in Entries

\* What a pass still has to do, and what its state says of it.
Planned ==
    op = "sync" =>
        /\ NoTwice(todo)
        /\ \A j \in JobsIn(todo) : j.kind # "seed" /\ (j.kind = "new" <=> mem.files[j.file] = None)

Control ==
    /\ pc \in {"idle", "plan", "next", "seed", "saving", "stamp"} \union Treating
    /\ pc \in {"idle", "plan", "saving", "stamp"} => todo = << >>
    /\ pc = "idle" => cur = Nothing
    /\ pc # "idle" => prof \in Profiles /\ op \in {"sync", "seed"}
    /\ pc = "seed" => op = "seed"
    /\ pc \in {"plan", "stamp"} \union Treating => op = "sync"
    /\ pc = "stamp" => state = mem
    /\ op = "seed" /\ pc = "next" => todo = << >>
    /\ Known
    /\ Planned

Sound == Typed /\ Control

LEMMA TodoFacts ==
  ASSUME Typed, todo # << >>
  PROVE  /\ Len(todo) \in Nat /\ 1 \in 1..Len(todo)
         /\ Job = todo[1] /\ Job \in JobRecords /\ Job.file \in Files
         /\ Tail(todo) \in Seq(JobRecords)
         /\ Len(Tail(todo)) = Len(todo) - 1
         /\ \A i \in 1..(Len(todo) - 1) : i + 1 \in 1..Len(todo) /\ Tail(todo)[i] = todo[i + 1]
  <1>1. todo \in Seq(JobRecords)
    BY DEF Typed
  <1>2. Len(todo) \in Nat /\ 1 \in 1..Len(todo) /\ Head(todo) = todo[1] /\ todo[1] \in JobRecords
    BY <1>1
  <1>3. /\ Tail(todo) \in Seq(JobRecords)
        /\ Len(Tail(todo)) = Len(todo) - 1
        /\ \A i \in 1..(Len(todo) - 1) : Tail(todo)[i] = todo[i + 1]
    BY <1>1, HeadTailProperties
  <1>4. \A i \in 1..(Len(todo) - 1) : i + 1 \in 1..Len(todo)
    BY <1>2
  <1> QED
    BY <1>2, <1>3, <1>4 DEF Job, JobRecords
LEMMA PlanFacts ==
  ASSUME Typed, Plan
  PROVE  /\ todo' \in Seq(JobRecords)
         /\ NoTwice(todo')
         /\ JobsIn(todo') =
               {[file |-> f, kind |-> "gone"] : f \in GoneFiles(disk, mem.files)}
               \union {[file |-> f, kind |-> "new"] : f \in NewFiles(disk, mem.files)}
               \union {[file |-> f, kind |-> "changed"] : f \in ChangedFiles(disk, mem.files, force)}
  <1> DEFINE gone == GoneFiles(disk, mem.files)
             new == NewFiles(disk, mem.files)
             changed == ChangedFiles(disk, mem.files, force)
             g == Jobs(gone, "gone")
             n == Jobs(new, "new")
             c == Jobs(changed, "changed")
             Gone == {[file |-> f, kind |-> "gone"] : f \in gone}
             New == {[file |-> f, kind |-> "new"] : f \in new}
             Changed == {[file |-> f, kind |-> "changed"] : f \in changed}
  <1>1. gone \in SUBSET Files /\ new \in SUBSET Files /\ changed \in SUBSET Files
    BY DEF GoneFiles, NewFiles, ChangedFiles
  <1>2. /\ \A f \in gone, h \in new : f # h
        /\ \A f \in gone, h \in changed : f # h
        /\ \A f \in new, h \in changed : f # h
    BY DEF GoneFiles, NewFiles, ChangedFiles
  <1> HIDE DEF gone, new, changed
  <1>3. g \in Seq(JobRecords) /\ NoTwice(g) /\ JobsIn(g) = Gone
    BY <1>1, JobsFacts
  <1>4. n \in Seq(JobRecords) /\ NoTwice(n) /\ JobsIn(n) = New
    BY <1>1, JobsFacts
  <1>5. c \in Seq(JobRecords) /\ NoTwice(c) /\ JobsIn(c) = Changed
    BY <1>1, JobsFacts
  <1> HIDE DEF g, n, c, Gone, New, Changed
  <1>6. \A x \in JobsIn(g), y \in JobsIn(n) : x.file # y.file
    BY <1>2, <1>3, <1>4 DEF Gone, New
  <1>7. g \o n \in Seq(JobRecords) /\ NoTwice(g \o n) /\ JobsIn(g \o n) = Gone \union New
    BY <1>3, <1>4, <1>6, JobsTogether
  <1>8. \A x \in JobsIn(g \o n), y \in JobsIn(c) : x.file # y.file
    BY <1>2, <1>5, <1>7 DEF Gone, New, Changed
  <1>9. /\ (g \o n) \o c \in Seq(JobRecords) /\ NoTwice((g \o n) \o c)
        /\ JobsIn((g \o n) \o c) = (Gone \union New) \union Changed
    BY <1>5, <1>7, <1>8, JobsTogether
  <1>10. todo' = (g \o n) \o c
    BY DEF Plan, g, n, c, gone, new, changed
  <1> QED
    BY <1>9, <1>10 DEF gone, new, changed, Gone, New, Changed
\* The files still to be treated once the first one is done with.
LEMMA TailFacts ==
  ASSUME Typed, todo # << >>
  PROVE  /\ JobsIn(Tail(todo)) \subseteq JobsIn(todo)
         /\ NoTwice(todo) =>
               /\ NoTwice(Tail(todo))
               /\ JobsIn(Tail(todo)) = JobsIn(todo) \ {todo[1]}
               /\ \A j \in JobsIn(Tail(todo)) : j.file # todo[1].file
  <1> DEFINE n == Len(todo)
             t == Tail(todo)
  <1>1. /\ n \in Nat /\ 1 \in 1..n /\ Len(t) = n - 1
        /\ \A i \in 1..(n - 1) : i + 1 \in 1..n /\ t[i] = todo[i + 1]
    BY TodoFacts
  <1> HIDE DEF n, t
  <1>2. JobsIn(t) \subseteq JobsIn(todo)
    BY <1>1 DEF JobsIn, n
  <1>3. ASSUME NoTwice(todo), NEW i \in 1..(n - 1), NEW j \in 1..(n - 1), t[i].file = t[j].file
        PROVE  i = j
    <2>1. todo[i + 1].file = todo[j + 1].file
      BY <1>1, <1>3
    <2>2. i + 1 = j + 1
      BY <1>1, <1>3, <2>1 DEF NoTwice, n
    <2> QED
      BY <2>2
  <1>4. ASSUME NoTwice(todo), NEW j \in JobsIn(t) PROVE j.file # todo[1].file
    <2>1. PICK i \in 1..(n - 1) : j = t[i]
      BY <1>1 DEF JobsIn
    <2>2. j = todo[i + 1] /\ i + 1 # 1 /\ i + 1 \in 1..n
      BY <1>1, <2>1
    <2> QED
      BY <1>1, <1>4, <2>2 DEF NoTwice, n
  <1>5. ASSUME NEW j \in JobsIn(todo), j # todo[1] PROVE j \in JobsIn(t)
    <2>1. PICK i \in 1..n : j = todo[i]
      BY DEF JobsIn, n
    <2>2. i # 1 /\ i - 1 \in 1..(n - 1) /\ (i - 1) + 1 = i
      BY <1>1, <1>5, <2>1
    <2>3. j = t[i - 1]
      BY <1>1, <2>1, <2>2
    <2> QED
      BY <1>1, <2>2, <2>3 DEF JobsIn
  <1>6. NoTwice(todo) => NoTwice(t)
    BY <1>1, <1>3 DEF NoTwice
  <1> QED
    BY <1>2, <1>4, <1>5, <1>6 DEF t

LEMMA EmptyFacts == JobsIn(<< >>) = {} /\ NoTwice(<< >>)
  BY DEF JobsIn, NoTwice

LEMMA EntryOf ==
  ASSUME NEW f \in Files, NEW d \in Looks
  PROVE  /\ Urn(f, d.body) \in Urns
         /\ LegacyEntry(f, d) \in Entries
         /\ \A p \in Profiles : LegacyRow(f, d, p) \in Rows
  <1>1. Urn(f, d.body) \in Urns
    BY DEF Urn, Urns, Looks
  <1> QED
    BY <1>1 DEF LegacyEntry, LegacyRow, Entries, Rows, Texts, Looks

LEMMA EventTypes ==
  /\ \A f \in Files, r \in Rows, e \in Entries : Upserted(f, r, e) \in Events
  /\ \A f \in Files, u \in Urns : Removed(f, u) \in Events
  /\ \A f \in Files, e \in Entries : Seeded(f, e) \in Events
  /\ \A p \in Profiles : ProfileUpdated(p) \in Events
  /\ \A s \in Stores : Baseline(s) \in Events
  BY DEF Upserted, Removed, Seeded, ProfileUpdated, Baseline, Events

LEMMA TypedInit == Init => Typed
  <1> SUFFICES ASSUME Init PROVE Typed
    OBVIOUS
  <1>1. disk \in [Files -> {None} \union Looks]
    BY DEF Init, Looks
  <1>2. EmptyTables \in Tables /\ EmptyState \in Sheets
    BY EmptyTypes
  <1>3. tables \in Tables /\ state \in Sheets
    <2>1. CASE tables = EmptyTables /\ state = EmptyState
      BY <1>2, <2>1
    <2>2. CASE \E f \in Files, p \in Profiles :
                 /\ disk[f] # None
                 /\ tables = AppendSource(EmptyTables, f, LegacyRow(f, disk[f], p))
                 /\ state = [EmptyState EXCEPT !.files[f] = LegacyEntry(f, disk[f])]
      <3>1. PICK f \in Files, p \in Profiles :
                 /\ disk[f] # None
                 /\ tables = AppendSource(EmptyTables, f, LegacyRow(f, disk[f], p))
                 /\ state = [EmptyState EXCEPT !.files[f] = LegacyEntry(f, disk[f])]
        BY <2>2
      <3>2. disk[f] \in Looks
        BY <1>1, <3>1
      <3>3. LegacyRow(f, disk[f], p) \in Rows /\ LegacyEntry(f, disk[f]) \in Entries
        BY <3>2, EntryOf
      <3>4. AddClaims(EmptyTables, LegacyRow(f, disk[f], p)) \in Tables
        BY <1>2, <3>3, AddTypes, EntryOf, <3>2
      <3>5. AddFingerprint(AddClaims(EmptyTables, LegacyRow(f, disk[f], p)),
                           LegacyRow(f, disk[f], p)) \in Tables
        BY <3>2, <3>3, <3>4, AddTypes, EntryOf
      <3>6. tables \in Tables
        BY <3>1, <3>2, <3>3, <3>5, AddTypes, EntryOf DEF AppendSource
      <3>7. state \in Sheets
        BY <1>2, <3>1, <3>3 DEF Sheets
      <3> QED
        BY <3>6, <3>7
    <2> QED
      BY <2>1, <2>2 DEF Init
  <1>4. cur \in CurRecords
    BY DEF Init, Nothing, CurRecords
  <1>5. log \in Seq(Events) /\ todo \in Seq(JobRecords)
    BY DEF Init
  <1> QED
    BY <1>1, <1>2, <1>3, <1>4, <1>5 DEF Init, Typed
\* Appending an event keeps what the log says.
LEMMA AppendTypes ==
  ASSUME Typed, NEW e \in Events
  PROVE  Append(log, e) \in Seq(Events)
  BY DEF Typed

LEMMA ProfileLogged ==
  ASSUME Typed, Control, pc # "idle", LogProfile
  PROVE  /\ log' \in Seq(Events)
         /\ log' = log \/ log' = Append(log, ProfileUpdated(prof))
  <1>1. ProfileUpdated(prof) \in Events
    BY EventTypes DEF Control
  <1> QED
    BY <1>1, AppendTypes DEF LogProfile, Typed

LEMMA BootstrapTypes ==
  ASSUME Typed, state # None
  PROVE  Bootstrapped \in Seq(Events)
  <1>1. [tables |-> tables, state |-> state] \in Stores
    BY DEF Typed, Stores
  <1>2. Baseline([tables |-> tables, state |-> state]) \in Events
    BY <1>1, EventTypes
  <1> QED
    BY <1>2 DEF Bootstrapped, Typed

\* Skipping a file, failing it, and giving the pass up.
LEMMA SkipTypes ==
  ASSUME Typed, todo # << >>, Skip
  PROVE  todo' \in Seq(JobRecords) /\ cur' \in CurRecords /\ cur' = Nothing /\ pc' = "next"
  BY TodoFacts DEF Skip, Nothing, CurRecords

LEMMA ResetTypes ==
  ASSUME Reset
  PROVE  /\ todo' \in Seq(JobRecords) /\ cur' \in CurRecords /\ mem' \in Sheets
         /\ prof' \in Profiles \union {None} /\ force' \in BOOLEAN
         /\ pc' = "idle" /\ todo' = << >> /\ cur' = Nothing /\ mem' = EmptyState /\ op' = None
  <1>1. EmptyState \in Sheets
    BY EmptyTypes
  <1>2. Nothing \in CurRecords /\ << >> \in Seq(JobRecords)
    BY DEF Nothing, CurRecords
  <1> QED
    BY <1>1, <1>2 DEF Reset

LEMMA FailedTypes ==
  ASSUME Typed, todo # << >>, NEW mark, Failed(mark)
  PROVE  /\ todo' \in Seq(JobRecords) /\ cur' \in CurRecords
         /\ UNCHANGED <<disk, config, mem, prof, force, op>>
  BY SkipTypes DEF Failed, user, run

LEMMA PreserveTypes ==
  ASSUME Typed, Preserve
  PROVE  tables' \in Tables /\ UNCHANGED <<log, state>>
  <1>1. EmptyTables.fps \in [Urns -> Texts \union {None}]
    BY DEF EmptyTables
  <1> QED
    BY <1>1 DEF Preserve, Typed, Tables

LEMMA OldUrnType ==
  ASSUME Typed, Control, op = "sync", todo # << >>, todo[1].kind \in {"gone", "changed"}
  PROVE  OldUrn \in Urns /\ Job \in JobsIn(todo) /\ mem.files[Job.file] # None
  <1>1. Job = todo[1] /\ Job.file \in Files /\ Job \in JobsIn(todo)
    BY TodoFacts DEF JobsIn
  <1>2. mem.files[Job.file] # None
    BY <1>1 DEF Control, Planned
  <1>3. mem.files[Job.file] \in Entries
    BY <1>1, <1>2 DEF Typed, Sheets
  <1> QED
    BY <1>1, <1>2, <1>3 DEF OldUrn, Entries

LEMMA TypedStep == Sound /\ [Next]_vars => Typed'
  <1> SUFFICES ASSUME Sound, [Next]_vars PROVE Typed'
    OBVIOUS
  <1>0. Typed /\ Control
    BY DEF Sound
  <1> USE DEF user, store, run, history
  <1>1. CASE UNCHANGED vars
    BY <1>0, <1>1 DEF vars, Typed
  <1>2. ASSUME NEW f \in Files, Edit(f) \/ Delete(f) PROVE Typed'
    <2>1. disk' \in [Files -> {None} \union Looks]
      BY <1>0, <1>2 DEF Edit, Delete, Typed, Looks
    <2> QED
      BY <1>0, <1>2, <2>1 DEF Edit, Delete, Typed
  <1>3. ASSUME NEW p \in Profiles, Configure(p) PROVE Typed'
    BY <1>0, <1>3 DEF Configure, Typed
  <1>4. CASE Damage
    BY <1>0, <1>4 DEF Damage, Typed
  <1>5. CASE Crash
    BY <1>0, <1>5, ResetTypes DEF Crash, Stopped, Typed
  <1>6. ASSUME NEW forced \in BOOLEAN, Begin(forced) PROVE Typed'
    <2>1. Bootstrapped \in Seq(Events)
      BY <1>0, <1>6, BootstrapTypes DEF Begin
    <2> QED
      BY <1>0, <1>6, <2>1 DEF Begin, Typed
  <1>7. CASE BeginSeed
    <2>1. Bootstrapped \in Seq(Events)
      BY <1>0, <1>7, BootstrapTypes DEF BeginSeed
    <2>2. {f \in Files : disk[f] # None} \in SUBSET Files
      OBVIOUS
    <2>3. Jobs({f \in Files : disk[f] # None}, "seed") \in Seq(JobRecords)
      BY <2>2, JobsFacts
    <2> QED
      BY <1>0, <1>7, <2>1, <2>3 DEF BeginSeed, Typed
  <1>8. CASE Plan
    <2>1. todo' \in Seq(JobRecords)
      BY <1>0, <1>8, PlanFacts
    <2>2. log' \in Seq(Events)
      BY <1>0, <1>8, ProfileLogged DEF Plan
    <2> QED
      BY <1>0, <1>8, <2>1, <2>2 DEF Plan, Typed
  <1>9. CASE TakeGone
    <2>1. op = "sync"
      BY <1>0, <1>9, TodoFacts DEF TakeGone, Control
    <2>2. Job.file \in Files /\ OldUrn \in Urns
      BY <1>0, <1>9, <2>1, TodoFacts, OldUrnType DEF TakeGone
    <2>3. log' \in Seq(Events)
      BY <1>0, <1>9, <2>2, EventTypes, AppendTypes DEF TakeGone
    <2>4. cur' \in CurRecords
      BY <1>9, <2>2 DEF TakeGone, Nothing, CurRecords
    <2> QED
      BY <1>0, <1>9, <2>3, <2>4 DEF TakeGone, Typed
  <1>10. CASE TakeVanished
    BY <1>0, <1>10, FailedTypes DEF TakeVanished, Typed
  <1>11. CASE Identify
    <2>1. Job.file \in Files /\ disk[Job.file] \in Looks
      BY <1>0, <1>11, TodoFacts DEF Identify, Typed
    <2>2. Urn(Job.file, disk[Job.file].body) \in Urns
      BY <2>1, EntryOf
    <2>3. cur' \in CurRecords
      BY <1>11, <2>1, <2>2 DEF Identify, Nothing, CurRecords
    <2> QED
      BY <1>0, <1>11, <2>3 DEF Identify, Typed
  <1>12. ASSUME pc \in Treating PROVE cur.file \in Files /\ cur.file = Job.file /\ todo # << >>
    BY <1>0, <1>12, TodoFacts DEF Control, Known
  <1>13. CASE Extract
    <2>1. disk[cur.file] \in Looks /\ prof \in Profiles
      BY <1>0, <1>12, <1>13 DEF Extract, Typed, Control, Treating
    <2>2. cur' \in CurRecords
      BY <1>0, <1>13, <2>1 DEF Extract, CurRecords, Typed, Texts, Looks
    <2> QED
      BY <1>0, <1>13, <2>2 DEF Extract, Typed
  <1>14. CASE ExtractGone
    BY <1>0, <1>12, <1>14, FailedTypes DEF ExtractGone, Typed, Treating
  <1>15. CASE ExtractFail
    BY <1>0, <1>12, <1>15, FailedTypes DEF ExtractFail, Typed, Treating
  <1>16. CASE Hash
    <2>1. CASE disk[cur.file] # None
      <3>1. disk[cur.file] \in Looks
        BY <1>0, <1>12, <1>16, <2>1 DEF Hash, Typed, Treating
      <3>2. cur' \in CurRecords
        BY <1>0, <1>16, <2>1, <3>1 DEF Hash, Typed, CurRecords, Looks
      <3> QED
        BY <1>0, <1>16, <2>1, <3>2 DEF Hash, Typed
    <2>2. CASE disk[cur.file] = None
      BY <1>0, <1>16, <2>2, ResetTypes DEF Hash, Abort, Stopped, Typed
    <2> QED
      BY <2>1, <2>2
  <1>17. CASE LogDrop
    <2>1. cur.file \in Files /\ OldUrn \in Urns
      BY <1>0, <1>12, <1>17, OldUrnType DEF LogDrop, Control, Known, Treating
    <2>2. log' \in Seq(Events)
      BY <1>0, <1>17, <2>1, EventTypes, AppendTypes DEF LogDrop
    <2> QED
      BY <1>0, <1>17, <2>2 DEF LogDrop, Typed
  <1>18. ASSUME pc \in Dropping PROVE OldUrn \in Urns
    BY <1>0, <1>18, OldUrnType DEF Control, Known, Treating
  <1>19. CASE DropClaimsStep
    BY <1>0, <1>12, <1>18, <1>19, DropTypes DEF DropClaimsStep, Typed, Dropping, Treating
  <1>20. CASE DropFps
    <2>1. todo # << >> /\ OldUrn \in Urns
      BY <1>12, <1>18, <1>20 DEF DropFps, Treating, Dropping
    <2>2. CASE ~Preserve
      <3>1. tables' \in Tables
        <4>1. cur.file \in Files /\ tables \in Tables /\ tables' = DropFingerprint(tables, OldUrn)
          BY <1>0, <1>12, <1>20, <2>2 DEF DropFps, Dropping, Treating, Typed
        <4> QED
          BY <2>1, <4>1, DropTypes
      <3> QED
        BY <1>0, <1>20, <2>2, <3>1 DEF DropFps, Typed
    <2>3. CASE Preserve /\ unreadable
      <3>1. tables' \in Tables /\ UNCHANGED <<log, state>>
        BY <1>0, <2>3, PreserveTypes
      <3>2. CASE Stopped
        BY <1>0, <3>1, <3>2, ResetTypes DEF Stopped, Typed
      <3>3. CASE Failed({"failed"})
        BY <1>0, <2>1, <3>1, <3>3, FailedTypes DEF Typed
      <3> QED
        BY <1>20, <2>3, <3>2, <3>3 DEF DropFps
    <2> QED
      BY <2>2, <2>3 DEF Preserve
  <1>21. CASE DropSourceStep
    <2>1. tables' \in Tables /\ cur.file \in Files /\ todo # << >>
      <3>1. /\ cur.file \in Files /\ OldUrn \in Urns /\ todo # << >>
            /\ tables' = DropSource(tables, cur.file)
        BY <1>12, <1>18, <1>21 DEF DropSourceStep, Dropping, Treating
      <3>2. tables \in Tables
        BY <1>0 DEF Typed
      <3> QED
        BY <3>1, <3>2, DropTypes
    <2>2. CASE Job.kind = "gone"
      <3>1. Skip /\ mem' = [mem EXCEPT !.files[cur.file] = None]
        BY <1>21, <2>2 DEF DropSourceStep
      <3>2. mem' \in Sheets
        BY <1>0, <2>1, <3>1 DEF Typed, Sheets
      <3>3. todo' \in Seq(JobRecords) /\ cur' \in CurRecords
        BY <1>0, <2>1, <3>1, SkipTypes
      <3> QED
        BY <1>0, <1>21, <2>1, <3>2, <3>3 DEF DropSourceStep, Typed
    <2>3. CASE Job.kind = "changed"
      BY <1>0, <1>21, <2>1, <2>3 DEF DropSourceStep, Typed
    <2> QED
      BY <1>21, <2>2, <2>3 DEF DropSourceStep
  <1>22. CASE LogUpsert
    <2>1. /\ cur.file \in Files /\ disk[cur.file] \in Looks /\ todo[1].kind # "gone"
          /\ cur.urn \in Urns /\ cur.text \in Texts /\ cur.sha \in Contents
      BY <1>0, <1>12, <1>22 DEF LogUpsert, Typed, Control, Known, Dropping, Treating
    <2> DEFINE e == [sha |-> cur.sha, stamp |-> disk[cur.file].stamp, urn |-> cur.urn,
                     seeded |-> FALSE]
               r == [urn |-> cur.urn, text |-> cur.text]
    <2>2. e \in Entries /\ r \in Rows
      BY <2>1 DEF Entries, Rows, Looks
    <2>3. log' = Append(log, Upserted(cur.file, r, e)) /\ cur'.entry = e
      BY <1>0, <1>22 DEF LogUpsert, Typed, CurRecords
    <2>4. cur' \in CurRecords
      BY <1>0, <1>22, <2>2 DEF LogUpsert, Typed, CurRecords
    <2> HIDE DEF e, r
    <2>5. log' \in Seq(Events)
      BY <1>0, <2>1, <2>2, <2>3, EventTypes, AppendTypes
    <2> QED
      BY <1>0, <1>22, <2>4, <2>5 DEF LogUpsert, Typed
  <1>23. CASE StatFail
    BY <1>0, <1>12, <1>23, FailedTypes DEF StatFail, Typed, Treating
  <1>24. ASSUME pc \in Adding
         PROVE  cur.file \in Files /\ NewRow \in Rows /\ cur.entry \in Entries /\ todo # << >>
    BY <1>0, <1>12, <1>24 DEF Control, Known, Adding, Dropping, Treating, NewRow, Rows
  <1>25. CASE AppendClaims
    <2>1. todo # << >> /\ NewRow \in Rows /\ NewRow.urn \in Urns /\ cur.file \in Files
      BY <1>24, <1>25 DEF AppendClaims, Adding, Rows
    <2>2. CASE ~Preserve
      <3>1. tables' \in Tables
        BY <1>0, <1>25, <2>1, <2>2, AddTypes DEF AppendClaims, Typed
      <3> QED
        BY <1>0, <1>25, <2>2, <3>1 DEF AppendClaims, Typed
    <2>3. CASE Preserve /\ unreadable
      <3>1. tables' \in Tables /\ UNCHANGED <<log, state>>
        BY <1>0, <2>3, PreserveTypes
      <3>2. Failed({"failed"})
        BY <1>25, <2>3 DEF AppendClaims
      <3> QED
        BY <1>0, <2>1, <3>1, <3>2, FailedTypes DEF Typed
    <2> QED
      BY <2>2, <2>3 DEF Preserve
  <1>26. CASE WriteFps
    <2>1. NewRow \in Rows /\ NewRow.urn \in Urns /\ cur.file \in Files
      BY <1>24, <1>26 DEF WriteFps, Adding, Rows
    <2> QED
      BY <1>0, <1>26, <2>1, AddTypes DEF WriteFps, Typed
  <1>27. CASE WriteSource
    <2>1. /\ NewRow \in Rows /\ NewRow.urn \in Urns /\ cur.file \in Files
          /\ cur.entry \in Entries /\ todo # << >>
      BY <1>24, <1>27 DEF WriteSource, Adding, Rows
    <2>2. tables' \in Tables
      BY <1>0, <1>27, <2>1, AddTypes DEF WriteSource, Typed
    <2>3. mem' \in Sheets
      BY <1>0, <1>27, <2>1 DEF WriteSource, Typed, Sheets
    <2> QED
      BY <1>0, <1>27, <2>1, <2>2, <2>3, SkipTypes DEF WriteSource, Typed
  <1>28. CASE Seed
    <2>1. Job.file \in Files /\ todo # << >> /\ Tail(todo) \in Seq(JobRecords)
      BY <1>0, <1>28, TodoFacts DEF Seed
    <2>2. CASE disk[Job.file] # None
      <3> DEFINE d == disk[Job.file]
                 e == [sha |-> d.body, stamp |-> d.stamp, urn |-> Urn(Job.file, d.body),
                       seeded |-> TRUE]
      <3>1. e \in Entries
        BY <1>0, <2>1, <2>2, EntryOf DEF Typed, Entries, Looks
      <3>2. /\ log' = log \/ log' = Append(log, Seeded(Job.file, e))
            /\ mem' = [mem EXCEPT !.files[Job.file] = e]
            /\ todo' = Tail(todo)
            /\ UNCHANGED <<disk, config, tables, state, prof, force, cur>>
        BY <1>28, <2>2 DEF Seed
      <3> HIDE DEF e
      <3>3. log' \in Seq(Events)
        BY <1>0, <2>1, <3>1, <3>2, EventTypes, AppendTypes DEF Typed
      <3>4. mem' \in Sheets
        BY <1>0, <2>1, <3>1, <3>2 DEF Typed, Sheets
      <3> QED
        BY <1>0, <2>1, <3>2, <3>3, <3>4 DEF Typed
    <2>3. CASE disk[Job.file] = None
      BY <1>0, <1>28, <2>3, ResetTypes DEF Seed, Abort, Stopped, Typed
    <2> QED
      BY <2>2, <2>3
  <1>29. CASE SeedDone
    <2>1. log' \in Seq(Events)
      BY <1>0, <1>29, ProfileLogged DEF SeedDone
    <2> QED
      BY <1>0, <1>29, <2>1 DEF SeedDone, Typed
  <1>30. CASE SaveOpen
    <2>1. mem' \in Sheets
      BY <1>0, <1>30 DEF SaveOpen, Typed, Sheets, Control
    <2> QED
      BY <1>0, <1>30, <2>1 DEF SaveOpen, Typed
  <1>31. CASE SaveWrite
    BY <1>0, <1>31, ResetTypes DEF SaveWrite, Typed
  <1>32. CASE Stamp
    BY <1>0, <1>32, ResetTypes DEF Stamp, Typed
  <1> QED
    BY <1>1, <1>2, <1>3, <1>4, <1>5, <1>6, <1>7, <1>8, <1>9, <1>10, <1>11, <1>13, <1>14, <1>15,
       <1>16, <1>17, <1>19, <1>20, <1>21, <1>22, <1>23, <1>25, <1>26, <1>27, <1>28, <1>29, <1>30,
       <1>31, <1>32 DEF Next, Step

LEMMA ResetControl ==
  ASSUME Reset
  PROVE  Control'
  <1>1. pc' = "idle" /\ todo' = << >> /\ cur' = Nothing /\ op' = None
    BY ResetTypes
  <1>2. Known' /\ Planned'
    BY <1>1, EmptyFacts DEF Known, Planned, Treating, Dropping, Adding
  <1> QED
    BY <1>1, <1>2 DEF Control, Treating, Dropping, Adding

LEMMA SkipControl ==
  ASSUME Sound, pc \in {"next"} \union Treating, op = "sync", todo # << >>, Skip,
         UNCHANGED <<op, prof>>,
         \A f \in Files : f # Job.file => mem'.files[f] = mem.files[f]
  PROVE  Control'
  <1>1. todo' = Tail(todo) /\ pc' = "next" /\ prof' \in Profiles /\ op' = "sync"
    BY DEF Skip, Sound, Control, Treating, Dropping, Adding
  <1>2. Job = todo[1] /\ Tail(todo) \in Seq(JobRecords)
    BY TodoFacts DEF Sound
  <1>3. /\ NoTwice(Tail(todo)) /\ JobsIn(Tail(todo)) = JobsIn(todo) \ {todo[1]}
        /\ \A j \in JobsIn(Tail(todo)) : j.file # todo[1].file
    BY TailFacts DEF Sound, Control, Planned
  <1>4. \A j \in JobsIn(Tail(todo)) : j.file \in Files
    <2>1. \A i \in 1..Len(Tail(todo)) : Tail(todo)[i] \in JobRecords
      BY <1>2
    <2> QED
      BY <2>1 DEF JobsIn, JobRecords
  <1>5. Planned'
    BY <1>1, <1>2, <1>3, <1>4 DEF Planned, Sound, Control
  <1> QED
    BY <1>1, <1>5 DEF Control, Known, Treating, Dropping, Adding

LEMMA ControlInit == Init => Control
  BY EmptyFacts DEF Init, Control, Known, Planned, Treating, Dropping, Adding, Nothing

LEMMA ControlStep == Sound /\ [Next]_vars => Control'
  <1> SUFFICES ASSUME Sound, [Next]_vars PROVE Control'
    OBVIOUS
  <1>0. Typed /\ Control
    BY DEF Sound
  <1> USE DEF user, store, run, history, Treating, Dropping, Adding
  <1>1. CASE UNCHANGED vars
    BY <1>0, <1>1 DEF vars, Control, Known, Planned
  <1>2. ASSUME NEW f \in Files, Edit(f) \/ Delete(f) PROVE Control'
    BY <1>0, <1>2 DEF Edit, Delete, Control, Known, Planned
  <1>3. ASSUME NEW p \in Profiles, Configure(p) PROVE Control'
    BY <1>0, <1>3 DEF Configure, Control, Known, Planned
  <1>4. CASE Damage
    BY <1>0, <1>4 DEF Damage, Control, Known, Planned
  <1>5. CASE Crash
    BY <1>5, ResetControl DEF Crash, Stopped
  <1>6. ASSUME NEW forced \in BOOLEAN, Begin(forced) PROVE Control'
    BY <1>0, <1>6, EmptyFacts DEF Begin, Control, Known, Planned, Typed
  <1>7. CASE BeginSeed
    BY <1>0, <1>7 DEF BeginSeed, Control, Known, Planned, Typed
  <1>8. CASE Plan
    <2>1. /\ NoTwice(todo')
          /\ JobsIn(todo') =
               {[file |-> f, kind |-> "gone"] : f \in GoneFiles(disk, mem.files)}
               \union {[file |-> f, kind |-> "new"] : f \in NewFiles(disk, mem.files)}
               \union {[file |-> f, kind |-> "changed"] : f \in ChangedFiles(disk, mem.files, force)}
      BY <1>0, <1>8, PlanFacts
    <2>2. \A j \in JobsIn(todo') : j.kind # "seed" /\ (j.kind = "new" <=> mem.files[j.file] = None)
      BY <2>1 DEF GoneFiles, NewFiles, ChangedFiles
    <2>3. pc' = "next" /\ op = "sync" /\ UNCHANGED <<op, prof, mem>>
      BY <1>0, <1>8 DEF Plan, Control
    <2>4. Planned'
      BY <2>1, <2>2, <2>3 DEF Planned
    <2> QED
      BY <1>0, <1>8, <2>3, <2>4 DEF Plan, Control, Known
  <1>9. CASE TakeGone
    <2>1. op = "sync" /\ Job = todo[1] /\ Job.file \in Files
      BY <1>0, <1>9, TodoFacts DEF TakeGone, Control
    <2>2. cur'.file = todo[1].file
      BY <1>9, <2>1 DEF TakeGone, Nothing
    <2> QED
      BY <1>0, <1>9, <2>1, <2>2 DEF TakeGone, Control, Known, Planned
  <1>10. CASE TakeVanished
    <2>1. op = "sync"
      BY <1>0, <1>10, TodoFacts DEF TakeVanished, Control
    <2> QED
      BY <1>10, <2>1, SkipControl DEF TakeVanished, Failed
  <1>11. CASE Identify
    <2>1. op = "sync" /\ Job = todo[1] /\ Job.file \in Files /\ disk[Job.file] \in Looks
      BY <1>0, <1>11, TodoFacts DEF Identify, Control, Typed
    <2>2. Urn(Job.file, disk[Job.file].body) \in Urns
      BY <2>1, EntryOf
    <2>3. cur'.file = todo[1].file /\ cur'.urn \in Urns
      BY <1>11, <2>1, <2>2 DEF Identify, Nothing
    <2> QED
      BY <1>0, <1>11, <2>1, <2>3 DEF Identify, Control, Known, Planned
  <1>12. ASSUME pc \in Treating
         PROVE  cur.file \in Files /\ cur.file = Job.file /\ Job = todo[1] /\ todo # << >> /\ op = "sync"
    BY <1>0, <1>12, TodoFacts DEF Control, Known
  <1>13. CASE Extract
    <2>1. disk[cur.file] \in Looks /\ prof \in Profiles
      BY <1>0, <1>12, <1>13 DEF Extract, Typed, Control
    <2> DEFINE x == [body |-> disk[cur.file].body, profile |-> prof]
    <2>2. x \in Texts /\ x.profile = prof
      BY <2>1 DEF Texts, Looks
    <2>3. cur' = [cur EXCEPT !.text = x]
      BY <1>13 DEF Extract
    <2> HIDE DEF x
    <2>4. cur'.file = cur.file /\ cur'.urn = cur.urn /\ cur'.text = x
      BY <1>0, <2>3 DEF Typed, CurRecords
    <2> QED
      BY <1>0, <1>13, <2>2, <2>4 DEF Extract, Control, Known, Planned
  <1>14. CASE ExtractGone
    BY <1>12, <1>14, SkipControl DEF ExtractGone, Failed
  <1>15. CASE ExtractFail
    BY <1>12, <1>15, SkipControl DEF ExtractFail, Failed
  <1>16. CASE Hash
    <2>1. CASE disk[cur.file] # None
      <3>1. disk[cur.file].body \in Contents
        BY <1>0, <1>12, <1>16, <2>1 DEF Hash, Typed, Looks
      <3>2. cur'.file = cur.file /\ cur'.urn = cur.urn /\ cur'.text = cur.text /\ cur'.sha \in Contents
        BY <1>0, <1>16, <2>1, <3>1 DEF Hash, Typed, CurRecords
      <3> QED
        BY <1>0, <1>12, <1>16, <2>1, <3>2 DEF Hash, Control, Known, Planned
    <2>2. CASE disk[cur.file] = None
      BY <1>16, <2>2, ResetControl DEF Hash, Abort, Stopped
    <2> QED
      BY <2>1, <2>2
  <1>17. CASE LogDrop
    BY <1>0, <1>17 DEF LogDrop, Control, Known, Planned
  <1>19. CASE DropClaimsStep
    BY <1>0, <1>19 DEF DropClaimsStep, Control, Known, Planned
  <1>20. CASE DropFps
    <2>1. CASE UNCHANGED <<user, log, unreadable, state, version, run, mem, todo, cur, history>>
               /\ pc' = "dropsource"
      BY <1>0, <1>20, <2>1 DEF DropFps, Control, Known, Planned
    <2>2. CASE Stopped
      BY <2>2, ResetControl DEF Stopped
    <2>3. CASE Failed({"failed"})
      BY <1>12, <1>20, <2>3, SkipControl DEF DropFps, Failed
    <2> QED
      BY <1>20, <2>1, <2>2, <2>3 DEF DropFps
  <1>21. CASE DropSourceStep
    <2>1. CASE Job.kind = "gone"
      <3>1. \A f \in Files : f # Job.file => mem'.files[f] = mem.files[f]
        BY <1>0, <1>12, <1>21, <2>1 DEF DropSourceStep, Typed, Sheets
      <3> QED
        BY <1>12, <1>21, <2>1, <3>1, SkipControl DEF DropSourceStep
    <2>2. CASE Job.kind = "changed"
      BY <1>0, <1>12, <1>21, <2>2 DEF DropSourceStep, Control, Known, Planned
    <2> QED
      BY <1>21, <2>1, <2>2 DEF DropSourceStep
  <1>22. CASE LogUpsert
    <2>1. /\ cur.file \in Files /\ disk[cur.file] \in Looks /\ todo[1].kind # "gone"
          /\ cur.urn \in Urns /\ cur.text \in Texts /\ cur.sha \in Contents
      BY <1>0, <1>12, <1>22 DEF LogUpsert, Typed, Control, Known
    <2> DEFINE e == [sha |-> cur.sha, stamp |-> disk[cur.file].stamp, urn |-> cur.urn,
                     seeded |-> FALSE]
    <2>2. e \in Entries
      BY <2>1 DEF Entries, Looks
    <2>3. /\ cur'.entry = e /\ cur'.file = cur.file /\ cur'.urn = cur.urn
          /\ cur'.text = cur.text /\ cur'.sha = cur.sha
      BY <1>0, <1>22 DEF LogUpsert, Typed, CurRecords
    <2> HIDE DEF e
    <2> QED
      BY <1>0, <1>22, <2>1, <2>2, <2>3 DEF LogUpsert, Control, Known, Planned
  <1>23. CASE StatFail
    BY <1>12, <1>23, SkipControl DEF StatFail, Failed
  <1>25. CASE AppendClaims
    <2>1. CASE Failed({"failed"})
      BY <1>12, <1>25, <2>1, SkipControl DEF AppendClaims, Failed
    <2>2. CASE ~Failed({"failed"})
      BY <1>0, <1>25, <2>2 DEF AppendClaims, Control, Known, Planned
    <2> QED
      BY <2>1, <2>2
  <1>26. CASE WriteFps
    BY <1>0, <1>26 DEF WriteFps, Control, Known, Planned
  <1>27. CASE WriteSource
    <2>1. \A f \in Files : f # Job.file => mem'.files[f] = mem.files[f]
      BY <1>0, <1>12, <1>27 DEF WriteSource, Typed, Sheets
    <2> QED
      BY <1>12, <1>27, <2>1, SkipControl DEF WriteSource
  <1>28. CASE Seed
    BY <1>0, <1>28, ResetControl DEF Seed, Abort, Stopped, Control, Known, Planned
  <1>29. CASE SeedDone
    BY <1>0, <1>29 DEF SeedDone, Control, Known, Planned
  <1>30. CASE SaveOpen
    BY <1>0, <1>30, EmptyFacts DEF SaveOpen, Control, Known, Planned
  <1>31. CASE SaveWrite
    BY <1>0, <1>31, ResetControl, EmptyFacts DEF SaveWrite, Control, Known, Planned
  <1>32. CASE Stamp
    BY <1>32, ResetControl DEF Stamp
  <1> QED
    BY <1>1, <1>2, <1>3, <1>4, <1>5, <1>6, <1>7, <1>8, <1>9, <1>10, <1>11, <1>13, <1>14, <1>15,
       <1>16, <1>17, <1>19, <1>20, <1>21, <1>22, <1>23, <1>25, <1>26, <1>27, <1>28, <1>29, <1>30,
       <1>31, <1>32 DEF Next, Step

\* Every reachable state is well typed, and a pass is where its control says.
THEOREM PassesSound == Spec => []Sound
  <1>1. Init => Sound
    BY TypedInit, ControlInit DEF Sound
  <1>2. Sound /\ [Next]_vars => Sound'
    BY TypedStep, ControlStep DEF Sound
  <1> QED
    BY <1>1, <1>2, PTL DEF Spec

----------------------------------------------------------------------------
(* What the log says last of an object.                                    *)

LEMMA Objects ==
  /\ \A f \in Files : f # "sync.profile.updated" /\ f # "projection.baseline"
  /\ \A f, r, e : Object(Upserted(f, r, e)) = f
  /\ \A f, u : Object(Removed(f, u)) = f
  /\ \A f, e : Object(Seeded(f, e)) = f
  /\ \A p : Object(ProfileUpdated(p)) = "sync.profile.updated"
  /\ \A s : Object(Baseline(s)) = "projection.baseline"
  BY FilesAssumption DEF Object, Upserted, Removed, Seeded, ProfileUpdated, Baseline

LEMMA AppendFacts ==
  ASSUME NEW s \in Seq(Events), NEW e \in Events
  PROVE  /\ Append(s, e) \in Seq(Events) /\ Append(s, e) # << >>
         /\ Len(s) \in Nat /\ Len(Append(s, e)) = Len(s) + 1
         /\ DOMAIN s = 1..Len(s) /\ DOMAIN Append(s, e) = 1..(Len(s) + 1)
         /\ \A i \in 1..Len(s) : Append(s, e)[i] = s[i]
         /\ Append(s, e)[Len(s) + 1] = e
  OBVIOUS

LEMMA CurrentKept ==
  ASSUME NEW s \in Seq(Events), NEW e \in Events, NEW x,
         IsCurrent(s, x), Object(e) # Object(x)
  PROVE  IsCurrent(Append(s, e), x)
  <1> DEFINE t == Append(s, e)
             n == Len(s)
  <1>1. /\ n \in Nat /\ Len(t) = n + 1 /\ DOMAIN s = 1..n /\ DOMAIN t = 1..(n + 1)
        /\ \A i \in 1..n : t[i] = s[i]
        /\ t[n + 1] = e
    BY AppendFacts
  <1> HIDE DEF t
  <1>2. PICK i \in 1..n : s[i] = x /\ \A j \in (i + 1)..n : Object(s[j]) # Object(x)
    BY <1>1 DEF IsCurrent
  <1>3. i \in 1..(n + 1) /\ t[i] = x
    BY <1>1, <1>2
  <1>4. ASSUME NEW j \in (i + 1)..(n + 1) PROVE Object(t[j]) # Object(x)
    <2>1. CASE j = n + 1
      BY <1>1, <2>1
    <2>2. CASE j # n + 1
      <3>1. j \in (i + 1)..n /\ j \in 1..n
        BY <1>1, <2>2
      <3> QED
        BY <1>1, <1>2, <3>1
    <2> QED
      BY <2>1, <2>2
  <1> QED
    BY <1>1, <1>3, <1>4 DEF IsCurrent, t

LEMMA CurrentNow ==
  ASSUME NEW s \in Seq(Events), NEW e \in Events
  PROVE  IsCurrent(Append(s, e), e)
  <1> DEFINE t == Append(s, e)
             n == Len(s)
  <1>1. /\ n \in Nat /\ Len(t) = n + 1 /\ DOMAIN t = 1..(n + 1) /\ t[n + 1] = e
    BY AppendFacts
  <1> HIDE DEF t
  <1>2. n + 1 \in 1..(n + 1) /\ ((n + 1) + 1)..(n + 1) = {}
    BY <1>1
  <1> QED
    BY <1>1, <1>2 DEF IsCurrent, t

LEMMA CurrentBefore ==
  ASSUME NEW s \in Seq(Events), NEW e \in Events, NEW x, IsCurrent(Append(s, e), x)
  PROVE  e = x \/ (Object(e) # Object(x) /\ IsCurrent(s, x))
  <1> DEFINE t == Append(s, e)
             n == Len(s)
  <1>1. /\ n \in Nat /\ Len(t) = n + 1 /\ DOMAIN s = 1..n /\ DOMAIN t = 1..(n + 1)
        /\ \A i \in 1..n : t[i] = s[i]
        /\ t[n + 1] = e
    BY AppendFacts
  <1> HIDE DEF t
  <1>2. PICK i \in 1..(n + 1) : t[i] = x /\ \A j \in (i + 1)..(n + 1) : Object(t[j]) # Object(x)
    BY <1>1 DEF IsCurrent, t
  <1>3. CASE i = n + 1
    BY <1>1, <1>2, <1>3
  <1>4. CASE i # n + 1
    <2>1. i \in 1..n /\ s[i] = x /\ n + 1 \in (i + 1)..(n + 1)
      BY <1>1, <1>2, <1>4
    <2>2. Object(e) # Object(x)
      BY <1>1, <1>2, <2>1
    <2>3. ASSUME NEW j \in (i + 1)..n PROVE Object(s[j]) # Object(x)
      <3>1. j \in 1..n /\ j \in (i + 1)..(n + 1)
        BY <1>1, <2>1
      <3> QED
        BY <1>1, <1>2, <3>1
    <2> QED
      BY <1>1, <2>1, <2>2, <2>3 DEF IsCurrent
  <1> QED
    BY <1>3, <1>4

LEMMA NothingCurrent == \A x : ~IsCurrent(<< >>, x)
  BY DEF IsCurrent

----------------------------------------------------------------------------
(* Nothing left.                                                           *)

\* The files a pass still has to treat.
Pending == {j.file : j \in JobsIn(todo)}

Settled(f) ==
    /\ disk[f] = None <=> mem.files[f] = None
    /\ disk[f] # None => disk[f].stamp = mem.files[f].stamp \/ disk[f].body = mem.files[f].sha

Quiet ==
    last = "running" /\ calm =>
        /\ pc # "idle" /\ op = "sync" /\ prof = config
        /\ pc # "plan" =>
              /\ IsCurrent(log, ProfileUpdated(prof))
              /\ \A f \in Files \ Pending : Settled(f)
        /\ \A j \in JobsIn(todo) : j.kind = "gone" <=> disk[j.file] = None
        /\ pc \in {"logdrop", "stat"} \union Dropping /\ Job.kind # "gone" =>
              cur.sha = disk[cur.file].body
        /\ pc \in Adding => cur.entry.sha = disk[cur.file].body
        /\ pc \in {"saving", "stamp"} => mem.profile = prof

QuietInv == /\ Quiet
            /\ NothingLeft
            /\ last = "clean" => pc = "idle"

LEMMA PendingTail ==
  ASSUME Sound, op = "sync", todo # << >>, todo' = Tail(todo)
  PROVE  /\ JobsIn(todo') \subseteq JobsIn(todo)
         /\ Pending' = Pending \ {Job.file}
         /\ todo[1] \in JobsIn(todo) /\ Job = todo[1] /\ Job.file \in Files
  <1>1. Job = todo[1] /\ Job.file \in Files /\ todo[1] \in JobsIn(todo)
    BY TodoFacts DEF Sound, JobsIn
  <1>2. /\ JobsIn(Tail(todo)) = JobsIn(todo) \ {todo[1]}
        /\ \A j \in JobsIn(Tail(todo)) : j.file # todo[1].file
    BY TailFacts DEF Sound, Control, Planned
  <1> QED
    BY <1>1, <1>2 DEF Pending

\* One file less to treat, and nothing else changed.
LEMMA QuietSkip ==
  ASSUME Sound, Quiet, last = "running", calm, Skip, todo # << >>,
         pc # "plan",
         UNCHANGED <<op, prof, config, disk, log, last, calm>>,
         \A f \in Files : f # Job.file => mem'.files[f] = mem.files[f],
         disk[Job.file] = None <=> mem'.files[Job.file] = None,
         disk[Job.file] # None =>
            \/ disk[Job.file].stamp = mem'.files[Job.file].stamp
            \/ disk[Job.file].body = mem'.files[Job.file].sha
  PROVE  Quiet'
  <1>1. op = "sync" /\ todo' = Tail(todo) /\ pc' = "next"
    BY DEF Quiet, Skip
  <1>2. /\ JobsIn(todo') \subseteq JobsIn(todo)
        /\ Pending' = Pending \ {Job.file}
        /\ Job.file \in Files
    BY <1>1, PendingTail
  <1>3. ASSUME NEW f \in Files \ Pending' PROVE Settled(f)'
    <2>1. CASE f = Job.file
      BY <2>1 DEF Settled
    <2>2. CASE f # Job.file
      <3>1. Settled(f)
        BY <1>2, <2>2 DEF Quiet
      <3> QED
        BY <2>2, <3>1 DEF Settled
    <2> QED
      BY <2>1, <2>2
  <1>4. IsCurrent(log, ProfileUpdated(prof))' /\ prof = config
    BY DEF Quiet
  <1>5. \A j \in JobsIn(todo') : j.kind = "gone" <=> disk'[j.file] = None
    BY <1>2 DEF Quiet
  <1> QED
    BY <1>1, <1>3, <1>4, <1>5 DEF Quiet, Dropping, Adding

LEMMA QuietStep == Sound /\ Quiet /\ [Next]_vars => Quiet'
  <1> SUFFICES ASSUME Sound, Quiet, [Next]_vars, last' = "running", calm' PROVE Quiet'
    BY DEF Quiet
  <1>0. Typed /\ Control
    BY DEF Sound
  <1> USE DEF user, store, run, history, Treating, Dropping, Adding
  <1>1. CASE UNCHANGED vars
    BY <1>1 DEF vars, Quiet, Settled, Pending, Job, IsCurrent
  <1>2. ASSUME NEW f \in Files, Edit(f) \/ Delete(f) PROVE Quiet'
    BY <1>2 DEF Edit, Delete
  <1>3. ASSUME NEW p \in Profiles, Configure(p) PROVE Quiet'
    BY <1>3 DEF Configure
  <1>4. CASE Damage
    BY <1>4 DEF Damage, Quiet
  <1>5. CASE Crash
    BY <1>5 DEF Crash, Stopped
  <1>6. ASSUME NEW forced \in BOOLEAN, Begin(forced) PROVE Quiet'
    BY <1>0, <1>6, EmptyFacts DEF Begin, Quiet, Control
  <1>7. CASE BeginSeed
    BY <1>7 DEF BeginSeed
  <1>8. CASE Plan
    <2>1. JobsIn(todo') =
               {[file |-> f, kind |-> "gone"] : f \in GoneFiles(disk, mem.files)}
               \union {[file |-> f, kind |-> "new"] : f \in NewFiles(disk, mem.files)}
               \union {[file |-> f, kind |-> "changed"] : f \in ChangedFiles(disk, mem.files, force)}
      BY <1>0, <1>8, PlanFacts
    <2>2. \A j \in JobsIn(todo') : j.kind = "gone" <=> disk[j.file] = None
      BY <2>1 DEF GoneFiles, NewFiles, ChangedFiles
    <2>3. Pending' = GoneFiles(disk, mem.files) \union NewFiles(disk, mem.files)
                     \union ChangedFiles(disk, mem.files, force)
      <3> DEFINE G == GoneFiles(disk, mem.files)
                 N == NewFiles(disk, mem.files)
                 C == ChangedFiles(disk, mem.files, force)
                 J == JobsIn(todo')
      <3>1. J = {[file |-> f, kind |-> "gone"] : f \in G}
                \union {[file |-> f, kind |-> "new"] : f \in N}
                \union {[file |-> f, kind |-> "changed"] : f \in C}
        BY <2>1
      <3>2. Pending' = {j.file : j \in J}
        BY DEF Pending
      <3> HIDE DEF G, N, C, J
      <3>3. ASSUME NEW f \in G PROVE \E j \in J : j.file = f
        <4>1. [file |-> f, kind |-> "gone"] \in J
          BY <3>1
        <4> QED
          BY <4>1
      <3>4. ASSUME NEW f \in N PROVE \E j \in J : j.file = f
        <4>1. [file |-> f, kind |-> "new"] \in J
          BY <3>1
        <4> QED
          BY <4>1
      <3>5. ASSUME NEW f \in C PROVE \E j \in J : j.file = f
        <4>1. [file |-> f, kind |-> "changed"] \in J
          BY <3>1
        <4> QED
          BY <4>1
      <3>6. \A j \in J : j.file \in G \union N \union C
        BY <3>1
      <3> QED
        BY <3>2, <3>3, <3>4, <3>5, <3>6 DEF G, N, C
    <2>4. \A f \in Files \ Pending' : Settled(f)
      BY <2>3 DEF Settled, GoneFiles, NewFiles, ChangedFiles
    <2>5. IsCurrent(log, ProfileUpdated(prof))'
      <3>1. ProfileUpdated(prof) \in Events
        BY <1>0, <1>8, EventTypes DEF Plan, Control
      <3>2. log \in Seq(Events) /\ prof' = prof
        BY <1>0, <1>8 DEF Typed, Plan
      <3> QED
        BY <1>8, <3>1, <3>2, CurrentNow DEF Plan, LogProfile
    <2>6. pc' = "next" /\ UNCHANGED <<op, prof, config, mem, disk>> /\ last = "running" /\ calm
      BY <1>8 DEF Plan
    <2>7. \A f \in Files \ Pending' : Settled(f)'
      BY <2>4, <2>6 DEF Settled
    <2> QED
      BY <2>2, <2>5, <2>6, <2>7 DEF Quiet
  <1>9. CASE TakeGone
    <2>1. op = "sync" /\ Job = todo[1] /\ Job.file \in Files
      BY <1>0, <1>9, TodoFacts DEF TakeGone, Control
    <2>2. OldUrn \in Urns
      BY <1>0, <1>9, <2>1, OldUrnType DEF TakeGone
    <2>3. IsCurrent(log, ProfileUpdated(prof))'
      BY <1>0, <1>9, <2>1, <2>2, EventTypes, Objects, CurrentKept DEF TakeGone, Quiet, Typed
    <2> QED
      BY <1>9, <2>3 DEF TakeGone, Quiet, Settled, Pending, Job
  <1>10. CASE TakeVanished
    BY <1>10 DEF TakeVanished, Failed
  <1>11. CASE Identify
    BY <1>11 DEF Identify, Quiet, Settled, Pending, IsCurrent, Job
  <1>12. ASSUME pc \in Treating
         PROVE  cur.file \in Files /\ cur.file = Job.file /\ Job = todo[1] /\ todo # << >>
                /\ op = "sync" /\ Job \in JobsIn(todo)
    BY <1>0, <1>12, TodoFacts DEF Control, Known, JobsIn
  <1>13. CASE Extract
    BY <1>13 DEF Extract, Quiet, Settled, Pending, IsCurrent, Job
  <1>14. CASE ExtractGone
    BY <1>14 DEF ExtractGone, Failed
  <1>15. CASE ExtractFail
    BY <1>15 DEF ExtractFail, Failed
  <1>16. CASE Hash
    <2>1. CASE disk[cur.file] # None
      <3>1. cur'.sha = disk[cur.file].body /\ cur'.file = cur.file
        BY <1>0, <1>16, <2>1 DEF Hash, Typed, CurRecords
      <3>2. pc = "hash" /\ pc' \in {"logdrop", "stat"} /\ UNCHANGED <<user, store, run, mem, todo, history>>
        BY <1>16, <2>1 DEF Hash
      <3> QED
        BY <3>1, <3>2 DEF Quiet, Settled, Pending, IsCurrent, Job
    <2>2. CASE disk[cur.file] = None
      BY <1>16, <2>2 DEF Hash, Abort, Stopped
    <2> QED
      BY <2>1, <2>2
  <1>17. CASE LogDrop
    <2>1. cur.file \in Files /\ OldUrn \in Urns
      BY <1>0, <1>12, <1>17, OldUrnType DEF LogDrop, Control, Known
    <2>2. IsCurrent(log, ProfileUpdated(prof))'
      BY <1>0, <1>17, <2>1, EventTypes, Objects, CurrentKept DEF LogDrop, Quiet, Typed
    <2> QED
      BY <1>17, <2>2 DEF LogDrop, Quiet, Settled, Pending, Job
  <1>19. CASE DropClaimsStep
    BY <1>19 DEF DropClaimsStep, Quiet, Settled, Pending, IsCurrent, Job
  <1>20. CASE DropFps
    BY <1>20 DEF DropFps, Stopped, Failed, Quiet, Settled, Pending, IsCurrent, Job
  <1>21. CASE DropSourceStep
    <2>1. CASE Job.kind = "gone"
      <3>1. Job.file \in Files /\ cur.file = Job.file /\ todo # << >> /\ disk[Job.file] = None
        BY <1>12, <1>21, <2>1 DEF DropSourceStep, Quiet
      <3>2. mem' = [mem EXCEPT !.files[cur.file] = None] /\ Skip
        BY <1>21, <2>1 DEF DropSourceStep
      <3>3. \A f \in Files : f # Job.file => mem'.files[f] = mem.files[f]
        BY <1>0, <3>1, <3>2 DEF Typed, Sheets
      <3>4. mem'.files[Job.file] = None
        BY <1>0, <3>1, <3>2 DEF Typed, Sheets
      <3>5. disk' = disk
        BY <1>21 DEF DropSourceStep
      <3> QED
        BY <1>21, <3>1, <3>2, <3>3, <3>4, <3>5, QuietSkip DEF DropSourceStep
    <2>2. CASE Job.kind = "changed"
      BY <1>21, <2>2 DEF DropSourceStep, Quiet, Settled, Pending, IsCurrent, Job
    <2> QED
      BY <1>21, <2>1, <2>2 DEF DropSourceStep
  <1>22. CASE LogUpsert
    <2>1. /\ cur.file \in Files /\ disk[cur.file] \in Looks /\ todo[1].kind # "gone"
          /\ cur.urn \in Urns /\ cur.text \in Texts /\ cur.sha \in Contents
      BY <1>0, <1>12, <1>22 DEF LogUpsert, Typed, Control, Known
    <2> DEFINE e == [sha |-> cur.sha, stamp |-> disk[cur.file].stamp, urn |-> cur.urn,
                     seeded |-> FALSE]
               r == [urn |-> cur.urn, text |-> cur.text]
    <2>2. e \in Entries /\ r \in Rows
      BY <2>1 DEF Entries, Rows, Looks
    <2>3. /\ cur'.entry = e /\ cur'.file = cur.file
          /\ log' = Append(log, Upserted(cur.file, r, e))
      BY <1>0, <1>22 DEF LogUpsert, Typed, CurRecords
    <2>4. e.sha = disk[cur.file].body
      BY <1>12, <1>22, <2>1 DEF LogUpsert, Quiet
    <2> HIDE DEF e, r
    <2>5. IsCurrent(log', ProfileUpdated(prof))
      BY <1>0, <1>22, <2>1, <2>2, <2>3, EventTypes, Objects, CurrentKept DEF LogUpsert, Quiet, Typed
    <2> QED
      BY <1>22, <2>3, <2>4, <2>5 DEF LogUpsert, Quiet, Settled, Pending, Job
  <1>23. CASE StatFail
    BY <1>23 DEF StatFail, Failed
  <1>25. CASE AppendClaims
    BY <1>25 DEF AppendClaims, Failed, Quiet, Settled, Pending, IsCurrent, Job
  <1>26. CASE WriteFps
    BY <1>26 DEF WriteFps, Quiet, Settled, Pending, IsCurrent, Job
  <1>27. CASE WriteSource
    <2>1. /\ Job.file \in Files /\ cur.file = Job.file /\ todo # << >>
          /\ disk[Job.file] # None /\ cur.entry \in Entries
          /\ cur.entry.sha = disk[Job.file].body
      BY <1>0, <1>12, <1>27 DEF WriteSource, Quiet, Control, Known
    <2>2. mem' = [mem EXCEPT !.files[cur.file] = cur.entry] /\ Skip /\ disk' = disk
      BY <1>27 DEF WriteSource
    <2>3. \A f \in Files : f # Job.file => mem'.files[f] = mem.files[f]
      BY <1>0, <2>1, <2>2 DEF Typed, Sheets
    <2>4. mem'.files[Job.file] = cur.entry /\ cur.entry # None
      BY <1>0, <2>1, <2>2, RecordAssumption DEF Typed, Sheets
    <2> QED
      BY <1>27, <2>1, <2>2, <2>3, <2>4, QuietSkip DEF WriteSource
  <1>28. CASE Seed
    BY <1>0, <1>28 DEF Seed, Abort, Stopped, Control, Quiet
  <1>29. CASE SeedDone
    BY <1>0, <1>29 DEF SeedDone, Control, Quiet
  <1>30. CASE SaveOpen
    <2>1. mem'.profile = prof /\ mem'.files = mem.files
      BY <1>0, <1>30 DEF SaveOpen, Typed, Sheets
    <2> QED
      BY <1>30, <2>1 DEF SaveOpen, Quiet, Settled, Pending, IsCurrent, Job
  <1>31. CASE SaveWrite
    BY <1>31 DEF SaveWrite, Reset, Quiet, Settled, Pending, IsCurrent, Job
  <1>32. CASE Stamp
    BY <1>32 DEF Stamp
  <1> QED
    BY <1>1, <1>2, <1>3, <1>4, <1>5, <1>6, <1>7, <1>8, <1>9, <1>10, <1>11, <1>13, <1>14, <1>15,
       <1>16, <1>17, <1>19, <1>20, <1>21, <1>22, <1>23, <1>25, <1>26, <1>27, <1>28, <1>29, <1>30,
       <1>31, <1>32 DEF Next, Step

LEMMA StampLeavesNothing ==
  ASSUME Sound, QuietInv, Stamp
  PROVE  NothingLeft' /\ pc' = "idle"
  <1>1. Typed /\ Control /\ pc = "stamp"
    BY DEF Sound, Stamp
  <1>2. todo = << >> /\ state = mem /\ prof \in Profiles
    BY <1>1 DEF Control
  <1>3. /\ pc' = "idle" /\ last' = (IF last = "running" THEN "clean" ELSE last)
        /\ UNCHANGED <<disk, config, log, state, calm>>
    BY DEF Stamp, Reset, user
  <1>4. ASSUME last' = "clean", calm' PROVE NothingLeft'
    <2>1. last = "running" /\ calm
      BY <1>1, <1>3, <1>4 DEF QuietInv
    <2>2. /\ prof = config /\ mem.profile = prof /\ IsCurrent(log, ProfileUpdated(prof))
          /\ \A f \in Files \ Pending : Settled(f)
      BY <1>1, <2>1 DEF QuietInv, Quiet
    <2>3. Pending = {}
      BY <1>2, EmptyFacts DEF Pending
    <2>4. NewFiles(disk, state.files) = {} /\ GoneFiles(disk, state.files) = {}
      BY <1>2, <2>2, <2>3 DEF Settled, NewFiles, GoneFiles
    <2>5. ChangedFiles(disk, state.files, FALSE) = {}
      BY <1>2, <2>2, <2>3 DEF Settled, ChangedFiles
    <2> QED
      BY <1>2, <1>3, <2>2, <2>4, <2>5 DEF NothingLeft
  <1> QED
    BY <1>3, <1>4 DEF NothingLeft

LEMMA QuietInvStep == Sound /\ QuietInv /\ [Next]_vars => QuietInv'
  <1> SUFFICES ASSUME Sound, QuietInv, [Next]_vars PROVE QuietInv'
    OBVIOUS
  <1>1. Quiet'
    BY QuietStep DEF QuietInv
  <1> USE DEF user, store, run, history
  <1>2. CASE UNCHANGED vars
    <2>1. NothingLeft' /\ (last' = "clean" => pc' = "idle")
      BY <1>2 DEF vars, QuietInv, NothingLeft, IsCurrent, NewFiles, GoneFiles, ChangedFiles
    <2> QED
      BY <1>1, <2>1 DEF QuietInv
  <1>3. CASE Stamp
    BY <1>1, <1>3, StampLeavesNothing DEF QuietInv
  <1>4. CASE Step /\ ~Stamp
    <2>1. pc # "idle"
      BY <1>4 DEF Step, Plan, TakeGone, TakeVanished, Identify, Extract, ExtractGone, Hash,
         LogDrop, DropClaimsStep, DropFps, DropSourceStep, LogUpsert, StatFail, AppendClaims,
         WriteFps, WriteSource, Seed, SeedDone, SaveOpen, SaveWrite
    <2>2. last' \in {last, "none"}
      BY <1>4 DEF Step, Plan, TakeGone, TakeVanished, Identify, Extract, ExtractGone, Hash,
         LogDrop, DropClaimsStep, DropFps, DropSourceStep, LogUpsert, StatFail, AppendClaims,
         WriteFps, WriteSource, Seed, SeedDone, SaveOpen, SaveWrite, Failed, Abort, Stopped
    <2> QED
      BY <1>1, <2>1, <2>2 DEF QuietInv, NothingLeft
  <1>5. ASSUME NEW f \in Files, Edit(f) \/ Delete(f) PROVE QuietInv'
    BY <1>1, <1>5 DEF Edit, Delete, QuietInv, NothingLeft
  <1>6. ASSUME NEW p \in Profiles, Configure(p) PROVE QuietInv'
    BY <1>1, <1>6 DEF Configure, QuietInv, NothingLeft
  <1>7. CASE Damage
    <2>1. NothingLeft' /\ (last' = "clean" => pc' = "idle")
      BY <1>7 DEF Damage, QuietInv, NothingLeft, IsCurrent, NewFiles, GoneFiles, ChangedFiles
    <2> QED
      BY <1>1, <2>1 DEF QuietInv
  <1>8. CASE Crash \/ ExtractFail
    BY <1>1, <1>8 DEF Crash, ExtractFail, Stopped, Failed, QuietInv, NothingLeft
  <1>9. ASSUME NEW forced \in BOOLEAN, Begin(forced) PROVE QuietInv'
    BY <1>1, <1>9 DEF Begin, QuietInv, NothingLeft
  <1>10. CASE BeginSeed
    BY <1>1, <1>10 DEF BeginSeed, QuietInv, NothingLeft
  <1> QED
    BY <1>2, <1>3, <1>4, <1>5, <1>6, <1>7, <1>8, <1>9, <1>10 DEF Next

\* "Re-running with no change writes nothing": what an undisturbed pass has
\* recorded leaves the next one nothing to treat and no profile to log.
THEOREM SecondPassIdle == Spec => []NothingLeft
  <1>1. Init => QuietInv
    BY DEF Init, QuietInv, Quiet, NothingLeft
  <1>2. Sound /\ QuietInv /\ [Next]_vars => QuietInv'
    BY QuietInvStep
  <1>3. QuietInv => NothingLeft
    BY DEF QuietInv
  <1> QED
    BY <1>1, <1>2, <1>3, PassesSound, PTL DEF Spec

----------------------------------------------------------------------------
(* Honest profiles.                                                        *)

Honest(sheet, p, f) ==
    sheet.files[f] # None /\ ~sheet.files[f].seeded /\ p # None /\ tables.sources[f] # None =>
        tables.sources[f].text.profile = p

HonestInv ==
    /\ pc = "idle" => touched = {}
    /\ pc \in Dropping \union Adding => cur.file \in touched
    /\ pc # "idle" /\ op = "seed" => tainted = Files
    /\ state # None =>
          \A f \in Files \ (IF pc = "stamp" THEN tainted ELSE tainted \union touched) :
              Honest(state, state.profile, f)
    /\ pc # "idle" /\ op = "sync" =>
          /\ pc = "plan" /\ ~force => \A f \in Files \ tainted : Honest(mem, prof, f)
          /\ pc # "plan" =>
                \A f \in Files \ tainted : (force /\ f \in Pending) \/ Honest(mem, prof, f)
          /\ pc \in {"saving", "stamp"} => mem.profile = prof

LEMMA HonestFailed ==
  ASSUME Sound, HonestInv, pc \in {"next"} \union Treating, op = "sync", todo # << >>,
         NEW mark, Failed(mark), state' = state, tables'.sources = tables.sources
  PROVE  HonestInv'
  <1>1. /\ pc' = "next" /\ todo' = Tail(todo) /\ UNCHANGED <<op, prof, force, mem, touched>>
        /\ tainted' = IF force \/ Job.file \in touched THEN tainted \union {Job.file} ELSE tainted
    BY DEF Failed, Skip, run
  <1>2. Pending' = Pending \ {Job.file}
    BY <1>1, PendingTail
  <1>3. pc \notin {"idle", "plan", "saving", "stamp"}
    BY DEF Treating, Dropping, Adding
  <1>4. ASSUME NEW f \in Files \ tainted' PROVE (force /\ f \in Pending') \/ Honest(mem, prof, f)'
    <2>1. (force /\ f \in Pending) \/ Honest(mem, prof, f)
      BY <1>1, <1>3, <1>4 DEF HonestInv
    <2> QED
      BY <1>1, <1>2, <1>4, <2>1 DEF Honest
  <1>5. ASSUME state # None, NEW f \in Files \ (tainted' \union touched')
        PROVE  Honest(state, state.profile, f)'
    <2>1. Honest(state, state.profile, f)
      BY <1>1, <1>3, <1>5 DEF HonestInv
    <2> QED
      BY <1>1, <2>1 DEF Honest
  <1> QED
    BY <1>1, <1>4, <1>5 DEF HonestInv, Dropping, Adding

LEMMA HonestStopped ==
  ASSUME HonestInv, Stopped, state' = state, tables'.sources = tables.sources
  PROVE  HonestInv'
  <1>1. pc' = "idle" /\ op' = None /\ touched' = {} /\ tainted' = tainted \union touched
    BY DEF Stopped, Reset
  <1>2. ASSUME state # None, NEW f \in Files \ tainted' PROVE Honest(state, state.profile, f)'
    <2>1. Honest(state, state.profile, f)
      BY <1>1, <1>2 DEF HonestInv
    <2> QED
      BY <2>1 DEF Honest
  <1> QED
    BY <1>1, <1>2 DEF HonestInv, Dropping, Adding

LEMMA HonestInit == Init => HonestInv
  BY DEF Init, HonestInv, Honest, EmptyState, Dropping, Adding

LEMMA HonestStep == Sound /\ HonestInv /\ [Next]_vars => HonestInv'
  <1> SUFFICES ASSUME Sound, HonestInv, [Next]_vars PROVE HonestInv'
    OBVIOUS
  <1>0. Typed /\ Control
    BY DEF Sound
  <1> USE DEF user, store, run, history, Treating, Dropping, Adding
  <1>1. CASE UNCHANGED vars
    BY <1>1 DEF vars, HonestInv, Honest, Pending
  <1>2. ASSUME NEW f \in Files, Edit(f) \/ Delete(f) PROVE HonestInv'
    BY <1>2 DEF Edit, Delete, HonestInv, Honest, Pending
  <1>3. ASSUME NEW p \in Profiles, Configure(p) PROVE HonestInv'
    BY <1>3 DEF Configure, HonestInv, Honest, Pending
  <1>4. CASE Damage
    BY <1>4 DEF Damage, HonestInv, Honest, Pending
  <1>5. CASE Crash
    BY <1>5, HonestStopped DEF Crash
  <1>6. ASSUME NEW forced \in BOOLEAN, Begin(forced) PROVE HonestInv'
    <2>1. /\ pc = "idle" /\ pc' = "plan" /\ mem' = state /\ prof' = config /\ state # None
          /\ touched = {} /\ touched' = {} /\ op' = "sync"
          /\ force' = (forced \/ (state.files # NoEntries /\ state.profile # config))
          /\ UNCHANGED <<state, tables, tainted>>
      BY <1>6 DEF Begin, HonestInv
    <2>2. ASSUME NEW f \in Files \ tainted PROVE Honest(state, state.profile, f)
      BY <2>1 DEF HonestInv
    <2>3. ASSUME ~force', NEW f \in Files \ tainted' PROVE Honest(mem, prof, f)'
      <3>1. Honest(state, state.profile, f)
        BY <2>1, <2>2, <2>3
      <3>2. state.files = NoEntries \/ state.profile = config
        BY <2>1, <2>3
      <3>3. CASE state.files = NoEntries
        BY <2>1, <3>3 DEF Honest, NoEntries
      <3>4. CASE state.profile = config
        BY <2>1, <3>1, <3>4 DEF Honest
      <3> QED
        BY <3>2, <3>3, <3>4
    <2> QED
      BY <2>1, <2>2, <2>3 DEF HonestInv, Honest
  <1>7. CASE BeginSeed
    <2>1. /\ pc = "idle" /\ pc' = "seed" /\ op' = "seed" /\ tainted' = Files /\ touched' = {}
      BY <1>7 DEF BeginSeed
    <2> QED
      BY <2>1 DEF HonestInv
  <1>8. CASE Plan
    <2>1. /\ pc = "plan" /\ pc' = "next" /\ op = "sync"
          /\ UNCHANGED <<op, prof, force, mem, disk, state, tables, tainted, touched, cur>>
      BY <1>0, <1>8 DEF Plan, Control
    <2>2. JobsIn(todo') =
               {[file |-> f, kind |-> "gone"] : f \in GoneFiles(disk, mem.files)}
               \union {[file |-> f, kind |-> "new"] : f \in NewFiles(disk, mem.files)}
               \union {[file |-> f, kind |-> "changed"] : f \in ChangedFiles(disk, mem.files, force)}
      BY <1>0, <1>8, PlanFacts
    <2>3. ASSUME force, NEW f \in Files, mem.files[f] # None PROVE f \in Pending'
      <3>1. f \in GoneFiles(disk, mem.files) \/ f \in ChangedFiles(disk, mem.files, force)
        BY <2>3 DEF GoneFiles, ChangedFiles
      <3>2. CASE f \in GoneFiles(disk, mem.files)
        <4> DEFINE j == [file |-> f, kind |-> "gone"]
        <4>1. j \in JobsIn(todo') /\ j.file = f
          BY <2>2, <3>2
        <4> QED
          BY <4>1 DEF Pending
      <3>3. CASE f \in ChangedFiles(disk, mem.files, force)
        <4> DEFINE j == [file |-> f, kind |-> "changed"]
        <4>1. j \in JobsIn(todo') /\ j.file = f
          BY <2>2, <3>3
        <4> QED
          BY <4>1 DEF Pending
      <3> QED
        BY <3>1, <3>2, <3>3
    <2>4. ASSUME NEW f \in Files \ tainted' PROVE (force' /\ f \in Pending') \/ Honest(mem, prof, f)'
      <3>1. CASE force
        BY <2>1, <2>3, <2>4, <3>1 DEF Honest
      <3>2. CASE ~force
        BY <2>1, <2>4, <3>2 DEF HonestInv, Honest
      <3> QED
        BY <3>1, <3>2
    <2>5. ASSUME state' # None, NEW f \in Files \ (tainted' \union touched')
          PROVE  Honest(state, state.profile, f)'
      BY <2>1, <2>5 DEF HonestInv, Honest
    <2> QED
      BY <2>1, <2>4, <2>5 DEF HonestInv
  <1>9. CASE TakeGone
    <2>1. op = "sync" /\ Job = todo[1] /\ Job.file \in Files
      BY <1>0, <1>9, TodoFacts DEF TakeGone, Control
    <2>2. cur'.file = Job.file
      BY <1>9 DEF TakeGone, Nothing
    <2> QED
      BY <1>9, <2>1, <2>2 DEF TakeGone, HonestInv, Honest, Pending
  <1>10. CASE TakeVanished
    <2>1. op = "sync"
      BY <1>0, <1>10, TodoFacts DEF TakeVanished, Control
    <2> QED
      BY <1>10, <2>1, HonestFailed DEF TakeVanished
  <1>11. CASE Identify
    BY <1>11 DEF Identify, HonestInv, Honest, Pending
  <1>12. ASSUME pc \in Treating
         PROVE  cur.file \in Files /\ cur.file = Job.file /\ Job = todo[1] /\ todo # << >>
                /\ op = "sync" /\ Job \in JobsIn(todo)
    BY <1>0, <1>12, TodoFacts DEF Control, Known, JobsIn
  <1>13. CASE Extract
    BY <1>13 DEF Extract, HonestInv, Honest, Pending
  <1>14. CASE ExtractGone
    BY <1>12, <1>14, HonestFailed DEF ExtractGone
  <1>15. CASE ExtractFail
    BY <1>12, <1>15, HonestFailed DEF ExtractFail
  <1>16. CASE Hash
    <2>1. CASE disk[cur.file] # None
      <3>1. pc = "hash" /\ pc' \in {"logdrop", "stat"} /\ UNCHANGED <<user, store, run, mem, todo, history>>
        BY <1>16, <2>1 DEF Hash
      <3> QED
        BY <3>1 DEF HonestInv, Honest, Pending
    <2>2. CASE disk[cur.file] = None
      BY <1>16, <2>2, HonestStopped DEF Hash, Abort
    <2> QED
      BY <2>1, <2>2
  <1>17. CASE LogDrop
    BY <1>17 DEF LogDrop, HonestInv, Honest, Pending
  <1>18. ASSUME NEW t, pc \in Treating, tables' = t, t.sources = tables.sources,
                UNCHANGED <<state, op, prof, force, mem, todo, cur, tainted, touched>>,
                pc' \in Dropping \union Adding \union {"stat"}, pc \in Dropping \union Adding
         PROVE  HonestInv'
    BY <1>18 DEF HonestInv, Honest, Pending
  <1>19. CASE DropClaimsStep
    <2>1. DropClaims(tables, OldUrn).sources = tables.sources
      BY <1>0 DEF DropClaims, Typed, Tables
    <2> QED
      BY <1>18, <1>19, <2>1 DEF DropClaimsStep
  <1>20. CASE DropFps
    <2>1. CASE UNCHANGED <<user, log, unreadable, state, version, run, mem, todo, cur, history>>
               /\ pc' = "dropsource" /\ tables' = DropFingerprint(tables, OldUrn)
      <3>1. DropFingerprint(tables, OldUrn).sources = tables.sources
        BY <1>0 DEF DropFingerprint, Typed, Tables
      <3> QED
        BY <1>18, <1>20, <2>1, <3>1 DEF DropFps
    <2>2. CASE Preserve
      <3>1. state' = state /\ tables'.sources = tables.sources
        BY <1>0, <2>2 DEF Preserve, Typed, Tables
      <3>2. CASE Stopped
        BY <3>1, <3>2, HonestStopped
      <3>3. CASE Failed({"failed"})
        BY <1>12, <1>20, <3>1, <3>3, HonestFailed DEF DropFps
      <3> QED
        BY <1>20, <2>2, <3>2, <3>3 DEF DropFps, Preserve
    <2> QED
      BY <1>20, <2>1, <2>2 DEF DropFps
  <1>21. CASE DropSourceStep
    <2>1. /\ cur.file \in Files /\ cur.file = Job.file /\ todo # << >> /\ op = "sync"
          /\ cur.file \in touched /\ pc = "dropsource"
      BY <1>12, <1>21 DEF DropSourceStep, HonestInv
    <2>2. /\ tables'.sources[cur.file] = None
          /\ \A f \in Files : f # cur.file => tables'.sources[f] = tables.sources[f]
      BY <1>0, <1>21, <2>1 DEF DropSourceStep, DropSource, Typed, Tables
    <2>3. UNCHANGED <<state, op, prof, force, touched>>
      BY <1>21 DEF DropSourceStep
    <2>4. \A f \in Files : f # cur.file => mem'.files[f] = mem.files[f]
      BY <1>0, <1>21, <2>1 DEF DropSourceStep, Typed, Sheets
    <2>5. tainted' = tainted \/ tainted' = tainted \ {cur.file}
      BY <1>21 DEF DropSourceStep
    <2>6. ASSUME NEW f \in Files, f # cur.file, f \in Pending PROVE f \in Pending'
      <3>1. CASE Job.kind = "gone"
        BY <1>21, <2>1, <2>6, <3>1, PendingTail DEF DropSourceStep, Skip
      <3>2. CASE Job.kind = "changed"
        BY <1>21, <2>6, <3>2 DEF DropSourceStep, Pending
      <3> QED
        BY <1>21, <3>1, <3>2 DEF DropSourceStep
    <2>7. ASSUME NEW f \in Files \ tainted' PROVE (force' /\ f \in Pending') \/ Honest(mem, prof, f)'
      <3>1. CASE f = cur.file
        BY <2>2, <3>1 DEF Honest
      <3>2. CASE f # cur.file
        <4>1. f \notin tainted
          BY <2>5, <2>7, <3>2
        <4>2. (force /\ f \in Pending) \/ Honest(mem, prof, f)
          BY <2>1, <4>1 DEF HonestInv
        <4> QED
          BY <2>2, <2>3, <2>4, <2>6, <3>2, <4>2 DEF Honest
      <3> QED
        BY <3>1, <3>2
    <2>8. ASSUME state # None, NEW f \in Files \ (tainted' \union touched')
          PROVE  Honest(state, state.profile, f)'
      <3>1. f # cur.file /\ f \notin tainted /\ f \notin touched
        BY <2>1, <2>3, <2>5, <2>8
      <3>2. Honest(state, state.profile, f)
        BY <2>1, <2>8, <3>1 DEF HonestInv
      <3> QED
        BY <2>2, <2>3, <3>1, <3>2 DEF Honest
    <2>9. pc' \in {"next", "stat"}
      BY <1>21 DEF DropSourceStep, Skip
    <2> QED
      BY <2>1, <2>3, <2>7, <2>8, <2>9 DEF HonestInv
  <1>22. CASE LogUpsert
    <2>1. cur'.file = cur.file
      BY <1>0, <1>22 DEF LogUpsert, Typed, CurRecords
    <2> QED
      BY <1>22, <2>1 DEF LogUpsert, HonestInv, Honest, Pending
  <1>23. CASE StatFail
    BY <1>12, <1>23, HonestFailed DEF StatFail
  <1>25. CASE AppendClaims
    <2>1. CASE UNCHANGED <<user, log, unreadable, state, version, run, mem, todo, cur, history>>
               /\ pc' = "fps" /\ tables' = AddClaims(tables, NewRow)
      <3>1. AddClaims(tables, NewRow).sources = tables.sources
        BY <1>0 DEF AddClaims, Typed, Tables
      <3> QED
        BY <1>18, <1>25, <2>1, <3>1 DEF AppendClaims
    <2>2. CASE Preserve /\ Failed({"failed"})
      <3>1. state' = state /\ tables'.sources = tables.sources
        BY <1>0, <2>2 DEF Preserve, Typed, Tables
      <3> QED
        BY <1>12, <1>25, <2>2, <3>1, HonestFailed DEF AppendClaims
    <2> QED
      BY <1>25, <2>1, <2>2 DEF AppendClaims
  <1>26. CASE WriteFps
    <2>1. AddFingerprint(tables, NewRow).sources = tables.sources
      BY <1>0 DEF AddFingerprint, Typed, Tables
    <2> QED
      BY <1>18, <1>26, <2>1 DEF WriteFps
  <1>27. CASE WriteSource
    <2>1. /\ cur.file \in Files /\ cur.file = Job.file /\ todo # << >> /\ op = "sync"
          /\ cur.file \in touched /\ pc = "sources" /\ cur.text.profile = prof
      BY <1>0, <1>12, <1>27 DEF WriteSource, HonestInv, Control, Known
    <2>2. /\ tables'.sources[cur.file] = NewRow
          /\ \A f \in Files : f # cur.file => tables'.sources[f] = tables.sources[f]
      BY <1>0, <1>27, <2>1 DEF WriteSource, AddSource, Typed, Tables
    <2>3. UNCHANGED <<state, op, prof, force, touched>> /\ Skip /\ pc' = "next"
      BY <1>27 DEF WriteSource, Skip
    <2>4. \A f \in Files : f # cur.file => mem'.files[f] = mem.files[f]
      BY <1>0, <1>27, <2>1 DEF WriteSource, Typed, Sheets
    <2>5. \A f \in Files : f # cur.file /\ f \notin tainted' => f \notin tainted
      BY <1>27 DEF WriteSource
    <2>6. Pending' = Pending \ {cur.file}
      BY <2>1, <2>3, PendingTail DEF Skip
    <2>7. ASSUME NEW f \in Files \ tainted' PROVE (force' /\ f \in Pending') \/ Honest(mem, prof, f)'
      <3>1. CASE f = cur.file
        BY <2>1, <2>2, <2>3, <3>1 DEF Honest, NewRow
      <3>2. CASE f # cur.file
        <4>1. (force /\ f \in Pending) \/ Honest(mem, prof, f)
          BY <2>1, <2>5, <2>7, <3>2 DEF HonestInv
        <4> QED
          BY <2>2, <2>3, <2>4, <2>6, <3>2, <4>1 DEF Honest
      <3> QED
        BY <3>1, <3>2
    <2>8. ASSUME state # None, NEW f \in Files \ (tainted' \union touched')
          PROVE  Honest(state, state.profile, f)'
      <3>1. f # cur.file /\ f \notin tainted /\ f \notin touched
        BY <2>1, <2>3, <2>5, <2>8
      <3>2. Honest(state, state.profile, f)
        BY <2>1, <2>8, <3>1 DEF HonestInv
      <3> QED
        BY <2>2, <2>3, <3>1, <3>2 DEF Honest
    <2> QED
      BY <2>1, <2>3, <2>7, <2>8 DEF HonestInv
  <1>28. CASE Seed
    <2>1. op = "seed" /\ tainted = Files /\ pc = "seed"
      BY <1>0, <1>28 DEF Seed, Control, HonestInv
    <2>2. CASE disk[Job.file] # None
      BY <1>28, <2>1, <2>2 DEF Seed, HonestInv
    <2>3. CASE disk[Job.file] = None
      BY <1>28, <2>3, HonestStopped DEF Seed, Abort
    <2> QED
      BY <2>2, <2>3
  <1>29. CASE SeedDone
    <2>1. op = "seed" /\ tainted = Files /\ pc = "seed"
      BY <1>0, <1>29 DEF SeedDone, Control, HonestInv
    <2> QED
      BY <1>29, <2>1 DEF SeedDone, HonestInv
  <1>30. CASE SaveOpen
    <2>1. mem'.profile = prof /\ mem'.files = mem.files
      BY <1>0, <1>30 DEF SaveOpen, Typed, Sheets
    <2> QED
      BY <1>30, <2>1 DEF SaveOpen, HonestInv, Honest, Pending
  <1>31. CASE SaveWrite
    <2>1. CASE op = "sync" /\ pc' = "stamp" /\ UNCHANGED <<mem, todo, cur, run, touched>>
      <3>1. /\ mem.profile = prof /\ todo = << >> /\ pc = "saving" /\ state' = mem
            /\ UNCHANGED <<tables, tainted>>
        BY <1>0, <1>31, <2>1 DEF SaveWrite, Control, HonestInv
      <3>2. Pending = {} /\ Pending' = {}
        BY <2>1, <3>1, EmptyFacts DEF Pending
      <3>3. \A f \in Files \ tainted : Honest(mem, prof, f)
        BY <2>1, <3>1, <3>2 DEF HonestInv
      <3>4. \A f \in Files \ tainted' : Honest(state, state.profile, f)' /\ Honest(mem, prof, f)'
        BY <2>1, <3>1, <3>3 DEF Honest
      <3> QED
        BY <2>1, <3>1, <3>4 DEF HonestInv
    <2>2. CASE op = "seed" /\ Reset
      <3>1. pc = "saving" /\ tainted = Files /\ tainted' = Files /\ pc' = "idle" /\ touched' = {}
        BY <1>31, <2>2 DEF SaveWrite, Reset, HonestInv
      <3> QED
        BY <3>1 DEF HonestInv
    <2> QED
      BY <1>31, <2>1, <2>2 DEF SaveWrite
  <1>32. CASE Stamp
    <2>1. pc = "stamp" /\ pc' = "idle" /\ touched' = {} /\ UNCHANGED <<state, tables, tainted>>
      BY <1>32 DEF Stamp, Reset
    <2> QED
      BY <2>1 DEF HonestInv, Honest
  <1> QED
    BY <1>1, <1>2, <1>3, <1>4, <1>5, <1>6, <1>7, <1>8, <1>9, <1>10, <1>11, <1>13, <1>14, <1>15,
       <1>16, <1>17, <1>19, <1>20, <1>21, <1>22, <1>23, <1>25, <1>26, <1>27, <1>28, <1>29, <1>30,
       <1>31, <1>32 DEF Next, Step

\* The state file never claims a profile an indexed row was not extracted with,
\* whatever passes died or failed half way through a re-extraction.
THEOREM ProfilesHonest == Spec => []ProfileHonest
  <1>1. HonestInv => ProfileHonest
    BY DEF HonestInv, Honest, ProfileHonest, Indexed
  <1> QED
    BY <1>1, HonestInit, HonestStep, PassesSound, PTL DEF Spec

----------------------------------------------------------------------------
(* Everything is on the log first.                                         *)

AccountInv ==
    /\ log = << >> =>
          /\ \A u \in Urns : tables.fps[u] # None =>
                [urn |-> u, text |-> tables.fps[u]] \in BagToSet(tables.claims)
          /\ \A f \in Files : tables.sources[f] # None =>
                tables.sources[f] \in BagToSet(tables.claims)
          /\ pc # "idle" =>
                /\ pc \in {"plan", "seed"} /\ tables = EmptyTables
                /\ state = EmptyState /\ mem = EmptyState
    /\ WriteAhead
    /\ log # << >> =>
          \A f \in Files : mem.files[f] # None => EntryAccounted(f, mem.files[f])
    /\ pc \in Adding => RowAccounted(NewRow) /\ EntryAccounted(cur.file, cur.entry)

RowIn(e, r) ==
    \/ e.type = "source.upserted" /\ e.row = r
    \/ e.type = "projection.baseline" /\ r \in BagToSet(e.store.tables.claims)
EntryIn(e, f, x) ==
    \/ e.type \in {"source.upserted", "source.seeded"} /\ e.file = f /\ e.entry = x
    \/ e.type = "projection.baseline" /\ e.store.state.files[f] = x

LEMMA AccountedMeans ==
  /\ \A r : RowAccounted(r) <=> \E i \in DOMAIN log : RowIn(log[i], r)
  /\ \A f, x : EntryAccounted(f, x) <=> \E i \in DOMAIN log : EntryIn(log[i], f, x)
  /\ \A r : RowAccounted(r)' <=> \E i \in DOMAIN log' : RowIn(log'[i], r)
  /\ \A f, x : EntryAccounted(f, x)' <=> \E i \in DOMAIN log' : EntryIn(log'[i], f, x)
  BY DEF RowAccounted, EntryAccounted, Accounted, RowIn, EntryIn

\* What is accounted for stays so, and a new event accounts for what it says.
LEMMA AccountedKept ==
  ASSUME log' = log
  PROVE  /\ \A r : RowAccounted(r) => RowAccounted(r)'
         /\ \A f, x : EntryAccounted(f, x) => EntryAccounted(f, x)'
  BY AccountedMeans

LEMMA AccountedGrows ==
  ASSUME Typed, NEW e \in Events, log' = Append(log, e)
  PROVE  /\ \A r : RowAccounted(r) \/ RowIn(e, r) => RowAccounted(r)'
         /\ \A f, x : EntryAccounted(f, x) \/ EntryIn(e, f, x) => EntryAccounted(f, x)'
         /\ log' # << >>
  <1>1. /\ log' # << >> /\ Len(log) \in Nat
        /\ DOMAIN log = 1..Len(log) /\ DOMAIN log' = 1..(Len(log) + 1)
        /\ \A i \in 1..Len(log) : log'[i] = log[i]
        /\ log'[Len(log) + 1] = e
    BY AppendFacts DEF Typed
  <1>2. ASSUME NEW i \in DOMAIN log PROVE i \in DOMAIN log' /\ log'[i] = log[i]
    BY <1>1
  <1>3. Len(log) + 1 \in DOMAIN log'
    BY <1>1
  <1>4. \A r : RowAccounted(r) => RowAccounted(r)'
    BY <1>2, AccountedMeans
  <1>5. \A f, x : EntryAccounted(f, x) => EntryAccounted(f, x)'
    BY <1>2, AccountedMeans
  <1>6. \A r : RowIn(e, r) => RowAccounted(r)'
    BY <1>1, <1>3, AccountedMeans
  <1>7. \A f, x : EntryIn(e, f, x) => EntryAccounted(f, x)'
    BY <1>1, <1>3, AccountedMeans
  <1> QED
    BY <1>1, <1>4, <1>5, <1>6, <1>7

LEMMA EmptyFields ==
  /\ BagToSet(EmptyTables.claims) = {}
  /\ \A u \in Urns : EmptyTables.fps[u] = None
  /\ \A f \in Files : EmptyTables.sources[f] = None
  /\ \A f \in Files : EmptyState.files[f] = None
  /\ EmptyState.profile = None
  BY DEF EmptyTables, EmptyState, NoEntries, BagToSet, EmptyBag, SetToBag

\* A step keeps the invariant if what it puts into a table or a state is accounted for.
LEMMA AccountNext ==
  ASSUME AccountInv, Typed, log # << >> \/ pc # "idle", log' # << >>,
         log' = log \/ \E e \in Events : log' = Append(log, e),
         \A r \in BagToSet(tables'.claims) : r \in BagToSet(tables.claims) \/ RowAccounted(r)',
         \A u \in Urns :
            \/ tables'.fps[u] \in {None, tables.fps[u]}
            \/ \E r : RowAccounted(r)' /\ r = [urn |-> u, text |-> tables'.fps[u]],
         \A f \in Files :
            \/ tables'.sources[f] \in {None, tables.sources[f]}
            \/ \E r : RowAccounted(r)' /\ r = tables'.sources[f],
         state' \in {None, state, mem},
         \A f \in Files :
            \/ mem'.files[f] \in {None, mem.files[f]}
            \/ \E x : EntryAccounted(f, x)' /\ x = mem'.files[f],
         pc' \in Adding =>
            /\ \E r : RowAccounted(r)' /\ r = NewRow'
            /\ \E f, x : EntryAccounted(f, x)' /\ f = cur'.file /\ x = cur'.entry
  PROVE  AccountInv'
  <1>1. /\ log' # << >>
        /\ \A r : RowAccounted(r) => RowAccounted(r)'
        /\ \A f, x : EntryAccounted(f, x) => EntryAccounted(f, x)'
    BY AccountedKept, AccountedGrows
  <1>2. /\ \A r \in BagToSet(tables.claims) : RowAccounted(r)
        /\ \A u \in Urns : tables.fps[u] # None => RowAccounted([urn |-> u, text |-> tables.fps[u]])
        /\ \A f \in Files : tables.sources[f] # None => RowAccounted(tables.sources[f])
        /\ state # None => \A f \in Files : state.files[f] # None => EntryAccounted(f, state.files[f])
        /\ \A f \in Files : mem.files[f] # None => EntryAccounted(f, mem.files[f])
    <2>1. CASE log # << >>
      BY <2>1 DEF AccountInv, WriteAhead
    <2>2. CASE log = << >>
      <3>1. tables = EmptyTables /\ state = EmptyState /\ mem = EmptyState
        BY <2>2 DEF AccountInv
      <3> QED
        BY <3>1, EmptyFields
    <2> QED
      BY <2>1, <2>2
  <1> DEFINE Row(r) == \E i \in DOMAIN log' : RowIn(log'[i], r)
             Entry(f, x) == \E i \in DOMAIN log' : EntryIn(log'[i], f, x)
  <1>3. /\ \A r : RowAccounted(r)' <=> Row(r)
        /\ \A f, x : EntryAccounted(f, x)' <=> Entry(f, x)
    BY AccountedMeans
  <1> HIDE DEF Row, Entry
  <1>4. \A r \in BagToSet(tables'.claims) : Row(r)
    BY <1>1, <1>2, <1>3
  <1>5. \A u \in Urns : tables'.fps[u] # None => Row([urn |-> u, text |-> tables'.fps[u]])
    BY <1>1, <1>2, <1>3
  <1>6. \A f \in Files : tables'.sources[f] # None => Row(tables'.sources[f])
    BY <1>1, <1>2, <1>3
  <1>7. \A f \in Files : mem'.files[f] # None => Entry(f, mem'.files[f])
    BY <1>1, <1>2, <1>3
  <1>8. state' # None => \A f \in Files : state'.files[f] # None => Entry(f, state'.files[f])
    BY <1>1, <1>2, <1>3
  <1>9. pc' \in Adding => Row(NewRow') /\ Entry(cur'.file, cur'.entry)
    BY <1>3
  <1>10. /\ RowAccounted(NewRow)' <=> Row(NewRow')
         /\ EntryAccounted(cur.file, cur.entry)' <=> Entry(cur'.file, cur'.entry)
         /\ \A u \in Urns : RowAccounted([urn |-> u, text |-> tables.fps[u]])'
                               <=> Row([urn |-> u, text |-> tables'.fps[u]])
         /\ \A f \in Files : RowAccounted(tables.sources[f])' <=> Row(tables'.sources[f])
         /\ \A f \in Files : EntryAccounted(f, state.files[f])' <=> Entry(f, state'.files[f])
         /\ \A f \in Files : EntryAccounted(f, mem.files[f])' <=> Entry(f, mem'.files[f])
    BY DEF RowAccounted, EntryAccounted, Accounted, RowIn, EntryIn, Row, Entry
  <1>11. WriteAhead'
    BY <1>3, <1>4, <1>5, <1>6, <1>8, <1>10 DEF WriteAhead
  <1> QED
    BY <1>1, <1>7, <1>9, <1>10, <1>11 DEF AccountInv

LEMMA AccountInit == Init => AccountInv
  <1> SUFFICES ASSUME Init PROVE AccountInv
    OBVIOUS
  <1>1. log = << >> /\ pc = "idle"
    BY DEF Init
  <1>2. /\ \A u \in Urns : tables.fps[u] # None =>
              [urn |-> u, text |-> tables.fps[u]] \in BagToSet(tables.claims)
        /\ \A f \in Files : tables.sources[f] # None =>
              tables.sources[f] \in BagToSet(tables.claims)
    <2>1. CASE tables = EmptyTables
      BY <2>1, EmptyFields
    <2>2. CASE \E f \in Files, p \in Profiles :
                 disk[f] # None /\ tables = AppendSource(EmptyTables, f, LegacyRow(f, disk[f], p))
      <3>1. PICK f \in Files, p \in Profiles :
                 disk[f] # None /\ tables = AppendSource(EmptyTables, f, LegacyRow(f, disk[f], p))
        BY <2>2
      <3>2. disk[f] \in Looks
        BY <3>1 DEF Init, Looks
      <3> DEFINE r == LegacyRow(f, disk[f], p)
                 t == AddClaims(EmptyTables, r)
                 v == AddFingerprint(t, r)
      <3>3. r \in Rows
        BY <3>2, EntryOf
      <3> HIDE DEF r
      <3>4. t \in Tables
        BY <3>3, AddTypes, EmptyTypes, <3>1
      <3>5. v \in Tables
        BY <3>3, <3>4, AddTypes, <3>1
      <3>6. BagToSet(t.claims) = {r} /\ t.fps = EmptyTables.fps /\ t.sources = EmptyTables.sources
        BY AddClaimsFields, EmptyTypes, EmptyFields DEF t
      <3> HIDE DEF t
      <3>7. v.claims = t.claims /\ v.fps = [t.fps EXCEPT ![r.urn] = r.text] /\ v.sources = t.sources
        BY <3>4, AddFingerprintFields DEF v
      <3> HIDE DEF v
      <3>8. tables = AddSource(v, f, r)
        BY <3>1 DEF AppendSource, v, t, r
      <3>9. tables.claims = v.claims /\ tables.fps = v.fps /\ tables.sources = [v.sources EXCEPT ![f] = r]
        <4>1. /\ AddSource(v, f, r).claims = v.claims /\ AddSource(v, f, r).fps = v.fps
              /\ AddSource(v, f, r).sources = [v.sources EXCEPT ![f] = r]
          BY <3>5 DEF AddSource, Tables
        <4> QED
          BY <3>8, <4>1
      <3>10. ASSUME NEW u \in Urns, tables.fps[u] # None
             PROVE  [urn |-> u, text |-> tables.fps[u]] = r
        <4>1. u = r.urn /\ tables.fps[u] = r.text
          BY <3>6, <3>7, <3>9, <3>10, EmptyFields DEF EmptyTables
        <4> QED
          BY <3>3, <4>1 DEF Rows
      <3>11. ASSUME NEW g \in Files, tables.sources[g] # None PROVE tables.sources[g] = r
        BY <3>6, <3>7, <3>9, <3>11, EmptyFields DEF EmptyTables
      <3> QED
        BY <3>6, <3>7, <3>9, <3>10, <3>11
    <2> QED
      BY <2>1, <2>2 DEF Init
  <1> QED
    BY <1>1, <1>2 DEF AccountInv, WriteAhead, Adding

\* The first pass of a store: what was there before goes on the log in one piece.
LEMMA AccountBootstrap ==
  ASSUME Sound, AccountInv, pc = "idle", state # None, log' = Bootstrapped, mem' = state,
         pc' \in {"plan", "seed"}, UNCHANGED <<tables, state>>
  PROVE  AccountInv'
  <1>1. Typed /\ Control
    BY DEF Sound
  <1>2. CASE log # << >>
    <2>1. log' = log
      BY <1>2 DEF Bootstrapped
    <2>2. \A f \in Files : state.files[f] # None => EntryAccounted(f, state.files[f])
      BY <1>2 DEF AccountInv, WriteAhead
    <2>3. \A f, x : EntryAccounted(f, x) => EntryAccounted(f, x)'
      BY <2>1, AccountedKept
    <2> QED
      BY <1>1, <1>2, <2>1, <2>2, <2>3, AccountNext DEF Adding
  <1>3. CASE log = << >> /\ tables = EmptyTables /\ state = EmptyState
    <2>1. log' = << >>
      BY <1>3 DEF Bootstrapped
    <2> QED
      BY <1>3, <2>1, EmptyFields DEF AccountInv, WriteAhead, Adding
  <1>4. CASE log = << >> /\ ~(tables = EmptyTables /\ state = EmptyState)
    <2> DEFINE s == [tables |-> tables, state |-> state]
               e == Baseline(s)
    <2>1. log' = <<e>>
      BY <1>4 DEF Bootstrapped
    <2>2. e.type = "projection.baseline" /\ e.store.tables = tables /\ e.store.state = state
      BY DEF Baseline
    <2> HIDE DEF e
    <2>3. log' # << >> /\ DOMAIN log' = {1} /\ log'[1] = e
      BY <2>1
    <2>4. /\ \A u \in Urns : tables.fps[u] # None =>
                [urn |-> u, text |-> tables.fps[u]] \in BagToSet(tables.claims)
          /\ \A f \in Files : tables.sources[f] # None =>
                tables.sources[f] \in BagToSet(tables.claims)
      BY <1>4 DEF AccountInv
    <2>5. \A r \in BagToSet(tables.claims) : RowIn(log'[1], r)
      BY <2>2, <2>3 DEF RowIn
    <2>6. \A f \in Files : EntryIn(log'[1], f, state.files[f])
      BY <2>2, <2>3 DEF EntryIn
    <2>7. \A r \in BagToSet(tables.claims) : RowAccounted(r)'
      BY <2>3, <2>5, AccountedMeans
    <2>8. \A f \in Files : \E i \in DOMAIN log' : EntryIn(log'[i], f, state'.files[f])
      BY <2>3, <2>6
    <2>9. \A f \in Files : EntryAccounted(f, state.files[f])' /\ EntryAccounted(f, mem.files[f])'
      BY <2>8 DEF EntryAccounted, Accounted, EntryIn
    <2>10. \A u \in Urns : tables'.fps[u] # None =>
              RowAccounted([urn |-> u, text |-> tables.fps[u]])'
      <3>1. ASSUME NEW u \in Urns, tables.fps[u] # None
            PROVE  \E i \in DOMAIN log' : RowIn(log'[i], [urn |-> u, text |-> tables'.fps[u]])
        BY <2>3, <2>4, <2>5, <3>1
      <3> QED
        BY <3>1 DEF RowAccounted, Accounted, RowIn
    <2>11. \A f \in Files : tables'.sources[f] # None => RowAccounted(tables.sources[f])'
      <3>1. ASSUME NEW f \in Files, tables.sources[f] # None
            PROVE  \E i \in DOMAIN log' : RowIn(log'[i], tables'.sources[f])
        BY <2>3, <2>4, <2>5, <3>1
      <3> QED
        BY <3>1 DEF RowAccounted, Accounted, RowIn
    <2>12. WriteAhead'
      BY <2>7, <2>9, <2>10, <2>11 DEF WriteAhead
    <2> QED
      BY <2>3, <2>9, <2>12 DEF AccountInv, Adding
  <1> QED
    BY <1>2, <1>3, <1>4

LEMMA AccountStep == Sound /\ AccountInv /\ [Next]_vars => AccountInv'
  <1> SUFFICES ASSUME Sound, AccountInv, [Next]_vars PROVE AccountInv'
    OBVIOUS
  <1>0. Typed /\ Control
    BY DEF Sound
  <1> USE DEF user, store, run, history, Treating, Dropping, Adding
  <1>1. ASSUME UNCHANGED <<log, tables, state, mem>>,
               \/ pc' = pc /\ cur' = cur
               \/ log # << >> /\ pc' \notin Adding
        PROVE  AccountInv'
    <2>1. CASE log # << >> /\ pc' \notin Adding
      BY <1>0, <1>1, <2>1, AccountNext
    <2>2. CASE pc' = pc /\ cur' = cur
      BY <1>1, <2>2 DEF AccountInv, WriteAhead, RowAccounted, EntryAccounted, Accounted, NewRow
    <2> QED
      BY <1>1, <2>1, <2>2
  <1>2. ASSUME Reset, UNCHANGED <<log, state>>, tables'.claims = tables.claims,
               tables'.sources = tables.sources, tables'.fps \in {tables.fps, EmptyTables.fps}
        PROVE  AccountInv'
    <2>1. pc' = "idle" /\ mem' = EmptyState
      BY <1>2 DEF Reset
    <2>2. CASE log # << >>
      BY <1>0, <1>2, <2>1, <2>2, EmptyFields, AccountNext
    <2>3. CASE log = << >>
      BY <1>2, <2>1, <2>3, EmptyFields DEF AccountInv, WriteAhead
    <2> QED
      BY <2>2, <2>3
  <1>3. ASSUME NEW mark, Failed(mark), log # << >>, UNCHANGED <<log, state>>,
               tables'.claims = tables.claims, tables'.sources = tables.sources,
               tables'.fps \in {tables.fps, EmptyTables.fps}
        PROVE  AccountInv'
    <2>1. pc' = "next" /\ mem' = mem
      BY <1>3 DEF Failed, Skip
    <2> QED
      BY <1>0, <1>3, <2>1, EmptyFields, AccountNext
  <1>4. ASSUME pc \notin {"idle", "plan", "seed"} PROVE log # << >>
    BY <1>4 DEF AccountInv
  <1>5. ASSUME Preserve
        PROVE  /\ UNCHANGED <<log, state>> /\ tables'.claims = tables.claims
               /\ tables'.sources = tables.sources /\ tables'.fps = EmptyTables.fps
    BY <1>0, <1>5 DEF Preserve, Typed, Tables
  <1>6. CASE UNCHANGED vars
    BY <1>1, <1>6 DEF vars
  <1>7. ASSUME NEW f \in Files, Edit(f) \/ Delete(f) PROVE AccountInv'
    BY <1>1, <1>7 DEF Edit, Delete
  <1>8. ASSUME NEW p \in Profiles, Configure(p) PROVE AccountInv'
    BY <1>1, <1>8 DEF Configure
  <1>9. CASE Damage
    BY <1>1, <1>9 DEF Damage
  <1>10. CASE Crash
    BY <1>2, <1>10 DEF Crash, Stopped
  <1>11. ASSUME NEW forced \in BOOLEAN, Begin(forced) PROVE AccountInv'
    BY <1>11, AccountBootstrap DEF Begin
  <1>12. CASE BeginSeed
    BY <1>12, AccountBootstrap DEF BeginSeed
  <1>13. ASSUME LogProfile, pc \in {"plan", "seed"}, UNCHANGED <<tables, state, mem>>, pc' = "next"
         PROVE  AccountInv'
    <2>1. ProfileUpdated(prof) \in Events /\ log' \in Seq(Events)
      BY <1>0, <1>13, EventTypes, ProfileLogged DEF Control
    <2>2. CASE log' = log
      <3>1. log # << >>
        BY <1>13, <2>2, AppendFacts, <2>1, NothingCurrent, <1>0 DEF LogProfile, Typed
      <3> QED
        BY <1>0, <1>13, <2>2, <3>1, AccountNext
    <2>3. CASE log' = Append(log, ProfileUpdated(prof))
      <3>1. log' # << >>
        BY <1>0, <2>1, <2>3, AppendFacts DEF Typed
      <3> QED
        BY <1>0, <1>13, <2>1, <2>3, <3>1, AccountNext
    <2> QED
      BY <1>13, <2>2, <2>3 DEF LogProfile
  <1>14. CASE Plan
    BY <1>13, <1>14 DEF Plan
  <1>15. CASE TakeGone
    <2>1. op = "sync" /\ Job = todo[1] /\ Job.file \in Files /\ log # << >>
      BY <1>0, <1>4, <1>15, TodoFacts DEF TakeGone, Control
    <2>2. OldUrn \in Urns
      BY <1>0, <1>15, <2>1, OldUrnType DEF TakeGone
    <2>3. Removed(Job.file, OldUrn) \in Events /\ log' = Append(log, Removed(Job.file, OldUrn))
      BY <1>15, <2>1, <2>2, EventTypes DEF TakeGone
    <2>4. log' # << >>
      BY <1>0, <2>3, AppendFacts DEF Typed
    <2> QED
      BY <1>0, <1>15, <2>1, <2>3, <2>4, AccountNext DEF TakeGone
  <1>16. CASE TakeVanished
    BY <1>3, <1>4, <1>16 DEF TakeVanished
  <1>17. CASE Identify
    BY <1>1, <1>4, <1>17 DEF Identify
  <1>18. CASE Extract
    BY <1>1, <1>4, <1>18 DEF Extract
  <1>19. CASE ExtractGone
    BY <1>3, <1>4, <1>19 DEF ExtractGone
  <1>20. CASE ExtractFail
    BY <1>3, <1>4, <1>20 DEF ExtractFail
  <1>21. CASE Hash
    BY <1>1, <1>2, <1>4, <1>21 DEF Hash, Abort, Stopped
  <1>22. ASSUME pc \in Treating
         PROVE  cur.file \in Files /\ cur.file = Job.file /\ Job = todo[1] /\ todo # << >>
                /\ op = "sync" /\ Job \in JobsIn(todo) /\ log # << >>
    BY <1>0, <1>4, <1>22, TodoFacts DEF Control, Known, JobsIn
  <1>23. CASE LogDrop
    <2>1. cur.file \in Files /\ OldUrn \in Urns
      BY <1>0, <1>22, <1>23, OldUrnType DEF LogDrop, Control, Known
    <2>2. Removed(cur.file, OldUrn) \in Events /\ log' = Append(log, Removed(cur.file, OldUrn))
      BY <1>23, <2>1, EventTypes DEF LogDrop
    <2>3. log' # << >>
      BY <1>0, <2>2, AppendFacts DEF Typed
    <2> QED
      BY <1>0, <1>22, <1>23, <2>2, <2>3, AccountNext DEF LogDrop
  <1>24. ASSUME pc \in Dropping PROVE OldUrn \in Urns /\ cur.file \in Files
    BY <1>0, <1>22, <1>24, OldUrnType DEF Control, Known
  <1>25. CASE DropClaimsStep
    <2>1. tables' = DropClaims(tables, OldUrn) /\ log # << >>
      BY <1>22, <1>25 DEF DropClaimsStep
    <2>2. /\ BagToSet(tables'.claims) \subseteq BagToSet(tables.claims)
          /\ tables'.fps = tables.fps /\ tables'.sources = tables.sources
      <3>1. OldUrn \in Urns /\ cur.file \in Files /\ tables \in Tables
        BY <1>0, <1>24, <1>25 DEF DropClaimsStep, Typed
      <3> HIDE DEF Dropping, Adding, Treating
      <3> QED
        BY <2>1, <3>1, DropClaimsFields
    <2> QED
      BY <1>0, <1>25, <2>1, <2>2, AccountNext DEF DropClaimsStep
  <1>26. CASE DropFps
    <2>1. CASE UNCHANGED <<user, log, unreadable, state, version, run, mem, todo, cur, history>>
               /\ pc' = "dropsource" /\ tables' = DropFingerprint(tables, OldUrn)
      <3>1. log # << >> /\ OldUrn \in Urns /\ cur.file \in Files
        BY <1>22, <1>24, <1>26 DEF DropFps
      <3>2. /\ tables'.claims = tables.claims /\ tables'.sources = tables.sources
            /\ \A u \in Urns : tables'.fps[u] \in {None, tables.fps[u]}
        <4>1. tables \in Tables /\ tables.fps \in [Urns -> Texts \union {None}]
          BY <1>0 DEF Typed, Tables
        <4>2. /\ tables'.claims = tables.claims /\ tables'.sources = tables.sources
              /\ tables'.fps = [tables.fps EXCEPT ![OldUrn] = None]
          BY <2>1, <4>1, DropFingerprintFields
        <4> QED
          BY <4>1, <4>2
      <3> QED
        BY <1>0, <2>1, <3>1, <3>2, AccountNext
    <2>2. CASE Preserve
      BY <1>2, <1>3, <1>5, <1>22, <1>26, <2>2 DEF DropFps, Preserve, Stopped
    <2> QED
      BY <1>26, <2>1, <2>2 DEF DropFps
  <1>27. CASE DropSourceStep
    <2>1. tables' = DropSource(tables, cur.file) /\ log # << >> /\ cur.file \in Files
      BY <1>22, <1>27 DEF DropSourceStep
    <2>2. OldUrn \in Urns
      BY <1>24, <1>27 DEF DropSourceStep
    <2>3. /\ tables'.claims = tables.claims /\ tables'.fps = tables.fps
          /\ \A f \in Files : tables'.sources[f] \in {None, tables.sources[f]}
      <3>1. tables \in Tables /\ tables.sources \in [Files -> Rows \union {None}]
        BY <1>0 DEF Typed, Tables
      <3> HIDE DEF Dropping, Adding, Treating
      <3>2. /\ tables'.claims = tables.claims /\ tables'.fps = tables.fps
            /\ tables'.sources = [tables.sources EXCEPT ![cur.file] = None]
        BY <2>1, <3>1, DropSourceFields
      <3> QED
        BY <3>1, <3>2
    <2>4. \A f \in Files : mem'.files[f] \in {None, mem.files[f]}
      BY <1>0, <1>27, <2>1 DEF DropSourceStep, Typed, Sheets
    <2>5. pc' \in {"next", "stat"} /\ UNCHANGED <<log, state>>
      BY <1>27 DEF DropSourceStep, Skip
    <2> QED
      BY <1>0, <2>1, <2>3, <2>4, <2>5, AccountNext
  <1>28. CASE LogUpsert
    <2>1. /\ cur.file \in Files /\ disk[cur.file] \in Looks /\ todo[1].kind # "gone"
          /\ cur.urn \in Urns /\ cur.text \in Texts /\ cur.sha \in Contents /\ log # << >>
      BY <1>0, <1>22, <1>28 DEF LogUpsert, Typed, Control, Known
    <2> DEFINE x == [sha |-> cur.sha, stamp |-> disk[cur.file].stamp, urn |-> cur.urn,
                     seeded |-> FALSE]
               r == [urn |-> cur.urn, text |-> cur.text]
               e == Upserted(cur.file, r, x)
    <2>2. x \in Entries /\ r \in Rows
      BY <2>1 DEF Entries, Rows, Looks
    <2>3. /\ cur'.entry = x /\ cur'.file = cur.file /\ cur'.urn = cur.urn /\ cur'.text = cur.text
          /\ log' = Append(log, e)
      BY <1>0, <1>28 DEF LogUpsert, Typed, CurRecords
    <2> HIDE DEF x
    <2>4. e \in Events /\ RowIn(e, r) /\ EntryIn(e, cur.file, x)
      BY <2>1, <2>2, EventTypes DEF RowIn, EntryIn, Upserted
    <2> HIDE DEF e
    <2>5. /\ \E q : RowAccounted(q)' /\ q = r
          /\ \E f, y : EntryAccounted(f, y)' /\ f = cur.file /\ y = x
          /\ log' # << >>
      <3>1. /\ \A q : RowIn(e, q) => RowAccounted(q)'
            /\ \A f, y : EntryIn(e, f, y) => EntryAccounted(f, y)'
            /\ log' # << >>
        BY <1>0, <2>3, <2>4, AccountedGrows
      <3> QED
        BY <2>4, <3>1
    <2>6. NewRow' = r
      BY <2>3 DEF NewRow
    <2>7. UNCHANGED <<tables, state, mem>>
      BY <1>28 DEF LogUpsert
    <2> QED
      BY <1>0, <2>1, <2>3, <2>4, <2>5, <2>6, <2>7, AccountNext
  <1>29. CASE StatFail
    BY <1>3, <1>4, <1>29 DEF StatFail
  <1>30. ASSUME pc \in Adding
         PROVE  /\ cur.file \in Files /\ NewRow \in Rows /\ log # << >>
                /\ RowAccounted(NewRow) /\ EntryAccounted(cur.file, cur.entry)
    BY <1>0, <1>22, <1>30 DEF Control, Known, NewRow, Rows, AccountInv
  <1>31. ASSUME pc \in Adding, log' = log, cur' = cur
         PROVE  /\ \E r : RowAccounted(r)' /\ r = NewRow
                /\ \E r : RowAccounted(r)' /\ r = NewRow'
                /\ \E f, x : EntryAccounted(f, x)' /\ f = cur.file /\ x = cur.entry
                /\ \E f, x : EntryAccounted(f, x)' /\ f = cur'.file /\ x = cur'.entry
    <2>1. RowAccounted(NewRow) /\ EntryAccounted(cur.file, cur.entry)
      BY <1>30, <1>31
    <2>2. /\ \A r : RowAccounted(r) => RowAccounted(r)'
          /\ \A f, x : EntryAccounted(f, x) => EntryAccounted(f, x)'
      BY <1>31, AccountedKept
    <2>3. NewRow' = NewRow
      BY <1>31 DEF NewRow
    <2> QED
      BY <1>31, <2>1, <2>2, <2>3
  <1>32. CASE AppendClaims
    <2>1. CASE UNCHANGED <<user, log, unreadable, state, version, run, mem, todo, cur, history>>
               /\ pc' = "fps" /\ tables' = AddClaims(tables, NewRow)
      <3>1. log # << >> /\ NewRow \in Rows /\ cur.file \in Files /\ pc \in Adding
        BY <1>30, <1>32 DEF AppendClaims
      <3>2. /\ BagToSet(tables'.claims) = BagToSet(tables.claims) \union {NewRow}
            /\ tables'.sources = tables.sources /\ tables'.fps = tables.fps
        BY <1>0, <2>1, AddClaimsFields DEF Typed
      <3> QED
        BY <1>0, <1>31, <2>1, <3>1, <3>2, AccountNext
    <2>2. CASE Preserve /\ Failed({"failed"})
      BY <1>3, <1>5, <1>22, <1>32, <2>2 DEF AppendClaims
    <2> QED
      BY <1>32, <2>1, <2>2 DEF AppendClaims
  <1>33. CASE WriteFps
    <2>1. log # << >> /\ NewRow \in Rows /\ cur.file \in Files /\ pc \in Adding
      BY <1>30, <1>33 DEF WriteFps
    <2>2. /\ tables'.claims = tables.claims /\ tables'.sources = tables.sources
          /\ tables'.fps = [tables.fps EXCEPT ![NewRow.urn] = NewRow.text]
      <3>1. tables' = AddFingerprint(tables, NewRow)
        BY <1>33 DEF WriteFps
      <3> QED
        BY <1>0, <3>1, AddFingerprintFields DEF Typed
    <2>3. UNCHANGED <<log, state, mem, cur>> /\ pc' = "sources"
      BY <1>33 DEF WriteFps
    <2>4. ASSUME NEW u \in Urns
          PROVE  \/ tables'.fps[u] \in {None, tables.fps[u]}
                 \/ \E r : RowAccounted(r)' /\ r = [urn |-> u, text |-> tables'.fps[u]]
      <3>1. CASE u = NewRow.urn
        <4>1. tables'.fps[u] = NewRow.text
          BY <1>0, <2>2, <3>1 DEF Typed, Tables
        <4>2. NewRow = [urn |-> u, text |-> tables'.fps[u]]
          BY <3>1, <4>1 DEF NewRow
        <4> QED
          BY <1>31, <2>1, <2>3, <4>2
      <3>2. CASE u # NewRow.urn
        BY <1>0, <2>2, <3>2 DEF Typed, Tables
      <3> QED
        BY <3>1, <3>2
    <2> QED
      BY <1>0, <1>31, <2>1, <2>2, <2>3, <2>4, AccountNext
  <1>34. CASE WriteSource
    <2>1. log # << >> /\ NewRow \in Rows /\ cur.file \in Files /\ pc \in Adding
      BY <1>30, <1>34 DEF WriteSource
    <2>2. /\ tables'.claims = tables.claims /\ tables'.fps = tables.fps
          /\ tables'.sources = [tables.sources EXCEPT ![cur.file] = NewRow]
      BY <1>0, <1>34 DEF WriteSource, AddSource, Typed, Tables
    <2>3. UNCHANGED <<log, state>> /\ pc' = "next"
          /\ mem' = [mem EXCEPT !.files[cur.file] = cur.entry]
      BY <1>34 DEF WriteSource, Skip
    <2>4. /\ \E r : RowAccounted(r)' /\ r = NewRow
          /\ \E f, x : EntryAccounted(f, x)' /\ f = cur.file /\ x = cur.entry
      <3>1. RowAccounted(NewRow) /\ EntryAccounted(cur.file, cur.entry)
        BY <1>30, <2>1
      <3>2. /\ \A r : RowAccounted(r) => RowAccounted(r)'
            /\ \A f, x : EntryAccounted(f, x) => EntryAccounted(f, x)'
        BY <2>3, AccountedKept
      <3> QED
        BY <3>1, <3>2
    <2>5. \A f \in Files : \/ tables'.sources[f] \in {None, tables.sources[f]}
                           \/ \E r : RowAccounted(r)' /\ r = tables'.sources[f]
      BY <1>0, <2>2, <2>4 DEF Typed, Tables
    <2>6. \A f \in Files : \/ mem'.files[f] \in {None, mem.files[f]}
                           \/ \E x : EntryAccounted(f, x)' /\ x = mem'.files[f]
      BY <1>0, <2>1, <2>3, <2>4 DEF Typed, Sheets
    <2> QED
      BY <1>0, <2>1, <2>2, <2>3, <2>5, <2>6, AccountNext
  <1>35. CASE Seed
    <2>1. Job.file \in Files /\ todo # << >> /\ pc = "seed"
      BY <1>0, <1>35, TodoFacts DEF Seed
    <2>2. CASE disk[Job.file] # None
      <3> DEFINE d == disk[Job.file]
                 x == [sha |-> d.body, stamp |-> d.stamp, urn |-> Urn(Job.file, d.body),
                       seeded |-> TRUE]
                 e == Seeded(Job.file, x)
      <3>1. x \in Entries
        BY <1>0, <2>1, <2>2, EntryOf DEF Typed, Entries, Looks
      <3>2. /\ log' = IF IsCurrent(log, e) THEN log ELSE Append(log, e)
            /\ mem' = [mem EXCEPT !.files[Job.file] = x]
            /\ pc' = pc
            /\ UNCHANGED <<tables, state>>
        BY <1>35, <2>2 DEF Seed
      <3> HIDE DEF x
      <3>3. e \in Events /\ EntryIn(e, Job.file, x)
        BY <2>1, <3>1, EventTypes DEF EntryIn, Seeded
      <3> HIDE DEF e
      <3>4. /\ log' = log \/ \E y \in Events : log' = Append(log, y)
            /\ log' # << >>
            /\ \E f, y : EntryAccounted(f, y)' /\ f = Job.file /\ y = x
        <4>1. CASE IsCurrent(log, e)
          <5>1. log' = log
            BY <3>2, <4>1
          <5>2. PICK i \in DOMAIN log : log[i] = e
            BY <4>1 DEF IsCurrent
          <5>3. \E k \in DOMAIN log' : EntryIn(log'[k], Job.file, x)
            BY <3>3, <5>1, <5>2
          <5>4. \E f, y : (\E k \in DOMAIN log' : EntryIn(log'[k], f, y)) /\ f = Job.file /\ y = x
            BY <5>3
          <5>5. log # << >>
            BY <5>2
          <5> QED
            BY <5>1, <5>4, <5>5, AccountedMeans
        <4>2. CASE ~IsCurrent(log, e)
          <5>1. log' = Append(log, e)
            BY <3>2, <4>2
          <5>2. /\ \A f, y : EntryIn(e, f, y) => EntryAccounted(f, y)'
                /\ log' # << >>
            BY <1>0, <3>3, <5>1, AccountedGrows
          <5> QED
            BY <3>3, <5>1, <5>2
        <4> QED
          BY <4>1, <4>2
      <3>5. \A f \in Files : \/ mem'.files[f] \in {None, mem.files[f]}
                             \/ \E y : EntryAccounted(f, y)' /\ y = mem'.files[f]
        BY <1>0, <2>1, <3>2, <3>4 DEF Typed, Sheets
      <3> QED
        BY <1>0, <2>1, <3>2, <3>4, <3>5, AccountNext
    <2>3. CASE disk[Job.file] = None
      BY <1>2, <1>35, <2>3 DEF Seed, Abort, Stopped
    <2> QED
      BY <2>2, <2>3
  <1>36. CASE SeedDone
    BY <1>13, <1>36 DEF SeedDone
  <1>37. CASE SaveOpen
    <2>1. log # << >> /\ mem'.files = mem.files /\ state' = None /\ pc' = "saving"
          /\ UNCHANGED <<log, tables>>
      BY <1>0, <1>4, <1>37 DEF SaveOpen, Typed, Sheets
    <2> QED
      BY <1>0, <2>1, AccountNext
  <1>38. CASE SaveWrite
    <2>1. log # << >> /\ state' = mem /\ UNCHANGED <<log, tables>>
          /\ \/ mem' = mem /\ pc' = "stamp"
             \/ mem' = EmptyState /\ pc' = "idle"
      BY <1>4, <1>38 DEF SaveWrite, Reset
    <2> QED
      BY <1>0, <2>1, EmptyFields, AccountNext
  <1>39. CASE Stamp
    BY <1>2, <1>39 DEF Stamp
  <1> QED
    BY <1>6, <1>7, <1>8, <1>9, <1>10, <1>11, <1>12, <1>14, <1>15, <1>16, <1>17, <1>18, <1>19,
       <1>20, <1>21, <1>23, <1>25, <1>26, <1>27, <1>28, <1>29, <1>32, <1>33, <1>34, <1>35, <1>36,
       <1>37, <1>38, <1>39 DEF Next, Step

\* "Appending precedes projection mutation": whatever dies when, nothing is in a
\* table or in the state file that the log does not account for.
THEOREM LogFirst == Spec => []WriteAhead
  <1>1. AccountInv => WriteAhead
    BY DEF AccountInv
  <1> QED
    BY <1>1, AccountInit, AccountStep, PassesSound, PTL DEF Spec

----------------------------------------------------------------------------
(* Replaying one event more.                                               *)

\* The store s with the tables t and the entry x for file f.
Moved(s, t, f, x) ==
    [tables |-> t, state |-> [files |-> [s.state.files EXCEPT ![f] = x],
                              profile |-> s.state.profile]]
\* The same as Apply has it.
Put(s, f, x) == [s EXCEPT !.state.files[f] = x]
PutBoth(s, t, f, x) == [s EXCEPT !.tables = t, !.state.files[f] = x]

LEMMA MovedFacts ==
  ASSUME NEW s \in Stores, NEW t \in Tables, NEW f \in Files, NEW x \in Entries \union {None}
  PROVE  /\ Moved(s, t, f, x) \in Stores
         /\ PutBoth(s, t, f, x) = Moved(s, t, f, x)
         /\ Put(s, f, x) = Moved(s, s.tables, f, x)
  <1>1. /\ s = [tables |-> s.tables, state |-> s.state] /\ s.tables \in Tables
        /\ s.state \in Sheets
    BY DEF Stores
  <1>2. /\ s.state = [files |-> s.state.files, profile |-> s.state.profile]
        /\ s.state.files \in [Files -> Entries \union {None}]
        /\ s.state.profile \in Profiles \union {None}
    BY <1>1 DEF Sheets
  <1>3. [s.state EXCEPT !.files[f] = x]
          = [files |-> [s.state.files EXCEPT ![f] = x], profile |-> s.state.profile]
    BY <1>2
  <1>4. Put(s, f, x) = [tables |-> s.tables, state |-> [s.state EXCEPT !.files[f] = x]]
    BY <1>1 DEF Put
  <1>5. PutBoth(s, t, f, x) = [tables |-> t, state |-> [s.state EXCEPT !.files[f] = x]]
    <2>1. PutBoth(s, t, f, x) = Put([s EXCEPT !.tables = t], f, x)
      BY DEF Put, PutBoth
    <2>2. [s EXCEPT !.tables = t] = [tables |-> t, state |-> s.state]
      BY <1>1
    <2>3. Put([tables |-> t, state |-> s.state], f, x)
            = [tables |-> t, state |-> [s.state EXCEPT !.files[f] = x]]
      BY DEF Put
    <2> QED
      BY <2>1, <2>2, <2>3
  <1>6. [s.state.files EXCEPT ![f] = x] \in [Files -> Entries \union {None}]
    BY <1>2
  <1> QED
    BY <1>1, <1>2, <1>3, <1>4, <1>5, <1>6 DEF Stores, Sheets, Moved

\* What each kind of event makes of a store.
LEMMA ApplyUpserted ==
  ASSUME NEW s \in Stores, NEW f \in Files, NEW r \in Rows, NEW e \in Entries
  PROVE  /\ Apply(s, Upserted(f, r, e)) = Moved(s, AppendSource(s.tables, f, r), f, e)
         /\ Apply(s, Upserted(f, r, e)) \in Stores
  <1>0. s.tables \in Tables
    BY DEF Stores
  <1>1. AddClaims(s.tables, r) \in Tables
    BY <1>0, AddTypes
  <1>2. AddFingerprint(AddClaims(s.tables, r), r) \in Tables
    BY <1>1, AddTypes
  <1>3. AppendSource(s.tables, f, r) \in Tables
    BY <1>2, AddTypes DEF AppendSource
  <1>4. Apply(s, Upserted(f, r, e)) = PutBoth(s, AppendSource(s.tables, f, r), f, e)
    BY DEF Apply, Upserted, Stores, PutBoth
  <1>5. PutBoth(s, AppendSource(s.tables, f, r), f, e)
          = Moved(s, AppendSource(s.tables, f, r), f, e)
    BY <1>3, MovedFacts
  <1>6. Moved(s, AppendSource(s.tables, f, r), f, e) \in Stores
    BY <1>3, MovedFacts
  <1> QED
    BY <1>4, <1>5, <1>6

LEMMA ApplyRemoved ==
  ASSUME NEW s \in Stores, NEW f \in Files, NEW u \in Urns
  PROVE  /\ Apply(s, Removed(f, u)) = Moved(s, RemoveSource(s.tables, f, u), f, None)
         /\ Apply(s, Removed(f, u)) \in Stores
  <1>0. s.tables \in Tables
    BY DEF Stores
  <1>1. DropClaims(s.tables, u) \in Tables
    BY <1>0, DropTypes
  <1>2. DropFingerprint(DropClaims(s.tables, u), u) \in Tables
    BY <1>1, DropTypes
  <1>3. RemoveSource(s.tables, f, u) \in Tables
    BY <1>2, DropTypes DEF RemoveSource
  <1>4. Apply(s, Removed(f, u)) = PutBoth(s, RemoveSource(s.tables, f, u), f, None)
    BY DEF Apply, Removed, Stores, PutBoth
  <1>5. PutBoth(s, RemoveSource(s.tables, f, u), f, None)
          = Moved(s, RemoveSource(s.tables, f, u), f, None)
    BY <1>3, MovedFacts
  <1>6. Moved(s, RemoveSource(s.tables, f, u), f, None) \in Stores
    BY <1>3, MovedFacts
  <1> QED
    BY <1>4, <1>5, <1>6

LEMMA ApplySeeded ==
  ASSUME NEW s \in Stores, NEW f \in Files, NEW e \in Entries
  PROVE  /\ Apply(s, Seeded(f, e)) = Moved(s, s.tables, f, e)
         /\ Apply(s, Seeded(f, e)) \in Stores
  <1>0. s.tables \in Tables
    BY DEF Stores
  <1>1. Apply(s, Seeded(f, e)) = Put(s, f, e)
    BY DEF Apply, Seeded, Put
  <1>2. Put(s, f, e) = Moved(s, s.tables, f, e) /\ Moved(s, s.tables, f, e) \in Stores
    BY <1>0, MovedFacts
  <1> QED
    BY <1>1, <1>2

LEMMA ApplyProfile ==
  ASSUME NEW s \in Stores, NEW p \in Profiles
  PROVE  /\ Apply(s, ProfileUpdated(p))
              = [tables |-> s.tables, state |-> [files |-> s.state.files, profile |-> p]]
         /\ Apply(s, ProfileUpdated(p)) \in Stores
  <1>0. s.tables \in Tables /\ s.state \in Sheets
    BY DEF Stores
  <1>1. Apply(s, ProfileUpdated(p)) = [s EXCEPT !.state.profile = p]
    BY DEF Apply, ProfileUpdated
  <1>2. [s EXCEPT !.state.profile = p]
          = [tables |-> s.tables, state |-> [s.state EXCEPT !.profile = p]]
    BY DEF Stores
  <1>3. [s.state EXCEPT !.profile = p] = [files |-> s.state.files, profile |-> p]
        /\ [s.state EXCEPT !.profile = p] \in Sheets
    BY <1>0 DEF Sheets
  <1> QED
    BY <1>0, <1>1, <1>2, <1>3 DEF Stores

LEMMA ApplyBaseline ==
  ASSUME NEW s, NEW b
  PROVE  Apply(s, Baseline(b)) = b
  BY DEF Apply, Baseline

LEMMA EventForms ==
  ASSUME NEW e \in Events
  PROVE  \/ \E f \in Files, r \in Rows, x \in Entries : e = Upserted(f, r, x)
         \/ \E f \in Files, u \in Urns : e = Removed(f, u)
         \/ \E f \in Files, x \in Entries : e = Seeded(f, x)
         \/ \E p \in Profiles : e = ProfileUpdated(p)
         \/ \E b \in Stores : e = Baseline(b)
  <1>1. CASE e \in [type : {"source.upserted"}, file : Files, row : Rows, entry : Entries]
    <2>1. e = Upserted(e.file, e.row, e.entry) /\ e.file \in Files /\ e.row \in Rows
          /\ e.entry \in Entries
      BY <1>1 DEF Upserted
    <2> QED
      BY <2>1
  <1>2. CASE e \in [type : {"source.removed"}, file : Files, urn : Urns]
    <2>1. e = Removed(e.file, e.urn) /\ e.file \in Files /\ e.urn \in Urns
      BY <1>2 DEF Removed
    <2> QED
      BY <2>1
  <1>3. CASE e \in [type : {"source.seeded"}, file : Files, entry : Entries]
    <2>1. e = Seeded(e.file, e.entry) /\ e.file \in Files /\ e.entry \in Entries
      BY <1>3 DEF Seeded
    <2> QED
      BY <2>1
  <1>4. CASE e \in [type : {"sync.profile.updated"}, profile : Profiles]
    <2>1. e = ProfileUpdated(e.profile) /\ e.profile \in Profiles
      BY <1>4 DEF ProfileUpdated
    <2> QED
      BY <2>1
  <1>5. CASE e \in [type : {"projection.baseline"}, store : Stores]
    <2>1. e = Baseline(e.store) /\ e.store \in Stores
      BY <1>5 DEF Baseline
    <2> QED
      BY <2>1
  <1> QED
    BY <1>1, <1>2, <1>3, <1>4, <1>5 DEF Events

LEMMA ApplyType ==
  ASSUME NEW s \in Stores, NEW e \in Events
  PROVE  Apply(s, e) \in Stores
  BY EventForms, ApplyUpserted, ApplyRemoved, ApplySeeded, ApplyProfile, ApplyBaseline

LEMMA EmptyStoreType == EmptyStore \in Stores
  BY EmptyTypes DEF EmptyStore, Stores

StepsOf(s) == [i \in 1..Len(s) |-> [v \in Stores |-> Apply(v, s[i])]]

LEMMA StepsType ==
  ASSUME NEW s \in Seq(Events)
  PROVE  /\ Len(s) \in Nat /\ DOMAIN s = 1..Len(s)
         /\ StepsOf(s) \in [1..Len(s) -> [Stores -> Stores]]
         /\ \A i \in 1..Len(s), v \in Stores : StepsOf(s)[i][v] = Apply(v, s[i])
  <1>1. Len(s) \in Nat /\ DOMAIN s = 1..Len(s) /\ \A i \in 1..Len(s) : s[i] \in Events
    OBVIOUS
  <1>2. \A i \in 1..Len(s) : [v \in Stores |-> Apply(v, s[i])] \in [Stores -> Stores]
    BY <1>1, ApplyType
  <1> QED
    BY <1>1, <1>2 DEF StepsOf

Folds(s, iter) ==
    iter = [S \in SUBSET (1..Len(s)) |->
              IF S = {} THEN EmptyStore ELSE Apply(iter[S \ {Max(S)}], s[Max(S)])]

LEMMA FoldsAt ==
  ASSUME NEW s, NEW it, Folds(s, it), NEW S \in SUBSET (1..Len(s))
  PROVE  it[S] = IF S = {} THEN EmptyStore ELSE Apply(it[S \ {Max(S)}], s[Max(S)])
  <1> DEFINE all == [U \in SUBSET (1..Len(s)) |->
                       IF U = {} THEN EmptyStore ELSE Apply(it[U \ {Max(U)}], s[Max(U)])]
  <1>1. all[S] = IF S = {} THEN EmptyStore ELSE Apply(it[S \ {Max(S)}], s[Max(S)])
    OBVIOUS
  <1>2. it = all
    BY DEF Folds
  <1> HIDE DEF all
  <1> QED
    BY <1>1, <1>2

LEMMA FoldsAgree ==
  ASSUME NEW s \in Seq(Events), NEW it, NEW iter, Folds(s, it), Folds(s, iter)
  PROVE  it[1..Len(s)] = iter[1..Len(s)]
  <1> DEFINE Bad == {k \in Nat : k <= Len(s) /\ it[1..k] # iter[1..k]}
  <1>0. Len(s) \in Nat
    OBVIOUS
  <1>1. ASSUME NEW k \in Nat, k <= Len(s) PROVE 1..k \in SUBSET (1..Len(s))
    <2>1. \A i \in 1..k : i \in 1..Len(s)
      BY <1>0, <1>1
    <2> QED
      BY <2>1
  <1>2. ASSUME Bad # {} PROVE FALSE
    <2>1. PICK k \in Bad : \A j \in Bad : k <= j
      BY <1>2, LeastNumber
    <2>2. CASE k = 0
      <3>1. 1..k = {}
        BY <2>2
      <3>2. {} \in SUBSET (1..Len(s))
        OBVIOUS
      <3>3. it[{}] = EmptyStore /\ iter[{}] = EmptyStore
        BY <3>2, FoldsAt
      <3> QED
        BY <3>1, <3>3
    <2>3. CASE k # 0
      <3>1. k \in Nat /\ k - 1 \in Nat /\ k - 1 <= Len(s) /\ ~(k <= k - 1)
        BY <1>0, <2>3
      <3>2. it[1..(k - 1)] = iter[1..(k - 1)]
        BY <2>1, <3>1
      <3>3. Max(1..k) = k /\ (1..k) \ {k} = 1..(k - 1) /\ 1..k # {}
        BY <2>3, <3>1, PrefixMax
      <3>4. 1..k \in SUBSET (1..Len(s))
        BY <1>1, <3>1
      <3> DEFINE S == 1..k
                 below == 1..(k - 1)
      <3>5. Max(S) = k /\ S \ {k} = below /\ S # {} /\ S \in SUBSET (1..Len(s))
        BY <3>3, <3>4
      <3> HIDE DEF S, below
      <3>6. it[S] = IF S = {} THEN EmptyStore ELSE Apply(it[S \ {Max(S)}], s[Max(S)])
        BY <3>5, FoldsAt
      <3>7. iter[S] = IF S = {} THEN EmptyStore ELSE Apply(iter[S \ {Max(S)}], s[Max(S)])
        BY <3>5, FoldsAt
      <3>8. it[1..k] = Apply(it[1..(k - 1)], s[k])
        BY <3>5, <3>6 DEF S, below
      <3>9. iter[1..k] = Apply(iter[1..(k - 1)], s[k])
        BY <3>5, <3>7 DEF S, below
      <3> QED
        BY <3>2, <3>8, <3>9
    <2> QED
      BY <2>2, <2>3
  <1>3. Len(s) <= Len(s)
    BY <1>0
  <1> QED
    BY <1>0, <1>2, <1>3

LEMMA ReplayRun ==
  ASSUME NEW s \in Seq(Events)
  PROVE  \E f : /\ Run(f, Len(s), Stores, EmptyStore, StepsOf(s), 1..Len(s))
                /\ f[Len(s)] = Replay(s)
  <1> DEFINE n == Len(s)
             step == StepsOf(s)
             it == CHOOSE iter : Folds(s, iter)
  <1>1. n \in Nat /\ DOMAIN s = 1..n /\ step \in [1..n -> [Stores -> Stores]]
        /\ \A i \in 1..n, v \in Stores : step[i][v] = Apply(v, s[i])
    BY StepsType
  <1>2. EmptyStore \in Stores
    BY EmptyStoreType
  <1>3. Replay(s) = it[1..n]
    BY <1>1 DEF Replay, FoldLeft, MapThenFoldSet, Folds
  <1> HIDE DEF n, step, it
  <1>4. \E iter : Iterates(iter, n, Stores, EmptyStore, step)
    BY <1>1, <1>2, FoldExists
  <1>5. PICK iter : Iterates(iter, n, Stores, EmptyStore, step)
    BY <1>4
  <1>6. Folds(s, iter)
    <2>1. ASSUME NEW S \in SUBSET (1..n), S # {}
          PROVE  step[Max(S)][iter[S \ {Max(S)}]] = Apply(iter[S \ {Max(S)}], s[Max(S)])
      <3>1. Max(S) \in 1..n /\ iter[S \ {Max(S)}] \in Stores
        BY <1>1, <1>5, <2>1, MaxFacts DEF Iterates
      <3> QED
        BY <1>1, <3>1
    <2>2. iter \in [SUBSET (1..n) -> Stores]
      BY <1>5 DEF Iterates
    <2>3. \A S \in SUBSET (1..n) :
            iter[S] = IF S = {} THEN EmptyStore ELSE Apply(iter[S \ {Max(S)}], s[Max(S)])
      BY <1>5, <2>1 DEF Iterates
    <2>4. iter = [S \in SUBSET (1..n) |->
                    IF S = {} THEN EmptyStore ELSE Apply(iter[S \ {Max(S)}], s[Max(S)])]
      BY <2>2, <2>3
    <2> QED
      BY <2>4 DEF Folds, n
  <1>7. Folds(s, it)
    BY <1>6 DEF it
  <1>8. it[1..n] = iter[1..n]
    BY <1>6, <1>7, FoldsAgree DEF n
  <1>9. \E f : Run(f, n, Stores, EmptyStore, step, 1..n) /\ f[n] = iter[1..n]
    BY <1>1, <1>2, <1>5, FoldRun
  <1> QED
    BY <1>3, <1>8, <1>9 DEF n, step

LEMMA ReplayNothing == Replay(<< >>) = EmptyStore
  <1>1. << >> \in Seq(Events) /\ Len(<< >>) = 0
    OBVIOUS
  <1>2. PICK f : /\ Run(f, 0, Stores, EmptyStore, StepsOf(<< >>), 1..0)
                 /\ f[0] = Replay(<< >>)
    BY <1>1, ReplayRun
  <1> QED
    BY <1>2 DEF Run

LEMMA ReplayAppend ==
  ASSUME NEW s \in Seq(Events), NEW e \in Events
  PROVE  Replay(s) \in Stores /\ Replay(Append(s, e)) = Apply(Replay(s), e)
  <1> DEFINE n == Len(s)
             t == Append(s, e)
  <1>1. n \in Nat /\ t \in Seq(Events) /\ Len(t) = n + 1 /\ t[n + 1] = e
        /\ \A i \in 1..n : t[i] = s[i]
    OBVIOUS
  <1>2. PICK f : Run(f, n, Stores, EmptyStore, StepsOf(s), 1..n) /\ f[n] = Replay(s)
    BY ReplayRun
  <1> HIDE DEF n, t
  <1>3. PICK g : /\ Run(g, n + 1, Stores, EmptyStore, StepsOf(t), 1..(n + 1))
                 /\ g[n + 1] = Replay(t)
    <2>1. \E g : /\ Run(g, Len(t), Stores, EmptyStore, StepsOf(t), 1..Len(t))
                 /\ g[Len(t)] = Replay(t)
      BY <1>1, ReplayRun
    <2> QED
      BY <1>1, <2>1
  <1>4. \A i \in 1..n : StepsOf(t)[i] = StepsOf(s)[i]
    <2>1. \A i \in 1..n : i \in 1..(n + 1)
      BY <1>1
    <2> QED
      BY <1>1, <2>1 DEF StepsOf, n
  <1>5. g[n + 1] = StepsOf(t)[n + 1][f[n]] /\ f[n] \in Stores
    BY <1>1, <1>2, <1>3, <1>4, RunGrows
  <1>6. n + 1 \in 1..Len(t)
    BY <1>1
  <1>7. StepsOf(t)[n + 1][f[n]] = Apply(f[n], e)
    BY <1>1, <1>5, <1>6, StepsType
  <1> QED
    BY <1>2, <1>3, <1>5, <1>7 DEF t

----------------------------------------------------------------------------
(* Replay.                                                                 *)

\* What the log says last of a profile or of a seeded entry, its replay has.
Said(s) ==
    /\ \A p \in Profiles : IsCurrent(s, ProfileUpdated(p)) => Replay(s).state.profile = p
    /\ \A f \in Files, e \in Entries :
          IsCurrent(s, Seeded(f, e)) => Replay(s).state.files[f] = e

LEMMA SaidNothing == Said(<< >>)
  BY NothingCurrent DEF Said

LEMMA EventsDiffer ==
  /\ \A f, r, e, p : Upserted(f, r, e) # ProfileUpdated(p)
  /\ \A f, r, e, g, x : Upserted(f, r, e) # Seeded(g, x)
  /\ \A f, u, p : Removed(f, u) # ProfileUpdated(p)
  /\ \A f, u, g, x : Removed(f, u) # Seeded(g, x)
  /\ \A f, e, p : Seeded(f, e) # ProfileUpdated(p)
  /\ \A f, e, g, x : Seeded(f, e) = Seeded(g, x) => f = g /\ e = x
  /\ \A p, q : ProfileUpdated(p) = ProfileUpdated(q) => p = q
  /\ \A b, p : Baseline(b) # ProfileUpdated(p)
  /\ \A b, g, x : Baseline(b) # Seeded(g, x)
  /\ \A b, f, u : Baseline(b) # Removed(f, u)
  <1>1. /\ \A f, r, e : Upserted(f, r, e).type = "source.upserted"
        /\ \A f, u : Removed(f, u).type = "source.removed"
        /\ \A f, e : /\ Seeded(f, e).type = "source.seeded"
                     /\ Seeded(f, e).file = f /\ Seeded(f, e).entry = e
        /\ \A p : /\ ProfileUpdated(p).type = "sync.profile.updated"
                  /\ ProfileUpdated(p).profile = p
        /\ \A b : Baseline(b).type = "projection.baseline"
    BY DEF Upserted, Removed, Seeded, ProfileUpdated, Baseline
  <1>2. /\ "source.upserted" # "sync.profile.updated" /\ "source.upserted" # "source.seeded"
        /\ "source.removed" # "sync.profile.updated" /\ "source.removed" # "source.seeded"
        /\ "source.seeded" # "sync.profile.updated"
        /\ "projection.baseline" # "sync.profile.updated"
        /\ "projection.baseline" # "source.seeded"
        /\ "projection.baseline" # "source.removed"
    OBVIOUS
  <1> QED
    BY <1>1, <1>2

LEMMA SaidBaseline ==
  ASSUME NEW b \in Stores
  PROVE  Said(<<Baseline(b)>>) /\ Replay(<<Baseline(b)>>) = b
  <1>1. Baseline(b) \in Events /\ << >> \in Seq(Events)
        /\ <<Baseline(b)>> = Append(<< >>, Baseline(b))
    BY EventTypes
  <1>2. \A x : IsCurrent(<<Baseline(b)>>, x) => x = Baseline(b)
    BY <1>1, CurrentBefore, NothingCurrent
  <1>3. Replay(<<Baseline(b)>>) = b
    BY <1>1, ReplayAppend, ApplyBaseline
  <1> QED
    BY <1>2, <1>3, EventsDiffer DEF Said

LEMMA SaidMoved ==
  ASSUME NEW s \in Seq(Events), NEW e \in Events, Said(s), NEW t, NEW f \in Files,
         NEW x \in Entries \union {None},
         Replay(Append(s, e)) = Moved(Replay(s), t, f, x), Object(e) = f,
         \A p : e # ProfileUpdated(p),
         \A g, y : e = Seeded(g, y) => g = f /\ y = x
  PROVE  Said(Append(s, e))
  <1> DEFINE r == Replay(s)
             q == Replay(Append(s, e))
  <1>1. r.state.files \in [Files -> Entries \union {None}]
    BY ReplayAppend DEF Stores, Sheets
  <1>2. /\ q.state.profile = r.state.profile /\ q.state.files[f] = x
        /\ \A g \in Files : g # f => q.state.files[g] = r.state.files[g]
    BY <1>1 DEF Moved
  <1> HIDE DEF r, q
  <1>3. ASSUME NEW p \in Profiles, IsCurrent(Append(s, e), ProfileUpdated(p))
        PROVE  q.state.profile = p
    <2>1. IsCurrent(s, ProfileUpdated(p))
      BY <1>3, CurrentBefore
    <2> QED
      BY <1>2, <2>1 DEF Said, r
  <1>4. ASSUME NEW g \in Files, NEW y \in Entries, IsCurrent(Append(s, e), Seeded(g, y))
        PROVE  q.state.files[g] = y
    <2>1. e = Seeded(g, y) \/ (g # f /\ IsCurrent(s, Seeded(g, y)))
      BY <1>4, CurrentBefore, Objects
    <2> QED
      BY <1>2, <2>1 DEF Said, r
  <1> QED
    BY <1>3, <1>4 DEF Said, q

LEMMA SaidAppend ==
  ASSUME NEW s \in Seq(Events), Said(s), NEW e \in Events, \A b : e # Baseline(b)
  PROVE  Said(Append(s, e))
  <1>0. Replay(s) \in Stores /\ Replay(Append(s, e)) = Apply(Replay(s), e)
    BY ReplayAppend
  <1>1. ASSUME NEW f \in Files, NEW r \in Rows, NEW x \in Entries, e = Upserted(f, r, x)
        PROVE  Said(Append(s, e))
    <2>1. Replay(Append(s, e)) = Moved(Replay(s), AppendSource(Replay(s).tables, f, r), f, x)
      BY <1>0, <1>1, ApplyUpserted
    <2> QED
      BY <1>1, <2>1, Objects, EventsDiffer, SaidMoved
  <1>2. ASSUME NEW f \in Files, NEW u \in Urns, e = Removed(f, u)
        PROVE  Said(Append(s, e))
    <2>1. Replay(Append(s, e)) = Moved(Replay(s), RemoveSource(Replay(s).tables, f, u), f, None)
      BY <1>0, <1>2, ApplyRemoved
    <2> QED
      BY <1>2, <2>1, Objects, EventsDiffer, SaidMoved
  <1>3. ASSUME NEW f \in Files, NEW x \in Entries, e = Seeded(f, x)
        PROVE  Said(Append(s, e))
    <2>1. Replay(Append(s, e)) = Moved(Replay(s), Replay(s).tables, f, x)
      BY <1>0, <1>3, ApplySeeded
    <2> QED
      BY <1>3, <2>1, Objects, EventsDiffer, SaidMoved
  <1>4. ASSUME NEW p \in Profiles, e = ProfileUpdated(p)
        PROVE  Said(Append(s, e))
    <2>1. Replay(Append(s, e)) = [tables |-> Replay(s).tables,
                                  state |-> [files |-> Replay(s).state.files, profile |-> p]]
      BY <1>0, <1>4, ApplyProfile
    <2>2. /\ Replay(Append(s, e)).state.profile = p
          /\ Replay(Append(s, e)).state.files = Replay(s).state.files
      BY <2>1
    <2>3. \A q : IsCurrent(Append(s, e), ProfileUpdated(q)) => q = p
      BY <1>4, CurrentBefore, EventsDiffer, Objects
    <2>4. \A g, y : IsCurrent(Append(s, e), Seeded(g, y)) => IsCurrent(s, Seeded(g, y))
      BY <1>4, CurrentBefore, EventsDiffer
    <2> QED
      BY <2>2, <2>3, <2>4 DEF Said
  <1> QED
    BY <1>1, <1>2, <1>3, <1>4, EventForms

\* The tables once the step of the log's last event is finished.
TablesToBe ==
    CASE pc = "dropclaims" -> RemoveSource(tables, cur.file, OldUrn)
      [] pc = "dropfps" -> DropSource(DropFingerprint(tables, OldUrn), cur.file)
      [] pc = "dropsource" -> DropSource(tables, cur.file)
      [] pc = "claims" -> AppendSource(tables, cur.file, NewRow)
      [] pc = "fps" -> AddSource(AddFingerprint(tables, NewRow), cur.file, NewRow)
      [] pc = "sources" -> AddSource(tables, cur.file, NewRow)
      [] OTHER -> tables

\* And the state file, once the pass has saved it.
FilesToBe ==
    CASE pc \in Dropping \union {"stat"} -> [mem.files EXCEPT ![cur.file] = None]
      [] pc \in Adding -> [mem.files EXCEPT ![cur.file] = cur.entry]
      [] OTHER -> mem.files
ProfileToBe == IF pc \in {"plan", "seed"} THEN mem.profile ELSE prof
StoreToBe ==
    [tables |-> TablesToBe,
     state |-> IF pc = "idle" THEN state ELSE [files |-> FilesToBe, profile |-> ProfileToBe]]

Unhurt == marks \intersect {"cut", "failed", "damaged"} = {}

Kept ==
    /\ ~unreadable
    /\ (pc = "idle" /\ log = << >>) \/ Replay(log) = StoreToBe
    /\ pc = "idle" /\ last = "clean" => version = Mint(tables)
    /\ pc \in {"saving", "stamp"} => mem.profile = prof
    /\ last = "clean" => pc = "idle"

FaithInv == Said(log) /\ (Unhurt => Kept)

LEMMA FaithInit == Init => FaithInv
  BY SaidNothing DEF Init, FaithInv, Kept, Unhurt

\* The store to be, at each place of a pass.
LEMMA ToBe ==
  /\ pc = "idle" => StoreToBe = [tables |-> tables, state |-> state]
  /\ pc \in {"plan", "seed"} =>
        StoreToBe = [tables |-> tables,
                     state |-> [files |-> mem.files, profile |-> mem.profile]]
  /\ pc \in {"next", "extract", "hash", "logdrop", "saving", "stamp"} =>
        StoreToBe = [tables |-> tables, state |-> [files |-> mem.files, profile |-> prof]]
  /\ pc \in Dropping \union {"stat"} =>
        StoreToBe = [tables |-> TablesToBe,
                     state |-> [files |-> [mem.files EXCEPT ![cur.file] = None],
                                profile |-> prof]]
  /\ pc \in Adding =>
        StoreToBe = [tables |-> TablesToBe,
                     state |-> [files |-> [mem.files EXCEPT ![cur.file] = cur.entry],
                                profile |-> prof]]
  <1> USE DEF StoreToBe, TablesToBe, FilesToBe, ProfileToBe, Dropping, Adding
  <1>1. CASE pc = "idle"
    BY <1>1
  <1>2. CASE pc \in {"plan", "seed"}
    BY <1>2
  <1>3. CASE pc \in {"next", "extract", "hash", "logdrop", "saving", "stamp"}
    BY <1>3
  <1>4. CASE pc \in Dropping \union {"stat"}
    BY <1>4
  <1>5. CASE pc \in Adding
    BY <1>5
  <1> QED
    BY <1>1, <1>2, <1>3, <1>4, <1>5

LEMMA TablesThen ==
  /\ pc = "dropclaims" => TablesToBe = RemoveSource(tables, cur.file, OldUrn)
  /\ pc = "dropfps" => TablesToBe = DropSource(DropFingerprint(tables, OldUrn), cur.file)
  /\ pc = "dropsource" => TablesToBe = DropSource(tables, cur.file)
  /\ pc = "stat" => TablesToBe = tables
  /\ pc = "claims" => TablesToBe = AppendSource(tables, cur.file, NewRow)
  /\ pc = "fps" => TablesToBe = AddSource(AddFingerprint(tables, NewRow), cur.file, NewRow)
  /\ pc = "sources" => TablesToBe = AddSource(tables, cur.file, NewRow)
  BY DEF TablesToBe

\* A step that leaves the store to be as it is.
LEMMA FaithMoving ==
  ASSUME FaithInv, log' = log, pc # "idle", pc' # "idle", Unhurt' => Unhurt,
         UNCHANGED unreadable, StoreToBe' = StoreToBe,
         Kept /\ pc' \in {"saving", "stamp"} => mem'.profile = prof',
         last' \in {last, "none"}
  PROVE  FaithInv'
  BY DEF FaithInv, Kept, Said

\* A step that logs an event.
LEMMA FaithGrowing ==
  ASSUME FaithInv, Typed, NEW e \in Events, \A b : e # Baseline(b), log' = Append(log, e),
         pc # "idle", pc' \notin {"idle", "saving", "stamp"}, UNCHANGED <<unreadable, last, marks>>,
         StoreToBe \in Stores => StoreToBe' = Apply(StoreToBe, e)
  PROVE  FaithInv'
  <1>1. log \in Seq(Events)
    BY DEF Typed
  <1>2. Said(log) /\ Said(Append(log, e))
    BY <1>1, SaidAppend DEF FaithInv
  <1>3. Said(log)'
    BY <1>2 DEF Said
  <1>4. Replay(log) \in Stores /\ Replay(Append(log, e)) = Apply(Replay(log), e)
    BY <1>1, ReplayAppend
  <1>5. ASSUME Unhurt' PROVE Kept'
    <2>1. Kept
      BY <1>5 DEF FaithInv, Unhurt
    <2>2. Replay(log) = StoreToBe
      BY <2>1 DEF Kept
    <2>3. Replay(log)' = StoreToBe'
      BY <1>4, <2>2
    <2> QED
      BY <2>1, <2>3 DEF Kept
  <1> QED
    BY <1>3, <1>5 DEF FaithInv

\* A pass that went wrong promises no more.
LEMMA FaithHurt ==
  ASSUME FaithInv, log' = log, marks' \intersect {"cut", "failed", "damaged"} # {}
  PROVE  FaithInv'
  BY DEF FaithInv, Unhurt, Said

LEMMA FaithBegin ==
  ASSUME FaithInv, Sound, pc = "idle", state # None, log' = Bootstrapped, mem' = state,
         pc' \in {"plan", "seed"}, UNCHANGED <<tables, unreadable>>, last' \in {"none", "running"},
         Unhurt' => Unhurt
  PROVE  FaithInv'
  <1> DEFINE s == [tables |-> tables, state |-> state]
  <1>1. log \in Seq(Events) /\ s \in Stores /\ state \in Sheets
    BY DEF Sound, Typed, Stores
  <1>2. state = [files |-> state.files, profile |-> state.profile]
    BY <1>1 DEF Sheets
  <1>3. StoreToBe' = s
    BY <1>2, ToBe
    DEF StoreToBe, TablesToBe, FilesToBe, ProfileToBe, Dropping, Adding
  <1>4. Said(Bootstrapped)
    <2>1. CASE Bootstrapped = log
      BY <2>1 DEF FaithInv
    <2>2. CASE Bootstrapped = <<Baseline(s)>>
      BY <1>1, <2>2, SaidBaseline
    <2> QED
      BY <2>1, <2>2 DEF Bootstrapped
  <1>5. Said(log)'
    BY <1>4 DEF Said
  <1>6. ASSUME Kept PROVE Replay(Bootstrapped) = s
    <2>1. CASE log # << >>
      BY <1>6, <2>1, ToBe DEF Kept, Bootstrapped
    <2>2. CASE log = << >> /\ tables = EmptyTables /\ state = EmptyState
      BY <2>2, ReplayNothing DEF Bootstrapped, EmptyStore
    <2>3. CASE log = << >> /\ ~(tables = EmptyTables /\ state = EmptyState)
      BY <1>1, <2>3, SaidBaseline DEF Bootstrapped
    <2> QED
      BY <2>1, <2>2, <2>3
  <1>7. ASSUME Unhurt' PROVE Kept'
    <2>1. Kept
      BY <1>7 DEF FaithInv
    <2>2. Replay(log)' = StoreToBe'
      BY <1>3, <1>6, <2>1
    <2> QED
      BY <2>1, <2>2 DEF Kept
  <1> QED
    BY <1>5, <1>7 DEF FaithInv

\* The profile is logged, unless the log has it.
LEMMA FaithProfile ==
  ASSUME FaithInv, Sound, pc \in {"plan", "seed"}, pc' = "next", LogProfile,
         UNCHANGED <<tables, unreadable, mem, prof, last, marks>>
  PROVE  FaithInv'
  <1>1. Typed /\ Control /\ prof \in Profiles /\ log \in Seq(Events)
    BY DEF Sound, Control, Typed
  <1>2. StoreToBe = [tables |-> tables,
                     state |-> [files |-> mem.files, profile |-> mem.profile]]
    BY ToBe
  <1>3. StoreToBe' = [tables |-> tables, state |-> [files |-> mem.files, profile |-> prof]]
    BY DEF StoreToBe, TablesToBe, FilesToBe, ProfileToBe, Dropping, Adding
  <1>4. CASE IsCurrent(log, ProfileUpdated(prof))
    <2>1. log' = log
      BY <1>4 DEF LogProfile
    <2>2. Replay(log).state.profile = prof
      BY <1>1, <1>4 DEF FaithInv, Said
    <2>3. ASSUME Unhurt' PROVE Kept'
      <3>1. Kept
        BY <2>3 DEF FaithInv, Unhurt
      <3>2. Replay(log) = StoreToBe
        BY <3>1 DEF Kept
      <3>3. mem.profile = prof
        BY <1>2, <2>2, <3>2
      <3>4. StoreToBe' = StoreToBe
        BY <1>2, <1>3, <3>3
      <3> QED
        BY <2>1, <3>1, <3>2, <3>4 DEF Kept
    <2> QED
      BY <2>1, <2>3 DEF FaithInv, Said
  <1>5. CASE ~IsCurrent(log, ProfileUpdated(prof))
    <2>1. log' = Append(log, ProfileUpdated(prof)) /\ ProfileUpdated(prof) \in Events
      BY <1>1, <1>5, EventTypes DEF LogProfile
    <2>2. \A b : ProfileUpdated(prof) # Baseline(b)
      BY EventsDiffer
    <2>3. ASSUME StoreToBe \in Stores PROVE StoreToBe' = Apply(StoreToBe, ProfileUpdated(prof))
      <3>1. Apply(StoreToBe, ProfileUpdated(prof))
              = [tables |-> StoreToBe.tables,
                 state |-> [files |-> StoreToBe.state.files, profile |-> prof]]
        BY <1>1, <2>3, ApplyProfile
      <3> QED
        BY <1>2, <1>3, <3>1
    <2> QED
      BY <1>1, <2>1, <2>2, <2>3, FaithGrowing
  <1> QED
    BY <1>4, <1>5

LEMMA FaithStep == Sound /\ FaithInv /\ [Next]_vars => FaithInv'
  <1> SUFFICES ASSUME Sound, FaithInv, [Next]_vars PROVE FaithInv'
    OBVIOUS
  <1>0. Typed /\ Control /\ log \in Seq(Events) /\ mem \in Sheets
        /\ mem.files \in [Files -> Entries \union {None}]
    BY DEF Sound, Typed, Sheets
  <1> USE DEF user, store, run, history
  <1>1. ASSUME UNCHANGED <<log, tables, unreadable, state, version, pc, mem, prof, todo, cur,
                           last, marks>>
        PROVE  FaithInv'
    <2>1. StoreToBe' = StoreToBe
      BY <1>1 DEF StoreToBe, TablesToBe, FilesToBe, ProfileToBe, OldUrn, Job, NewRow
    <2>2. Kept' <=> Kept
      BY <1>1, <2>1 DEF Kept
    <2> QED
      BY <1>1, <2>2 DEF FaithInv, Said, Unhurt
  <1>2. ASSUME pc \in Treating
        PROVE  /\ todo # << >> /\ Job = todo[1] /\ cur.file = Job.file /\ cur.file \in Files
               /\ op = "sync" /\ Job \in JobsIn(todo) /\ pc # "idle" /\ cur \in CurRecords
    BY <1>0, <1>2, TodoFacts DEF Control, Known, JobsIn, Typed, Treating, Dropping, Adding
  \* The file is skipped, and nothing had been written about it.
  <1>3. ASSUME pc \in {"next", "extract", "stat"}, UNCHANGED <<log, tables, unreadable, state, version>>,
               Failed({}), pc = "stat" => mem.files[cur.file] = None /\ cur.file \in Files
        PROVE  FaithInv'
    <2>1. pc' = "next" /\ UNCHANGED <<mem, prof>> /\ marks' = marks /\ last' = "none"
      BY <1>3 DEF Failed, Skip
    <2>2. StoreToBe' = [tables |-> tables, state |-> [files |-> mem.files, profile |-> prof]]
      BY <1>3, <2>1 DEF StoreToBe, TablesToBe, FilesToBe, ProfileToBe, Dropping, Adding
    <2>3. pc = "stat" => [mem.files EXCEPT ![cur.file] = None] = mem.files
      BY <1>0, <1>3
    <2>4. StoreToBe = [tables |-> tables, state |-> [files |-> mem.files, profile |-> prof]]
      BY <1>3, <2>3, ToBe, TablesThen
    <2> QED
      BY <1>3, <2>1, <2>2, <2>4, FaithMoving DEF Unhurt
  <1>4. ASSUME Stopped, UNCHANGED log PROVE FaithInv'
    BY <1>4, FaithHurt DEF Stopped
  <1>5. ASSUME Failed({"failed"}), UNCHANGED log PROVE FaithInv'
    BY <1>5, FaithHurt DEF Failed
  <1>6. CASE UNCHANGED vars
    BY <1>1, <1>6 DEF vars
  <1>7. ASSUME NEW f \in Files, Edit(f) \/ Delete(f) PROVE FaithInv'
    BY <1>1, <1>7 DEF Edit, Delete
  <1>8. ASSUME NEW p \in Profiles, Configure(p) PROVE FaithInv'
    BY <1>1, <1>8 DEF Configure
  <1>9. CASE Damage
    BY <1>9, FaithHurt DEF Damage
  <1>10. CASE Crash
    BY <1>4, <1>10 DEF Crash
  <1>11. ASSUME NEW forced \in BOOLEAN, Begin(forced) PROVE FaithInv'
    BY <1>11, FaithBegin DEF Begin, Unhurt
  <1>12. CASE BeginSeed
    <2>1. Unhurt' => Unhurt
      BY <1>12 DEF BeginSeed, Unhurt
    <2> QED
      BY <1>12, <2>1, FaithBegin DEF BeginSeed
  <1>13. CASE Plan
    BY <1>13, FaithProfile DEF Plan
  <1>14. CASE SeedDone
    BY <1>14, FaithProfile DEF SeedDone
  <1>15. CASE Seed
    <2> DEFINE f == Job.file
               e == [sha |-> disk[f].body, stamp |-> disk[f].stamp,
                     urn |-> Urn(f, disk[f].body), seeded |-> TRUE]
    <2>1. todo # << >> /\ f \in Files /\ pc = "seed"
      BY <1>0, <1>15, TodoFacts DEF Seed
    <2>2. CASE disk[f] = None
      BY <1>4, <1>15, <2>2 DEF Seed, Abort
    <2>3. CASE disk[f] # None
      <3>1. disk[f] \in Looks
        BY <1>0, <2>1, <2>3 DEF Typed
      <3>2. e \in Entries
        BY <2>1, <3>1, EntryOf DEF Entries, Looks
      <3>3. /\ log' = IF IsCurrent(log, Seeded(f, e)) THEN log ELSE Append(log, Seeded(f, e))
            /\ mem' = [mem EXCEPT !.files[f] = e]
            /\ UNCHANGED <<tables, unreadable, state, version, pc, prof, last, marks>>
        BY <1>15, <2>3 DEF Seed
      <3> HIDE DEF e, f
      <3>4. StoreToBe = [tables |-> tables,
                         state |-> [files |-> mem.files, profile |-> mem.profile]]
        BY <2>1, ToBe
      <3>5. mem'.files = [mem.files EXCEPT ![f] = e] /\ mem'.profile = mem.profile
        BY <1>0, <3>3 DEF Sheets
      <3>6. StoreToBe' = [tables |-> tables, state |-> [files |-> [mem.files EXCEPT ![f] = e],
                                                        profile |-> mem.profile]]
        BY <2>1, <3>3, <3>5 DEF StoreToBe, TablesToBe, FilesToBe, ProfileToBe, Dropping, Adding
      <3>7. CASE IsCurrent(log, Seeded(f, e))
        <4>1. Replay(log).state.files[f] = e /\ log' = log
          BY <2>1, <3>2, <3>3, <3>7 DEF FaithInv, Said
        <4>2. ASSUME Unhurt' PROVE Kept'
          <5>1. Kept
            BY <3>3, <4>2 DEF FaithInv, Unhurt
          <5>2. Replay(log) = StoreToBe
            BY <2>1, <5>1 DEF Kept
          <5>3. mem.files[f] = e
            BY <3>4, <4>1, <5>2
          <5>4. [mem.files EXCEPT ![f] = e] = mem.files
            BY <1>0, <2>1, <5>3
          <5>5. StoreToBe' = StoreToBe
            BY <3>4, <3>6, <5>4
          <5> QED
            BY <2>1, <3>3, <4>1, <5>1, <5>2, <5>5 DEF Kept
        <4> QED
          BY <4>1, <4>2 DEF FaithInv, Said
      <3>8. CASE ~IsCurrent(log, Seeded(f, e))
        <4>1. log' = Append(log, Seeded(f, e)) /\ Seeded(f, e) \in Events
              /\ \A b : Seeded(f, e) # Baseline(b)
          BY <2>1, <3>2, <3>3, <3>8, EventTypes, EventsDiffer
        <4>2. ASSUME StoreToBe \in Stores PROVE StoreToBe' = Apply(StoreToBe, Seeded(f, e))
          <5>1. Apply(StoreToBe, Seeded(f, e)) = Moved(StoreToBe, StoreToBe.tables, f, e)
            BY <2>1, <3>2, <4>2, ApplySeeded
          <5> QED
            BY <3>4, <3>6, <5>1 DEF Moved
        <4> QED
          BY <1>0, <2>1, <3>3, <4>1, <4>2, FaithGrowing
      <3> QED
        BY <3>7, <3>8
    <2> QED
      BY <2>2, <2>3
  \* The event of a removal, for a removed file and for a changed one.
  <1>16. ASSUME pc \in {"next", "logdrop"}, op = "sync", todo # << >>,
                Job.kind \in {"gone", "changed"}, log' = Append(log, Removed(Job.file, OldUrn)),
                pc' = "dropclaims", cur'.file = Job.file,
                UNCHANGED <<tables, unreadable, mem, prof, todo, last, marks>>
         PROVE  FaithInv'
    <2>1. Job.file \in Files /\ Job = todo[1]
      BY <1>0, <1>16, TodoFacts
    <2>2. OldUrn \in Urns
      BY <1>0, <1>16, <2>1, OldUrnType
    <2>3. Removed(Job.file, OldUrn) \in Events /\ \A b : Removed(Job.file, OldUrn) # Baseline(b)
      BY <2>1, <2>2, EventTypes, EventsDiffer
    <2>4. StoreToBe = [tables |-> tables, state |-> [files |-> mem.files, profile |-> prof]]
      BY <1>16, ToBe
    <2>5. StoreToBe' = [tables |-> RemoveSource(tables, Job.file, OldUrn),
                        state |-> [files |-> [mem.files EXCEPT ![Job.file] = None],
                                   profile |-> prof]]
      BY <1>16 DEF StoreToBe, TablesToBe, FilesToBe, ProfileToBe, Dropping, Adding, OldUrn, Job
    <2>6. ASSUME StoreToBe \in Stores
          PROVE  StoreToBe' = Apply(StoreToBe, Removed(Job.file, OldUrn))
      <3>1. Apply(StoreToBe, Removed(Job.file, OldUrn))
              = Moved(StoreToBe, RemoveSource(StoreToBe.tables, Job.file, OldUrn), Job.file, None)
        BY <2>1, <2>2, <2>6, ApplyRemoved
      <3> QED
        BY <2>4, <2>5, <3>1 DEF Moved
    <2>7. pc # "idle" /\ pc' \notin {"idle", "saving", "stamp"}
      BY <1>16
    <2> QED
      BY <1>0, <1>16, <2>3, <2>6, <2>7, FaithGrowing
  <1>17. CASE TakeGone
    <2>1. op = "sync"
      BY <1>0, <1>17 DEF TakeGone, Control
    <2> QED
      BY <1>16, <1>17, <2>1 DEF TakeGone, Nothing
  <1>18. CASE LogDrop
    <2>1. op = "sync" /\ todo # << >> /\ cur.file = Job.file /\ Job.kind = "changed"
      BY <1>0, <1>2, <1>18 DEF LogDrop, Control, Known, Treating
    <2> QED
      BY <1>16, <1>18, <2>1 DEF LogDrop
  <1>19. CASE TakeVanished
    BY <1>3, <1>19 DEF TakeVanished
  <1>20. CASE ExtractGone
    BY <1>3, <1>20 DEF ExtractGone
  <1>21. CASE ExtractFail
    BY <1>3, <1>21 DEF ExtractFail
  \* A step between the looks at a file.
  <1>22. ASSUME pc \in {"next", "extract", "hash"},
                pc' \in {"extract", "hash", "logdrop", "stat"},
                pc' = "stat" => cur'.file \in Files /\ mem.files[cur'.file] = None,
                UNCHANGED <<log, tables, unreadable, mem, prof, last, marks>>
         PROVE  FaithInv'
    <2>1. StoreToBe = [tables |-> tables, state |-> [files |-> mem.files, profile |-> prof]]
      BY <1>22, ToBe
    <2>2. pc' = "stat" => [mem.files EXCEPT ![cur'.file] = None] = mem.files
      BY <1>0, <1>22
    <2>3. StoreToBe' = [tables |-> tables, state |-> [files |-> mem.files, profile |-> prof]]
      BY <1>22, <2>2 DEF StoreToBe, TablesToBe, FilesToBe, ProfileToBe, Dropping, Adding
    <2> QED
      BY <1>22, <2>1, <2>3, FaithMoving DEF Unhurt
  <1>23. CASE Identify
    BY <1>22, <1>23 DEF Identify
  <1>24. CASE Extract
    BY <1>22, <1>24 DEF Extract
  <1>25. CASE Hash
    <2>1. CASE disk[cur.file] = None
      BY <1>4, <1>25, <2>1 DEF Hash, Abort
    <2>2. CASE disk[cur.file] # None
      <3>1. /\ cur' = [cur EXCEPT !.sha = disk[cur.file].body]
            /\ pc' = IF Job.kind = "changed" THEN "logdrop" ELSE "stat"
            /\ UNCHANGED <<log, tables, unreadable, mem, prof, last, marks>>
        BY <1>25, <2>2 DEF Hash
      <3>2. cur.file \in Files /\ cur'.file = cur.file /\ pc = "hash"
        BY <1>2, <1>25, <3>1 DEF Hash, Treating, CurRecords
      <3>3. Job.kind # "changed" => mem.files[cur.file] = None
        <4>1. Job.kind \in {"new", "changed"} /\ Job \in JobsIn(todo) /\ Job.file = cur.file
              /\ op = "sync"
          BY <1>0, <1>2, <3>2 DEF Control, Known, Treating, Dropping
        <4> QED
          BY <1>0, <4>1 DEF Control, Planned
      <3> QED
        BY <1>22, <3>1, <3>2, <3>3
    <2> QED
      BY <2>1, <2>2
  \* A table is written, as the event says.
  <1>26. ASSUME pc \in Dropping \union {"stat"}, pc' \in Dropping \union {"stat"},
                UNCHANGED <<log, unreadable, mem, prof, todo, cur, last, marks>>,
                TablesToBe' = TablesToBe
         PROVE  FaithInv'
    <2>1. StoreToBe = [tables |-> TablesToBe,
                       state |-> [files |-> [mem.files EXCEPT ![cur.file] = None],
                                  profile |-> prof]]
      BY <1>26, ToBe
    <2>2. StoreToBe' = [tables |-> TablesToBe',
                        state |-> [files |-> [mem.files EXCEPT ![cur.file] = None],
                                   profile |-> prof]]
      BY <1>26 DEF StoreToBe, FilesToBe, ProfileToBe, Dropping, Adding
    <2> QED
      BY <1>26, <2>1, <2>2, FaithMoving DEF Unhurt, Dropping
  <1>27. CASE DropClaimsStep
    <2>1. TablesToBe = RemoveSource(tables, cur.file, OldUrn)
      BY <1>27, TablesThen DEF DropClaimsStep
    <2>2. TablesToBe' = DropSource(DropFingerprint(tables', OldUrn), cur.file)
      BY <1>27 DEF DropClaimsStep, TablesToBe, OldUrn, Job
    <2>3. TablesToBe' = TablesToBe
      BY <1>27, <2>1, <2>2 DEF DropClaimsStep, RemoveSource
    <2> QED
      BY <1>26, <1>27, <2>3 DEF DropClaimsStep, Dropping
  <1>28. CASE DropFps
    <2>1. CASE Preserve
      BY <1>4, <1>5, <1>28, <2>1 DEF DropFps, Preserve
    <2>2. CASE /\ tables' = DropFingerprint(tables, OldUrn) /\ pc' = "dropsource"
               /\ UNCHANGED <<log, unreadable, mem, prof, todo, cur, last, marks>>
      <3>1. TablesToBe = DropSource(DropFingerprint(tables, OldUrn), cur.file)
        BY <1>28, TablesThen DEF DropFps
      <3>2. TablesToBe' = DropSource(tables', cur.file)
        BY <2>2 DEF TablesToBe
      <3> QED
        BY <1>26, <1>28, <2>2, <3>1, <3>2 DEF DropFps, Dropping
    <2> QED
      BY <1>28, <2>1, <2>2 DEF DropFps
  <1>29. CASE DropSourceStep
    <2>0. pc = "dropsource" /\ cur.file \in Files /\ tables' = DropSource(tables, cur.file)
      BY <1>2, <1>29 DEF DropSourceStep, Treating, Dropping
    <2>1. TablesToBe = DropSource(tables, cur.file)
      BY <2>0, TablesThen
    <2>2. CASE Job.kind = "changed"
      <3>1. pc' = "stat" /\ UNCHANGED <<log, unreadable, mem, prof, todo, cur, last, marks>>
        BY <1>29, <2>2 DEF DropSourceStep
      <3>2. TablesToBe' = tables'
        BY <3>1 DEF TablesToBe
      <3> QED
        BY <1>26, <2>0, <2>1, <3>1, <3>2 DEF Dropping
    <2>3. CASE Job.kind = "gone"
      <3>1. /\ mem' = [mem EXCEPT !.files[cur.file] = None] /\ pc' = "next"
            /\ UNCHANGED <<log, unreadable, prof, last, marks>>
        BY <1>29, <2>3 DEF DropSourceStep, Skip
      <3>2. mem'.files = [mem.files EXCEPT ![cur.file] = None]
        BY <1>0, <3>1 DEF Sheets
      <3>3. StoreToBe' = [tables |-> tables',
                          state |-> [files |-> [mem.files EXCEPT ![cur.file] = None],
                                     profile |-> prof]]
        BY <3>1, <3>2 DEF StoreToBe, TablesToBe, FilesToBe, ProfileToBe, Dropping, Adding
      <3>4. StoreToBe' = StoreToBe
        BY <2>0, <2>1, <3>3, ToBe DEF Dropping
      <3> QED
        BY <2>0, <3>1, <3>4, FaithMoving DEF Unhurt
    <2> QED
      BY <1>29, <2>2, <2>3 DEF DropSourceStep
  <1>30. CASE LogUpsert
    <2> DEFINE f == cur.file
               x == [sha |-> cur.sha, stamp |-> disk[f].stamp, urn |-> cur.urn,
                     seeded |-> FALSE]
               r == [urn |-> cur.urn, text |-> cur.text]
               e == Upserted(f, r, x)
    <2>1. /\ f \in Files /\ disk[f] \in Looks /\ pc = "stat" /\ cur \in CurRecords
          /\ cur.urn \in Urns /\ cur.text \in Texts /\ cur.sha \in Contents
      <3>1. f \in Files /\ pc = "stat" /\ cur \in CurRecords /\ Job = todo[1] /\ disk[f] # None
        BY <1>2, <1>30 DEF LogUpsert, Treating
      <3>2. todo[1].kind # "gone"
        BY <1>0, <3>1 DEF Control, Known, Treating, Dropping
      <3>3. cur.urn \in Urns /\ cur.text \in Texts /\ cur.sha \in Contents
        BY <1>0, <3>1, <3>2 DEF Control, Known, Treating
      <3> QED
        BY <1>0, <3>1, <3>3 DEF Typed
    <2>2. x \in Entries /\ r \in Rows
      BY <2>1 DEF Entries, Rows, Looks
    <2>3. /\ cur'.entry = x /\ cur'.file = f /\ cur'.urn = cur.urn /\ cur'.text = cur.text
          /\ log' = Append(log, e) /\ pc' = "claims"
          /\ UNCHANGED <<tables, unreadable, mem, prof, last, marks>>
      BY <1>30, <2>1 DEF LogUpsert, CurRecords
    <2>4. e \in Events /\ \A b : e # Baseline(b)
      <3>1. e.type # "projection.baseline" /\ \A b : Baseline(b).type = "projection.baseline"
        BY DEF Upserted, Baseline
      <3> QED
        BY <2>1, <2>2, <3>1, EventTypes
    <2> HIDE DEF x, f
    <2>5. StoreToBe = [tables |-> tables, state |-> [files |-> [mem.files EXCEPT ![f] = None],
                                                     profile |-> prof]]
      BY <2>1, ToBe, TablesThen DEF f
    <2>6. StoreToBe' = [tables |-> AppendSource(tables, f, r),
                        state |-> [files |-> [mem.files EXCEPT ![f] = x], profile |-> prof]]
      BY <2>3 DEF StoreToBe, TablesToBe, FilesToBe, ProfileToBe, Dropping, Adding, NewRow
    <2>7. [[mem.files EXCEPT ![f] = None] EXCEPT ![f] = x] = [mem.files EXCEPT ![f] = x]
      BY <1>0
    <2>8. ASSUME StoreToBe \in Stores PROVE StoreToBe' = Apply(StoreToBe, e)
      <3>1. Apply(StoreToBe, e) = Moved(StoreToBe, AppendSource(StoreToBe.tables, f, r), f, x)
        BY <2>1, <2>2, <2>8, ApplyUpserted
      <3> QED
        BY <2>5, <2>6, <2>7, <3>1 DEF Moved
    <2> HIDE DEF e
    <2> QED
      BY <1>0, <2>1, <2>3, <2>4, <2>8, FaithGrowing
  <1>31. CASE StatFail
    <2>1. CASE Job.kind = "changed"
      BY <1>5, <1>31, <2>1 DEF StatFail
    <2>2. CASE Job.kind # "changed"
      <3>1. pc = "stat" /\ cur.file = Job.file /\ cur.file \in Files /\ Job \in JobsIn(todo)
            /\ op = "sync" /\ Job = todo[1]
        BY <1>2, <1>31 DEF StatFail, Treating
      <3>2. Job.kind = "new"
        BY <1>0, <2>2, <3>1 DEF Control, Known, Treating, Dropping
      <3>3. mem.files[cur.file] = None
        BY <1>0, <3>1, <3>2 DEF Control, Planned
      <3> QED
        BY <1>3, <1>31, <2>2, <3>1, <3>3 DEF StatFail
    <2> QED
      BY <2>1, <2>2
  <1>32. ASSUME pc \in Adding, pc' \in Adding,
                UNCHANGED <<log, unreadable, mem, prof, todo, cur, last, marks>>,
                TablesToBe' = TablesToBe
         PROVE  FaithInv'
    <2>1. StoreToBe = [tables |-> TablesToBe,
                       state |-> [files |-> [mem.files EXCEPT ![cur.file] = cur.entry],
                                  profile |-> prof]]
      BY <1>32, ToBe
    <2>2. StoreToBe' = [tables |-> TablesToBe',
                        state |-> [files |-> [mem.files EXCEPT ![cur.file] = cur.entry],
                                   profile |-> prof]]
      BY <1>32 DEF StoreToBe, FilesToBe, ProfileToBe, Dropping, Adding
    <2> QED
      BY <1>32, <2>1, <2>2, FaithMoving DEF Unhurt, Adding
  <1>33. CASE AppendClaims
    <2>1. CASE Preserve
      BY <1>5, <1>33, <2>1 DEF AppendClaims, Preserve
    <2>2. CASE /\ tables' = AddClaims(tables, NewRow) /\ pc' = "fps"
               /\ UNCHANGED <<log, unreadable, mem, prof, todo, cur, last, marks>>
      <3>1. TablesToBe = AppendSource(tables, cur.file, NewRow)
        BY <1>33, TablesThen DEF AppendClaims
      <3>2. TablesToBe' = AddSource(AddFingerprint(tables', NewRow), cur.file, NewRow)
        BY <2>2 DEF TablesToBe, NewRow
      <3> QED
        BY <1>32, <1>33, <2>2, <3>1, <3>2 DEF AppendClaims, AppendSource, Adding
    <2> QED
      BY <1>33, <2>1, <2>2 DEF AppendClaims
  <1>34. CASE WriteFps
    <2>1. TablesToBe = AddSource(AddFingerprint(tables, NewRow), cur.file, NewRow)
      BY <1>34, TablesThen DEF WriteFps
    <2>2. TablesToBe' = AddSource(tables', cur.file, NewRow)
      BY <1>34 DEF WriteFps, TablesToBe, NewRow
    <2> QED
      BY <1>32, <1>34, <2>1, <2>2 DEF WriteFps, Adding
  <1>35. CASE WriteSource
    <2>1. /\ pc = "sources" /\ pc' = "next" /\ tables' = AddSource(tables, cur.file, NewRow)
          /\ mem' = [mem EXCEPT !.files[cur.file] = cur.entry]
          /\ UNCHANGED <<log, unreadable, prof, last, marks>>
      BY <1>35 DEF WriteSource, Skip
    <2>2. mem'.files = [mem.files EXCEPT ![cur.file] = cur.entry]
      BY <1>0, <2>1 DEF Sheets
    <2>3. StoreToBe = [tables |-> tables',
                       state |-> [files |-> [mem.files EXCEPT ![cur.file] = cur.entry],
                                  profile |-> prof]]
      BY <2>1, ToBe, TablesThen DEF Adding
    <2>4. StoreToBe' = [tables |-> tables',
                        state |-> [files |-> [mem.files EXCEPT ![cur.file] = cur.entry],
                                   profile |-> prof]]
      BY <2>1, <2>2 DEF StoreToBe, TablesToBe, FilesToBe, ProfileToBe, Dropping, Adding
    <2> QED
      BY <2>1, <2>3, <2>4, FaithMoving DEF Unhurt
  <1>36. CASE SaveOpen
    <2>1. /\ pc = "next" /\ pc' = "saving" /\ mem' = [mem EXCEPT !.profile = prof]
          /\ UNCHANGED <<log, tables, unreadable, prof, last, marks>>
      BY <1>36 DEF SaveOpen
    <2>2. mem'.files = mem.files /\ mem'.profile = prof
      BY <1>0, <2>1 DEF Sheets
    <2>3. StoreToBe = [tables |-> tables, state |-> [files |-> mem.files, profile |-> prof]]
      BY <2>1, ToBe
    <2>4. StoreToBe' = [tables |-> tables, state |-> [files |-> mem.files, profile |-> prof]]
      BY <2>1, <2>2 DEF StoreToBe, TablesToBe, FilesToBe, ProfileToBe, Dropping, Adding
    <2> QED
      BY <2>1, <2>2, <2>3, <2>4, FaithMoving DEF Unhurt
  \* With the profile in it, the pass's state is the state to be.
  <1>37. ASSUME pc \in {"saving", "stamp"}, Kept
         PROVE  StoreToBe = [tables |-> tables, state |-> mem]
    <2>1. mem = [files |-> mem.files, profile |-> mem.profile] /\ mem.profile = prof
      BY <1>0, <1>37 DEF Sheets, Kept
    <2> QED
      BY <1>37, <2>1, ToBe
  <1>38. ASSUME pc \in {"saving", "stamp"}, pc' = "idle", state' = mem,
                UNCHANGED <<log, tables, unreadable, marks>>,
                Kept /\ last' = "clean" => version' = Mint(tables)
         PROVE  FaithInv'
    <2>1. StoreToBe' = [tables |-> tables, state |-> mem]
      BY <1>38 DEF StoreToBe, TablesToBe, Dropping, Adding
    <2>2. ASSUME Unhurt' PROVE Kept'
      <3>1. Kept
        BY <1>38, <2>2 DEF FaithInv, Unhurt
      <3> QED
        BY <1>37, <1>38, <2>1, <3>1 DEF Kept
    <2> QED
      BY <1>38, <2>2 DEF FaithInv, Said
  <1>39. CASE SaveWrite
    <2>1. CASE op = "sync" /\ pc' = "stamp" /\ UNCHANGED <<mem, todo, cur, run, touched>>
      <3>1. /\ pc = "saving" /\ UNCHANGED <<log, tables, unreadable, mem, prof, last, marks>>
        BY <1>39, <2>1 DEF SaveWrite
      <3>2. StoreToBe = [tables |-> tables, state |-> [files |-> mem.files, profile |-> prof]]
        BY <3>1, ToBe
      <3>3. StoreToBe' = [tables |-> tables, state |-> [files |-> mem.files, profile |-> prof]]
        BY <2>1, <3>1 DEF StoreToBe, TablesToBe, FilesToBe, ProfileToBe, Dropping, Adding
      <3>4. Kept => mem'.profile = prof'
        BY <3>1 DEF Kept
      <3> QED
        BY <2>1, <3>1, <3>2, <3>3, <3>4, FaithMoving DEF Unhurt
    <2>2. CASE op = "seed" /\ Reset
      BY <1>38, <1>39, <2>2 DEF SaveWrite, Reset, Kept
    <2> QED
      BY <1>39, <2>1, <2>2 DEF SaveWrite
  <1>40. CASE Stamp
    <2>1. state = mem
      BY <1>0, <1>40 DEF Stamp, Control
    <2>2. Kept => version' = Mint(tables)
      BY <1>40 DEF Stamp, Kept
    <2> QED
      BY <1>38, <1>40, <2>1, <2>2 DEF Stamp, Reset
  <1> HIDE DEF user, store, run, history
  <1>41. CASE Step
    BY <1>13, <1>14, <1>15, <1>17, <1>18, <1>19, <1>20, <1>23, <1>24, <1>25, <1>27, <1>28, <1>29,
       <1>30, <1>31, <1>33, <1>34, <1>35, <1>36, <1>39, <1>40, <1>41 DEF Step
  <1> QED
    BY <1>6, <1>7, <1>8, <1>9, <1>10, <1>11, <1>12, <1>21, <1>41 DEF Next

\* Replaying the log of a store whose passes all went through gives the tables,
\* the state file and the graph version it has (replay_events, sync_once).
THEOREM ReplaysFaithful == Spec => []ReplayFaithful
  <1>1. FaithInv => ReplayFaithful
    <2> SUFFICES ASSUME FaithInv, pc = "idle", log # << >>, Unhurt PROVE Replayed
      BY DEF ReplayFaithful, Unhurt
    <2>1. Kept
      BY DEF FaithInv
    <2>2. Replay(log) = [tables |-> tables, state |-> state]
      BY <2>1, ToBe DEF Kept
    <2> QED
      BY <2>1, <2>2 DEF Kept, Replayed
  <1> QED
    BY <1>1, FaithInit, FaithStep, PassesSound, PTL DEF Spec
=============================================================================
