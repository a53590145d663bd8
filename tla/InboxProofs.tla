---------------------------- MODULE InboxProofs -----------------------------
(***************************************************************************)
(* Proofs about Inbox: for any workers, items and bounds, whatever passes  *)
(* overlap and wherever one dies.  Each property has an invariant of its   *)
(* own over Sound, the types and what is known within a loop:              *)
(*   KeptInv        the bytes of what is acknowledged, and of what an      *)
(*                  acquire has placed and is about to acknowledge, are in *)
(*                  a folder; every move is a move to a free name or one   *)
(*                  with the same bytes;                                   *)
(*   BlankInv       a citation has no identity it had before, so nothing   *)
(*                  is forgotten when a copy comes to it;                  *)
(*   RegisteredInv  as long as nobody overlaps, at most one worker is      *)
(*                  busy, and both the ledger and the one it holds have    *)
(*                  every acknowledged identity, but for the moment in     *)
(*                  which the ledger is truncated and being written;       *)
(*   CompleteInv    as long as nobody overlaps and no name is given to two *)
(*                  documents, each row in a ledger has its file where its *)
(*                  status or an interrupted pass has put it, no two       *)
(*                  sidecars of the inbox have one urn, and what a pass    *)
(*                  has gone over is done;                                 *)
(*   TidyInv        as long as nobody overlaps, no name is given to two    *)
(*                  documents and no death does harm, every file and       *)
(*                  sidecar has a row that accounts for it and every row   *)
(*                  has its file or its citation, in the ledger that       *)
(*                  counts at the moment.                                  *)
(***************************************************************************)
EXTENDS Inbox, FoldTheorems, SequenceTheorems

Statuses == {"acquired", "registered", "review", "failed", "duplicate", "citation-only"}
Rows == [input : Inputs, urn : Urns, was : Urns \union {None}, status : Statuses,
         name : Names \union {None}, sha : Docs \union {None}]
Logs == Seq(Rows)
Sidecars == [urn : Urns, sha : Docs \union {None}, dated : BOOLEAN]
Tables(T) == UNION {[S -> T] : S \in SUBSET Names}
Acks == [urn : Urns, doc : Docs \union {None}]
Places == Nat \ {0}
Marks == {"running", "complete", "failed", Torn}
Records == UNION {[S -> Marks] : S \in SUBSET Logs}
Disturbances == {"overlap", "refetch", "names", "death"}

Acquiring == [at : {"place", "drop", "save", "write"}, job : {"acquire"}, log : Logs,
              name : Names \union {None}, drop : Urns \union {None}, ack : Acks]
Providing == [at : {"provenance", "unlink", "sidecar", "write"}, job : {"provenance"},
              id : Logs, log : Logs, i : Places, moved : BOOLEAN, seen : SUBSET (Urns \X Names)]
Routing == [at : {"route", "carry", "write"}, job : {"route"}, id : Logs, log : Logs,
            i : Places, moved : BOOLEAN]
Starting == [at : {"start"}, id : Logs]
Dating == [at : {"year"}, id : Logs, todo : SUBSET Names]
Writing == [at : {"date"}, id : Logs, todo : SUBSET Names, name : Names, found : Sidecars]
Auditing == [at : {"audit"}, id : Logs]
Ending == [at : {"end"}, id : Logs, status : {"complete", "failed"}]
Jobs == {Idle} \union Acquiring \union Providing \union Routing \union Starting \union Dating
        \union Writing \union Auditing \union Ending

Typed ==
    /\ rows \in Logs
    /\ files \in [Folders -> Tables(Docs)]
    /\ side \in [{"inbox", "review"} -> Tables(Sidecars \union {Torn})]
    /\ records \in Records
    /\ w \in [Workers -> Jobs]
    /\ acked \in SUBSET Acks
    /\ hist \in SUBSET Disturbances

\* Within a loop, the row the worker is at is there; what is acquired under a name has bytes.
Fits(j) ==
    /\ j.at \in {"unlink", "sidecar", "carry"} => j.i <= Len(j.log) /\ j.log[j.i].name \in Names
    /\ j.at = "drop" => j.drop # None
    /\ j \in Acquiring => (j.name = None <=> j.ack.doc = None)
Placed == \A x \in Workers : Fits(w[x])

Sound == Typed /\ Placed

----------------------------------------------------------------------------
(* Tables of files and sidecars.                                           *)

LEMMA PutFacts ==
  ASSUME NEW T, NEW f \in Tables(T), NEW x \in Names, NEW v \in T
  PROVE  /\ Put(f, x, v) \in Tables(T)
         /\ DOMAIN Put(f, x, v) = DOMAIN f \union {x} /\ x \in DOMAIN Put(f, x, v)
         /\ Put(f, x, v)[x] = v
         /\ \A y \in DOMAIN f : y # x => Put(f, x, v)[y] = f[y]
  <1>1. PICK S \in SUBSET Names : f \in [S -> T]
    BY DEF Tables
  <1>2. Put(f, x, v) \in [S \union {x} -> T] /\ S \union {x} \in SUBSET Names
    BY <1>1 DEF Put
  <1>3. Put(f, x, v) \in Tables(T)
    BY <1>2 DEF Tables
  <1> QED
    BY <1>1, <1>3 DEF Put

LEMMA DropFacts ==
  ASSUME NEW T, NEW f \in Tables(T), NEW x
  PROVE  /\ Drop(f, x) \in Tables(T)
         /\ DOMAIN Drop(f, x) = DOMAIN f \ {x}
         /\ \A y \in DOMAIN f : y # x => Drop(f, x)[y] = f[y]
  <1>1. PICK S \in SUBSET Names : f \in [S -> T]
    BY DEF Tables
  <1>2. Drop(f, x) \in [S \ {x} -> T] /\ S \ {x} \in SUBSET Names
    BY <1>1 DEF Drop, Restrict
  <1>3. Drop(f, x) \in Tables(T)
    BY <1>2 DEF Tables
  <1> QED
    BY <1>1, <1>3 DEF Drop, Restrict

LEMMA TableFacts ==
  ASSUME NEW T, NEW f \in Tables(T)
  PROVE  DOMAIN f \in SUBSET Names /\ \A n \in DOMAIN f : f[n] \in T
  BY DEF Tables

LEMMA NextIndexType ==
  ASSUME NEW pass, NEW log \in Logs, NEW i \in Nat
  PROVE  /\ NextIndex(pass, log, i) \in Places
         /\ NextIndex(pass, log, i) <= Len(log) + 1
         /\ i < NextIndex(pass, log, i) \/ NextIndex(pass, log, i) = Len(log) + 1
         /\ \A j \in (i + 1)..Len(log) :
               log[j].status \in Treats(pass) => NextIndex(pass, log, i) <= j
         /\ NextIndex(pass, log, i) <= Len(log) =>
               log[NextIndex(pass, log, i)].status \in Treats(pass)
  <1> DEFINE more == {j \in i + 1 .. Len(log) : log[j].status \in Treats(pass)}
  <1>1. Len(log) \in Nat
    BY DEF Logs
  <1>2. CASE more = {}
    <2>1. NextIndex(pass, log, i) = Len(log) + 1
      BY <1>2 DEF NextIndex
    <2>2. Len(log) + 1 \in Places /\ ~(Len(log) + 1 <= Len(log))
      BY <1>1 DEF Places
    <2> QED
      BY <1>1, <1>2, <2>1, <2>2
  <1>3. CASE more # {}
    <2>1. more \in SUBSET Nat
      BY <1>1
    <2>2. \E j \in more : \A k \in more : j <= k
      BY <1>3, <2>1, LeastNumber
    <2>3. NextIndex(pass, log, i) = CHOOSE j \in more : \A k \in more : j <= k
      BY <1>3 DEF NextIndex
    <2>4. NextIndex(pass, log, i) \in more /\ \A k \in more : NextIndex(pass, log, i) <= k
      BY <2>2, <2>3
    <2> HIDE DEF NextIndex
    <2> QED
      BY <1>1, <2>4 DEF Places
  <1> QED
    BY <1>2, <1>3

LEMMA LargestFacts ==
  ASSUME NEW log \in Logs, NEW S \in SUBSET DOMAIN log
  PROVE  /\ Largest(S) \in DOMAIN log \union {0}
         /\ S # {} => Largest(S) \in S /\ \A j \in S : j <= Largest(S)
         /\ S = {} => Largest(S) = 0
  <1>1. DOMAIN log = 1..Len(log) /\ Len(log) \in Nat
    BY DEF Logs
  <1>2. CASE S # {}
    <2>1. S \in SUBSET Nat
      BY <1>1
    <2>2. IsFiniteSet(S)
      <3>1. IsFiniteSet(1..Len(log))
        BY <1>1, FS_Interval
      <3> QED
        BY <1>1, <3>1, FS_Subset
    <2>3. \E i \in S : \A j \in S : j <= i
      BY <1>2, <2>1, <2>2, HighestNumber
    <2>4. Largest(S) = CHOOSE i \in S : \A j \in S : j <= i
      BY <1>2 DEF Largest
    <2>5. Largest(S) \in S /\ \A j \in S : j <= Largest(S)
      BY <2>3, <2>4
    <2> QED
      BY <1>2, <2>5
  <1>3. CASE S = {}
    BY <1>3 DEF Largest
  <1> QED
    BY <1>2, <1>3

LEMMA ExistingFacts ==
  ASSUME NEW log \in Logs, NEW urn
  PROVE  /\ ByUrn(log, urn) \in DOMAIN log \union {0}
         /\ ByUrn(log, urn) # 0 => log[ByUrn(log, urn)].urn = urn
         /\ ByUrn(log, urn) = 0 => \A i \in DOMAIN log : log[i].urn # urn
         /\ \A input : /\ ByInput(log, input) \in DOMAIN log \union {0}
                       /\ ByInput(log, input) # 0 => log[ByInput(log, input)].input = input
  <1>0. DOMAIN log = 1..Len(log) /\ Len(log) \in Nat
    BY DEF Logs
  <1> DEFINE S == {i \in DOMAIN log : log[i].urn = urn}
  <1>1. ByUrn(log, urn) = Largest(S) /\ S \in SUBSET DOMAIN log
    BY DEF ByUrn
  <1>2. /\ ByUrn(log, urn) \in DOMAIN log \union {0}
        /\ S # {} => ByUrn(log, urn) \in S
        /\ S = {} => ByUrn(log, urn) = 0
    BY <1>1, LargestFacts
  <1>3. ASSUME NEW input
        PROVE  /\ ByInput(log, input) \in DOMAIN log \union {0}
               /\ ByInput(log, input) # 0 => log[ByInput(log, input)].input = input
    <2> DEFINE I == {i \in DOMAIN log : log[i].input = input}
    <2>1. ByInput(log, input) = Largest(I) /\ I \in SUBSET DOMAIN log
      BY DEF ByInput
    <2>2. /\ ByInput(log, input) \in DOMAIN log \union {0}
          /\ I # {} => ByInput(log, input) \in I
          /\ I = {} => ByInput(log, input) = 0
      BY <2>1, LargestFacts
    <2> QED
      BY <2>2
  <1>4. ByUrn(log, urn) # 0 => ByUrn(log, urn) \in S
    BY <1>2
  <1>5. S # {} => ByUrn(log, urn) # 0
    BY <1>0, <1>2
  <1> QED
    BY <1>2, <1>3, <1>4, <1>5

LEMMA ItemTypes ==
  ASSUME NEW item \in Items, NEW doc \in item.gives
  PROVE  /\ doc \in Docs /\ Identity(item, doc) \in Urns /\ Identity(item, None) \in Urns
         /\ ArtifactName(item, doc) \in Names
         /\ \A urn \in Urns, status \in Statuses, name \in Names \union {None},
               d \in Docs \union {None} : Row(item, urn, status, name, d) \in Rows
  <1>1. doc \in Docs /\ item.input \in Inputs /\ item.canon \in {i.canon : i \in Items}
        /\ item.base \in {i.base : i \in Items}
    BY DEF Docs, Inputs
  <1>2. Identity(item, doc) \in Urns /\ Identity(item, None) \in Urns
    BY <1>1 DEF Identity, Urns, Urn
  <1>3. ArtifactName(item, doc) \in Names
    BY <1>1 DEF ArtifactName, LocalName, Name, Names
  <1>4. \A urn \in Urns, status \in Statuses, name \in Names \union {None},
           d \in Docs \union {None} : Row(item, urn, status, name, d) \in Rows
    BY <1>1 DEF Row, Rows
  <1> QED
    BY <1>1, <1>2, <1>3, <1>4

LEMMA RefilledType ==
  ASSUME NEW item \in Items, NEW row \in Rows, NEW urn \in Urns, NEW name \in Names,
         NEW doc \in Docs
  PROVE  /\ Refilled(row, item, urn, name, doc) \in Rows
         /\ Refilled(row, item, urn, name, doc).status = "acquired"
         /\ Refilled(row, item, urn, name, doc).name = name
         /\ Refilled(row, item, urn, name, doc).sha = doc
         /\ row.status = "citation-only" =>
               /\ Refilled(row, item, urn, name, doc).urn = urn
               /\ Refilled(row, item, urn, name, doc).was
                     = IF row.urn = urn THEN None ELSE row.urn
         /\ row.status # "citation-only" =>
               /\ Refilled(row, item, urn, name, doc).urn = row.urn
               /\ Refilled(row, item, urn, name, doc).was = row.was
  <1> DEFINE found == [row EXCEPT !.status = "acquired", !.name = name, !.sha = doc]
  <1>1. item.input \in Inputs
    BY DEF Inputs
  <1>2. /\ found \in Rows /\ found.status = "acquired" /\ found.name = name /\ found.sha = doc
        /\ found.urn = row.urn /\ found.was = row.was
    BY DEF Rows, Statuses
  <1>3. row.urn \in Urns
    BY DEF Rows
  <1> HIDE DEF found
  <1>4. CASE row.status = "citation-only"
    <2>1. Refilled(row, item, urn, name, doc)
            = [found EXCEPT !.urn = urn, !.was = IF row.urn = urn THEN None ELSE row.urn]
      BY <1>4 DEF Refilled, found
    <2> QED
      BY <1>2, <1>3, <1>4, <2>1 DEF Rows
  <1>5. CASE row.status # "citation-only" /\ item.url
    <2>1. Refilled(row, item, urn, name, doc) = found
      BY <1>5 DEF Refilled, found
    <2> QED
      BY <1>2, <1>5, <2>1
  <1>6. CASE row.status # "citation-only" /\ ~item.url
    <2>1. Refilled(row, item, urn, name, doc) = [found EXCEPT !.input = item.input]
      BY <1>6 DEF Refilled, found
    <2> QED
      BY <1>1, <1>2, <1>6, <2>1 DEF Rows
  <1> QED
    BY <1>4, <1>5, <1>6

LEMMA MarkedType ==
  ASSUME NEW x \in Workers, w[x].log \in Logs, w[x].i \in Places, w[x].i <= Len(w[x].log),
         NEW status \in Statuses
  PROVE  /\ Marked(x, status) \in Logs /\ Len(Marked(x, status)) = Len(w[x].log)
         /\ w[x].i \in 1..Len(w[x].log) /\ Current(x) \in Rows
         /\ Marked(x, status)[w[x].i] = [Current(x) EXCEPT !.status = status]
         /\ \A j \in 1..Len(w[x].log) : j # w[x].i => Marked(x, status)[j] = w[x].log[j]
  <1> DEFINE log == w[x].log
             i == w[x].i
  <1>1. Marked(x, status) = [log EXCEPT ![i] = [log[i] EXCEPT !.status = status]]
    BY DEF Marked
  <1>2. Current(x) = log[i]
    BY DEF Current
  <1> HIDE DEF log, i
  <1>3. log \in Seq(Rows) /\ Len(log) \in Nat /\ i \in 1..Len(log) /\ i \in Places
    BY DEF log, i, Logs, Places
  <1>4. log[i] \in Rows
    BY <1>3
  <1>5. [log[i] EXCEPT !.status = status] \in Rows
    BY <1>4 DEF Rows
  <1>6. [log EXCEPT ![i] = [log[i] EXCEPT !.status = status]] \in Seq(Rows)
    BY <1>3, <1>5
  <1> QED
    BY <1>1, <1>2, <1>3, <1>4, <1>6 DEF log, i, Logs

LEMMA MarkedFacts ==
  ASSUME NEW x \in Workers, w[x].log \in Logs, w[x].i \in Places, w[x].i <= Len(w[x].log),
         NEW status \in Statuses
  PROVE  /\ Marked(x, status)[w[x].i].name = Current(x).name
         /\ Marked(x, status)[w[x].i].urn = Current(x).urn
         /\ Marked(x, status)[w[x].i].was = Current(x).was
         /\ Marked(x, status)[w[x].i].status = status
         /\ Marked(x, status) \in Logs /\ Len(Marked(x, status)) = Len(w[x].log)
  <1>1. /\ Marked(x, status) \in Logs /\ Len(Marked(x, status)) = Len(w[x].log)
        /\ Current(x) \in Rows
        /\ Marked(x, status)[w[x].i] = [Current(x) EXCEPT !.status = status]
    BY MarkedType
  <1> QED
    BY <1>1 DEF Rows

LEMMA JobOf ==
  ASSUME Typed, NEW x \in Workers
  PROVE  /\ w[x] \in Jobs
         /\ w[x].at \in {"place", "drop", "save"} => w[x] \in Acquiring
         /\ w[x].at \in {"provenance", "unlink", "sidecar"} => w[x] \in Providing
         /\ w[x].at \in {"route", "carry"} => w[x] \in Routing
         /\ w[x].at = "write" => w[x] \in Acquiring \union Providing \union Routing
         /\ w[x].at = "start" => w[x] \in Starting
         /\ w[x].at = "year" => w[x] \in Dating
         /\ w[x].at = "date" => w[x] \in Writing
         /\ w[x].at = "audit" => w[x] \in Auditing
         /\ w[x].at = "end" => w[x] \in Ending
         /\ w[x].at = "idle" <=> w[x] = Idle
  <1>1. w[x] \in Jobs
    BY DEF Typed
  <1> QED
    BY <1>1 DEF Jobs, Idle, Acquiring, Providing, Routing, Starting, Dating, Writing, Auditing,
                Ending

LEMMA GotoFacts ==
  ASSUME Typed, NEW x \in Workers, NEW a, Goto(x, a)
  PROVE  /\ DOMAIN w' = Workers /\ \A y \in Workers : y # x => w'[y] = w[y]
         /\ w'[x] = [w[x] EXCEPT !.at = a]
         /\ w[x] \in Acquiring /\ a \in {"place", "drop", "save", "write"} =>
               w'[x] \in Acquiring /\ w'[x].at = a /\ w'[x].job = w[x].job
               /\ w'[x].log = w[x].log /\ w'[x].name = w[x].name /\ w'[x].drop = w[x].drop
               /\ w'[x].ack = w[x].ack
         /\ w[x] \in Providing /\ a \in {"provenance", "unlink", "sidecar", "write"} =>
               w'[x] \in Providing /\ w'[x].at = a /\ w'[x].job = w[x].job
               /\ w'[x].log = w[x].log /\ w'[x].i = w[x].i /\ w'[x].moved = w[x].moved
               /\ w'[x].seen = w[x].seen /\ w'[x].id = w[x].id
         /\ w[x] \in Routing /\ a \in {"route", "carry", "write"} =>
               w'[x] \in Routing /\ w'[x].at = a /\ w'[x].job = w[x].job
               /\ w'[x].log = w[x].log /\ w'[x].i = w[x].i /\ w'[x].id = w[x].id
  <1>1. w' = [w EXCEPT ![x] = [w[x] EXCEPT !.at = a]] /\ DOMAIN w = Workers
    BY DEF Goto, Typed
  <1>2. /\ DOMAIN w' = Workers /\ \A y \in Workers : y # x => w'[y] = w[y]
        /\ w'[x] = [w[x] EXCEPT !.at = a]
    BY <1>1
  <1>3. CASE w[x] \in Acquiring
    BY <1>2, <1>3 DEF Acquiring, Providing, Routing
  <1>4. CASE w[x] \in Providing
    BY <1>2, <1>4 DEF Acquiring, Providing, Routing
  <1>5. CASE w[x] \in Routing
    BY <1>2, <1>5 DEF Acquiring, Providing, Routing
  <1> QED
    BY <1>2, <1>3, <1>4, <1>5

\* The job a worker does next.
LEMMA JobStep ==
  ASSUME Sound, NEW x \in Workers, NEW j \in Jobs, Fits(j), w' = [w EXCEPT ![x] = j]
  PROVE  w' \in [Workers -> Jobs] /\ Placed'
  BY DEF Sound, Typed, Placed

LEMMA RestStep ==
  ASSUME Sound, NEW x \in Workers, Rest(x)
  PROVE  w' \in [Workers -> Jobs] /\ Placed' /\ w'[x] = Idle
  <1>1. Idle \in Jobs /\ Fits(Idle)
    BY DEF Jobs, Fits, Idle, Acquiring
  <1> QED
    BY <1>1, JobStep DEF Rest, Sound, Typed

\* On to another row of the loop.
LEMMA NextRowStep ==
  ASSUME Sound, NEW x \in Workers, NEW log \in Logs, Len(log) = Len(w[x].log),
         \/ w[x] \in Providing /\ w[x].at = "provenance"
         \/ w[x] \in Routing /\ w[x].at = "route",
         NextRow(x, log)
  PROVE  /\ w' \in [Workers -> Jobs] /\ Placed'
         /\ \A y \in Workers : y # x => w'[y] = w[y]
         /\ w'[x].at = w[x].at /\ w'[x].job = w[x].job /\ w'[x].log = log
         /\ w'[x].id = w[x].id
         /\ w'[x].i = NextIndex(w[x].job, log, w[x].i)
         /\ w[x] \in Providing => w'[x].seen = w[x].seen /\ w'[x].moved = w[x].moved
  <1> DEFINE i == NextIndex(w[x].job, log, w[x].i)
             j == [w[x] EXCEPT !.log = log, !.i = i]
  <1>1. w[x].i \in Nat
    BY DEF Providing, Routing, Places
  <1>2. i \in Places
    BY <1>1, NextIndexType
  <1>3. w' = [w EXCEPT ![x] = j] /\ w \in [Workers -> Jobs]
    BY DEF NextRow, Sound, Typed
  <1> HIDE DEF i
  <1>4. CASE w[x] \in Providing
    <2>1. /\ j \in Providing /\ j.at = w[x].at /\ j.job = w[x].job /\ j.log = log /\ j.i = i
          /\ j.id = w[x].id /\ j.seen = w[x].seen /\ j.moved = w[x].moved
      BY <1>2, <1>4 DEF Providing
    <2> HIDE DEF j
    <2>2. j \in Jobs /\ Fits(j)
      BY <1>4, <2>1 DEF Jobs, Fits, Providing, Routing, Acquiring
    <2> QED
      BY <1>3, <2>1, <2>2, JobStep DEF i
  <1>5. CASE w[x] \in Routing
    <2>1. /\ j \in Routing /\ j.at = w[x].at /\ j.job = w[x].job /\ j.log = log /\ j.i = i
          /\ j.id = w[x].id
      BY <1>2, <1>5 DEF Routing
    <2>2. w[x] \notin Providing
      BY <1>5 DEF Routing, Providing
    <2> HIDE DEF j
    <2>3. j \in Jobs /\ Fits(j)
      BY <1>5, <2>1 DEF Jobs, Fits, Providing, Routing, Acquiring
    <2> QED
      BY <1>3, <2>1, <2>2, <2>3, JobStep DEF i
  <1> QED
    BY <1>4, <1>5

LEMMA TypedInit == Init => Sound
  <1> SUFFICES ASSUME Init PROVE Sound
    OBVIOUS
  <1>1. << >> \in Logs
    BY DEF Init, Logs
  <1>2. \A T : << >> \in Tables(T)
    <2>1. \A T : << >> \in [{} -> T] /\ {} \in SUBSET Names
      OBVIOUS
    <2> QED
      BY <2>1 DEF Tables
  <1>3. files \in [Folders -> Tables(Docs)]
        /\ side \in [{"inbox", "review"} -> Tables(Sidecars \union {Torn})]
    BY <1>2 DEF Init
  <1>4. records \in Records
    <2>1. << >> \in [{} -> Marks] /\ {} \in SUBSET Logs
      OBVIOUS
    <2> QED
      BY <2>1 DEF Init, Records
  <1>5. w \in [Workers -> Jobs] /\ \A x \in Workers : w[x] = Idle
    BY DEF Init, Jobs
  <1> QED
    BY <1>1, <1>3, <1>4, <1>5 DEF Init, Sound, Typed, Placed, Fits, Idle, Acquiring

LEMMA MoveFacts ==
  ASSUME Typed, NEW from \in Folders, NEW to \in Folders, from # to,
         NEW name \in DOMAIN files[from], Move(name, from, to)
  PROVE  /\ files' \in [Folders -> Tables(Docs)]
         /\ files'[from] = Drop(files[from], name)
         /\ files'[to] = Put(files[to], name, files[from][name])
         /\ \A d \in Folders : d \notin {from, to} => files'[d] = files[d]
         /\ hist' \in {hist, hist \union {"names"}} /\ hist' \in SUBSET Disturbances
         /\ name \in DOMAIN files[to] /\ files[to][name] # files[from][name] => "names" \in hist'
  <1>1. files[from] \in Tables(Docs) /\ files[to] \in Tables(Docs)
    BY DEF Typed
  <1>2. name \in Names /\ files[from][name] \in Docs
    BY <1>1, TableFacts
  <1>3. Drop(files[from], name) \in Tables(Docs)
        /\ Put(files[to], name, files[from][name]) \in Tables(Docs)
    BY <1>1, <1>2, PutFacts, DropFacts
  <1>4. files' = [files EXCEPT ![from] = Drop(files[from], name),
                               ![to] = Put(files[to], name, files[from][name])]
    BY DEF Move, Typed
  <1>5. hist' = IF name \in DOMAIN files[to] /\ files[to][name] # files[from][name]
                THEN hist \union {"names"} ELSE hist
    BY DEF Move
  <1> QED
    BY <1>3, <1>4, <1>5 DEF Typed, Disturbances

LEMMA PutTypes ==
  ASSUME Typed, NEW name \in Names
  PROVE  /\ \A v \in Docs :
              [files EXCEPT !["inbox"] = Put(@, name, v)] \in [Folders -> Tables(Docs)]
         /\ \A v \in Sidecars \union {Torn} :
              [side EXCEPT !["inbox"] = Put(@, name, v)]
                 \in [{"inbox", "review"} -> Tables(Sidecars \union {Torn})]
         /\ [side EXCEPT !["inbox"] = Drop(@, name)]
                 \in [{"inbox", "review"} -> Tables(Sidecars \union {Torn})]
  <1>1. files["inbox"] \in Tables(Docs) /\ side["inbox"] \in Tables(Sidecars \union {Torn})
        /\ "inbox" \in Folders
    BY DEF Typed, Folders
  <1>2. /\ \A v \in Docs : Put(files["inbox"], name, v) \in Tables(Docs)
        /\ \A v \in Sidecars \union {Torn} :
              Put(side["inbox"], name, v) \in Tables(Sidecars \union {Torn})
        /\ Drop(side["inbox"], name) \in Tables(Sidecars \union {Torn})
    BY <1>1, PutFacts, DropFacts
  <1> QED
    BY <1>1, <1>2 DEF Typed

LEMMA MoveSidecarFacts ==
  ASSUME Typed, NEW n \in DOMAIN side["inbox"], MoveSidecar(n)
  PROVE  /\ side' \in [{"inbox", "review"} -> Tables(Sidecars \union {Torn})]
         /\ side'["inbox"] = Drop(side["inbox"], n)
         /\ side'["review"] = Put(side["review"], n, side["inbox"][n])
  <1>1. /\ side["inbox"] \in Tables(Sidecars \union {Torn})
        /\ side["review"] \in Tables(Sidecars \union {Torn})
    BY DEF Typed
  <1>2. n \in Names /\ side["inbox"][n] \in Sidecars \union {Torn}
    BY <1>1, TableFacts
  <1>3. Drop(side["inbox"], n) \in Tables(Sidecars \union {Torn})
        /\ Put(side["review"], n, side["inbox"][n]) \in Tables(Sidecars \union {Torn})
    BY <1>1, <1>2, PutFacts, DropFacts
  <1>4. side' = [side EXCEPT !["inbox"] = Drop(side["inbox"], n),
                             !["review"] = Put(side["review"], n, side["inbox"][n])]
    BY DEF MoveSidecar, Typed
  <1> QED
    BY <1>3, <1>4 DEF Typed

\* The row at which a loop is.
LEMMA CurrentFacts ==
  ASSUME Typed, NEW x \in Workers, HasRow(x)
  PROVE  /\ w[x].log \in Logs /\ w[x].i \in Places /\ w[x].i \in 1..Len(w[x].log)
         /\ Current(x) \in Rows /\ Len(w[x].log) \in Nat
         /\ w[x].at = "provenance" => w[x] \in Providing
         /\ w[x].at = "route" => w[x] \in Routing
  <1>1. w[x] \in Providing \/ w[x] \in Routing
    BY JobOf DEF HasRow
  <1>2. w[x].log \in Logs /\ w[x].i \in Places
    BY <1>1 DEF Providing, Routing
  <1>3. w[x].i \in 1..Len(w[x].log) /\ Len(w[x].log) \in Nat
    BY <1>2 DEF HasRow, Places, Logs
  <1>4. Current(x) \in Rows
    BY <1>2, <1>3 DEF Current, Logs
  <1> QED
    BY <1>2, <1>3, <1>4, JobOf

LEMMA RecordTypes ==
  ASSUME Typed, NEW id \in Logs, NEW v \in Marks
  PROVE  /\ Put(records, id, v) \in Records
         /\ [records EXCEPT ![id] = v] \in Records
    <1>1. PICK S \in SUBSET Logs : records \in [S -> Marks]
    BY DEF Typed, Records
  <1>2. Put(records, id, v) \in [S \union {id} -> Marks] /\ S \union {id} \in SUBSET Logs
    BY <1>1 DEF Put
  <1>3. [records EXCEPT ![id] = v] \in [S -> Marks]
    BY <1>1
  <1> QED
    BY <1>1, <1>2, <1>3 DEF Records

LEMMA PlanFacts ==
  ASSUME Sound, NEW x \in Workers, NEW log \in Logs, NEW name \in Names \union {None},
         NEW drop \in Urns \union {None}, NEW ack \in Acks, name = None <=> ack.doc = None,
         Plan(x, log, name, drop, ack)
  PROVE  /\ w' \in [Workers -> Jobs] /\ Placed' /\ \A y \in Workers : y # x => w'[y] = w[y]
         /\ w'[x] = [at |-> "place", job |-> "acquire", log |-> log, name |-> name,
                     drop |-> drop, ack |-> ack]
  <1> DEFINE j == [at |-> "place", job |-> "acquire", log |-> log, name |-> name,
                   drop |-> drop, ack |-> ack]
  <1>1. j \in Acquiring /\ Fits(j)
    BY DEF Acquiring, Fits
  <1>2. w' = [w EXCEPT ![x] = j] /\ w \in [Workers -> Jobs]
    BY DEF Plan, Sound, Typed
  <1>3. j \in Jobs
    BY <1>1 DEF Jobs
  <1> HIDE DEF j
  <1>4. w' \in [Workers -> Jobs] /\ Placed'
    BY <1>1, <1>2, <1>3, JobStep
  <1> QED
    BY <1>2, <1>4 DEF j

\* What an acquire makes of the ledger.
LEMMA AcquireTypes ==
  ASSUME Sound, NEW x \in Workers, NEW item \in Items, NEW doc \in item.gives, w[x] = Idle,
         IF doc # None THEN AcquireBytes(x, item, doc) ELSE AcquireCitation(x, item)
  PROVE  /\ w' \in [Workers -> Jobs] /\ Placed' /\ \A y \in Workers : y # x => w'[y] = w[y]
         /\ w'[x] = Idle \/ /\ w'[x] \in Acquiring /\ w'[x].at = "place"
                            /\ w'[x].name = None <=> doc = None
                            /\ w'[x].ack = Acked(Identity(item, doc), doc)
  <1>1. Typed /\ Placed /\ rows \in Logs /\ w \in [Workers -> Jobs]
    BY DEF Sound, Typed
  <1>2. CASE UNCHANGED w
    BY <1>1, <1>2 DEF Placed
  <1>3. CASE doc # None /\ w' # w
    <2> DEFINE urn == Identity(item, doc)
               name == ArtifactName(item, doc)
               i == Existing(rows, item, urn)
               new == IF i # 0 /\ Refills(rows[i], item)
                      THEN [rows EXCEPT ![i] = Refilled(@, item, urn, name, doc)]
                      ELSE Append(rows, Row(item, urn, "acquired", name, doc))
               drop == IF i # 0 /\ item.url /\ rows[i].status = "citation-only"
                       THEN rows[i].urn ELSE None
    <2>1. Plan(x, new, name, drop, Acked(urn, doc))
      BY <1>3 DEF AcquireBytes
    <2>2. urn \in Urns /\ name \in Names /\ doc \in Docs
          /\ Row(item, urn, "acquired", name, doc) \in Rows
      BY ItemTypes DEF Statuses
    <2>3. i \in DOMAIN rows \union {0} /\ DOMAIN rows = 1..Len(rows)
      BY <1>1, ExistingFacts DEF Existing, Logs
    <2> HIDE DEF urn, name, i
    <2>4. i # 0 => rows[i] \in Rows /\ rows[i].urn \in Urns
      <3>1. i # 0 => rows[i] \in Rows
        BY <1>1, <2>3 DEF Logs
      <3> QED
        BY <3>1 DEF Rows
    <2>5. new \in Logs
      <3>1. CASE i # 0 /\ Refills(rows[i], item)
        <4>1. Refilled(rows[i], item, urn, name, doc) \in Rows
          BY <2>2, <2>4, <3>1, RefilledType
        <4> QED
          BY <1>1, <2>3, <3>1, <4>1 DEF Logs
      <3>2. CASE ~(i # 0 /\ Refills(rows[i], item))
        BY <1>1, <2>2, <3>2 DEF Logs
      <3> QED
        BY <3>1, <3>2
    <2>6. drop \in Urns \union {None} /\ Acked(urn, doc) \in Acks
          /\ (name = None <=> Acked(urn, doc).doc = None)
      BY <1>3, <2>2, <2>4, NamesAssumption DEF Acked, Acks
    <2> HIDE DEF new, drop
    <2>7. /\ w' \in [Workers -> Jobs] /\ Placed' /\ \A y \in Workers : y # x => w'[y] = w[y]
          /\ w'[x] = [at |-> "place", job |-> "acquire", log |-> new, name |-> name,
                      drop |-> drop, ack |-> Acked(urn, doc)]
      BY <2>1, <2>2, <2>5, <2>6, PlanFacts
    <2> QED
      BY <1>3, <2>2, <2>5, <2>6, <2>7, NamesAssumption DEF Acquiring, urn
  <1>4. CASE doc = None /\ w' # w
    <2> DEFINE urn == Identity(item, None)
               new == Append(rows, Row(item, urn, "citation-only", None, None))
    <2>1. Plan(x, new, None, None, Acked(urn, None))
      BY <1>4 DEF AcquireCitation
    <2>2. urn \in Urns /\ Row(item, urn, "citation-only", None, None) \in Rows
      BY ItemTypes DEF Statuses
    <2> HIDE DEF urn
    <2>3. new \in Logs /\ Acked(urn, None) \in Acks /\ Acked(urn, None).doc = None
      BY <1>1, <2>2 DEF Logs, Acked, Acks
    <2> HIDE DEF new
    <2>4. /\ w' \in [Workers -> Jobs] /\ Placed' /\ \A y \in Workers : y # x => w'[y] = w[y]
          /\ w'[x] = [at |-> "place", job |-> "acquire", log |-> new, name |-> None,
                      drop |-> None, ack |-> Acked(urn, None)]
      BY <2>1, <2>3, PlanFacts
    <2> QED
      BY <1>4, <2>3, <2>4 DEF Acquiring, urn
  <1> QED
    BY <1>2, <1>3, <1>4

LEMMA OverlapTypes ==
  ASSUME Typed, NEW x, NEW more \in SUBSET {"refetch"}, Overlap(x, more)
  PROVE  /\ hist' \in SUBSET Disturbances /\ hist \subseteq hist'
         /\ hist' \subseteq hist \union more \union {"overlap"}
         /\ ~Alone(x) => "overlap" \in hist'
         /\ more \subseteq hist'
  BY DEF Overlap, Typed, Disturbances

LEMMA SoundStep == Sound /\ [Next]_vars => Sound'
  <1> SUFFICES ASSUME Sound, [Next]_vars PROVE Sound'
    OBVIOUS
  <1>0. Typed /\ Placed /\ rows \in Logs /\ w \in [Workers -> Jobs]
        /\ \A x \in Workers : w[x] \in Jobs
    BY DEF Sound, Typed
  \* What remains to be shown of the variables an action changes.
  <1>1. ASSUME w' \in [Workers -> Jobs] /\ Placed',
               rows' \in Logs, files' \in [Folders -> Tables(Docs)],
               side' \in [{"inbox", "review"} -> Tables(Sidecars \union {Torn})],
               records' = records \/ \E id \in Logs, v \in Marks :
                  records' \in {Put(records, id, v), [records EXCEPT ![id] = v]},
               acked' = acked \/ \E a \in Acks : acked' = acked \union {a},
               hist' \in SUBSET Disturbances
        PROVE  Sound'
    <2>1. records' \in Records
      <3>1. CASE records' = records
        BY <1>0, <3>1 DEF Typed
      <3>2. CASE records' # records
        <4>1. PICK id \in Logs, v \in Marks :
                 records' \in {Put(records, id, v), [records EXCEPT ![id] = v]}
          BY <1>1, <3>2
        <4> QED
          BY <1>0, <4>1, RecordTypes
      <3> QED
        BY <3>1, <3>2
    <2>2. acked' \in SUBSET Acks
      BY <1>0, <1>1 DEF Typed
    <2> QED
      BY <1>1, <2>1, <2>2 DEF Sound, Typed
  <1>2. /\ rows \in Logs /\ files \in [Folders -> Tables(Docs)]
        /\ side \in [{"inbox", "review"} -> Tables(Sidecars \union {Torn})]
        /\ hist \in SUBSET Disturbances
        /\ {"names"} \subseteq Disturbances /\ {"running", "complete", "failed", Torn} = Marks
    BY <1>0 DEF Typed, Disturbances, Marks
  <1>3. CASE UNCHANGED vars
    BY <1>3 DEF vars, Sound, Typed, Placed
  <1>4. ASSUME NEW x \in Workers, NEW item \in Items, NEW doc \in item.gives, Acquire(x, item, doc)
        PROVE  Sound'
    <2>1. w' \in [Workers -> Jobs] /\ Placed'
      BY <1>4, AcquireTypes DEF Acquire
    <2>2. hist' \in SUBSET Disturbances
      BY <1>0, <1>4, OverlapTypes DEF Acquire
    <2> QED
      BY <1>1, <1>2, <1>4, <2>1, <2>2 DEF Acquire
  <1>5. ASSUME NEW x \in Workers, Place(x) PROVE Sound'
    <2>1. w[x] \in Acquiring
      BY <1>0, <1>5, JobOf DEF Place
    <2> DEFINE a == IF w[x].drop = None THEN "save" ELSE "drop"
               j == [w[x] EXCEPT !.at = a]
    <2>2. j \in Acquiring /\ Fits(j)
      BY <1>0, <2>1 DEF Acquiring, Fits, Placed
    <2>3. j \in Jobs /\ w' = [w EXCEPT ![x] = j]
      BY <1>0, <1>5, <2>2 DEF Jobs, Place, Goto
    <2> HIDE DEF j
    <2>4. w' \in [Workers -> Jobs] /\ Placed'
      BY <2>2, <2>3, JobStep
    <2>5. files' \in [Folders -> Tables(Docs)] /\ hist' \in SUBSET Disturbances
      <3>1. CASE w[x].name = None
        BY <1>2, <1>5, <3>1 DEF Place
      <3>2. CASE w[x].name # None
        <4>1. w[x].name \in Names /\ w[x].ack.doc \in Docs
          BY <1>0, <2>1, <3>2 DEF Acquiring, Acks, Placed, Fits
        <4> QED
          BY <1>0, <1>2, <1>5, <3>2, <4>1, PutTypes DEF Place
      <3> QED
        BY <3>1, <3>2
    <2> QED
      BY <1>1, <1>2, <1>5, <2>4, <2>5 DEF Place
  <1>6. ASSUME NEW x \in Workers, DropCitation(x) PROVE Sound'
    <2>1. w[x] \in Acquiring
      BY <1>0, <1>6, JobOf DEF DropCitation
    <2> DEFINE j == [w[x] EXCEPT !.at = "save"]
    <2>2. j \in Acquiring /\ Fits(j)
      BY <1>0, <2>1 DEF Acquiring, Fits, Placed
    <2>3. j \in Jobs /\ w' = [w EXCEPT ![x] = j]
      BY <1>0, <1>6, <2>2 DEF Jobs, DropCitation, Goto
    <2> HIDE DEF j
    <2>4. w' \in [Workers -> Jobs] /\ Placed'
      BY <2>2, <2>3, JobStep
    <2> QED
      BY <1>1, <1>2, <1>6, <2>4 DEF DropCitation
  <1>7. ASSUME NEW x \in Workers, SaveOpen(x) PROVE Sound'
    <2> DEFINE j == [w[x] EXCEPT !.at = "write"]
    <2>1. w[x] \in Acquiring \union Providing \union Routing
      BY <1>0, <1>7, JobOf DEF SaveOpen, ToSave
    <2>2. j \in Acquiring \union Providing \union Routing /\ Fits(j)
      <3>1. CASE w[x] \in Acquiring
        BY <1>0, <3>1 DEF Acquiring, Fits, Placed
      <3>2. CASE w[x] \in Providing
        BY <3>2 DEF Acquiring, Providing, Fits
      <3>3. CASE w[x] \in Routing
        BY <3>3 DEF Acquiring, Routing, Fits
      <3> QED
        BY <2>1, <3>1, <3>2, <3>3
    <2>3. j \in Jobs /\ w' = [w EXCEPT ![x] = j]
      BY <1>0, <1>7, <2>2 DEF Jobs, SaveOpen, Goto
    <2> HIDE DEF j
    <2>4. w' \in [Workers -> Jobs] /\ Placed'
      BY <2>2, <2>3, JobStep
    <2>5. << >> \in Logs
      BY DEF Logs
    <2> QED
      BY <1>1, <1>2, <1>7, <2>4, <2>5 DEF SaveOpen
  <1>8. ASSUME NEW x \in Workers, SaveWrite(x) PROVE Sound'
    <2>1. w[x] \in Acquiring \union Providing \union Routing
      BY <1>0, <1>8, JobOf DEF SaveWrite
    <2>2. CASE w[x] \in Acquiring
      <3>1. /\ Rest(x) /\ acked' = acked \union {w[x].ack} /\ w[x].ack \in Acks
            /\ w[x].log \in Logs
        BY <1>8, <2>2 DEF SaveWrite, Acquiring
      <3>2. w' \in [Workers -> Jobs] /\ Placed'
        BY <3>1, RestStep
      <3> QED
        BY <1>1, <1>2, <1>8, <3>1, <3>2 DEF SaveWrite
    <2>3. CASE w[x] \in Providing
      <3> DEFINE j == [at |-> "year", id |-> w[x].id, todo |-> DOMAIN side["inbox"]]
      <3>1. w' = [w EXCEPT ![x] = j] /\ UNCHANGED acked /\ w[x].log \in Logs /\ w[x].id \in Logs
        BY <1>8, <2>3 DEF SaveWrite, Providing
      <3>2. DOMAIN side["inbox"] \in SUBSET Names
        BY <1>2, TableFacts
      <3>3. j \in Jobs /\ Fits(j)
        BY <3>1, <3>2 DEF Jobs, Dating, Fits, Acquiring
      <3> HIDE DEF j
      <3>4. w' \in [Workers -> Jobs] /\ Placed'
        BY <3>1, <3>3, JobStep
      <3> QED
        BY <1>1, <1>2, <1>8, <3>1, <3>4 DEF SaveWrite
    <2>4. CASE w[x] \in Routing
      <3> DEFINE j == [at |-> "audit", id |-> w[x].id]
      <3>1. w' = [w EXCEPT ![x] = j] /\ UNCHANGED acked /\ w[x].log \in Logs /\ w[x].id \in Logs
        BY <1>8, <2>4 DEF SaveWrite, Routing
      <3>2. j \in Jobs /\ Fits(j)
        BY <3>1 DEF Jobs, Auditing, Fits, Acquiring
      <3> HIDE DEF j
      <3>3. w' \in [Workers -> Jobs] /\ Placed'
        BY <3>1, <3>2, JobStep
      <3> QED
        BY <1>1, <1>2, <1>8, <3>1, <3>3 DEF SaveWrite
    <2> QED
      BY <2>1, <2>2, <2>3, <2>4
  <1>9. ASSUME NEW x \in Workers, Process(x) PROVE Sound'
    <2>1. hist' \in SUBSET Disturbances
      BY <1>0, <1>9, OverlapTypes DEF Process
    <2>2. CASE UNCHANGED <<records, w>>
      BY <1>0, <1>1, <1>2, <1>9, <2>1, <2>2 DEF Process, Placed
    <2>3. CASE ~UNCHANGED <<records, w>>
      <3> DEFINE j == [at |-> "start", id |-> rows]
      <3>1. records' = Put(records, rows, Torn) /\ w' = [w EXCEPT ![x] = j]
        BY <1>9, <2>3 DEF Process
      <3>2. j \in Jobs /\ Fits(j)
        BY <1>2 DEF Jobs, Starting, Fits, Acquiring
      <3> HIDE DEF j
      <3>3. w' \in [Workers -> Jobs] /\ Placed'
        BY <3>1, <3>2, JobStep
      <3> QED
        BY <1>1, <1>2, <1>9, <2>1, <3>1, <3>3 DEF Process
    <2> QED
      BY <2>2, <2>3
  <1>10. ASSUME NEW x \in Workers, Start(x) PROVE Sound'
    <2> DEFINE seen == {<<side["inbox"][n].urn, n>> :
                          n \in {n \in DOMAIN side["inbox"] : side["inbox"][n] # Torn}}
               i == NextIndex("provenance", rows, 0)
               j == [at |-> "provenance", job |-> "provenance", id |-> w[x].id, log |-> rows,
                     i |-> i, moved |-> FALSE, seen |-> seen]
    <2>1. w[x].id \in Logs
      BY <1>0, <1>10, JobOf DEF Start, Starting
    <2>2. seen \in SUBSET (Urns \X Names)
      <3>1. \A n \in DOMAIN side["inbox"] :
               n \in Names /\ side["inbox"][n] \in Sidecars \union {Torn}
        BY <1>2, TableFacts
      <3>2. \A n \in DOMAIN side["inbox"] :
               side["inbox"][n] # Torn => side["inbox"][n].urn \in Urns /\ n \in Names
        BY <3>1 DEF Sidecars
      <3> QED
        BY <3>2
    <2>3. i \in Places
      BY <1>2, NextIndexType
    <2>4. w' = [w EXCEPT ![x] = j] /\ records' = [records EXCEPT ![w[x].id] = "running"]
      BY <1>10 DEF Start
    <2> HIDE DEF seen, i
    <2>5. j \in Jobs /\ Fits(j)
      BY <1>2, <2>1, <2>2, <2>3 DEF Jobs, Providing, Fits, Acquiring
    <2> HIDE DEF j
    <2>6. w' \in [Workers -> Jobs] /\ Placed'
      BY <2>4, <2>5, JobStep
    <2> QED
      BY <1>1, <1>2, <1>10, <2>1, <2>4, <2>6 DEF Start
  <1>11. ASSUME NEW x \in Workers, PassOver(x) PROVE Sound'
    <2>1. w' \in [Workers -> Jobs] /\ Placed'
      BY <1>0, <1>11, CurrentFacts, NextRowStep DEF PassOver
    <2> QED
      BY <1>1, <1>2, <1>11, <2>1 DEF PassOver
  <1>12. ASSUME NEW x \in Workers, Quarantine(x) PROVE Sound'
    <2> DEFINE j == [w[x] EXCEPT !.at = "unlink", !.moved = TRUE, !.log = Marked(x, "failed")]
    <2>1. HasRow(x) /\ w[x] \in Providing /\ Current(x).name \in DOMAIN files["inbox"]
          /\ "failed" \in Statuses
      BY <1>0, <1>12, CurrentFacts DEF Quarantine, ToCheck, Statuses
    <2>2. Move(Current(x).name, "inbox", "failed") /\ w' = [w EXCEPT ![x] = j]
      BY <1>0, <1>12 DEF Quarantine
    <2>3. files' \in [Folders -> Tables(Docs)] /\ hist' \in SUBSET Disturbances
      BY <1>0, <2>1, <2>2, MoveFacts DEF Folders
    <2>4. /\ Marked(x, "failed") \in Logs /\ Len(Marked(x, "failed")) = Len(w[x].log)
          /\ w[x].i \in 1..Len(w[x].log) /\ Marked(x, "failed")[w[x].i].name = Current(x).name
      BY <1>0, <2>1, CurrentFacts, MarkedFacts
    <2>5. Current(x).name \in Names
      BY <1>2, <2>1, TableFacts DEF Folders
    <2>6. /\ j \in Providing /\ j.at = "unlink" /\ j.i = w[x].i /\ j.log = Marked(x, "failed")
      BY <2>1, <2>4 DEF Providing
    <2> HIDE DEF j
    <2>8. Fits(j)
      BY <2>4, <2>5, <2>6 DEF Fits, Acquiring, Providing, Places
    <2>7. w' \in [Workers -> Jobs] /\ Placed'
      BY <2>2, <2>6, <2>8, JobStep DEF Jobs
    <2> QED
      BY <1>1, <1>2, <1>12, <2>3, <2>7 DEF Quarantine
  <1>13. ASSUME NEW x \in Workers, UnlinkSidecar(x) PROVE Sound'
    <2> DEFINE i == NextIndex("provenance", w[x].log, w[x].i)
               j == [w[x] EXCEPT !.at = "provenance", !.i = i]
    <2>1. w[x] \in Providing /\ w[x].log[w[x].i].name \in Names
      BY <1>0, <1>13, JobOf DEF UnlinkSidecar, Placed, Fits
    <2>2. i \in Places
      BY <2>1, NextIndexType DEF Providing, Places
    <2>3. w' = [w EXCEPT ![x] = j]
      BY <1>0, <1>13 DEF UnlinkSidecar
    <2> HIDE DEF i
    <2>4. j \in Providing /\ j.at = "provenance"
      BY <2>1, <2>2 DEF Providing
    <2> HIDE DEF j
    <2>5. w' \in [Workers -> Jobs] /\ Placed'
      BY <2>3, <2>4, JobStep DEF Jobs, Fits, Providing, Acquiring
    <2>6. side' \in [{"inbox", "review"} -> Tables(Sidecars \union {Torn})]
      BY <1>0, <1>13, <2>1, PutTypes DEF UnlinkSidecar, Current
    <2> QED
      BY <1>1, <1>2, <1>13, <2>5, <2>6 DEF UnlinkSidecar
  <1>14. ASSUME NEW x \in Workers, KeepSidecar(x) PROVE Sound'
    <2>1. HasRow(x) /\ w[x] \in Providing /\ w[x].at = "provenance" /\ "registered" \in Statuses
      BY <1>0, <1>14, CurrentFacts DEF KeepSidecar, ToCheck, Statuses
    <2>2. Marked(x, "registered") \in Logs /\ Len(Marked(x, "registered")) = Len(w[x].log)
      BY <1>0, <2>1, CurrentFacts, MarkedFacts
    <2>3. w' \in [Workers -> Jobs] /\ Placed'
      BY <1>14, <2>1, <2>2, NextRowStep DEF KeepSidecar
    <2> QED
      BY <1>1, <1>2, <1>14, <2>3 DEF KeepSidecar
  <1>15. ASSUME NEW x \in Workers, Collapse(x) PROVE Sound'
    <2> DEFINE i == NextIndex("provenance", w[x].log, w[x].i)
               j == [w[x] EXCEPT !.moved = TRUE, !.log = Marked(x, "duplicate"), !.i = i]
    <2>1. HasRow(x) /\ w[x] \in Providing /\ Current(x).name \in DOMAIN files["inbox"]
          /\ "duplicate" \in Statuses /\ w[x].at = "provenance"
      BY <1>0, <1>15, CurrentFacts DEF Collapse, ToCheck, Statuses
    <2>2. Move(Current(x).name, "inbox", "duplicates") /\ w' = [w EXCEPT ![x] = j]
      BY <1>0, <1>15 DEF Collapse
    <2>3. files' \in [Folders -> Tables(Docs)] /\ hist' \in SUBSET Disturbances
      BY <1>0, <2>1, <2>2, MoveFacts DEF Folders
    <2>4. Marked(x, "duplicate") \in Logs /\ i \in Places
      <3>1. w[x].log \in Logs /\ w[x].i \in Places /\ w[x].i <= Len(w[x].log)
        BY <1>0, <2>1, CurrentFacts
      <3>2. w[x].i \in Nat
        BY <3>1 DEF Places
      <3> QED
        BY <2>1, <3>1, <3>2, MarkedFacts, NextIndexType
    <2> HIDE DEF i
    <2>5. j \in Providing /\ j.at = "provenance"
      BY <2>1, <2>4 DEF Providing
    <2> HIDE DEF j
    <2>6. w' \in [Workers -> Jobs] /\ Placed'
      BY <2>2, <2>5, JobStep DEF Jobs, Fits, Providing, Acquiring
    <2> QED
      BY <1>1, <1>2, <1>15, <2>3, <2>6 DEF Collapse
  <1>16. ASSUME NEW x \in Workers, OpenSidecar(x) PROVE Sound'
    <2> DEFINE j == [w[x] EXCEPT !.at = "sidecar"]
    <2>1. HasRow(x) /\ w[x] \in Providing /\ Current(x).name \in DOMAIN files["inbox"]
      BY <1>0, <1>16, CurrentFacts DEF OpenSidecar, ToCheck
    <2>2. Current(x).name \in Names
      BY <1>2, <2>1, TableFacts DEF Folders
    <2>3. j \in Providing /\ j.at = "sidecar" /\ j.i = w[x].i /\ j.log = w[x].log
      BY <2>1 DEF Providing
    <2>4. w' = [w EXCEPT ![x] = j]
      BY <1>16 DEF OpenSidecar, Goto
    <2> HIDE DEF j
    <2>5. Fits(j)
      BY <2>1, <2>2, <2>3 DEF Fits, HasRow, Current, Providing, Acquiring
    <2>6. w' \in [Workers -> Jobs] /\ Placed'
      BY <2>3, <2>4, <2>5, JobStep DEF Jobs
    <2>7. side' \in [{"inbox", "review"} -> Tables(Sidecars \union {Torn})]
      BY <1>0, <1>16, <2>2, PutTypes DEF OpenSidecar
    <2> QED
      BY <1>1, <1>2, <1>16, <2>6, <2>7 DEF OpenSidecar
  <1>17. ASSUME NEW x \in Workers, WriteSidecar(x) PROVE Sound'
    <2> DEFINE r == Current(x)
               i == NextIndex("provenance", w[x].log, w[x].i)
               seen == w[x].seen \union {<<r.urn, r.name>>}
               j == [w[x] EXCEPT !.at = "provenance", !.i = i, !.log = Marked(x, "registered"),
                                 !.seen = seen]
               sidecar == [urn |-> r.urn, sha |-> r.sha, dated |-> FALSE]
    <2>1. w[x] \in Providing /\ w[x].i <= Len(w[x].log) /\ r.name \in Names
          /\ "registered" \in Statuses
      BY <1>0, <1>17, JobOf DEF WriteSidecar, Placed, Fits, Current, Statuses
    <2>2. w[x].log \in Logs /\ w[x].i \in Places /\ w[x].seen \in SUBSET (Urns \X Names)
      BY <2>1 DEF Providing
    <2>3. r \in Rows
      BY <2>1, <2>2, MarkedType
    <2>4. Marked(x, "registered") \in Logs /\ i \in Places
      BY <2>1, <2>2, MarkedFacts, NextIndexType DEF Places
    <2>5. r.urn \in Urns /\ r.sha \in Docs \union {None}
      BY <2>3 DEF Rows
    <2>6. sidecar \in Sidecars /\ seen \in SUBSET (Urns \X Names)
      BY <2>1, <2>2, <2>5 DEF Sidecars
    <2>7. w' = [w EXCEPT ![x] = j] /\ side' = [side EXCEPT !["inbox"] = Put(@, r.name, sidecar)]
      BY <1>17 DEF WriteSidecar
    <2> HIDE DEF i, seen, r, sidecar
    <2>8. j \in Providing /\ j.at = "provenance"
      BY <2>1, <2>4, <2>6 DEF Providing
    <2> HIDE DEF j
    <2>9. w' \in [Workers -> Jobs] /\ Placed'
      BY <2>7, <2>8, JobStep DEF Jobs, Fits, Providing, Acquiring
    <2>10. side' \in [{"inbox", "review"} -> Tables(Sidecars \union {Torn})]
      BY <1>0, <2>1, <2>6, <2>7, PutTypes
    <2> QED
      BY <1>1, <1>2, <1>17, <2>9, <2>10 DEF WriteSidecar
  <1>18. ASSUME NEW x \in Workers, NEW n, YearRead(x, n) PROVE Sound'
    <2>1. w[x] \in Dating
      BY <1>0, <1>18, JobOf DEF YearRead
    <2>2. CASE n \in DOMAIN side["inbox"] /\ side["inbox"][n] # Torn /\ ~side["inbox"][n].dated
      <3> DEFINE j == [at |-> "date", id |-> w[x].id, todo |-> w[x].todo \ {n}, name |-> n,
                       found |-> side["inbox"][n]]
      <3>1. w' = [w EXCEPT ![x] = j] /\ side' = [side EXCEPT !["inbox"][n] = Torn]
        BY <1>18, <2>2 DEF YearRead
      <3>2. n \in Names /\ side["inbox"][n] \in Sidecars
        BY <1>2, <2>2, TableFacts
      <3>3. j \in Writing /\ j.at = "date"
        BY <2>1, <3>2 DEF Writing, Dating
      <3> HIDE DEF j
      <3>4. w' \in [Workers -> Jobs] /\ Placed'
        BY <3>1, <3>3, JobStep DEF Jobs, Fits, Writing, Acquiring
      <3>5. [side["inbox"] EXCEPT ![n] = Torn] \in Tables(Sidecars \union {Torn})
        <4>1. PICK S \in SUBSET Names : side["inbox"] \in [S -> Sidecars \union {Torn}]
          BY <1>2 DEF Tables
        <4> QED
          BY <4>1 DEF Tables
      <3>6. side' \in [{"inbox", "review"} -> Tables(Sidecars \union {Torn})]
        BY <1>2, <3>1, <3>5
      <3> QED
        BY <1>1, <1>2, <1>18, <3>4, <3>6 DEF YearRead
    <2>3. CASE ~(n \in DOMAIN side["inbox"] /\ side["inbox"][n] # Torn /\ ~side["inbox"][n].dated)
      <3> DEFINE j == [w[x] EXCEPT !.todo = w[x].todo \ {n}]
      <3>1. w' = [w EXCEPT ![x] = j] /\ UNCHANGED side
        BY <1>0, <1>18, <2>3 DEF YearRead
      <3>2. j \in Dating
        BY <2>1 DEF Dating
      <3> HIDE DEF j
      <3>3. w' \in [Workers -> Jobs] /\ Placed'
        BY <3>1, <3>2, JobStep DEF Jobs, Fits, Dating, Acquiring
      <3> QED
        BY <1>1, <1>2, <1>18, <3>1, <3>3 DEF YearRead
    <2> QED
      BY <2>2, <2>3
  <1>19. ASSUME NEW x \in Workers, YearWrite(x) PROVE Sound'
    <2> DEFINE j == [at |-> "year", id |-> w[x].id, todo |-> w[x].todo]
               sidecar == [w[x].found EXCEPT !.dated = TRUE]
    <2>1. w[x] \in Writing
      BY <1>0, <1>19, JobOf DEF YearWrite
    <2>2. w' = [w EXCEPT ![x] = j] /\ side' = [side EXCEPT !["inbox"] = Put(@, w[x].name, sidecar)]
      BY <1>19 DEF YearWrite
    <2>3. j \in Dating
      BY <2>1 DEF Writing, Dating
    <2>4. w[x].found \in Sidecars /\ w[x].name \in Names
      BY <2>1 DEF Writing
    <2>5. sidecar \in Sidecars
      BY <2>4 DEF Sidecars
    <2> HIDE DEF j, sidecar
    <2>6. w' \in [Workers -> Jobs] /\ Placed'
      BY <2>2, <2>3, JobStep DEF Jobs, Fits, Dating, Acquiring
    <2>7. side' \in [{"inbox", "review"} -> Tables(Sidecars \union {Torn})]
      BY <1>0, <2>2, <2>4, <2>5, PutTypes
    <2> QED
      BY <1>1, <1>2, <1>19, <2>6, <2>7 DEF YearWrite
  <1>20. ASSUME NEW x \in Workers, RouteBegin(x) PROVE Sound'
    <2> DEFINE i == NextIndex("route", rows, 0)
               j == [at |-> "route", job |-> "route", id |-> w[x].id, log |-> rows, i |-> i,
                     moved |-> FALSE]
    <2>1. w[x].id \in Logs
      BY <1>0, <1>20, JobOf DEF RouteBegin, Dating
    <2>2. i \in Places
      BY <1>2, NextIndexType
    <2>3. w' = [w EXCEPT ![x] = j]
      BY <1>20 DEF RouteBegin
    <2> HIDE DEF i
    <2>4. j \in Routing /\ j.at = "route"
      BY <1>2, <2>1, <2>2 DEF Routing
    <2> HIDE DEF j
    <2>5. w' \in [Workers -> Jobs] /\ Placed'
      BY <2>3, <2>4, JobStep DEF Jobs, Fits, Routing, Acquiring
    <2> QED
      BY <1>1, <1>2, <1>20, <2>5 DEF RouteBegin
  <1>21. ASSUME NEW x \in Workers, LeaveThere(x) PROVE Sound'
    <2>1. w' \in [Workers -> Jobs] /\ Placed'
      BY <1>0, <1>21, CurrentFacts, NextRowStep DEF LeaveThere, ToRoute
    <2> QED
      BY <1>1, <1>2, <1>21, <2>1 DEF LeaveThere
  <1>22. ASSUME NEW x \in Workers, Follow(x) PROVE Sound'
    <2> DEFINE n == Current(x).name
               carry == n \in DOMAIN side["inbox"] /\ n \notin DOMAIN side["review"]
               log == IF carry \/ n \in DOMAIN side["review"] THEN Marked(x, "review")
                      ELSE w[x].log
    <2>1. HasRow(x) /\ w[x] \in Routing /\ w[x].at = "route" /\ "review" \in Statuses
          /\ w[x].log \in Logs
      BY <1>0, <1>22, CurrentFacts DEF Follow, ToRoute, Statuses
    <2>2. log \in Logs /\ Len(log) = Len(w[x].log)
      BY <1>0, <2>1, CurrentFacts, MarkedFacts
    <2>3. NextRow(x, log) /\ IF carry THEN MoveSidecar(n) ELSE UNCHANGED side
      BY <1>22 DEF Follow
    <2>4. w' \in [Workers -> Jobs] /\ Placed'
      <3> HIDE DEF log
      <3> QED
        BY <2>1, <2>2, <2>3, NextRowStep
    <2>5. side' \in [{"inbox", "review"} -> Tables(Sidecars \union {Torn})]
      BY <1>0, <1>2, <2>3, MoveSidecarFacts
    <2> QED
      BY <1>1, <1>2, <1>22, <2>4, <2>5 DEF Follow
  <1>23. ASSUME NEW x \in Workers, RouteFile(x) PROVE Sound'
    <2> DEFINE j == [w[x] EXCEPT !.at = "carry"]
    <2>1. HasRow(x) /\ w[x] \in Routing /\ Current(x).name \in DOMAIN files["inbox"]
      BY <1>0, <1>23, CurrentFacts DEF RouteFile, ToRoute, Complete
    <2>2. Current(x).name \in Names
      BY <1>2, <2>1, TableFacts DEF Folders
    <2>3. j \in Routing /\ j.at = "carry" /\ j.i = w[x].i /\ j.log = w[x].log
      BY <2>1 DEF Routing
    <2>4. w' = [w EXCEPT ![x] = j] /\ Move(Current(x).name, "inbox", "review")
      BY <1>23 DEF RouteFile, Goto
    <2> HIDE DEF j
    <2>5. Fits(j)
      BY <2>1, <2>2, <2>3 DEF Fits, HasRow, Current, Routing, Acquiring
    <2>6. w' \in [Workers -> Jobs] /\ Placed'
      BY <2>3, <2>4, <2>5, JobStep DEF Jobs
    <2>7. files' \in [Folders -> Tables(Docs)] /\ hist' \in SUBSET Disturbances
      BY <1>0, <2>1, <2>4, MoveFacts DEF Folders
    <2> QED
      BY <1>1, <1>2, <1>23, <2>6, <2>7 DEF RouteFile
  <1>24. ASSUME NEW x \in Workers, NEW status \in {"complete", "failed"}, Finish(x, status),
                w[x].id \in Logs, UNCHANGED <<rows, files, side, acked, hist>>
         PROVE  Sound'
    <2> DEFINE j == [at |-> "end", id |-> w[x].id, status |-> status]
    <2>1. w' = [w EXCEPT ![x] = j] /\ records' = Put(records, w[x].id, Torn)
      BY <1>24 DEF Finish
    <2>2. j \in Ending /\ j.at = "end"
      BY <1>24 DEF Ending
    <2> HIDE DEF j
    <2>3. w' \in [Workers -> Jobs] /\ Placed'
      BY <2>1, <2>2, JobStep DEF Jobs, Fits, Ending, Acquiring
    <2> QED
      BY <1>1, <1>2, <1>24, <2>1, <2>3
  <1>25. ASSUME NEW x \in Workers, RouteSidecar(x) PROVE Sound'
    <2> DEFINE n == Current(x).name
    <2>1. w[x] \in Routing /\ w[x].i <= Len(w[x].log) /\ n \in Names /\ "review" \in Statuses
      BY <1>0, <1>25, JobOf DEF RouteSidecar, Placed, Fits, Current, Statuses
    <2>2. w[x].log \in Logs /\ w[x].i \in Places /\ w[x].id \in Logs
      BY <2>1 DEF Routing
    <2>3. CASE n \notin DOMAIN side["inbox"]
      BY <1>24, <1>25, <2>2, <2>3 DEF RouteSidecar
    <2>4. CASE n \in DOMAIN side["inbox"]
      <3> DEFINE i == NextIndex("route", w[x].log, w[x].i)
                 j == [w[x] EXCEPT !.at = "route", !.i = i, !.log = Marked(x, "review")]
      <3>1. w' = [w EXCEPT ![x] = j] /\ MoveSidecar(n) /\ UNCHANGED records
        BY <1>0, <1>25, <2>4 DEF RouteSidecar
      <3>2. Marked(x, "review") \in Logs /\ i \in Places
        BY <2>1, <2>2, MarkedFacts, NextIndexType DEF Places
      <3> HIDE DEF i
      <3>3. j \in Routing /\ j.at = "route"
        BY <2>1, <3>2 DEF Routing
      <3> HIDE DEF j
      <3>4. w' \in [Workers -> Jobs] /\ Placed'
        BY <3>1, <3>3, JobStep DEF Jobs, Fits, Routing, Acquiring
      <3>5. side' \in [{"inbox", "review"} -> Tables(Sidecars \union {Torn})]
        BY <1>0, <2>4, <3>1, MoveSidecarFacts
      <3> QED
        BY <1>1, <1>2, <1>25, <3>1, <3>4, <3>5 DEF RouteSidecar
    <2> QED
      BY <2>3, <2>4
  <1>26. ASSUME NEW x \in Workers, Audit(x) PROVE Sound'
    <2>1. w[x].id \in Logs
      BY <1>0, <1>26, JobOf DEF Audit, Auditing
    <2> QED
      BY <1>24, <1>26, <2>1 DEF Audit
  <1>27. ASSUME NEW x \in Workers, Record(x) PROVE Sound'
    <2>1. w[x].id \in Logs /\ w[x].status \in Marks
      BY <1>0, <1>27, JobOf DEF Record, Ending, Marks
    <2>2. w' \in [Workers -> Jobs] /\ Placed'
      BY <1>27, RestStep DEF Record
    <2> QED
      BY <1>1, <1>2, <1>27, <2>1, <2>2 DEF Record
  <1>28. ASSUME NEW x \in Workers, Crash(x) PROVE Sound'
    <2>1. w' \in [Workers -> Jobs] /\ Placed'
      BY <1>28, RestStep DEF Crash
    <2>2. hist' \in SUBSET Disturbances
      BY <1>2, <1>28 DEF Crash, Disturbances
    <2> QED
      BY <1>1, <1>2, <1>28, <2>1, <2>2 DEF Crash
  <1> QED
    BY <1>3, <1>4, <1>5, <1>6, <1>7, <1>8, <1>9, <1>10, <1>11, <1>12, <1>13, <1>14, <1>15, <1>16,
       <1>17, <1>18, <1>19, <1>20, <1>21, <1>22, <1>23, <1>25, <1>26, <1>27, <1>28
    DEF Next, Provenance, Route

\* Type correctness: of the six variables the other proofs need, and that in a loop the row a
\* worker is at is there.
THEOREM SpecSound == Spec => []Sound
  BY TypedInit, SoundStep, PTL DEF Spec

----------------------------------------------------------------------------
(* What the passes over the ledger do, in one statement.                   *)

InLoop(j) == j.at \in {"provenance", "unlink", "sidecar", "route", "carry"}

\* One ledger has the identities of another.
SameIds(log, of) ==
    /\ Len(log) = Len(of)
    /\ \A i \in 1..Len(of) : /\ log[i].urn = of[i].urn /\ log[i].was = of[i].was
                             /\ log[i].status = "citation-only" => of[i].status = "citation-only"

Passes(x) ==
    \/ Start(x) \/ Provenance(x) \/ (\E n : YearRead(x, n)) \/ YearWrite(x) \/ Route(x)
    \/ Audit(x)

LEMMA SameIdsFacts ==
  ASSUME NEW log \in Logs
  PROVE  SameIds(log, log)
  BY DEF SameIds

LEMMA MarkedIds ==
  ASSUME NEW x \in Workers, w[x].log \in Logs, w[x].i \in Places, w[x].i <= Len(w[x].log),
         NEW status \in Statuses, status # "citation-only"
  PROVE  SameIds(Marked(x, status), w[x].log)
  <1>1. /\ Len(Marked(x, status)) = Len(w[x].log)
        /\ \A j \in 1..Len(w[x].log) : j # w[x].i => Marked(x, status)[j] = w[x].log[j]
    BY MarkedType
  <1>2. /\ Marked(x, status)[w[x].i].urn = w[x].log[w[x].i].urn
        /\ Marked(x, status)[w[x].i].was = w[x].log[w[x].i].was
        /\ Marked(x, status)[w[x].i].status = status
    BY MarkedFacts DEF Current
  <1> QED
    BY <1>1, <1>2 DEF SameIds

\* The table of files after a pass: as it was, or one file moved out of the inbox.
MovedOut(x) ==
    \E to \in Folders \ {"inbox"} : Current(x).name \in DOMAIN files["inbox"]
                                    /\ Move(Current(x).name, "inbox", to)

LEMMA PassNotWrite ==
  ASSUME NEW x \in Workers, Passes(x)
  PROVE  w[x].at # "write"
  BY DEF Passes, Start, Provenance, PassOver, Quarantine, UnlinkSidecar, KeepSidecar, Collapse,
         OpenSidecar, WriteSidecar, YearRead, YearWrite, Route, RouteBegin, LeaveThere, Follow,
         RouteFile, RouteSidecar, Audit, ToCheck, ToRoute, HasRow

LEMMA PassStep ==
  ASSUME Sound, NEW x \in Workers, Passes(x)
  PROVE  /\ DOMAIN w' = Workers /\ \A y \in Workers : y # x => w'[y] = w[y]
         /\ UNCHANGED <<rows, acked>> /\ hist \subseteq hist'
         /\ UNCHANGED files \/ MovedOut(x)
         /\ w[x] # Idle
         /\ w'[x].at \notin {"idle", "place", "drop", "save", "write"}
         /\ InLoop(w'[x]) => \/ InLoop(w[x]) /\ SameIds(w'[x].log, w[x].log)
                             \/ w[x].at # "write" /\ w'[x].log = rows
  <1>0. Typed /\ Placed /\ rows \in Logs /\ w \in [Workers -> Jobs] /\ w[x] \in Jobs
    BY DEF Sound, Typed
  <1>1. CASE Start(x)
    BY <1>0, <1>1 DEF Start, InLoop, Idle
  <1>2. ASSUME HasRow(x), NextRow(x, w[x].log)
        PROVE  /\ DOMAIN w' = Workers /\ \A y \in Workers : y # x => w'[y] = w[y]
               /\ w'[x].at = w[x].at /\ w'[x].log = w[x].log
    BY <1>0, <1>2, CurrentFacts, NextRowStep DEF HasRow
  <1>3. ASSUME HasRow(x), NEW status \in Statuses \ {"citation-only"}, NextRow(x, Marked(x, status))
        PROVE  /\ DOMAIN w' = Workers /\ \A y \in Workers : y # x => w'[y] = w[y]
               /\ w'[x].at = w[x].at /\ SameIds(w'[x].log, w[x].log)
    <2>1. /\ Marked(x, status) \in Logs /\ Len(Marked(x, status)) = Len(w[x].log)
          /\ SameIds(Marked(x, status), w[x].log)
      BY <1>0, <1>3, CurrentFacts, MarkedFacts, MarkedIds
    <2>2. \/ w[x] \in Providing /\ w[x].at = "provenance"
          \/ w[x] \in Routing /\ w[x].at = "route"
      BY <1>0, <1>3, CurrentFacts DEF HasRow
    <2> QED
      BY <1>3, <2>1, <2>2, NextRowStep
  <1> DEFINE ids(to) ==
        /\ DOMAIN w' = Workers /\ \A y \in Workers : y # x => w'[y] = w[y]
        /\ w'[x].at = to /\ SameIds(w'[x].log, w[x].log)
  <1>4. CASE PassOver(x)
    <2>1. ids("provenance")
      BY <1>0, <1>2, <1>4, CurrentFacts, SameIdsFacts DEF PassOver
    <2> QED
      BY <1>4, <2>1 DEF PassOver, InLoop, Idle
  <1>5. CASE KeepSidecar(x)
    <2>1. ids("provenance")
      BY <1>3, <1>5 DEF KeepSidecar, ToCheck, Statuses
    <2> QED
      BY <1>5, <2>1 DEF KeepSidecar, ToCheck, InLoop, Idle
  <1>6. CASE LeaveThere(x)
    <2>1. ids("route")
      BY <1>0, <1>2, <1>6, CurrentFacts, SameIdsFacts DEF LeaveThere, ToRoute
    <2> QED
      BY <1>6, <2>1 DEF LeaveThere, ToRoute, InLoop, Idle
  <1>7. CASE Follow(x)
    <2>1. ids("route")
      <3>1. NextRow(x, Marked(x, "review")) \/ NextRow(x, w[x].log)
        BY <1>7 DEF Follow
      <3>2. HasRow(x) /\ w[x].at = "route" /\ w[x].log \in Logs
            /\ "review" \in Statuses \ {"citation-only"}
        BY <1>0, <1>7, CurrentFacts DEF Follow, ToRoute, Statuses
      <3>3. CASE NextRow(x, Marked(x, "review"))
        BY <1>3, <3>2, <3>3
      <3>4. CASE NextRow(x, w[x].log)
        BY <1>2, <3>2, <3>4, SameIdsFacts
      <3> QED
        BY <3>1, <3>3, <3>4
    <2> QED
      BY <1>7, <2>1 DEF Follow, ToRoute, InLoop, Idle
  \* The actions that put the row's new status into the job themselves.
  <1>8. ASSUME w[x] \in Providing \/ w[x] \in Routing, w[x].i <= Len(w[x].log),
               NEW status \in Statuses \ {"citation-only"}
        PROVE  SameIds(Marked(x, status), w[x].log)
    BY <1>8, MarkedIds DEF Providing, Routing
  <1>9. CASE Quarantine(x)
    <2>1. HasRow(x) /\ w[x] \in Providing /\ Current(x).name \in DOMAIN files["inbox"]
          /\ w[x].at = "provenance" /\ w[x].i <= Len(w[x].log)
      BY <1>0, <1>9, CurrentFacts DEF Quarantine, ToCheck, HasRow
    <2>2. /\ w'[x] = [w[x] EXCEPT !.at = "unlink", !.moved = TRUE, !.log = Marked(x, "failed")]
          /\ DOMAIN w' = Workers /\ \A y \in Workers : y # x => w'[y] = w[y]
      BY <1>0, <1>9 DEF Quarantine
    <2>3. w'[x].at = "unlink" /\ w'[x].log = Marked(x, "failed")
      BY <2>1, <2>2 DEF Providing
    <2>4. SameIds(w'[x].log, w[x].log)
      BY <1>8, <2>1, <2>3 DEF Statuses
    <2>5. MovedOut(x) /\ hist \subseteq hist' /\ UNCHANGED <<rows, acked>>
      BY <1>9, <2>1 DEF Quarantine, MovedOut, Move, Folders
    <2> QED
      BY <2>1, <2>2, <2>3, <2>4, <2>5 DEF InLoop, Idle
  <1>10. CASE UnlinkSidecar(x)
    <2>1. w[x] \in Providing /\ w[x].at = "unlink"
      BY <1>0, <1>10, JobOf DEF UnlinkSidecar
    <2>2. /\ w'[x] = [w[x] EXCEPT !.at = "provenance",
                                  !.i = NextIndex("provenance", w[x].log, w[x].i)]
          /\ DOMAIN w' = Workers /\ \A y \in Workers : y # x => w'[y] = w[y]
      BY <1>0, <1>10 DEF UnlinkSidecar
    <2>3. w'[x].at = "provenance" /\ w'[x].log = w[x].log /\ w[x].log \in Logs
      BY <2>1, <2>2 DEF Providing
    <2> QED
      BY <1>10, <2>1, <2>2, <2>3, SameIdsFacts DEF UnlinkSidecar, InLoop, Idle
  <1>11. CASE Collapse(x)
    <2>1. HasRow(x) /\ w[x] \in Providing /\ Current(x).name \in DOMAIN files["inbox"]
          /\ w[x].at = "provenance" /\ w[x].i <= Len(w[x].log)
      BY <1>0, <1>11, CurrentFacts DEF Collapse, ToCheck, HasRow
    <2>2. /\ w'[x] = [w[x] EXCEPT !.moved = TRUE, !.log = Marked(x, "duplicate"),
                                  !.i = NextIndex("provenance", w[x].log, w[x].i)]
          /\ DOMAIN w' = Workers /\ \A y \in Workers : y # x => w'[y] = w[y]
      BY <1>0, <1>11 DEF Collapse
    <2>3. w'[x].at = "provenance" /\ w'[x].log = Marked(x, "duplicate")
      BY <2>1, <2>2 DEF Providing
    <2>4. SameIds(w'[x].log, w[x].log)
      BY <1>8, <2>1, <2>3 DEF Statuses
    <2>5. MovedOut(x) /\ hist \subseteq hist' /\ UNCHANGED <<rows, acked>>
      BY <1>11, <2>1 DEF Collapse, MovedOut, Move, Folders
    <2> QED
      BY <2>1, <2>2, <2>3, <2>4, <2>5 DEF InLoop, Idle
  <1>12. CASE OpenSidecar(x)
    <2>1. w[x] \in Providing /\ w[x].at = "provenance" /\ w[x].log \in Logs
      BY <1>0, <1>12, CurrentFacts DEF OpenSidecar, ToCheck, HasRow
    <2>2. /\ w'[x] = [w[x] EXCEPT !.at = "sidecar"]
          /\ DOMAIN w' = Workers /\ \A y \in Workers : y # x => w'[y] = w[y]
      BY <1>0, <1>12 DEF OpenSidecar, Goto
    <2>3. w'[x].at = "sidecar" /\ w'[x].log = w[x].log
      BY <2>1, <2>2 DEF Providing
    <2> QED
      BY <1>12, <2>1, <2>2, <2>3, SameIdsFacts DEF OpenSidecar, InLoop, Idle
  <1>13. CASE WriteSidecar(x)
    <2> DEFINE seen == w[x].seen \union {<<Current(x).urn, Current(x).name>>}
    <2>1. w[x] \in Providing /\ w[x].at = "sidecar" /\ w[x].i <= Len(w[x].log)
      BY <1>0, <1>13, JobOf DEF WriteSidecar, Placed, Fits
    <2>2. /\ w'[x] = [w[x] EXCEPT !.at = "provenance",
                                  !.i = NextIndex("provenance", w[x].log, w[x].i),
                                  !.log = Marked(x, "registered"), !.seen = seen]
          /\ DOMAIN w' = Workers /\ \A y \in Workers : y # x => w'[y] = w[y]
      BY <1>0, <1>13 DEF WriteSidecar
    <2> HIDE DEF seen
    <2>3. w'[x].at = "provenance" /\ w'[x].log = Marked(x, "registered")
      BY <2>1, <2>2 DEF Providing
    <2>4. SameIds(w'[x].log, w[x].log)
      BY <1>8, <2>1, <2>3 DEF Statuses
    <2> QED
      BY <1>13, <2>1, <2>2, <2>3, <2>4 DEF WriteSidecar, InLoop, Idle
  <1>14. ASSUME NEW n, YearRead(x, n)
         PROVE  /\ DOMAIN w' = Workers /\ \A y \in Workers : y # x => w'[y] = w[y]
                /\ w'[x].at \in {"year", "date"}
    <2>1. w[x] \in Dating
      BY <1>0, <1>14, JobOf DEF YearRead
    <2> QED
      BY <1>0, <1>14, <2>1 DEF YearRead, Dating
  <1>15. CASE \E n : YearRead(x, n)
    BY <1>14, <1>15 DEF YearRead, InLoop, Idle
  <1>16. CASE YearWrite(x)
    BY <1>0, <1>16 DEF YearWrite, InLoop, Idle
  <1>17. CASE RouteBegin(x)
    BY <1>0, <1>17 DEF RouteBegin, InLoop, Idle
  <1>18. CASE RouteFile(x)
    <2>1. w[x] \in Routing /\ w[x].at = "route" /\ w[x].log \in Logs
          /\ Current(x).name \in DOMAIN files["inbox"]
      BY <1>0, <1>18, CurrentFacts DEF RouteFile, ToRoute, HasRow, Complete
    <2>2. /\ w'[x] = [w[x] EXCEPT !.at = "carry"]
          /\ DOMAIN w' = Workers /\ \A y \in Workers : y # x => w'[y] = w[y]
      BY <1>0, <1>18 DEF RouteFile, Goto
    <2>3. w'[x].at = "carry" /\ w'[x].log = w[x].log
      BY <2>1, <2>2 DEF Routing
    <2>4. MovedOut(x) /\ hist \subseteq hist' /\ UNCHANGED <<rows, acked>>
      BY <1>18, <2>1 DEF RouteFile, MovedOut, Move, Folders
    <2> QED
      BY <2>1, <2>2, <2>3, <2>4, SameIdsFacts DEF InLoop, Idle
  <1>19. CASE RouteSidecar(x)
    <2>1. w[x] \in Routing /\ w[x].at = "carry" /\ w[x].i <= Len(w[x].log)
      BY <1>0, <1>19, JobOf DEF RouteSidecar, Placed, Fits
    <2>2. CASE Current(x).name \in DOMAIN side["inbox"]
      <3>1. /\ w'[x] = [w[x] EXCEPT !.at = "route", !.i = NextIndex("route", w[x].log, w[x].i),
                                    !.log = Marked(x, "review")]
            /\ DOMAIN w' = Workers /\ \A y \in Workers : y # x => w'[y] = w[y]
        BY <1>0, <1>19, <2>2 DEF RouteSidecar
      <3>2. w'[x].at = "route" /\ w'[x].log = Marked(x, "review")
        BY <2>1, <3>1 DEF Routing
      <3>3. SameIds(w'[x].log, w[x].log)
        BY <1>8, <2>1, <3>2 DEF Statuses
      <3> QED
        BY <1>19, <2>1, <3>1, <3>2, <3>3 DEF RouteSidecar, InLoop, Idle
    <2>3. CASE Current(x).name \notin DOMAIN side["inbox"]
      BY <1>0, <1>19, <2>1, <2>3 DEF RouteSidecar, Finish, InLoop, Idle
    <2> QED
      BY <2>2, <2>3
  <1>20. CASE Audit(x)
    BY <1>0, <1>20 DEF Audit, Finish, InLoop, Idle
  <1> QED
    BY <1>1, <1>4, <1>5, <1>6, <1>7, <1>9, <1>10, <1>11, <1>12, <1>13, <1>15, <1>16, <1>17, <1>18,
       <1>19, <1>20 DEF Passes, Provenance, Route

----------------------------------------------------------------------------
(* Acknowledged bytes are kept.                                            *)

Stored(f, doc) == \E d \in Folders : \E n \in DOMAIN f[d] : f[d][n] = doc

\* An acquire that has placed its copy and is not done.
Holding(j) == /\ j.at \in {"drop", "save"} \/ (j.at = "write" /\ j.job = "acquire")
              /\ j.ack.doc # None

KeptInv ==
    "names" \notin hist =>
        /\ \A a \in acked : a.doc # None => Stored(files, a.doc)
        /\ \A x \in Workers : Holding(w[x]) => Stored(files, w[x].ack.doc)

LEMMA MovedKeeps ==
  ASSUME Typed, NEW x \in Workers, MovedOut(x), "names" \notin hist', NEW doc, Stored(files, doc)
  PROVE  Stored(files', doc)
  <1> DEFINE name == Current(x).name
  <1>1. PICK to \in Folders \ {"inbox"} : name \in DOMAIN files["inbox"] /\ Move(name, "inbox", to)
    BY DEF MovedOut
  <1>2. /\ files'["inbox"] = Drop(files["inbox"], name)
        /\ files'[to] = Put(files[to], name, files["inbox"][name])
        /\ \A d \in Folders : d \notin {"inbox", to} => files'[d] = files[d]
        /\ name \in DOMAIN files[to] => files[to][name] = files["inbox"][name]
    BY <1>1, MoveFacts DEF Folders
  <1>3. PICK d \in Folders : \E n \in DOMAIN files[d] : files[d][n] = doc
    BY DEF Stored
  <1>4. PICK n \in DOMAIN files[d] : files[d][n] = doc
    BY <1>3
  <1>5. files["inbox"] \in Tables(Docs) /\ files[to] \in Tables(Docs) /\ name \in Names
        /\ files["inbox"][name] \in Docs
    BY <1>1, TableFacts DEF Typed, Folders
  <1> HIDE DEF name
  <1>6. /\ DOMAIN Put(files[to], name, files["inbox"][name]) = DOMAIN files[to] \union {name}
        /\ Put(files[to], name, files["inbox"][name])[name] = files["inbox"][name]
        /\ \A y \in DOMAIN files[to] : y # name =>
              Put(files[to], name, files["inbox"][name])[y] = files[to][y]
    <2>1. \A f \in Tables(Docs), v \in Docs :
             /\ DOMAIN Put(f, name, v) = DOMAIN f \union {name}
             /\ Put(f, name, v)[name] = v
             /\ \A y \in DOMAIN f : y # name => Put(f, name, v)[y] = f[y]
      BY <1>5, PutFacts
    <2> QED
      BY <1>5, <2>1
  <1>7. /\ DOMAIN Drop(files["inbox"], name) = DOMAIN files["inbox"] \ {name}
        /\ \A y \in DOMAIN files["inbox"] : y # name =>
              Drop(files["inbox"], name)[y] = files["inbox"][y]
    <2>1. \A f \in Tables(Docs) :
             /\ DOMAIN Drop(f, name) = DOMAIN f \ {name}
             /\ \A y \in DOMAIN f : y # name => Drop(f, name)[y] = f[y]
      BY DropFacts
    <2> QED
      BY <1>5, <2>1
  <1>8. \E e \in Folders : \E m \in DOMAIN files'[e] : files'[e][m] = doc
    <2>1. CASE d \notin {"inbox", to}
      BY <1>2, <1>4, <2>1
    <2>2. CASE d = to
      BY <1>2, <1>4, <1>6, <2>2
    <2>3. CASE d = "inbox" /\ n = name
      BY <1>2, <1>4, <1>6, <2>3
    <2>4. CASE d = "inbox" /\ n # name
      BY <1>2, <1>4, <1>7, <2>4
    <2> QED
      BY <2>1, <2>2, <2>3, <2>4
  <1> QED
    BY <1>8 DEF Stored

LEMMA PlaceKeeps ==
  ASSUME Sound, NEW x \in Workers, Place(x), "names" \notin hist'
  PROVE  /\ \A doc : Stored(files, doc) => Stored(files', doc)
         /\ w[x].ack.doc # None => Stored(files', w[x].ack.doc)
  <1>1. Typed /\ w[x] \in Acquiring /\ (w[x].name = None <=> w[x].ack.doc = None)
    BY JobOf DEF Place, Sound, Placed, Fits
  <1>2. CASE w[x].name = None
    BY <1>1, <1>2 DEF Place, Stored
  <1>3. CASE w[x].name # None
    <2> DEFINE name == w[x].name
               doc == w[x].ack.doc
    <2>1. name \in Names /\ doc \in Docs
      BY <1>1, <1>3 DEF Acquiring, Acks
    <2>2. files["inbox"] \in Tables(Docs) /\ "inbox" \in Folders /\ DOMAIN files = Folders
      BY <1>1 DEF Typed, Folders
    <2>3. files' = [files EXCEPT !["inbox"] = Put(files["inbox"], name, doc)]
      BY <1>3 DEF Place
    <2>4. ~Reused(x)
      BY <1>3 DEF Place
    <2>5. name \in DOMAIN files["inbox"] => files["inbox"][name] = doc
      BY <2>4 DEF Reused
    <2> HIDE DEF name, doc
    <2>6. /\ DOMAIN Put(files["inbox"], name, doc) = DOMAIN files["inbox"] \union {name}
          /\ Put(files["inbox"], name, doc)[name] = doc
          /\ \A y \in DOMAIN files["inbox"] : y # name =>
                Put(files["inbox"], name, doc)[y] = files["inbox"][y]
      BY <2>1, <2>2, PutFacts
    <2>7. \E d \in Folders : \E n \in DOMAIN files'[d] : files'[d][n] = doc
      BY <2>2, <2>3, <2>6
    <2>8. ASSUME NEW c, Stored(files, c)
          PROVE  \E d \in Folders : \E n \in DOMAIN files'[d] : files'[d][n] = c
      <3>1. PICK d \in Folders : \E n \in DOMAIN files[d] : files[d][n] = c
        BY <2>8 DEF Stored
      <3>2. PICK n \in DOMAIN files[d] : files[d][n] = c
        BY <3>1
      <3>3. CASE d # "inbox"
        BY <2>2, <2>3, <3>2, <3>3
      <3>4. CASE d = "inbox"
        BY <2>2, <2>3, <2>5, <2>6, <3>2, <3>4
      <3> QED
        BY <3>3, <3>4
    <2> QED
      BY <2>7, <2>8 DEF Stored, doc
  <1> QED
    BY <1>2, <1>3

LEMMA KeptStep == Sound /\ KeptInv /\ [Next]_vars => KeptInv'
  <1> SUFFICES ASSUME Sound, KeptInv, [Next]_vars, "names" \notin hist'
               PROVE  /\ \A a \in acked' : a.doc # None => Stored(files', a.doc)
                      /\ \A x \in Workers : Holding(w'[x]) => Stored(files', w'[x].ack.doc)
    BY DEF KeptInv, Holding
  <1>0. Typed /\ w \in [Workers -> Jobs]
    BY DEF Sound, Typed
  \* Where the files do not change and nobody begins to hold a document.
  <1>1. ASSUME "names" \notin hist, \A doc : Stored(files, doc) => Stored(files', doc),
               \/ acked' = acked
               \/ \E x \in Workers : /\ acked' = acked \union {w[x].ack}
                                     /\ Holding(w[x]) \/ w[x].ack.doc = None,
               \A x \in Workers : Holding(w'[x]) => Holding(w[x]) /\ w'[x].ack = w[x].ack
        PROVE  /\ \A a \in acked' : a.doc # None => Stored(files', a.doc)
               /\ \A x \in Workers : Holding(w'[x]) => Stored(files', w'[x].ack.doc)
    BY <1>1 DEF KeptInv
  <1>2. UNCHANGED files => \A doc : Stored(files, doc) => Stored(files', doc)
    BY DEF Stored
  <1>3. CASE UNCHANGED vars
    BY <1>1, <1>2, <1>3 DEF vars
  <1>4. ASSUME NEW x \in Workers, Passes(x)
        PROVE  /\ \A a \in acked' : a.doc # None => Stored(files', a.doc)
               /\ \A y \in Workers : Holding(w'[y]) => Stored(files', w'[y].ack.doc)
    <2>1. \A doc : Stored(files, doc) => Stored(files', doc)
      BY <1>0, <1>2, <1>4, PassStep, MovedKeeps
    <2>2. "names" \notin hist /\ acked' = acked
          /\ \A y \in Workers : Holding(w'[y]) => Holding(w[y]) /\ w'[y].ack = w[y].ack
      BY <1>4, PassStep DEF Holding
    <2> QED
      BY <1>1, <2>1, <2>2
  <1>5. ASSUME NEW x \in Workers, NEW item \in Items, NEW doc \in item.gives, Acquire(x, item, doc)
        PROVE  /\ \A a \in acked' : a.doc # None => Stored(files', a.doc)
               /\ \A y \in Workers : Holding(w'[y]) => Stored(files', w'[y].ack.doc)
    <2>1. /\ \A y \in Workers : y # x => w'[y] = w[y]
          /\ w'[x] = Idle \/ w'[x].at = "place"
      BY <1>5, AcquireTypes DEF Acquire
    <2>2. hist \subseteq hist'
      BY <1>0, <1>5, OverlapTypes DEF Acquire
    <2> QED
      BY <1>1, <1>2, <1>5, <2>1, <2>2 DEF Acquire, Holding, Idle
  <1>6. ASSUME NEW x \in Workers, Place(x)
        PROVE  /\ \A a \in acked' : a.doc # None => Stored(files', a.doc)
               /\ \A y \in Workers : Holding(w'[y]) => Stored(files', w'[y].ack.doc)
    <2>1. w[x] \in Acquiring
      BY <1>0, <1>6, JobOf DEF Place
    <2>2. /\ \A y \in Workers : y # x => w'[y] = w[y]
          /\ w'[x].ack = w[x].ack
      BY <1>0, <1>6, <2>1, GotoFacts DEF Place
    <2>3. "names" \notin hist /\ acked' = acked
      BY <1>6 DEF Place
    <2> QED
      BY <1>6, <2>2, <2>3, PlaceKeeps DEF KeptInv, Holding
  <1>7. ASSUME NEW x \in Workers, DropCitation(x)
        PROVE  /\ \A a \in acked' : a.doc # None => Stored(files', a.doc)
               /\ \A y \in Workers : Holding(w'[y]) => Stored(files', w'[y].ack.doc)
    <2>1. w[x] \in Acquiring
      BY <1>0, <1>7, JobOf DEF DropCitation
    <2>2. /\ \A y \in Workers : y # x => w'[y] = w[y]
          /\ w'[x].ack = w[x].ack
      BY <1>0, <1>7, <2>1, GotoFacts DEF DropCitation
    <2> QED
      BY <1>1, <1>2, <1>7, <2>2 DEF DropCitation, Holding
  <1>8. ASSUME NEW x \in Workers, SaveOpen(x)
        PROVE  /\ \A a \in acked' : a.doc # None => Stored(files', a.doc)
               /\ \A y \in Workers : Holding(w'[y]) => Stored(files', w'[y].ack.doc)
    <2>1. /\ \A y \in Workers : y # x => w'[y] = w[y]
          /\ Holding(w'[x]) => Holding(w[x]) /\ w'[x].ack = w[x].ack
      <3>1. CASE w[x].at = "save"
        BY <1>0, <1>8, <3>1, JobOf, GotoFacts DEF SaveOpen, Holding
      <3>2. CASE w[x].at = "provenance"
        <4>1. w[x] \in Providing
          BY <1>0, <3>2, JobOf
        <4>2. w'[x].job = "provenance" /\ w'[x].at = "write"
              /\ \A y \in Workers : y # x => w'[y] = w[y]
          BY <1>0, <1>8, <4>1, GotoFacts DEF SaveOpen, Providing
        <4> QED
          BY <4>2 DEF Holding
      <3>3. CASE w[x].at = "route"
        <4>1. w[x] \in Routing
          BY <1>0, <3>3, JobOf
        <4>2. w'[x].job = "route" /\ w'[x].at = "write"
              /\ \A y \in Workers : y # x => w'[y] = w[y]
          BY <1>0, <1>8, <4>1, GotoFacts DEF SaveOpen, Routing
        <4> QED
          BY <4>2 DEF Holding
      <3> QED
        BY <1>8, <3>1, <3>2, <3>3 DEF SaveOpen, ToSave
    <2> QED
      BY <1>1, <1>2, <1>8, <2>1 DEF SaveOpen
  <1>9. ASSUME NEW x \in Workers, SaveWrite(x)
        PROVE  /\ \A a \in acked' : a.doc # None => Stored(files', a.doc)
               /\ \A y \in Workers : Holding(w'[y]) => Stored(files', w'[y].ack.doc)
    <2>1. w[x] \in Acquiring \union Providing \union Routing /\ w[x].at = "write"
      BY <1>0, <1>9, JobOf DEF SaveWrite
    <2>2. CASE w[x] \in Acquiring
      <3>1. w' = [w EXCEPT ![x] = Idle] /\ acked' = acked \union {w[x].ack}
            /\ (w[x].ack.doc # None => Holding(w[x]))
        BY <1>9, <2>1, <2>2 DEF SaveWrite, Rest, Acquiring, Holding
      <3>2. \A y \in Workers : Holding(w'[y]) => Holding(w[y]) /\ w'[y].ack = w[y].ack
        BY <1>0, <3>1 DEF Holding, Idle
      <3> QED
        BY <1>1, <1>2, <1>9, <3>1, <3>2 DEF SaveWrite
    <2>3. CASE w[x] \in Providing \union Routing
      <3>0. w[x].job \in {"provenance", "route"}
        BY <2>3 DEF Providing, Routing
      <3>1. /\ acked' = acked /\ \A y \in Workers : y # x => w'[y] = w[y]
            /\ w'[x].at \in {"year", "audit"}
        <4>1. CASE w[x].job = "provenance"
          <5>1. acked' = acked /\ w' = [w EXCEPT ![x] = [at |-> "year", id |-> w[x].id,
                                                        todo |-> DOMAIN side["inbox"]]]
            BY <1>9, <4>1 DEF SaveWrite
          <5> QED
            BY <1>0, <5>1
        <4>2. CASE w[x].job = "route"
          <5>1. acked' = acked /\ w' = [w EXCEPT ![x] = [at |-> "audit", id |-> w[x].id]]
            BY <1>9, <4>2 DEF SaveWrite
          <5> QED
            BY <1>0, <5>1
        <4> QED
          BY <3>0, <4>1, <4>2
      <3> QED
        BY <1>1, <1>2, <1>9, <3>1 DEF SaveWrite, Holding
    <2> QED
      BY <2>1, <2>2, <2>3
  <1>10. ASSUME NEW x \in Workers, Process(x)
         PROVE  /\ \A a \in acked' : a.doc # None => Stored(files', a.doc)
                /\ \A y \in Workers : Holding(w'[y]) => Stored(files', w'[y].ack.doc)
    <2>1. hist \subseteq hist'
      BY <1>0, <1>10, OverlapTypes DEF Process
    <2>2. \A y \in Workers : Holding(w'[y]) => Holding(w[y]) /\ w'[y].ack = w[y].ack
      BY <1>0, <1>10 DEF Process, Holding
    <2> QED
      BY <1>1, <1>2, <1>10, <2>1, <2>2 DEF Process
  <1>11. ASSUME NEW x \in Workers, Record(x) \/ Crash(x)
         PROVE  /\ \A a \in acked' : a.doc # None => Stored(files', a.doc)
                /\ \A y \in Workers : Holding(w'[y]) => Stored(files', w'[y].ack.doc)
    <2>1. w' = [w EXCEPT ![x] = Idle] /\ hist \subseteq hist' /\ UNCHANGED <<files, acked>>
      BY <1>11 DEF Record, Crash, Rest
    <2>2. \A y \in Workers : Holding(w'[y]) => Holding(w[y]) /\ w'[y].ack = w[y].ack
      BY <1>0, <2>1 DEF Holding, Idle
    <2> QED
      BY <1>1, <1>2, <2>1, <2>2
  <1> QED
    BY <1>3, <1>4, <1>5, <1>6, <1>7, <1>8, <1>9, <1>10, <1>11 DEF Next, Passes

\* Whatever passes overlap and wherever one dies, no document an acquire has acknowledged is
\* lost from the four folders, unless another one takes its name: for any workers, items and
\* bounds.
THEOREM AcknowledgedKept == Spec => []BytesKept
  <1>1. Init => KeptInv
    BY DEF Init, KeptInv, Holding, Idle
  <1>2. KeptInv => BytesKept
    BY DEF KeptInv, BytesKept, Stored
  <1> QED
    BY <1>1, <1>2, TypedInit, SoundStep, KeptStep, PTL DEF Spec

----------------------------------------------------------------------------
(* Acknowledged identities stay in the ledger.                             *)

\* An acquire that is not done, and whoever has a ledger in memory.
Storing(j) == j.at \in {"place", "drop", "save"} \/ (j.at = "write" /\ j.job = "acquire")
HasLog(j) == InLoop(j) \/ Storing(j) \/ j.at = "write"

\* A row says the identity.
Accounts(log, u) == \E i \in 1..Len(log) : u \in {log[i].urn, log[i].was}

\* A citation has no previous identity: what a row that is filled forgets, is nothing.
Blank(log) == \A i \in 1..Len(log) : log[i].status = "citation-only" => log[i].was = None

BlankInv == Blank(rows) /\ \A x \in Workers : HasLog(w[x]) => Blank(w[x].log)

RegisteredInv ==
    hist \subseteq {"names"} =>
        /\ \A x, y \in Workers : w[x] # Idle /\ w[y] # Idle => x = y
        /\ (\A x \in Workers : w[x].at # "write") => \A a \in acked : Accounts(rows, a.urn)
        /\ \A x \in Workers : HasLog(w[x]) => \A a \in acked : Accounts(w[x].log, a.urn)
        /\ \A x \in Workers : Storing(w[x]) => Accounts(w[x].log, w[x].ack.urn)

LEMMA AppendAccounts ==
  ASSUME NEW log \in Logs, NEW row \in Rows, Blank(log),
         row.status = "citation-only" => row.was = None
  PROVE  /\ Blank(Append(log, row)) /\ Accounts(Append(log, row), row.urn)
         /\ \A u : Accounts(log, u) => Accounts(Append(log, row), u)
  <1>1. /\ Len(Append(log, row)) = Len(log) + 1 /\ Len(log) \in Nat
        /\ \A i \in 1..Len(log) : Append(log, row)[i] = log[i]
        /\ Append(log, row)[Len(log) + 1] = row
    BY DEF Logs
  <1> DEFINE new == Append(log, row)
  <1>2. \A i \in 1..Len(new) : i \in 1..Len(log) \/ i = Len(log) + 1
    BY <1>1
  <1>3. Len(log) + 1 \in 1..Len(new) /\ \A i \in 1..Len(log) : i \in 1..Len(new)
    BY <1>1
  <1> HIDE DEF new
  <1>4. Blank(new)
    BY <1>1, <1>2 DEF Blank, new
  <1>5. Accounts(new, row.urn)
    BY <1>1, <1>3 DEF Accounts, new
  <1>6. ASSUME NEW u, Accounts(log, u) PROVE Accounts(new, u)
    BY <1>1, <1>3, <1>6 DEF Accounts, new
  <1> QED
    BY <1>4, <1>5, <1>6 DEF new

LEMMA ReplaceAccounts ==
  ASSUME NEW log \in Logs, NEW i \in 1..Len(log), NEW row \in Rows, Blank(log),
         row.status # "citation-only",
         \A u \in Urns : u \in {log[i].urn, log[i].was} => u \in {row.urn, row.was}
  PROVE  /\ Blank([log EXCEPT ![i] = row]) /\ Accounts([log EXCEPT ![i] = row], row.urn)
         /\ \A u \in Urns : Accounts(log, u) => Accounts([log EXCEPT ![i] = row], u)
  <1> DEFINE new == [log EXCEPT ![i] = row]
  <1>1. /\ Len(new) = Len(log) /\ Len(log) \in Nat /\ new[i] = row
        /\ \A k \in 1..Len(log) : k # i => new[k] = log[k]
    BY DEF Logs
  <1> HIDE DEF new
  <1>2. Blank(new)
    BY <1>1 DEF Blank
  <1>3. Accounts(new, row.urn)
    BY <1>1 DEF Accounts
  <1>4. ASSUME NEW u \in Urns, Accounts(log, u) PROVE Accounts(new, u)
    <2>1. PICK k \in 1..Len(log) : u \in {log[k].urn, log[k].was}
      BY <1>4 DEF Accounts
    <2>2. CASE k = i
      BY <1>1, <2>1, <2>2 DEF Accounts
    <2>3. CASE k # i
      BY <1>1, <2>1, <2>3 DEF Accounts
    <2> QED
      BY <2>2, <2>3
  <1> QED
    BY <1>2, <1>3, <1>4 DEF new

LEMMA SameAccounts ==
  ASSUME NEW log, NEW of, SameIds(log, of)
  PROVE  /\ Blank(of) => Blank(log)
         /\ \A u : Accounts(of, u) => Accounts(log, u)
  BY DEF SameIds, Blank, Accounts

\* The ledger an acquire is about to write accounts for what the present one accounts for,
\* and for the identity it will acknowledge unless a failed row keeps another.
LEMMA AcquireAccounts ==
  ASSUME Sound, Blank(rows), NEW x \in Workers, NEW item \in Items, NEW doc \in item.gives,
         w[x] = Idle,
         IF doc # None THEN AcquireBytes(x, item, doc) ELSE AcquireCitation(x, item),
         w'[x] # Idle
  PROVE  /\ Blank(w'[x].log)
         /\ \A u \in Urns : Accounts(rows, u) => Accounts(w'[x].log, u)
         /\ ~Refetched(item, doc) => Accounts(w'[x].log, Identity(item, doc))
  <1>1. Typed /\ rows \in Logs /\ DOMAIN w = Workers
    BY DEF Sound, Typed
  <1>2. w' # w
    OBVIOUS
  <1>3. CASE doc # None
    <2> DEFINE urn == Identity(item, doc)
               name == ArtifactName(item, doc)
               i == Existing(rows, item, urn)
               new == IF i # 0 /\ Refills(rows[i], item)
                      THEN [rows EXCEPT ![i] = Refilled(@, item, urn, name, doc)]
                      ELSE Append(rows, Row(item, urn, "acquired", name, doc))
               drop == IF i # 0 /\ item.url /\ rows[i].status = "citation-only"
                       THEN rows[i].urn ELSE None
    <2>1. Plan(x, new, name, drop, Acked(urn, doc))
      BY <1>2, <1>3 DEF AcquireBytes
    <2>2. w'[x].log = new
      BY <1>1, <2>1 DEF Plan
    <2>3. urn \in Urns /\ name \in Names /\ doc \in Docs
          /\ Row(item, urn, "acquired", name, doc) \in Rows
          /\ Row(item, urn, "acquired", name, doc).urn = urn
          /\ Row(item, urn, "acquired", name, doc).status = "acquired"
      BY ItemTypes DEF Statuses, Row
    <2>4. i \in DOMAIN rows \union {0} /\ DOMAIN rows = 1..Len(rows)
      BY <1>1, ExistingFacts DEF Existing, Logs
    <2>5. ~Refetched(item, doc) /\ i # 0 /\ rows[i].status = "failed" => rows[i].urn = urn
      BY <1>3 DEF Refetched
    <2> HIDE DEF urn, name, i
    <2>6. CASE i # 0 /\ Refills(rows[i], item)
      <3> DEFINE row == Refilled(rows[i], item, urn, name, doc)
      <3>1. rows[i] \in Rows /\ i \in 1..Len(rows)
        BY <1>1, <2>4, <2>6 DEF Logs
      <3>2. rows[i].urn \in Urns
        BY <3>1 DEF Rows
      <3>3. row \in Rows /\ row.status = "acquired"
        BY <2>3, <3>1, RefilledType
      <3>4. \/ rows[i].status = "citation-only" /\ rows[i].was = None /\ row.urn = urn
               /\ row.was = IF rows[i].urn = urn THEN None ELSE rows[i].urn
            \/ rows[i].status = "failed" /\ row.urn = rows[i].urn /\ row.was = rows[i].was
        BY <2>3, <2>6, <3>1, RefilledType DEF Refills, Blank
      <3>5. new = [rows EXCEPT ![i] = row]
        BY <2>6
      <3>6. ~Refetched(item, doc) => row.urn = urn
        BY <2>5, <2>6, <3>4
      <3> HIDE DEF row, new
      <3>7. \A u \in Urns : u \in {rows[i].urn, rows[i].was} => u \in {row.urn, row.was}
        BY <3>2, <3>4, NamesAssumption
      <3>8. Blank(new) /\ Accounts(new, row.urn)
            /\ \A u \in Urns : Accounts(rows, u) => Accounts(new, u)
        BY <1>1, <3>1, <3>3, <3>5, <3>7, ReplaceAccounts
      <3> QED
        BY <2>2, <3>6, <3>8 DEF urn
    <2>7. CASE ~(i # 0 /\ Refills(rows[i], item))
      <3>1. new = Append(rows, Row(item, urn, "acquired", name, doc))
        BY <2>7
      <3> HIDE DEF new
      <3>2. Blank(new) /\ Accounts(new, urn) /\ \A u : Accounts(rows, u) => Accounts(new, u)
        BY <1>1, <2>3, <3>1, AppendAccounts
      <3> QED
        BY <2>2, <3>2 DEF urn
    <2> QED
      BY <2>6, <2>7
  <1>4. CASE doc = None
    <2> DEFINE urn == Identity(item, None)
               row == Row(item, urn, "citation-only", None, None)
               new == Append(rows, row)
    <2>1. Plan(x, new, None, None, Acked(urn, None))
      BY <1>2, <1>4 DEF AcquireCitation
    <2>2. w'[x].log = new
      BY <1>1, <2>1 DEF Plan
    <2>3. urn \in Urns /\ row \in Rows /\ row.urn = urn /\ row.was = None
      BY ItemTypes DEF Statuses, Row
    <2> HIDE DEF row
    <2>4. Blank(new) /\ Accounts(new, urn) /\ \A u : Accounts(rows, u) => Accounts(new, u)
      BY <1>1, <2>3, AppendAccounts
    <2> QED
      BY <1>4, <2>2, <2>4
  <1> QED
    BY <1>3, <1>4

LEMMA RegisteredStep ==
  Sound /\ BlankInv /\ RegisteredInv /\ [Next]_vars => BlankInv' /\ RegisteredInv'
  <1> SUFFICES ASSUME Sound, BlankInv, RegisteredInv, [Next]_vars
               PROVE  BlankInv' /\ RegisteredInv'
    OBVIOUS
  <1>0. Typed /\ w \in [Workers -> Jobs] /\ rows \in Logs /\ acked \in SUBSET Acks
    BY DEF Sound, Typed
  <1> DEFINE calm == hist \subseteq {"names"}
  \* One worker steps: what is to be shown of the ledger and of its own.
  <1>1. ASSUME NEW x \in Workers, \A y \in Workers : y # x => w'[y] = w[y],
               calm' => calm /\ Alone(x),
               Blank(rows'), HasLog(w'[x]) => Blank(w'[x].log),
               calm' /\ w'[x].at # "write" => \A a \in acked' : Accounts(rows', a.urn),
               calm' /\ HasLog(w'[x]) => \A a \in acked' : Accounts(w'[x].log, a.urn),
               calm' /\ Storing(w'[x]) => Accounts(w'[x].log, w'[x].ack.urn)
        PROVE  BlankInv' /\ RegisteredInv'
    <2>1. BlankInv'
      BY <1>1 DEF BlankInv
    <2>2. ASSUME calm'
          PROVE  /\ \A y, z \in Workers : w'[y] # Idle /\ w'[z] # Idle => y = z
                 /\ (\A y \in Workers : w'[y].at # "write") =>
                       \A a \in acked' : Accounts(rows', a.urn)
                 /\ \A y \in Workers : HasLog(w'[y]) => \A a \in acked' : Accounts(w'[y].log, a.urn)
                 /\ \A y \in Workers : Storing(w'[y]) => Accounts(w'[y].log, w'[y].ack.urn)
      <3>1. \A y \in Workers : y # x => w'[y] = Idle
        BY <1>1, <2>2 DEF Alone
      <3>2. ~HasLog(Idle) /\ ~Storing(Idle)
        BY DEF HasLog, Storing, InLoop, Idle
      <3> QED
        BY <1>1, <2>2, <3>1, <3>2
    <2> QED
      BY <2>1, <2>2 DEF RegisteredInv
  <1>2. ASSUME NEW x \in Workers, w[x] # Idle, hist \subseteq hist' PROVE calm' => calm /\ Alone(x)
    BY <1>2 DEF RegisteredInv, Alone
  <1>3. ASSUME NEW x \in Workers, w[x] # Idle, w[x].at # "write", calm
        PROVE  \A a \in acked : Accounts(rows, a.urn)
    <2>1. \A y \in Workers : w[y].at # "write"
      BY <1>3 DEF RegisteredInv, Idle
    <2> QED
      BY <1>3, <2>1 DEF RegisteredInv
  <1>4. ASSUME NEW x \in Workers, HasLog(w[x])
        PROVE  /\ Blank(w[x].log)
               /\ calm => \A a \in acked : Accounts(w[x].log, a.urn)
               /\ calm /\ Storing(w[x]) => Accounts(w[x].log, w[x].ack.urn)
    BY <1>4 DEF BlankInv, RegisteredInv
  <1>5. CASE UNCHANGED vars
    BY <1>5 DEF vars, BlankInv, RegisteredInv
  <1>6. ASSUME NEW x \in Workers, Passes(x) PROVE BlankInv' /\ RegisteredInv'
    <2>1. /\ \A y \in Workers : y # x => w'[y] = w[y]
          /\ rows' = rows /\ acked' = acked /\ hist \subseteq hist' /\ w[x] # Idle
          /\ ~Storing(w'[x]) /\ w'[x].at # "write" /\ (HasLog(w'[x]) => InLoop(w'[x]))
          /\ InLoop(w'[x]) => \/ InLoop(w[x]) /\ SameIds(w'[x].log, w[x].log)
                              \/ w[x].at # "write" /\ w'[x].log = rows
      BY <1>6, PassStep DEF Storing, HasLog
    <2>2. w[x].at # "write"
      BY <1>0, <1>6, PassNotWrite
    <2>3. calm' => calm /\ Alone(x) /\ \A a \in acked : Accounts(rows, a.urn)
      BY <1>2, <1>3, <2>1, <2>2
    <2>4. CASE InLoop(w'[x]) /\ InLoop(w[x]) /\ SameIds(w'[x].log, w[x].log)
      <3>1. HasLog(w[x])
        BY <2>4 DEF HasLog
      <3> QED
        BY <1>1, <1>4, <2>1, <2>3, <2>4, <3>1, SameAccounts DEF BlankInv
    <2>5. CASE w'[x].log = rows \/ ~InLoop(w'[x])
      BY <1>1, <2>1, <2>3, <2>5 DEF BlankInv
    <2> QED
      BY <2>1, <2>4, <2>5
  <1>7. ASSUME NEW x \in Workers, NEW item \in Items, NEW doc \in item.gives, Acquire(x, item, doc)
        PROVE  BlankInv' /\ RegisteredInv'
    <2>1. /\ \A y \in Workers : y # x => w'[y] = w[y]
          /\ \/ w'[x] = Idle
             \/ w'[x].at = "place" /\ w'[x].ack.urn = Identity(item, doc)
      <3>1. Acked(Identity(item, doc), doc).urn = Identity(item, doc)
        BY DEF Acked
      <3>2. /\ \A y \in Workers : y # x => w'[y] = w[y]
            /\ \/ w'[x] = Idle
               \/ w'[x].at = "place" /\ w'[x].ack = Acked(Identity(item, doc), doc)
        BY <1>7, AcquireTypes DEF Acquire
      <3> QED
        BY <3>1, <3>2
    <2>2. hist \subseteq hist' /\ (~Alone(x) => "overlap" \in hist')
          /\ (Refetched(item, doc) => "refetch" \in hist')
      BY <1>0, <1>7, OverlapTypes DEF Acquire
    <2>3. calm' => calm /\ Alone(x) /\ ~Refetched(item, doc)
      BY <2>2
    <2>4. calm' => \A a \in acked : Accounts(rows, a.urn)
      <3>1. calm' => \A y \in Workers : w[y].at # "write"
        BY <1>7, <2>3 DEF Acquire, Alone, Idle
      <3> QED
        BY <2>3, <3>1 DEF RegisteredInv
    <2>5. rows' = rows /\ acked' = acked
      BY <1>7 DEF Acquire
    <2>6. CASE w'[x] = Idle
      BY <1>1, <2>1, <2>3, <2>4, <2>5, <2>6 DEF BlankInv, HasLog, InLoop, Storing, Idle
    <2>7. CASE w'[x] # Idle
      <3>1. /\ Blank(w'[x].log)
            /\ \A u \in Urns : Accounts(rows, u) => Accounts(w'[x].log, u)
            /\ ~Refetched(item, doc) => Accounts(w'[x].log, Identity(item, doc))
        BY <1>7, <2>7, AcquireAccounts DEF Acquire, BlankInv
      <3>2. \A a \in acked : a.urn \in Urns
        BY <1>0 DEF Acks
      <3> QED
        BY <1>1, <2>1, <2>3, <2>4, <2>5, <2>7, <3>1, <3>2 DEF BlankInv
    <2> QED
      BY <2>6, <2>7
  \* The steps of an acquire and the truncation: the ledger in memory stays.
  <1>8. ASSUME NEW x \in Workers, Place(x) \/ DropCitation(x) \/ SaveOpen(x)
        PROVE  BlankInv' /\ RegisteredInv'
    <2>1. /\ \A y \in Workers : y # x => w'[y] = w[y]
          /\ w'[x].log = w[x].log /\ HasLog(w[x]) /\ w[x].at # "write"
          /\ Storing(w'[x]) => Storing(w[x]) /\ w'[x].ack = w[x].ack
          /\ w'[x].at # "write" => ~SaveOpen(x)
          /\ Place(x) \/ DropCitation(x) => w'[x].at # "write"
      <3>1. CASE w[x].at \in {"place", "drop", "save"}
        <4>1. w[x] \in Acquiring /\ HasLog(w[x]) /\ Storing(w[x])
          BY <1>0, <3>1, JobOf DEF HasLog, Storing
        <4>2. PICK to \in {"drop", "save", "write"} : Goto(x, to)
          BY <1>8 DEF Place, DropCitation, SaveOpen
        <4>3. /\ \A y \in Workers : y # x => w'[y] = w[y]
              /\ w'[x].log = w[x].log /\ w'[x].ack = w[x].ack
          BY <1>0, <4>1, <4>2, GotoFacts
        <4>5. ASSUME NEW a \in {"save", "drop"}, Goto(x, a) PROVE w'[x].at # "write"
          <5>1. w'[x].at = a
            BY <1>0, <4>1, <4>5, GotoFacts
          <5> QED
            BY <5>1
        <4>4. /\ SaveOpen(x) => w'[x].at = "write"
              /\ Place(x) \/ DropCitation(x) => w'[x].at # "write"
          <5>1. SaveOpen(x) => w'[x].at = "write"
            BY <1>0, <4>1, GotoFacts DEF SaveOpen
          <5>2. Place(x) => w'[x].at # "write"
            <6>1. Place(x) => Goto(x, "save") \/ Goto(x, "drop")
              BY DEF Place
            <6> QED
              BY <4>5, <6>1
          <5>3. DropCitation(x) => w'[x].at # "write"
            BY <4>5 DEF DropCitation
          <5> QED
            BY <5>1, <5>2, <5>3
        <4> QED
          BY <3>1, <4>1, <4>3, <4>4
      <3>2. CASE w[x].at \in {"provenance", "route"}
        <4>1. w[x] \in Providing \/ w[x] \in Routing
          BY <1>0, <3>2, JobOf
        <4>2. Goto(x, "write") /\ SaveOpen(x) /\ ~Place(x) /\ ~DropCitation(x)
          BY <1>8, <3>2 DEF Place, DropCitation, SaveOpen
        <4>3. /\ \A y \in Workers : y # x => w'[y] = w[y]
              /\ w'[x].log = w[x].log /\ w'[x].at = "write" /\ w'[x].job = w[x].job
          BY <1>0, <4>1, <4>2, GotoFacts
        <4>4. w[x].job # "acquire"
          BY <4>1 DEF Providing, Routing
        <4> QED
          BY <3>2, <4>2, <4>3, <4>4 DEF HasLog, InLoop, Storing
      <3> QED
        BY <1>8, <3>1, <3>2 DEF Place, DropCitation, SaveOpen, ToSave
    <2>2. /\ acked' = acked /\ hist \subseteq hist' /\ w[x] # Idle
          /\ rows' = rows \/ (SaveOpen(x) /\ rows' = << >>)
      <3>1. CASE Place(x)
        BY <3>1 DEF Place, Idle
      <3>2. CASE DropCitation(x)
        BY <3>2 DEF DropCitation, Idle
      <3>3. CASE SaveOpen(x)
        BY <3>3 DEF SaveOpen, ToSave, Idle
      <3> QED
        BY <1>8, <3>1, <3>2, <3>3
    <2>3. Blank(rows')
      BY <2>2 DEF BlankInv, Blank
    <2>4. calm' => calm /\ Alone(x) /\ \A a \in acked : Accounts(rows, a.urn)
      BY <1>2, <1>3, <2>1, <2>2
    <2>5. HasLog(w'[x]) => Blank(w'[x].log)
      BY <1>4, <2>1
    <2>6. calm' /\ w'[x].at # "write" => \A a \in acked' : Accounts(rows', a.urn)
      BY <2>1, <2>2, <2>4
    <2>7. calm' => \A a \in acked' : Accounts(w'[x].log, a.urn)
      BY <1>4, <2>1, <2>2, <2>4
    <2>8. calm' /\ Storing(w'[x]) => Accounts(w'[x].log, w'[x].ack.urn)
      BY <1>4, <2>1, <2>4
    <2> QED
      BY <1>1, <2>1, <2>3, <2>4, <2>5, <2>6, <2>7, <2>8
  <1>9. ASSUME NEW x \in Workers, SaveWrite(x) PROVE BlankInv' /\ RegisteredInv'
    <2>1. w[x].at = "write" /\ rows' = w[x].log /\ HasLog(w[x]) /\ w[x] # Idle
          /\ hist' = hist
      BY <1>9 DEF SaveWrite, HasLog, Idle
    <2>2. w[x] \in Acquiring \union Providing \union Routing
      BY <1>0, <2>1, JobOf
    <2>3. calm' => calm /\ Alone(x)
      BY <1>2, <2>1
    <2>4. /\ \A y \in Workers : y # x => w'[y] = w[y]
          /\ ~HasLog(w'[x]) /\ ~Storing(w'[x])
          /\ acked' = acked \/ (Storing(w[x]) /\ acked' = acked \union {w[x].ack})
      <3>1. CASE w[x] \in Acquiring
        <4>1. w' = [w EXCEPT ![x] = Idle] /\ acked' = acked \union {w[x].ack} /\ Storing(w[x])
          BY <1>9, <2>1, <3>1 DEF SaveWrite, Rest, Acquiring, Storing
        <4> QED
          BY <1>0, <4>1 DEF HasLog, InLoop, Storing, Idle
      <3>2. CASE w[x] \in Providing
        <4>1. w' = [w EXCEPT ![x] = [at |-> "year", id |-> w[x].id, todo |-> DOMAIN side["inbox"]]]
              /\ acked' = acked
          BY <1>9, <3>2 DEF SaveWrite, Providing
        <4>2. w'[x].at \in {"year", "audit"} /\ \A y \in Workers : y # x => w'[y] = w[y]
          BY <1>0, <4>1
        <4> QED
          BY <4>1, <4>2 DEF HasLog, InLoop, Storing
      <3>3. CASE w[x] \in Routing
        <4>1. w' = [w EXCEPT ![x] = [at |-> "audit", id |-> w[x].id]] /\ acked' = acked
          BY <1>9, <3>3 DEF SaveWrite, Routing
        <4>2. w'[x].at \in {"year", "audit"} /\ \A y \in Workers : y # x => w'[y] = w[y]
          BY <1>0, <4>1
        <4> QED
          BY <4>1, <4>2 DEF HasLog, InLoop, Storing
      <3> QED
        BY <2>2, <3>1, <3>2, <3>3
    <2>5. Blank(rows') /\ (calm' => \A a \in acked' : Accounts(rows', a.urn))
      BY <1>4, <2>1, <2>3, <2>4
    <2> QED
      BY <1>1, <2>3, <2>4, <2>5
  <1>10. ASSUME NEW x \in Workers, Process(x) PROVE BlankInv' /\ RegisteredInv'
    <2>1. hist \subseteq hist' /\ (~Alone(x) => "overlap" \in hist')
      BY <1>0, <1>10, OverlapTypes DEF Process
    <2>2. /\ \A y \in Workers : y # x => w'[y] = w[y]
          /\ w'[x].at \in {"idle", "start"} /\ rows' = rows /\ acked' = acked /\ w[x] = Idle
      BY <1>0, <1>10 DEF Process, Idle
    <2>3. calm' => calm /\ Alone(x) /\ \A a \in acked : Accounts(rows, a.urn)
      <3>1. Alone(x) => \A y \in Workers : w[y].at # "write"
        BY <2>2 DEF Alone, Idle
      <3> QED
        BY <2>1, <3>1 DEF RegisteredInv
    <2> QED
      BY <1>1, <2>2, <2>3 DEF BlankInv, HasLog, InLoop, Storing
  <1>11. ASSUME NEW x \in Workers, Record(x) \/ Crash(x) PROVE BlankInv' /\ RegisteredInv'
    <2>1. /\ \A y \in Workers : y # x => w'[y] = w[y]
          /\ w'[x] = Idle /\ rows' = rows /\ acked' = acked /\ w[x] # Idle /\ hist \subseteq hist'
          /\ w[x].at = "write" => "death" \in hist'
      BY <1>0, <1>11 DEF Record, Crash, Rest, Harmful, Idle
    <2>2. calm' => calm /\ Alone(x) /\ \A a \in acked : Accounts(rows, a.urn)
      BY <1>2, <1>3, <2>1
    <2> QED
      BY <1>1, <2>1, <2>2 DEF BlankInv, HasLog, InLoop, Storing, Idle
  <1> QED
    BY <1>5, <1>6, <1>7, <1>8, <1>9, <1>10, <1>11 DEF Next, Passes

\* An identity that an acquire has acknowledged stays in the ledger, as long as calls come one
\* after the other, none dies while it writes, and no failed row is filled under another
\* identity: for any workers, items and bounds.
THEOREM AcknowledgedRegistered == Spec => []Registered
  <1>1. Init => BlankInv /\ RegisteredInv
    BY DEF Init, BlankInv, RegisteredInv, Blank, HasLog, InLoop, Storing, Idle
  <1>2. Sound /\ RegisteredInv => Registered
    <2> SUFFICES ASSUME Sound, RegisteredInv, hist \subseteq {"names"},
                        \A x \in Workers : w[x].at # "write", NEW a \in acked
                 PROVE  \E r \in Range(rows) : a.urn \in {r.urn, r.was}
      BY DEF Registered
    <2>1. PICK i \in 1..Len(rows) : a.urn \in {rows[i].urn, rows[i].was}
      BY DEF RegisteredInv, Accounts
    <2>2. rows[i] \in Range(rows)
      BY <2>1 DEF Range, Sound, Typed, Logs
    <2> QED
      BY <2>1, <2>2
  <1> QED
    BY <1>1, <1>2, TypedInit, SoundStep, RegisteredStep, PTL DEF Spec
----------------------------------------------------------------------------
(* A run that ends complete has done all of its work.                      *)

Calm == hist \intersect {"overlap", "names"} = {}

Right(s, r) == Matches(s, r) /\ s.dated
InInbox(r) == r.name \in DOMAIN files["inbox"]
Live(n) == n \in DOMAIN files["inbox"] \union DOMAIN side["inbox"]

\* A sidecar in the inbox, or one that is being dated, has the urn.
Says(n, u) ==
    \/ n \in DOMAIN side["inbox"] /\ side["inbox"][n] # Torn /\ side["inbox"][n].urn = u
    \/ \E y \in Workers : w[y].at = "date" /\ w[y].name = n /\ w[y].found.urn = u

\* A registered row with its file in the inbox: no pass refuses or collapses it.
Held(r) ==
    /\ files["inbox"][r.name] = r.sha /\ r.sha \notin Broken
    /\ \A n \in Names : Says(n, r.urn) => n = r.name

\* A registered row whose file has gone to the review folder, maybe without its sidecar.
Carried(r) ==
    /\ r.name \in DOMAIN files["review"] /\ files["review"][r.name] = r.sha
    /\ IF r.name \in DOMAIN side["review"]
       THEN Right(side["review"][r.name], r)
       ELSE r.name \in DOMAIN side["inbox"] /\ Right(side["inbox"][r.name], r)

\* A row in review is right, or a file of its name in the inbox belongs to no waiting row.
Reviewed(r) ==
    /\ r.name \in DOMAIN files["review"] /\ r.name \in DOMAIN side["review"]
    /\ \/ InInbox(r)
       \/ files["review"][r.name] = r.sha /\ Right(side["review"][r.name], r)

Kept(r) ==
    /\ r.status = "registered" => IF InInbox(r) THEN Held(r) ELSE Carried(r)
    /\ r.status = "review" => Reviewed(r)

\* No two rows have one name, and of those with one urn only the last is more than a
\* duplicate or a citation.
Latest(log) ==
    \A i, j \in 1..Len(log) : i < j /\ log[i].urn = log[j].urn =>
        log[i].status \in {"duplicate", "citation-only"}
Named(log) ==
    \A i, j \in 1..Len(log) : i # j /\ log[i].name = log[j].name => log[i].name = None

Orderly(log) == Latest(log) /\ Named(log) /\ \A k \in 1..Len(log) : Kept(log[k])

\* What provenance leaves: nothing acquired with a file, and a sidecar for what is
\* registered.
Left(r) == r.status = "acquired" => ~InInbox(r)
Backed(r) ==
    r.status = "registered" /\ InInbox(r) =>
        \/ r.name \in DOMAIN side["inbox"] /\ Matches(side["inbox"][r.name], r)
        \/ \E y \in Workers : w[y].at = "date" /\ w[y].name = r.name /\ Matches(w[y].found, r)

\* What routing finds, and what it leaves.
Ready(r) ==
    r.status = "registered" /\ InInbox(r) =>
        r.name \in DOMAIN side["inbox"] /\ Right(side["inbox"][r.name], r)
Routed(r) == r.status = "registered" /\ InInbox(r) => r.name \notin DOMAIN side["inbox"]

\* The ledger of a pass is the one on disk, but for what the pass has done to its rows.
Follows(log) ==
    /\ Len(log) = Len(rows)
    /\ \A k \in 1..Len(rows) :
          /\ log[k].urn = rows[k].urn /\ log[k].name = rows[k].name /\ log[k].sha = rows[k].sha
          /\ rows[k].status = "registered" => log[k].status \in {"registered", "review"}
          /\ rows[k].status = "review" => log[k].status = "review"

\* The ledger of an acquire has one row that is not as it is on disk.
Fresh(j) ==
    \E k \in 1..Len(j.log) :
        /\ j.log[k].status \in {"acquired", "citation-only"} /\ j.log[k].name = j.name
        /\ \A i \in 1..Len(j.log) \ {k} : i <= Len(rows) /\ j.log[i] = rows[i]
        /\ \A i \in 1..Len(rows) \ {k} : i <= Len(j.log)
        /\ k <= Len(rows) => rows[k].status \notin {"registered", "review"}

\* The urns that provenance has seen are those of the sidecars, and of two names under one
\* urn at most one is still there.
Seeing(j) ==
    /\ \A n \in DOMAIN side["inbox"] :
          side["inbox"][n] # Torn => <<side["inbox"][n].urn, n>> \in j.seen
    /\ \A u \in Urns, n, m \in Names :
          <<u, n>> \in j.seen /\ <<u, m>> \in j.seen /\ Live(n) /\ Live(m) => n = m
    /\ \A k \in 1..Len(j.log) :
          k >= j.i /\ j.log[k].status = "registered" /\ InInbox(j.log[k]) =>
             \A n \in Names : <<j.log[k].urn, n>> \in j.seen => n = j.log[k].name

Checking(j) ==
    /\ Follows(j.log) /\ Seeing(j)
    /\ \A k \in 1..Len(j.log) : k < j.i => Left(j.log[k]) /\ Backed(j.log[k])

Moving(j) ==
    /\ Follows(j.log)
    /\ \A k \in 1..Len(j.log) : /\ Left(j.log[k])
                                /\ k < j.i => Routed(j.log[k])
                                /\ k >= j.i => Ready(j.log[k])

\* The bytes are the row's, and no other sidecar that is there has its urn.
Opened(j) ==
    LET r == j.log[j.i] IN
    /\ InInbox(r) /\ files["inbox"][r.name] = r.sha /\ r.sha \notin Broken
    /\ \A n \in Names : <<r.urn, n>> \in j.seen /\ Live(n) => n = r.name

Carrying(j) ==
    LET r == j.log[j.i] IN
    r.status = "registered" /\ ~InInbox(r) /\ r.name \notin DOMAIN side["review"]

Truth ==
    \A k \in 1..Len(rows) :
        /\ rows[k].status \notin {"acquired", "registered"}
        /\ rows[k].status = "review" =>
              /\ files["review"][rows[k].name] = rows[k].sha
              /\ Right(side["review"][rows[k].name], rows[k])

Stage(j) ==
    /\ j.at = "place" => Latest(j.log) /\ Fresh(j)
    /\ HasLog(j) /\ j.at # "place" => Orderly(j.log)
    /\ j.at \in {"provenance", "unlink", "sidecar"} => Checking(j)
    /\ j.at \in {"provenance", "sidecar"} /\ j.i <= Len(j.log) =>
          j.log[j.i].status \in Treats("provenance")
    /\ j.at = "unlink" => j.log[j.i].status = "failed"
    /\ j.at = "sidecar" => Opened(j)
    /\ j.at \in {"route", "carry"} => Moving(j)
    /\ j.at = "route" /\ j.i <= Len(j.log) => j.log[j.i].status \in Treats("route")
    /\ j.at = "carry" => Carrying(j)
    /\ j.at = "write" /\ j.job = "provenance" =>
          \A k \in 1..Len(j.log) : Left(j.log[k]) /\ Backed(j.log[k])
    /\ j.at = "write" /\ j.job = "route" =>
          \A k \in 1..Len(j.log) : Left(j.log[k]) /\ Routed(j.log[k])
    /\ j.at \in {"year", "date"} =>
          /\ \A k \in 1..Len(rows) : Left(rows[k]) /\ Backed(rows[k])
          /\ \A n \in DOMAIN side["inbox"] :
                side["inbox"][n] = Torn \/ side["inbox"][n].dated \/ n \in j.todo
    /\ j.at = "date" => j.name \in DOMAIN side["inbox"] /\ side["inbox"][j.name] = Torn
    /\ j.at = "audit" => \A k \in 1..Len(rows) : Left(rows[k]) /\ Routed(rows[k])
    /\ j.at = "end" /\ j.status = "complete" => Truth

OneEach == \A u \in Urns, n, m \in Names : Says(n, u) /\ Says(m, u) => n = m

InOrder ==
    /\ DOMAIN side["review"] \subseteq DOMAIN files["review"]
    /\ OneEach /\ Orderly(rows)
    /\ \A x \in Workers : Stage(w[x])
    /\ answer = "complete" => Truth

CompleteInv ==
    Calm => InOrder /\ \A x, y \in Workers : w[x] # Idle /\ w[y] # Idle => x = y

\* A step leaves what is under a name.
Alike(n) ==
    \A d \in {"inbox", "review"} :
        /\ n \in DOMAIN files'[d] <=> n \in DOMAIN files[d]
        /\ n \in DOMAIN files[d] => files'[d][n] = files[d][n]
        /\ n \in DOMAIN side'[d] <=> n \in DOMAIN side[d]
        /\ n \in DOMAIN side[d] => side'[d][n] = side[d][n]

LEMMA KeptNames ==
  ASSUME Typed, NEW r, Kept(r), r.status \in {"registered", "review"}
  PROVE  r.name \in Names
  <1>1. /\ DOMAIN files["inbox"] \subseteq Names /\ DOMAIN files["review"] \subseteq Names
    BY TableFacts DEF Typed, Folders
  <1> QED
    BY <1>1 DEF Kept, InInbox, Carried, Reviewed

LEMMA KeptFrame ==
  ASSUME NEW r, Kept(r), Alike(r.name),
         r.status = "registered" => \A n \in Names : Says(n, r.urn)' => Says(n, r.urn)
  PROVE  Kept(r)'
  <1>1. InInbox(r)' <=> InInbox(r)
    BY DEF InInbox, Alike
  <1>2. Held(r) /\ InInbox(r) /\ r.status = "registered" => Held(r)'
    BY DEF Held, Alike, InInbox
  <1>3. Carried(r) => Carried(r)'
    BY DEF Carried, Alike
  <1>4. Reviewed(r) => Reviewed(r)'
    BY <1>1 DEF Reviewed, Alike
  <1> QED
    BY <1>1, <1>2, <1>3, <1>4 DEF Kept

\* A step that touches what is under one name, and that name's row stays as it should be.
LEMMA OrderlyFrame ==
  ASSUME Typed, NEW log \in Logs, NEW m, Orderly(log),
         \A n \in Names \ {m} : Alike(n),
         \A k \in 1..Len(log) : log[k].name # m /\ log[k].status = "registered" =>
            \A n \in Names : Says(n, log[k].urn)' => Says(n, log[k].urn),
         \A k \in 1..Len(log) :
            log[k].name = m /\ log[k].status \in {"registered", "review"} => Kept(log[k])'
  PROVE  Orderly(log)'
  <1>1. ASSUME NEW k \in 1..Len(log) PROVE Kept(log[k])'
    <2>1. Kept(log[k])
      BY DEF Orderly
    <2>2. CASE log[k].status \in {"registered", "review"} /\ log[k].name # m
      BY <2>1, <2>2, KeptNames, KeptFrame
    <2>3. CASE log[k].status \notin {"registered", "review"}
      BY <2>3 DEF Kept
    <2> QED
      BY <2>2, <2>3
  <1> QED
    BY <1>1 DEF Orderly, Latest, Named

\* No sidecar comes, and none is being dated: no urn is said that was not.
LEMMA SaysLess ==
  ASSUME NEW x \in Workers, \A y \in Workers : y # x => w'[y] = w[y], w'[x].at # "date",
         \A n \in DOMAIN side'["inbox"] :
            \/ side'["inbox"][n] = Torn
            \/ n \in DOMAIN side["inbox"] /\ side'["inbox"][n] = side["inbox"][n]
  PROVE  /\ \A n, u : Says(n, u)' => Says(n, u)
         /\ OneEach => OneEach'
  <1>1. ASSUME NEW n, NEW u, Says(n, u)' PROVE Says(n, u)
    BY <1>1 DEF Says
  <1> QED
    BY <1>1 DEF OneEach

LEMMA SaysAlone ==
  ASSUME NEW x \in Workers, Alone(x), w[x].at # "date"
  PROVE  /\ \A n, u : Says(n, u) =>
               n \in DOMAIN side["inbox"] /\ side["inbox"][n] # Torn /\ side["inbox"][n].urn = u
         /\ \A r : Backed(r) /\ r.status = "registered" /\ InInbox(r) =>
               r.name \in DOMAIN side["inbox"] /\ Matches(side["inbox"][r.name], r)
  BY DEF Says, Backed, Alone, Idle

\* Only the worker's own stage is to be looked at.
LEMMA InOrderStep ==
  ASSUME NEW x \in Workers, Alone(x), \A y \in Workers : y # x => w'[y] = w[y],
         (DOMAIN side["review"] \subseteq DOMAIN files["review"])', OneEach', Orderly(rows)',
         Stage(w[x])', (answer = "complete" => Truth)'
  PROVE  InOrder'
  <1>1. ASSUME NEW y \in Workers, y # x PROVE Stage(w[y])'
    <2>1. w'[y] = Idle
      BY <1>1 DEF Alone
    <2> QED
      BY <2>1 DEF Stage, HasLog, InLoop, Storing, Idle
  <1> QED
    BY <1>1 DEF InOrder

\* A step that leaves files and sidecars.
LEMMA OrderStill ==
  ASSUME Typed, NEW x \in Workers, \A y \in Workers : y # x => w'[y] = w[y], w'[x].at # "date",
         UNCHANGED <<files, side>>
  PROVE  /\ \A log \in Logs : Orderly(log) => Orderly(log)'
         /\ OneEach => OneEach'
         /\ \A n, u : Says(n, u)' => Says(n, u)
  <1>1. (OneEach => OneEach') /\ \A n, u : Says(n, u)' => Says(n, u)
    BY SaysLess
  <1>2. \A n : Alike(n)
    BY DEF Alike
  <1>3. ASSUME NEW log \in Logs, Orderly(log) PROVE Orderly(log)'
    <2>1. \A k \in 1..Len(log) : Kept(log[k])'
      BY <1>1, <1>2, <1>3, KeptFrame DEF Orderly
    <2> QED
      BY <1>3, <2>1 DEF Orderly, Latest, Named
  <1> QED
    BY <1>1, <1>3

\* What an acquire plans: the ledger with one row more, or one row refilled.
LEMMA PlanOrder ==
  ASSUME NEW log \in Logs, NEW new \in Logs, NEW k \in 1..Len(new), Latest(log),
         Len(log) <= Len(new), Len(new) <= Len(log) + 1,
         \A i \in 1..Len(new) \ {k} : i <= Len(log) /\ new[i] = log[i],
         \A i \in 1..Len(log) : i < k /\ log[i].urn = new[k].urn =>
            log[i].status \in {"duplicate", "citation-only"},
         \A i \in 1..Len(log) : i > k => log[i].urn # new[k].urn
  PROVE  Latest(new)
  <1>0. Len(log) \in Nat /\ Len(new) \in Nat
    BY DEF Logs
  <1> SUFFICES ASSUME NEW i \in 1..Len(new), NEW j \in 1..Len(new), i < j,
                      new[i].urn = new[j].urn
               PROVE  new[i].status \in {"duplicate", "citation-only"}
    BY DEF Latest
  <1>1. CASE i # k /\ j # k
    BY <1>0, <1>1 DEF Latest
  <1>2. CASE i = k
    BY <1>0, <1>2
  <1>3. CASE j = k
    BY <1>0, <1>3
  <1> QED
    BY <1>1, <1>2, <1>3

\* The last row of a urn.
LEMMA LastOfUrn ==
  ASSUME NEW log \in Logs, NEW urn
  PROVE  \A j \in 1..Len(log) : log[j].urn = urn => j <= ByUrn(log, urn) /\ ByUrn(log, urn) # 0
  <1> DEFINE S == {i \in DOMAIN log : log[i].urn = urn}
  <1>1. DOMAIN log = 1..Len(log) /\ ByUrn(log, urn) = Largest(S) /\ S \in SUBSET DOMAIN log
    BY DEF ByUrn, Logs
  <1>2. S # {} => Largest(S) \in S /\ \A j \in S : j <= Largest(S)
    BY <1>1, LargestFacts
  <1> QED
    BY <1>1, <1>2

LEMMA AcquireFresh ==
  ASSUME Sound, Latest(rows), NEW x \in Workers, NEW item \in Items, NEW doc \in item.gives,
         w[x] = Idle,
         IF doc # None THEN AcquireBytes(x, item, doc) ELSE AcquireCitation(x, item),
         w'[x] # Idle, rows' = rows
  PROVE  Latest(w'[x].log) /\ Fresh(w[x])'
  <1>0. Typed /\ rows \in Logs /\ w \in [Workers -> Jobs] /\ Len(rows) \in Nat
        /\ DOMAIN rows = 1..Len(rows)
    BY DEF Sound, Typed, Logs
  <1>1. CASE doc # None
    <2> DEFINE urn == Identity(item, doc)
               name == ArtifactName(item, doc)
               i == Existing(rows, item, urn)
               new == IF i # 0 /\ Refills(rows[i], item)
                      THEN [rows EXCEPT ![i] = Refilled(@, item, urn, name, doc)]
                      ELSE Append(rows, Row(item, urn, "acquired", name, doc))
               drop == IF i # 0 /\ item.url /\ rows[i].status = "citation-only"
                       THEN rows[i].urn ELSE None
    <2>1. Plan(x, new, name, drop, Acked(urn, doc)) /\ ~(i # 0 /\ rows[i].status \in Settled)
      BY <1>0, <1>1 DEF AcquireBytes
    <2>2. w'[x].log = new /\ w'[x].name = name
      BY <1>0, <2>1 DEF Plan
    <2>3. urn \in Urns /\ name \in Names /\ doc \in Docs
          /\ Row(item, urn, "acquired", name, doc) \in Rows
      BY ItemTypes DEF Statuses
    <2>4. Row(item, urn, "acquired", name, doc).urn = urn
          /\ Row(item, urn, "acquired", name, doc).name = name
          /\ Row(item, urn, "acquired", name, doc).status = "acquired"
      BY DEF Row
    <2>5. /\ i \in DOMAIN rows \union {0}
          /\ ByUrn(rows, urn) # 0 => i = ByUrn(rows, urn) /\ rows[i].urn = urn
          /\ ByUrn(rows, urn) = 0 => (i = 0 \/ item.url) /\ \A j \in 1..Len(rows) : rows[j].urn # urn
          /\ \A j \in 1..Len(rows) : rows[j].urn = urn => j <= i
      <3>1. i = IF ByUrn(rows, urn) = 0 /\ item.url THEN ByInput(rows, item.input)
                ELSE ByUrn(rows, urn)
        BY DEF Existing
      <3>2. /\ ByUrn(rows, urn) \in DOMAIN rows \union {0}
            /\ ByUrn(rows, urn) # 0 => rows[ByUrn(rows, urn)].urn = urn
            /\ ByUrn(rows, urn) = 0 => \A j \in DOMAIN rows : rows[j].urn # urn
            /\ ByInput(rows, item.input) \in DOMAIN rows \union {0}
        BY <1>0, ExistingFacts
      <3>3. \A j \in 1..Len(rows) : rows[j].urn = urn =>
               j <= ByUrn(rows, urn) /\ ByUrn(rows, urn) # 0
        BY <1>0, LastOfUrn
      <3> HIDE DEF i, urn
      <3> QED
        BY <1>0, <3>1, <3>2, <3>3
    <2> HIDE DEF urn, name, i
    <2>6. i # 0 => rows[i] \in Rows
      BY <1>0, <2>5 DEF Logs
    <2>7. CASE i # 0 /\ Refills(rows[i], item)
      <3> DEFINE row == Refilled(rows[i], item, urn, name, doc)
      <3>1. /\ row \in Rows /\ row.status = "acquired" /\ row.name = name
            /\ rows[i].status = "citation-only" => row.urn = urn
            /\ rows[i].status # "citation-only" => row.urn = rows[i].urn
        BY <2>3, <2>6, <2>7, RefilledType
      <3>2. rows[i].status = "failed" \/ (item.url /\ rows[i].status = "citation-only")
        BY <2>7 DEF Refills
      <3> HIDE DEF row
      <3>0. i \in 1..Len(rows) /\ i \in Nat
        BY <1>0, <2>5, <2>7
      <3>3. new = [rows EXCEPT ![i] = row]
        BY <2>7 DEF row
      <3> HIDE DEF new
      <3>4. /\ new \in Logs /\ Len(new) = Len(rows) /\ new[i] = row /\ i \in 1..Len(new)
            /\ \A j \in 1..Len(new) \ {i} : j <= Len(rows) /\ new[j] = rows[j]
        <4>1. rows \in Seq(Rows) /\ row \in Rows /\ i \in 1..Len(rows)
          BY <1>0, <3>0, <3>1 DEF Logs
        <4> DEFINE n == [rows EXCEPT ![i] = row]
        <4>2. /\ n \in Seq(Rows) /\ Len(n) = Len(rows) /\ n[i] = row
              /\ \A j \in 1..Len(rows) \ {i} : n[j] = rows[j]
          BY <4>1
        <4>3. new = n
          BY <3>3
        <4> HIDE DEF n
        <4> QED
          BY <1>0, <4>1, <4>2, <4>3 DEF Logs
      <3>5. \A j \in 1..Len(rows) : j > i => rows[j].urn # row.urn
        <4>1. CASE rows[i].status = "failed"
          BY <3>1, <3>0, <4>1 DEF Latest
        <4>2. CASE rows[i].status = "citation-only"
          <5>1. \A j \in 1..Len(rows) : rows[j].urn = urn => j <= i
            BY <2>5
          <5>2. row.urn = urn /\ i \in Nat
            BY <1>0, <3>0, <3>1, <4>2
          <5> QED
            BY <1>0, <5>1, <5>2
        <4> QED
          BY <3>2, <4>1, <4>2
      <3>6. \A j \in 1..Len(rows) : j < i /\ rows[j].urn = row.urn =>
               rows[j].status \in {"duplicate", "citation-only"}
        <4>1. CASE row.urn = rows[i].urn
          BY <3>0, <4>1 DEF Latest
        <4>2. CASE row.urn # rows[i].urn
          BY <2>5, <3>1, <3>2, <4>2
        <4> QED
          BY <4>1, <4>2
      <3>7. Latest(new)
        BY <1>0, <3>4, <3>5, <3>6, PlanOrder
      <3>8. Fresh(w[x])'
        <4>1. \A j \in 1..Len(rows) \ {i} : j <= Len(new)
          BY <1>0, <3>4
        <4>2. rows[i].status \notin {"registered", "review"}
          BY <3>2
        <4> QED
          BY <2>2, <3>1, <3>4, <4>1, <4>2 DEF Fresh
      <3> QED
        BY <2>2, <3>7, <3>8
    <2>8. CASE ~(i # 0 /\ Refills(rows[i], item))
      <3> DEFINE row == Row(item, urn, "acquired", name, doc)
                 k == Len(rows) + 1
      <3>1. new = Append(rows, row)
        BY <2>8
      <3> HIDE DEF row
      <3>2. /\ new \in Logs /\ Len(new) = k /\ new[k] = row /\ k \in 1..Len(new)
            /\ \A j \in 1..Len(new) \ {k} : j <= Len(rows) /\ new[j] = rows[j]
        <4>1. rows \in Seq(Rows) /\ row \in Rows
          BY <1>0, <2>3 DEF Logs, row
        <4> DEFINE n == Append(rows, row)
        <4>2. /\ n \in Seq(Rows) /\ Len(n) = k /\ n[k] = row
              /\ \A j \in 1..Len(rows) : n[j] = rows[j]
          BY <1>0, <4>1
        <4> HIDE DEF n, new
        <4> QED
          BY <1>0, <3>1, <4>2 DEF Logs, n
      <3>3. \A j \in 1..Len(rows) : rows[j].urn = urn =>
               rows[j].status \in {"duplicate", "citation-only"}
        <4> SUFFICES ASSUME NEW j \in 1..Len(rows), rows[j].urn = urn
                     PROVE  rows[j].status \in {"duplicate", "citation-only"}
          OBVIOUS
        <4>1. i = ByUrn(rows, urn) /\ i # 0 /\ rows[i].urn = urn /\ j <= i
          BY <1>0, <2>5
        <4>2. CASE j < i
          BY <1>0, <2>5, <4>1, <4>2 DEF Latest
        <4>3. CASE j = i
          <5>1. rows[i].status \notin Settled /\ rows[i].status # "failed"
            BY <2>1, <2>8, <4>1 DEF Refills
          <5>2. rows[i].status \in Statuses
            BY <2>6, <4>1 DEF Rows
          <5> QED
            BY <4>3, <5>1, <5>2 DEF Settled, Statuses
        <4> QED
          BY <1>0, <2>5, <4>1, <4>2, <4>3
      <3>4. row.urn = urn /\ row.name = name /\ row.status = "acquired"
        BY <2>4 DEF row
      <3> HIDE DEF new
      <3>5. Latest(new)
        BY <1>0, <3>2, <3>3, <3>4, PlanOrder
      <3>6. Fresh(w[x])'
        <4>1. \A j \in 1..Len(rows) \ {k} : j <= Len(new)
          BY <1>0, <3>2
        <4>2. ~(k <= Len(rows))
          BY <1>0
        <4> QED
          BY <2>2, <3>2, <3>4, <4>1, <4>2 DEF Fresh
      <3> QED
        BY <2>2, <3>5, <3>6
    <2> QED
      BY <2>7, <2>8
  <1>2. CASE doc = None
    <2> DEFINE urn == Identity(item, None)
               row == Row(item, urn, "citation-only", None, None)
               new == Append(rows, row)
               k == Len(rows) + 1
    <2>1. Plan(x, new, None, None, Acked(urn, None)) /\ ByUrn(rows, urn) = 0
      BY <1>0, <1>2 DEF AcquireCitation
    <2>2. w'[x].log = new /\ w'[x].name = None
      BY <1>0, <2>1 DEF Plan
    <2>3. urn \in Urns /\ row \in Rows
      BY <1>2, ItemTypes DEF Statuses
    <2>4. row.urn = urn /\ row.name = None /\ row.status = "citation-only"
      BY DEF Row
    <2> HIDE DEF row, urn
    <2>5. /\ new \in Logs /\ Len(new) = k /\ new[k] = row /\ k \in 1..Len(new)
          /\ \A j \in 1..Len(new) \ {k} : j <= Len(rows) /\ new[j] = rows[j]
      BY <1>0, <2>3 DEF Logs
    <2>6. \A j \in 1..Len(rows) : rows[j].urn # urn
      BY <1>0, <2>1, ExistingFacts
    <2> HIDE DEF new
    <2>7. Latest(new)
      BY <1>0, <2>4, <2>5, <2>6, PlanOrder
    <2>8. Fresh(w[x])'
      <3>1. \A j \in 1..Len(rows) \ {k} : j <= Len(new)
        BY <1>0, <2>5
      <3>2. ~(k <= Len(rows))
        BY <1>0
      <3> QED
        BY <2>2, <2>4, <2>5, <3>1, <3>2 DEF Fresh
    <2> QED
      BY <2>2, <2>7, <2>8
  <1> QED
    BY <1>1, <1>2

LEMMA AcquireOrder ==
  ASSUME Sound, InOrder, NEW x \in Workers, Alone(x), NEW item \in Items, NEW doc \in item.gives,
         Acquire(x, item, doc)
  PROVE  InOrder'
  <1>0. Typed /\ rows \in Logs
    BY DEF Sound, Typed
  <1>1. UNCHANGED <<rows, files, side>> /\ w[x] = Idle /\ answer' = None
    BY DEF Acquire
  <1>2. /\ \A y \in Workers : y # x => w'[y] = w[y]
        /\ w'[x] = Idle \/ w'[x].at = "place"
    BY AcquireTypes DEF Acquire
  <1>3. w'[x].at # "date"
    BY <1>2 DEF Idle
  <1>4. OneEach' /\ Orderly(rows)'
    BY <1>0, <1>1, <1>2, <1>3, OrderStill DEF InOrder
  <1>5. Stage(w[x])'
    <2>1. CASE w'[x] = Idle
      BY <2>1 DEF Stage, HasLog, InLoop, Storing, Idle
    <2>2. CASE w'[x] # Idle
      <3>1. Latest(w'[x].log) /\ Fresh(w[x])'
        BY <1>1, <2>2, AcquireFresh DEF Acquire, InOrder, Orderly
      <3> QED
        BY <1>2, <2>2, <3>1 DEF Stage
    <2> QED
      BY <2>1, <2>2
  <1>6. (DOMAIN side["review"] \subseteq DOMAIN files["review"])'
        /\ (answer = "complete" => Truth)'
    BY <1>1, ValuesAssumption DEF InOrder, Acquire
  <1> QED
    BY <1>2, <1>4, <1>5, <1>6, InOrderStep

LEMMA OrderlyFresh ==
  ASSUME Sound, Orderly(rows), NEW j, j.log \in Logs, Fresh(j), Latest(j.log),
         \A i, k \in 1..Len(j.log) : j.log[i].name = j.name /\ j.log[k].name = j.name =>
            i = k \/ j.name = None
  PROVE  /\ Orderly(j.log)
         /\ \A i \in 1..Len(j.log) :
               j.log[i].status \in {"registered", "review"} /\ j.log[i].name = j.name => j.name = None
         /\ \A i \in 1..Len(rows) :
               rows[i].status \in {"registered", "review"} /\ rows[i].name = j.name => j.name = None
  <1>0. rows \in Logs /\ Len(rows) \in Nat /\ Len(j.log) \in Nat
    BY DEF Sound, Typed, Logs
  <1>1. PICK k \in 1..Len(j.log) :
           /\ j.log[k].status \in {"acquired", "citation-only"} /\ j.log[k].name = j.name
           /\ \A i \in 1..Len(j.log) \ {k} : i <= Len(rows) /\ j.log[i] = rows[i]
           /\ \A i \in 1..Len(rows) \ {k} : i <= Len(j.log)
           /\ k <= Len(rows) => rows[k].status \notin {"registered", "review"}
    BY DEF Fresh
  <1>2. \A i \in 1..Len(j.log) \ {k} : i \in 1..Len(rows)
    BY <1>0, <1>1
  <1>3. ASSUME NEW i \in 1..Len(j.log), NEW l \in 1..Len(j.log), i # l, j.log[i].name = j.log[l].name
        PROVE  j.log[i].name = None
    <2>1. CASE i # k /\ l # k
      BY <1>1, <1>2, <1>3, <2>1 DEF Orderly, Named
    <2>2. CASE i = k \/ l = k
      BY <1>1, <1>3, <2>2
    <2> QED
      BY <2>1, <2>2
  <1>4. \A i \in 1..Len(j.log) : Kept(j.log[i])
    <2>1. Kept(j.log[k])
      BY <1>1 DEF Kept
    <2>2. \A i \in 1..Len(j.log) \ {k} : Kept(j.log[i])
      BY <1>1, <1>2 DEF Orderly
    <2> QED
      BY <2>1, <2>2
  <1>5. Orderly(j.log)
    BY <1>3, <1>4 DEF Orderly, Named
  <1>6. ASSUME NEW i \in 1..Len(j.log), j.log[i].status \in {"registered", "review"},
               j.log[i].name = j.name
        PROVE  j.name = None
    <2>1. i # k
      BY <1>1, <1>6
    <2> QED
      BY <1>1, <1>6, <2>1
  <1>7. ASSUME NEW i \in 1..Len(rows), rows[i].status \in {"registered", "review"},
               rows[i].name = j.name
        PROVE  j.name = None
    <2>1. i # k
      BY <1>0, <1>1, <1>7
    <2>2. i \in 1..Len(j.log) /\ j.log[i] = rows[i]
      BY <1>0, <1>1, <2>1
    <2> QED
      BY <1>6, <1>7, <2>2
  <1> QED
    BY <1>5, <1>6, <1>7

LEMMA AtMostOne ==
  ASSUME NEW S, IsFiniteSet(S), ~(Cardinality(S) > 1), NEW a \in S, NEW b \in S
  PROVE  a = b
  <1> SUFFICES ASSUME a # b PROVE FALSE
    OBVIOUS
  <1>1. {a} \subseteq S /\ {a} # S
    OBVIOUS
  <1>2. Cardinality({a}) = 1 /\ IsFiniteSet({a})
    BY FS_Singleton
  <1>3. Cardinality({a}) < Cardinality(S)
    <2>1. Cardinality({a}) <= Cardinality(S) /\ (Cardinality({a}) = Cardinality(S) => {a} = S)
      BY <1>1, FS_Subset
    <2>2. Cardinality(S) \in Nat /\ Cardinality({a}) \in Nat
      BY <1>2, FS_CardinalityType
    <2> QED
      BY <1>1, <2>1, <2>2
  <1>4. Cardinality(S) \in Nat
    BY FS_CardinalityType
  <1> QED
    BY <1>2, <1>3, <1>4

LEMMA PlaceOrder ==
  ASSUME Sound, InOrder, Calm', NEW x \in Workers, Alone(x), Place(x)
  PROVE  InOrder'
  <1>0. Typed /\ Placed /\ rows \in Logs /\ w[x] \in Acquiring /\ w[x].log \in Logs
        /\ Stage(w[x]) /\ Orderly(rows) /\ w[x].at = "place"
    <2>1. w[x] \in Acquiring
      BY JobOf DEF Place, Sound
    <2> QED
      BY <2>1 DEF Sound, Typed, Place, Acquiring, InOrder
  <1>1. Fresh(w[x]) /\ Latest(w[x].log)
    BY <1>0 DEF Stage
  <1>2. /\ \A y \in Workers : y # x => w'[y] = w[y]
        /\ w'[x].at \in {"save", "drop"} /\ w'[x].log = w[x].log
    <2>1. Goto(x, "save") \/ Goto(x, "drop")
      BY DEF Place
    <2>2. ASSUME NEW a \in {"save", "drop"}, Goto(x, a)
          PROVE  /\ \A y \in Workers : y # x => w'[y] = w[y]
                 /\ w'[x].at = a /\ w'[x].log = w[x].log
      BY <1>0, <2>2, GotoFacts
    <2> QED
      BY <2>1, <2>2
  <1>3. UNCHANGED <<rows, side>> /\ answer' = None
    BY DEF Place
  <1> DEFINE n == w[x].name
  <1>4. CASE n = None
    <2>1. UNCHANGED files
      BY <1>4 DEF Place
    <2>2. Orderly(w[x].log)
      BY <1>0, <1>1, <1>4, OrderlyFresh
    <2>3. Orderly(rows)' /\ Orderly(w[x].log)' /\ OneEach'
      BY <1>0, <1>2, <1>3, <2>1, <2>2, OrderStill DEF InOrder
    <2>4. Stage(w[x])'
      BY <1>2, <2>3 DEF Stage
    <2> QED
      BY <1>2, <1>3, <2>1, <2>3, <2>4, InOrderStep, ValuesAssumption DEF InOrder
  <1>5. CASE n # None
    <2>1. ~Reused(x) /\ files' = [files EXCEPT !["inbox"] = Put(@, n, w[x].ack.doc)]
      BY <1>5 DEF Place, Calm
    <2>2. \A i, k \in 1..Len(w[x].log) : w[x].log[i].name = n /\ w[x].log[k].name = n => i = k
      <3> DEFINE S == {i \in DOMAIN w[x].log : w[x].log[i].name = n}
      <3>1. DOMAIN w[x].log = 1..Len(w[x].log) /\ Len(w[x].log) \in Nat
        BY <1>0 DEF Logs
      <3>2. IsFiniteSet(S)
        <4>1. IsFiniteSet(1..Len(w[x].log))
          BY <3>1, FS_Interval
        <4> QED
          BY <3>1, <4>1, FS_Subset
      <3>3. ~(Cardinality(S) > 1)
        BY <2>1 DEF Reused
      <3>4. \A a, b \in S : a = b
        BY <3>2, <3>3, AtMostOne
      <3> QED
        BY <3>1, <3>4
    <2>3. /\ Orderly(w[x].log)
          /\ \A i \in 1..Len(w[x].log) :
                w[x].log[i].status \in {"registered", "review"} => w[x].log[i].name # n
          /\ \A i \in 1..Len(rows) :
                rows[i].status \in {"registered", "review"} => rows[i].name # n
      BY <1>0, <1>1, <1>5, <2>2, OrderlyFresh
    <2>4. n \in Names /\ files["inbox"] \in Tables(Docs) /\ w[x].ack.doc \in Docs
      BY <1>0, <1>5 DEF Acquiring, Acks, Placed, Fits, Typed, Folders
    <2>5. /\ files'["inbox"] = Put(files["inbox"], n, w[x].ack.doc)
          /\ files'["review"] = files["review"]
      BY <1>0, <2>1 DEF Typed, Folders
    <2>6. \A m \in Names \ {n} : Alike(m)
      <3>1. /\ DOMAIN files'["inbox"] = DOMAIN files["inbox"] \union {n}
            /\ \A m \in DOMAIN files["inbox"] : m # n => files'["inbox"][m] = files["inbox"][m]
        <4>1. /\ DOMAIN Put(files["inbox"], n, w[x].ack.doc) = DOMAIN files["inbox"] \union {n}
              /\ \A m \in DOMAIN files["inbox"] : m # n =>
                    Put(files["inbox"], n, w[x].ack.doc)[m] = files["inbox"][m]
          <5> HIDE DEF n
          <5> QED
            BY DEF Put
        <4> QED
          BY <2>5, <4>1
      <3> HIDE DEF n
      <3> QED
        BY <1>3, <2>5, <3>1 DEF Alike
    <2>7. (OneEach => OneEach') /\ \A m, u : Says(m, u)' => Says(m, u)
      BY <1>2, <1>3, SaysLess
    <2>8. Orderly(rows)'
      <3>1. PICK L \in Logs : L = rows
        BY <1>0
      <3>2. Orderly(L)'
        BY <1>0, <2>3, <2>6, <2>7, <3>1, OrderlyFrame
      <3> QED
        BY <1>3, <3>1, <3>2
    <2>9. Orderly(w[x].log)'
      <3>1. PICK L \in Logs : L = w[x].log
        BY <1>0
      <3>2. Orderly(L)'
        BY <1>0, <2>3, <2>6, <2>7, <3>1, OrderlyFrame
      <3> QED
        BY <1>2, <3>1, <3>2
    <2>10. Stage(w[x])'
      BY <1>2, <2>9 DEF Stage
    <2>11. (DOMAIN side["review"] \subseteq DOMAIN files["review"])'
           /\ (answer = "complete" => Truth)'
      BY <1>3, <2>5, ValuesAssumption DEF InOrder
    <2> QED
      BY <1>2, <2>7, <2>8, <2>10, <2>11, InOrderStep DEF InOrder
  <1> QED
    BY <1>4, <1>5

LEMMA DropOrder ==
  ASSUME Sound, InOrder, NEW x \in Workers, Alone(x), DropCitation(x)
  PROVE  InOrder'
  <1>0. Typed /\ rows \in Logs /\ w[x] \in Acquiring /\ w[x].log \in Logs
        /\ Stage(w[x]) /\ w[x].at = "drop"
    <2>1. w[x] \in Acquiring
      BY JobOf DEF DropCitation, Sound
    <2> QED
      BY <2>1 DEF Sound, Typed, DropCitation, Acquiring, InOrder
  <1>1. /\ \A y \in Workers : y # x => w'[y] = w[y]
        /\ w'[x].at = "save" /\ w'[x].log = w[x].log
    BY <1>0, GotoFacts DEF DropCitation
  <1>2. UNCHANGED <<rows, files, side>> /\ answer' = None
    BY DEF DropCitation
  <1>3. Orderly(w[x].log)
    BY <1>0 DEF Stage, HasLog, Storing
  <1>4. Orderly(rows)' /\ Orderly(w[x].log)' /\ OneEach'
    BY <1>0, <1>1, <1>2, <1>3, OrderStill DEF InOrder
  <1>5. Stage(w[x])'
    BY <1>1, <1>4 DEF Stage
  <1> QED
    BY <1>1, <1>2, <1>4, <1>5, InOrderStep, ValuesAssumption DEF InOrder

LEMMA SaveOpenOrder ==
  ASSUME Sound, InOrder, NEW x \in Workers, Alone(x), SaveOpen(x)
  PROVE  InOrder'
  <1>0. Typed /\ rows \in Logs /\ Stage(w[x])
    BY DEF Sound, Typed, InOrder
  <1>1. \/ w[x] \in Acquiring /\ w[x].at = "save"
        \/ w[x] \in Providing /\ w[x].at = "provenance" /\ w[x].i > Len(w[x].log)
        \/ w[x] \in Routing /\ w[x].at = "route" /\ w[x].i > Len(w[x].log)
    BY <1>0, JobOf DEF SaveOpen, ToSave
  <1>2. w[x].log \in Logs /\ Len(w[x].log) \in Nat
    BY <1>1 DEF Acquiring, Providing, Routing, Logs
  <1>3. /\ \A y \in Workers : y # x => w'[y] = w[y]
        /\ w'[x].at = "write" /\ w'[x].log = w[x].log /\ w'[x].job = w[x].job
    <2>1. Goto(x, "write")
      BY DEF SaveOpen
    <2> QED
      BY <1>0, <1>1, <2>1, GotoFacts
  <1>4. rows' = << >> /\ UNCHANGED <<files, side>> /\ answer' = None
    BY DEF SaveOpen
  <1>5. Orderly(w[x].log)
    BY <1>0, <1>1 DEF Stage, HasLog, Storing, InLoop
  <1>6. Orderly(w[x].log)' /\ OneEach'
    BY <1>0, <1>2, <1>3, <1>4, <1>5, OrderStill DEF InOrder
  <1>7. Orderly(rows)'
    BY <1>4 DEF Orderly, Latest, Named
  <1>8. Stage(w[x])'
    <2>1. CASE w[x] \in Acquiring
      BY <1>3, <1>6, <2>1 DEF Stage, Acquiring
    <2>2. CASE w[x] \in Providing /\ w[x].at = "provenance" /\ w[x].i > Len(w[x].log)
      <3>1. ASSUME NEW k \in 1..Len(w[x].log)
            PROVE  Left(w[x].log[k])' /\ Backed(w[x].log[k])'
        <4>1. k < w[x].i
          BY <1>2, <2>2 DEF Providing, Places
        <4>2. Left(w[x].log[k]) /\ Backed(w[x].log[k])
          BY <1>0, <2>2, <4>1 DEF Stage, Checking
        <4> QED
          BY <1>3, <1>4, <2>2, <4>2, SaysAlone DEF Left, Backed, InInbox
      <3>2. \A k \in 1..Len(w'[x].log) : Left(w[x].log[k])' /\ Backed(w[x].log[k])'
        BY <1>3, <3>1
      <3> QED
        BY <1>3, <1>6, <2>2, <3>2 DEF Stage, Providing
    <2>3. CASE w[x] \in Routing /\ w[x].at = "route" /\ w[x].i > Len(w[x].log)
      <3>1. ASSUME NEW k \in 1..Len(w[x].log)
            PROVE  Left(w[x].log[k])' /\ Routed(w[x].log[k])'
        <4>1. k < w[x].i
          BY <1>2, <2>3 DEF Routing, Places
        <4>2. Left(w[x].log[k]) /\ Routed(w[x].log[k])
          BY <1>0, <2>3, <4>1 DEF Stage, Moving
        <4> QED
          BY <1>3, <1>4, <4>2 DEF Left, Routed, InInbox
      <3>2. \A k \in 1..Len(w'[x].log) : Left(w[x].log[k])' /\ Routed(w[x].log[k])'
        BY <1>3, <3>1
      <3> QED
        BY <1>3, <1>6, <2>3, <3>2 DEF Stage, Routing
    <2> QED
      BY <1>1, <2>1, <2>2, <2>3
  <1>9. (DOMAIN side["review"] \subseteq DOMAIN files["review"])'
        /\ (answer = "complete" => Truth)'
    BY <1>4, ValuesAssumption DEF InOrder
  <1> QED
    BY <1>3, <1>6, <1>7, <1>8, <1>9, InOrderStep

LEMMA SaveWriteOrder ==
  ASSUME Sound, InOrder, NEW x \in Workers, Alone(x), SaveWrite(x)
  PROVE  InOrder'
  <1>0. Typed /\ w \in [Workers -> Jobs] /\ Stage(w[x]) /\ w[x].at = "write" /\ w[x] \in Jobs
    BY DEF Sound, Typed, InOrder, SaveWrite
  <1>1. w[x] \in Acquiring \union Providing \union Routing
    BY <1>0, JobOf
  <1>2. w[x].log \in Logs /\ Len(w[x].log) \in Nat
    BY <1>1 DEF Acquiring, Providing, Routing, Logs
  <1>3. rows' = w[x].log /\ UNCHANGED <<files, side>> /\ answer' = None
    BY DEF SaveWrite
  <1>4. Orderly(w[x].log)
    BY <1>0 DEF Stage, HasLog
  <1>5. \/ w[x].job = "acquire" /\ w' = [w EXCEPT ![x] = Idle]
        \/ w[x].job = "provenance" /\ w' = [w EXCEPT ![x] = [at |-> "year", id |-> w[x].id,
                                                           todo |-> DOMAIN side["inbox"]]]
        \/ w[x].job = "route" /\ w' = [w EXCEPT ![x] = [at |-> "audit", id |-> w[x].id]]
    <2>1. w[x].job \in {"acquire", "provenance", "route"}
      BY <1>1 DEF Acquiring, Providing, Routing
    <2> QED
      BY <2>1 DEF SaveWrite, Rest
  <1>6. /\ \A y \in Workers : y # x => w'[y] = w[y]
        /\ w'[x].at \in {"idle", "year", "audit"}
    BY <1>0, <1>5 DEF Idle
  <1>7. OneEach' /\ Orderly(rows)'
    <2>1. OneEach' /\ \A log \in Logs : Orderly(log) => Orderly(log)'
      BY <1>0, <1>3, <1>6, OrderStill DEF InOrder
    <2> QED
      BY <1>2, <1>3, <1>4, <2>1
  <1>8. Stage(w[x])'
    <2>1. CASE w[x].job = "acquire" /\ w' = [w EXCEPT ![x] = Idle]
      <3>1. w'[x] = Idle
        BY <1>0, <2>1
      <3> QED
        BY <3>1 DEF Stage, HasLog, InLoop, Storing, Idle
    <2>2. CASE w[x].job = "provenance" /\ w' = [w EXCEPT ![x] =
                   [at |-> "year", id |-> w[x].id, todo |-> DOMAIN side["inbox"]]]
      <3>1. w'[x].at = "year" /\ w'[x].todo = DOMAIN side["inbox"]
        BY <1>0, <2>2
      <3>2. ASSUME NEW k \in 1..Len(rows') PROVE Left(rows[k])' /\ Backed(rows[k])'
        <4>1. PICK r : r = w[x].log[k]
          OBVIOUS
        <4>2. Left(r) /\ Backed(r)
          BY <1>0, <1>3, <2>2, <4>1 DEF Stage
        <4>3. Left(r)' /\ Backed(r)'
          BY <1>0, <1>3, <4>2, SaysAlone DEF Left, Backed, InInbox
        <4> QED
          BY <1>3, <4>1, <4>3
      <3> QED
        BY <1>3, <3>1, <3>2 DEF Stage, HasLog, InLoop, Storing
    <2>3. CASE w[x].job = "route" /\ w' = [w EXCEPT ![x] = [at |-> "audit", id |-> w[x].id]]
      <3>1. w'[x].at = "audit"
        BY <1>0, <2>3
      <3>2. ASSUME NEW k \in 1..Len(rows') PROVE Left(rows[k])' /\ Routed(rows[k])'
        <4>1. PICK r : r = w[x].log[k]
          OBVIOUS
        <4>2. Left(r) /\ Routed(r)
          BY <1>0, <1>3, <2>3, <4>1 DEF Stage
        <4>3. Left(r)' /\ Routed(r)'
          BY <1>3, <4>2 DEF Left, Routed, InInbox
        <4> QED
          BY <1>3, <4>1, <4>3
      <3> QED
        BY <3>1, <3>2 DEF Stage, HasLog, InLoop, Storing
    <2> QED
      BY <1>5, <2>1, <2>2, <2>3
  <1>9. (DOMAIN side["review"] \subseteq DOMAIN files["review"])'
        /\ (answer = "complete" => Truth)'
    BY <1>3, ValuesAssumption DEF InOrder
  <1> QED
    BY <1>6, <1>7, <1>8, <1>9, InOrderStep

LEMMA ProcessOrder ==
  ASSUME Sound, InOrder, NEW x \in Workers, Alone(x), Process(x)
  PROVE  InOrder'
  <1>0. Typed /\ rows \in Logs /\ w \in [Workers -> Jobs]
    BY DEF Sound, Typed
  <1>1. UNCHANGED <<rows, files, side>> /\ w[x] = Idle
        /\ answer' \in {None, "raised", "resumed"}
    BY DEF Process
  <1>2. /\ \A y \in Workers : y # x => w'[y] = w[y]
        /\ w'[x].at \in {"idle", "start"}
    BY <1>0, <1>1 DEF Process, Idle
  <1>3. OneEach' /\ Orderly(rows)'
    BY <1>0, <1>1, <1>2, OrderStill DEF InOrder
  <1>4. Stage(w[x])'
    BY <1>2 DEF Stage, HasLog, InLoop, Storing
  <1> QED
    BY <1>1, <1>2, <1>3, <1>4, InOrderStep, ValuesAssumption DEF InOrder

LEMMA RestOrder ==
  ASSUME Sound, InOrder, NEW x \in Workers, Alone(x), Record(x) \/ Crash(x)
  PROVE  InOrder'
  <1>0. Typed /\ rows \in Logs /\ w \in [Workers -> Jobs] /\ Stage(w[x])
    BY DEF Sound, Typed, InOrder
  <1>1. UNCHANGED <<rows, files, side>> /\ Rest(x)
    BY DEF Record, Crash
  <1>2. /\ \A y \in Workers : y # x => w'[y] = w[y]
        /\ w'[x] = Idle
    BY <1>0, <1>1 DEF Rest
  <1>3. w'[x].at # "date"
    BY <1>2 DEF Idle
  <1>4. OneEach' /\ Orderly(rows)'
    BY <1>0, <1>1, <1>2, <1>3, OrderStill DEF InOrder
  <1>5. Stage(w[x])'
    BY <1>2 DEF Stage, HasLog, InLoop, Storing, Idle
  <1>6. (answer = "complete" => Truth)'
    <2>1. CASE Record(x)
      <3>1. answer' = w[x].status /\ w[x].at = "end"
        BY <2>1 DEF Record
      <3>2. answer' = "complete" => Truth
        BY <1>0, <3>1 DEF Stage
      <3> QED
        BY <1>1, <3>2 DEF Truth
    <2>2. CASE Crash(x)
      BY <2>2, ValuesAssumption DEF Crash
    <2> QED
      BY <2>1, <2>2
  <1> QED
    BY <1>1, <1>2, <1>4, <1>5, <1>6, InOrderStep DEF InOrder

\* The sidecars are read: what is seen is what they say.
LEMMA StartOrder ==
  ASSUME Sound, InOrder, NEW x \in Workers, Alone(x), Start(x)
  PROVE  InOrder'
  <1>0. Typed /\ rows \in Logs /\ w \in [Workers -> Jobs] /\ Len(rows) \in Nat
        /\ Orderly(rows) /\ side["inbox"] \in Tables(Sidecars \union {Torn})
    BY DEF Sound, Typed, InOrder, Logs
  <1> DEFINE seen == {<<side["inbox"][n].urn, n>> :
                        n \in {n \in DOMAIN side["inbox"] : side["inbox"][n] # Torn}}
             i == NextIndex("provenance", rows, 0)
  <1>1. UNCHANGED <<rows, files, side>> /\ answer' = None
    BY DEF Start
  <1>2. /\ \A y \in Workers : y # x => w'[y] = w[y]
        /\ w'[x].at = "provenance" /\ w'[x].job = "provenance" /\ w'[x].log = rows
        /\ w'[x].i = i /\ w'[x].seen = seen
    BY <1>0 DEF Start
  <1>3. /\ i \in Places
        /\ \A j \in 1..Len(rows) : rows[j].status \in Treats("provenance") => i <= j
        /\ i <= Len(rows) => rows[i].status \in Treats("provenance")
    BY <1>0, NextIndexType
  <1>4. OneEach' /\ Orderly(rows)'
    BY <1>0, <1>1, <1>2, OrderStill DEF InOrder
  <1>5. \A u, n : <<u, n>> \in seen => n \in Names /\ Says(n, u)
    <2>1. DOMAIN side["inbox"] \subseteq Names
      BY <1>0, TableFacts
    <2> QED
      BY <2>1 DEF Says
  <1>6. \A n \in DOMAIN side["inbox"] :
           side["inbox"][n] # Torn => <<side["inbox"][n].urn, n>> \in seen
    OBVIOUS
  <1> HIDE DEF seen, i
  <1>7. Seeing(w[x])'
    <2>1. \A n \in DOMAIN side'["inbox"] :
             side'["inbox"][n] # Torn => <<side'["inbox"][n].urn, n>> \in seen
      BY <1>1, <1>6
    <2>2. \A u \in Urns, n, m \in Names : <<u, n>> \in seen /\ <<u, m>> \in seen => n = m
      BY <1>5 DEF InOrder, OneEach
    <2>3. ASSUME NEW k \in 1..Len(rows), rows[k].status = "registered", InInbox(rows[k]),
                 NEW n \in Names, <<rows[k].urn, n>> \in seen
          PROVE  n = rows[k].name
      <3>1. Held(rows[k])
        BY <1>0, <2>3 DEF Orderly, Kept
      <3>2. Says(n, rows[k].urn)
        BY <1>5, <2>3
      <3> QED
        BY <3>1, <3>2 DEF Held
    <2> QED
      BY <1>1, <1>2, <2>1, <2>2, <2>3 DEF Seeing, InInbox
  <1>8. Follows(rows)'
    BY <1>1 DEF Follows
  <1>9. ASSUME NEW k \in 1..Len(rows), k < i PROVE Left(rows[k])' /\ Backed(rows[k])'
    <2>1. rows[k].status \notin {"acquired", "registered"}
      BY <1>0, <1>3, <1>9 DEF Places, Treats
    <2> QED
      BY <1>1, <2>1 DEF Left, Backed
  <1>10. Checking(w[x])'
    BY <1>1, <1>2, <1>7, <1>8, <1>9 DEF Checking
  <1>11. Stage(w[x])'
    <2>1. Orderly(w[x].log)'
      BY <1>1, <1>2, <1>4
    <2>2. w'[x].i <= Len(w'[x].log) => w'[x].log[w'[x].i].status \in Treats("provenance")
      BY <1>2, <1>3
    <2> QED
      BY <1>2, <1>10, <2>1, <2>2 DEF Stage
  <1> QED
    BY <1>1, <1>2, <1>4, <1>11, InOrderStep, ValuesAssumption DEF InOrder

LEMMA RouteBeginOrder ==
  ASSUME Sound, InOrder, NEW x \in Workers, Alone(x), RouteBegin(x)
  PROVE  InOrder'
  <1>0. Typed /\ rows \in Logs /\ w \in [Workers -> Jobs] /\ Len(rows) \in Nat /\ Stage(w[x])
    BY DEF Sound, Typed, InOrder, Logs
  <1> DEFINE i == NextIndex("route", rows, 0)
  <1>1. UNCHANGED <<rows, files, side>> /\ answer' = None /\ w[x].at = "year" /\ w[x].todo = {}
    BY DEF RouteBegin
  <1>2. /\ \A y \in Workers : y # x => w'[y] = w[y]
        /\ w'[x].at = "route" /\ w'[x].job = "route" /\ w'[x].log = rows /\ w'[x].i = i
    BY <1>0 DEF RouteBegin
  <1>3. /\ i \in Places
        /\ \A j \in 1..Len(rows) : rows[j].status \in Treats("route") => i <= j
        /\ i <= Len(rows) => rows[i].status \in Treats("route")
    BY <1>0, NextIndexType
  <1>4. OneEach' /\ Orderly(rows)'
    BY <1>0, <1>1, <1>2, OrderStill DEF InOrder
  <1> HIDE DEF i
  <1>5. Follows(rows)'
    BY <1>1 DEF Follows
  <1>6. ASSUME NEW k \in 1..Len(rows)
        PROVE  Left(rows[k])' /\ Ready(rows[k])' /\ (k < i => Routed(rows[k])')
    <2>1. /\ Left(rows[k]) /\ Backed(rows[k])
          /\ \A n \in DOMAIN side["inbox"] : side["inbox"][n] = Torn \/ side["inbox"][n].dated
      BY <1>0, <1>1 DEF Stage
    <2>2. Ready(rows[k])
      BY <1>1, <2>1, SaysAlone DEF Ready, Right, Matches
    <2>3. k < i => rows[k].status # "registered"
      BY <1>0, <1>3 DEF Places, Treats
    <2> QED
      BY <1>1, <2>1, <2>2, <2>3 DEF Left, Ready, Routed, InInbox
  <1>7. Moving(w[x])'
    BY <1>1, <1>2, <1>5, <1>6 DEF Moving
  <1>8. Stage(w[x])'
    <2>1. Orderly(w[x].log)'
      BY <1>1, <1>2, <1>4
    <2>2. w'[x].i <= Len(w'[x].log) => w'[x].log[w'[x].i].status \in Treats("route")
      BY <1>2, <1>3
    <2> QED
      BY <1>2, <1>7, <2>1, <2>2 DEF Stage
  <1> QED
    BY <1>1, <1>2, <1>4, <1>8, InOrderStep, ValuesAssumption DEF InOrder

\* What routing has left, the audits refuse.
LEMMA AuditOrder ==
  ASSUME Sound, InOrder, NEW x \in Workers, Alone(x), Audit(x)
  PROVE  InOrder'
  <1>0. Typed /\ rows \in Logs /\ w \in [Workers -> Jobs] /\ Len(rows) \in Nat /\ Stage(w[x])
        /\ Orderly(rows) /\ DOMAIN rows = 1..Len(rows)
    BY DEF Sound, Typed, InOrder, Logs
  <1>1. UNCHANGED <<rows, files, side>> /\ answer' = None /\ w[x].at = "audit"
    BY DEF Audit
  <1>2. /\ \A y \in Workers : y # x => w'[y] = w[y]
        /\ w'[x].at = "end" /\ w'[x].status = IF Clean THEN "complete" ELSE "failed"
    BY <1>0 DEF Audit, Finish
  <1>3. OneEach' /\ Orderly(rows)'
    BY <1>0, <1>1, <1>2, OrderStill DEF InOrder
  <1>4. ASSUME Clean PROVE Truth
    <2>1. \A r \in Range(rows) : rows # << >> /\ ~OrphanRow(r)
      BY <1>4 DEF Clean, AcquireClean, Range
    <2>2. ASSUME NEW k \in 1..Len(rows), rows[k].status \in {"acquired", "registered"} PROVE FALSE
      <3>1. rows[k] \in Range(rows) /\ rows[k] \in Waiting
        BY <1>0, <2>2 DEF Range, Waiting
      <3>2. rows[k].name \in DOMAIN files["inbox"]
        BY <2>1, <2>2, <3>1 DEF OrphanRow, FolderOf
      <3>3. rows[k].name \in DOMAIN side["inbox"]
        BY <1>4, <3>1, <3>2 DEF Clean, ProvenanceClean
      <3>4. Left(rows[k]) /\ Routed(rows[k])
        BY <1>0, <1>1 DEF Stage
      <3> QED
        BY <2>2, <3>2, <3>3, <3>4 DEF Left, Routed, InInbox
    <2>3. ASSUME NEW k \in 1..Len(rows), rows[k].status = "review"
          PROVE  /\ files["review"][rows[k].name] = rows[k].sha
                 /\ Right(side["review"][rows[k].name], rows[k])
      <3>1. Reviewed(rows[k])
        BY <1>0, <2>3 DEF Orderly, Kept
      <3>2. ~InInbox(rows[k])
        <4> SUFFICES ASSUME InInbox(rows[k]) PROVE FALSE
          OBVIOUS
        <4>1. PICK r \in Waiting : r.name = rows[k].name
          BY <1>4 DEF Clean, AcquireClean, InInbox
        <4>2. PICK l \in 1..Len(rows) : rows[l] = r
          BY <1>0, <4>1 DEF Waiting, Range
        <4> QED
          BY <2>2, <4>1, <4>2 DEF Waiting
      <3> QED
        BY <3>1, <3>2 DEF Reviewed
    <2> QED
      BY <2>2, <2>3 DEF Truth
  <1>5. Stage(w[x])'
    <2>1. w'[x].status = "complete" => Truth'
      BY <1>1, <1>2, <1>4 DEF Truth
    <2> QED
      BY <1>2, <2>1 DEF Stage, HasLog, InLoop, Storing
  <1> QED
    BY <1>1, <1>2, <1>3, <1>5, InOrderStep, ValuesAssumption DEF InOrder

\* A row whose sidecar in the inbox changes while it is dated.
LEMMA KeptDating ==
  ASSUME NEW r, Kept(r), UNCHANGED files, side'["review"] = side["review"],
         ~(r.name \in DOMAIN side["inbox"] /\ Right(side["inbox"][r.name], r)),
         r.status = "registered" => \A n \in Names : Says(n, r.urn)' => Says(n, r.urn)
  PROVE  Kept(r)'
  <1>1. InInbox(r)' <=> InInbox(r)
    BY DEF InInbox
  <1>2. Held(r) /\ r.status = "registered" => Held(r)'
    BY DEF Held
  <1>3. Carried(r) => Carried(r)'
    BY DEF Carried
  <1>4. Reviewed(r) => Reviewed(r)'
    BY <1>1 DEF Reviewed
  <1> QED
    BY <1>1, <1>2, <1>3, <1>4 DEF Kept

LEMMA YearReadOrder ==
  ASSUME Sound, InOrder, NEW x \in Workers, Alone(x), NEW n, YearRead(x, n)
  PROVE  InOrder'
  <1>0. /\ Typed /\ rows \in Logs /\ w \in [Workers -> Jobs] /\ Stage(w[x]) /\ w[x] \in Dating
        /\ side["inbox"] \in Tables(Sidecars \union {Torn}) /\ Orderly(rows)
        /\ DOMAIN side = {"inbox", "review"} /\ w[x].at = "year"
    BY JobOf DEF Sound, Typed, InOrder, YearRead
  <1>1. UNCHANGED <<rows, files>> /\ answer' = None
    BY DEF YearRead
  <1>2. /\ \A k \in 1..Len(rows) : Left(rows[k]) /\ Backed(rows[k])
        /\ \A m \in DOMAIN side["inbox"] :
              side["inbox"][m] = Torn \/ side["inbox"][m].dated \/ m \in w[x].todo
    BY <1>0 DEF Stage
  <1>3. CASE n \in DOMAIN side["inbox"] /\ side["inbox"][n] # Torn /\ ~side["inbox"][n].dated
    <2>1. /\ side' = [side EXCEPT !["inbox"][n] = Torn]
          /\ w' = [w EXCEPT ![x] = [at |-> "date", id |-> w[x].id, todo |-> w[x].todo \ {n},
                                    name |-> n, found |-> side["inbox"][n]]]
      BY <1>3 DEF YearRead
    <2>2. /\ \A y \in Workers : y # x => w'[y] = w[y]
          /\ w'[x].at = "date" /\ w'[x].todo = w[x].todo \ {n} /\ w'[x].name = n
          /\ w'[x].found = side["inbox"][n]
      BY <1>0, <2>1
    <2>3. /\ side'["review"] = side["review"] /\ DOMAIN side'["inbox"] = DOMAIN side["inbox"]
          /\ side'["inbox"][n] = Torn
          /\ \A m \in DOMAIN side["inbox"] : m # n => side'["inbox"][m] = side["inbox"][m]
      BY <1>0, <1>3, <2>1
    <2>4. ASSUME NEW m, NEW u, Says(m, u)' PROVE Says(m, u)
      <3>1. CASE m \in DOMAIN side'["inbox"] /\ side'["inbox"][m] # Torn /\ side'["inbox"][m].urn = u
        BY <2>3, <3>1 DEF Says
      <3>2. CASE \E y \in Workers : w'[y].at = "date" /\ w'[y].name = m /\ w'[y].found.urn = u
        <4>1. PICK y \in Workers : w'[y].at = "date" /\ w'[y].name = m /\ w'[y].found.urn = u
          BY <3>2
        <4>2. CASE y = x
          BY <1>3, <2>2, <4>1, <4>2 DEF Says
        <4>3. CASE y # x
          BY <2>2, <4>1, <4>3 DEF Says
        <4> QED
          BY <4>2, <4>3
      <3> QED
        BY <2>4, <3>1, <3>2 DEF Says
    <2>5. OneEach'
      BY <2>4 DEF InOrder, OneEach
    <2>6. \A m \in Names \ {n} : Alike(m)
      BY <1>1, <2>3 DEF Alike
    <2>7. Orderly(rows)'
      <3>1. PICK L \in Logs : L = rows
        BY <1>0
      <3>2. ASSUME NEW k \in 1..Len(L), L[k].name = n PROVE Kept(L[k])'
        <4>1. Kept(L[k]) /\ ~Right(side["inbox"][n], L[k])
          BY <1>0, <1>3, <3>1 DEF Orderly, Right
        <4> QED
          BY <1>1, <2>3, <2>4, <3>2, <4>1, KeptDating
      <3>3. Orderly(L)'
        BY <1>0, <2>4, <2>6, <3>1, <3>2, OrderlyFrame
      <3> QED
        BY <1>1, <3>1, <3>3
    <2>8. ASSUME NEW k \in 1..Len(rows) PROVE Left(rows[k])' /\ Backed(rows[k])'
      <3>1. PICK r : r = rows[k]
        OBVIOUS
      <3>2. Left(r) /\ Backed(r)
        BY <1>2, <3>1
      <3>3. Left(r)'
        BY <1>1, <3>2 DEF Left, InInbox
      <3>4. Backed(r)'
        <4> SUFFICES ASSUME r.status = "registered", InInbox(r)'
                     PROVE  \/ r.name \in DOMAIN side'["inbox"] /\ Matches(side'["inbox"][r.name], r)
                            \/ \E y \in Workers : w'[y].at = "date" /\ w'[y].name = r.name
                                                  /\ Matches(w'[y].found, r)
          BY DEF Backed
        <4>1. r.name \in DOMAIN side["inbox"] /\ Matches(side["inbox"][r.name], r)
          BY <1>0, <1>1, <3>2, SaysAlone DEF InInbox
        <4>2. CASE r.name = n
          BY <2>2, <4>1, <4>2
        <4>3. CASE r.name # n
          BY <2>3, <4>1, <4>3
        <4> QED
          BY <4>2, <4>3
      <3> QED
        BY <1>1, <3>1, <3>3, <3>4
    <2>9. \A m \in DOMAIN side'["inbox"] :
             side'["inbox"][m] = Torn \/ side'["inbox"][m].dated \/ m \in w'[x].todo
      BY <1>2, <2>2, <2>3
    <2>10. Stage(w[x])'
      BY <1>1, <1>3, <2>2, <2>3, <2>8, <2>9 DEF Stage, HasLog, InLoop, Storing
    <2> QED
      BY <1>1, <2>2, <2>3, <2>5, <2>7, <2>10, InOrderStep, ValuesAssumption DEF InOrder
  <1>4. CASE ~(n \in DOMAIN side["inbox"] /\ side["inbox"][n] # Torn /\ ~side["inbox"][n].dated)
    <2>1. UNCHANGED side /\ w' = [w EXCEPT ![x].todo = @ \ {n}]
      BY <1>4 DEF YearRead
    <2>2. /\ \A y \in Workers : y # x => w'[y] = w[y]
          /\ w'[x].at = "year" /\ w'[x].todo = w[x].todo \ {n}
      BY <1>0, <2>1 DEF Dating
    <2>3. OneEach' /\ Orderly(rows)'
      BY <1>0, <1>1, <2>1, <2>2, OrderStill DEF InOrder
    <2>4. ASSUME NEW k \in 1..Len(rows) PROVE Left(rows[k])' /\ Backed(rows[k])'
      <3>1. Left(rows[k]) /\ Backed(rows[k])
        BY <1>2
      <3> QED
        BY <1>0, <1>1, <2>1, <3>1, SaysAlone DEF Left, Backed, InInbox
    <2>5. \A m \in DOMAIN side'["inbox"] :
             side'["inbox"][m] = Torn \/ side'["inbox"][m].dated \/ m \in w'[x].todo
      BY <1>2, <1>4, <2>1, <2>2
    <2>6. Stage(w[x])'
      BY <1>1, <2>2, <2>4, <2>5 DEF Stage, HasLog, InLoop, Storing
    <2> QED
      BY <1>1, <2>1, <2>2, <2>3, <2>6, InOrderStep, ValuesAssumption DEF InOrder
  <1> QED
    BY <1>3, <1>4

LEMMA YearWriteOrder ==
  ASSUME Sound, InOrder, NEW x \in Workers, Alone(x), YearWrite(x)
  PROVE  InOrder'
  <1>0. /\ Typed /\ rows \in Logs /\ w \in [Workers -> Jobs] /\ Stage(w[x]) /\ w[x] \in Writing
        /\ side["inbox"] \in Tables(Sidecars \union {Torn}) /\ Orderly(rows)
        /\ DOMAIN side = {"inbox", "review"} /\ w[x].at = "date"
    BY JobOf DEF Sound, Typed, InOrder, YearWrite
  <1> DEFINE n == w[x].name
             s == [w[x].found EXCEPT !.dated = TRUE]
  <1>1. UNCHANGED <<rows, files>> /\ answer' = None
    BY DEF YearWrite
  <1>2. /\ \A k \in 1..Len(rows) : Left(rows[k]) /\ Backed(rows[k])
        /\ \A m \in DOMAIN side["inbox"] :
              side["inbox"][m] = Torn \/ side["inbox"][m].dated \/ m \in w[x].todo
        /\ n \in DOMAIN side["inbox"] /\ side["inbox"][n] = Torn
    BY <1>0 DEF Stage
  <1>3. /\ s \in Sidecars /\ s # Torn /\ s.dated /\ s.urn = w[x].found.urn
        /\ s.sha = w[x].found.sha /\ n \in Names
    <2>1. w[x].found \in Sidecars /\ n \in Names
      BY <1>0 DEF Writing
    <2>2. s \in Sidecars /\ s.dated /\ s.urn = w[x].found.urn /\ s.sha = w[x].found.sha
      BY <2>1 DEF Sidecars
    <2> QED
      BY <2>1, <2>2, ValuesAssumption DEF Sidecars
  <1>4. /\ \A y \in Workers : y # x => w'[y] = w[y]
        /\ w'[x].at = "year" /\ w'[x].todo = w[x].todo
    BY <1>0 DEF YearWrite
  <1>5. side' = [side EXCEPT !["inbox"] = Put(@, n, s)]
    BY DEF YearWrite
  <1> HIDE DEF n, s
  <1>6. /\ side'["review"] = side["review"] /\ DOMAIN side'["inbox"] = DOMAIN side["inbox"]
        /\ side'["inbox"][n] = s
        /\ \A m \in DOMAIN side["inbox"] : m # n => side'["inbox"][m] = side["inbox"][m]
    <2>1. side'["review"] = side["review"] /\ side'["inbox"] = Put(side["inbox"], n, s)
      BY <1>0, <1>5
    <2> QED
      BY <1>2, <2>1 DEF Put
  <1>7. ASSUME NEW m, NEW u, Says(m, u)' PROVE Says(m, u)
    <2>1. CASE m \in DOMAIN side'["inbox"] /\ side'["inbox"][m] # Torn /\ side'["inbox"][m].urn = u
      <3>1. CASE m = n
        BY <1>0, <1>3, <1>6, <2>1, <3>1 DEF Says, n
      <3>2. CASE m # n
        BY <1>6, <2>1, <3>2 DEF Says
      <3> QED
        BY <3>1, <3>2
    <2>2. CASE \E y \in Workers : w'[y].at = "date" /\ w'[y].name = m /\ w'[y].found.urn = u
      BY <1>4, <2>2 DEF Says
    <2> QED
      BY <1>7, <2>1, <2>2 DEF Says
  <1>8. OneEach'
    BY <1>7 DEF InOrder, OneEach
  <1>9. \A m \in Names \ {n} : Alike(m)
    BY <1>1, <1>6 DEF Alike
  <1>10. Orderly(rows)'
    <2>1. PICK L \in Logs : L = rows
      BY <1>0
    <2>2. ASSUME NEW k \in 1..Len(L), L[k].name = n PROVE Kept(L[k])'
      <3>1. Kept(L[k]) /\ ~Right(side["inbox"][n], L[k])
        BY <1>0, <1>2, <2>1 DEF Orderly, Right, Matches
      <3> QED
        BY <1>1, <1>6, <1>7, <2>2, <3>1, KeptDating
    <2>3. Orderly(L)'
      BY <1>0, <1>7, <1>9, <2>1, <2>2, OrderlyFrame
    <2> QED
      BY <1>1, <2>1, <2>3
  <1>11. ASSUME NEW k \in 1..Len(rows) PROVE Left(rows[k])' /\ Backed(rows[k])'
    <2>1. PICK r : r = rows[k]
      OBVIOUS
    <2>2. Left(r) /\ Backed(r)
      BY <1>2, <2>1
    <2>3. Left(r)'
      BY <1>1, <2>2 DEF Left, InInbox
    <2>4. Backed(r)'
      <3> SUFFICES ASSUME r.status = "registered", InInbox(r)'
                   PROVE  r.name \in DOMAIN side'["inbox"] /\ Matches(side'["inbox"][r.name], r)
        BY DEF Backed
      <3>1. \/ r.name \in DOMAIN side["inbox"] /\ Matches(side["inbox"][r.name], r)
            \/ r.name = n /\ Matches(w[x].found, r)
        BY <1>1, <2>2 DEF Backed, InInbox, Alone, Idle, n
      <3>2. CASE r.name = n
        BY <1>2, <1>3, <1>6, <3>1, <3>2 DEF Matches
      <3>3. CASE r.name # n
        BY <1>6, <3>1, <3>3
      <3> QED
        BY <3>2, <3>3
    <2> QED
      BY <1>1, <2>1, <2>3, <2>4
  <1>12. \A m \in DOMAIN side'["inbox"] :
            side'["inbox"][m] = Torn \/ side'["inbox"][m].dated \/ m \in w'[x].todo
    BY <1>2, <1>3, <1>4, <1>6
  <1>13. Stage(w[x])'
    BY <1>1, <1>4, <1>11, <1>12 DEF Stage, HasLog, InLoop, Storing
  <1> QED
    BY <1>1, <1>4, <1>6, <1>8, <1>10, <1>13, InOrderStep, ValuesAssumption DEF InOrder

\* One ledger is another with one row marked.
SameBut(new, log, i) ==
    /\ new \in Logs /\ Len(new) = Len(log)
    /\ \A k \in 1..Len(log) : k # i => new[k] = log[k]
    /\ new[i].urn = log[i].urn /\ new[i].name = log[i].name /\ new[i].sha = log[i].sha

\* What pass may do to the status of a row that is so on disk.
Onward(i, status) ==
    /\ rows[i].status = "registered" => status \in {"registered", "review"}
    /\ rows[i].status = "review" => status = "review"

\* A step leaves what is under the names of the other rows.
OthersAlike(log, i) ==
    \A k \in 1..Len(log) : k # i /\ log[k].name \in Names => Alike(log[k].name)

\* A step brings no sidecar that can be read.
NoNews ==
    \A n \in DOMAIN side'["inbox"] :
        \/ side'["inbox"][n] = Torn
        \/ n \in DOMAIN side["inbox"] /\ side'["inbox"][n] = side["inbox"][n]

\* A row is marked: the others are as they were.
LEMMA MarkedOrder ==
  ASSUME NEW log \in Logs, NEW new, NEW i \in 1..Len(log), SameBut(new, log, i),
         log[i].status \notin {"duplicate", "citation-only"},
         Orderly(log)', Kept(new[i])'
  PROVE  Orderly(new)'
  <1>0. /\ new \in Logs /\ Len(new) = Len(log)
        /\ \A k \in 1..Len(log) : k # i => new[k] = log[k]
        /\ new[i].urn = log[i].urn /\ new[i].name = log[i].name
    BY DEF SameBut
  <1>1. \A k \in 1..Len(new) : Kept(new[k])'
    BY <1>0 DEF Orderly
  <1>2. Latest(new)
    <2> SUFFICES ASSUME NEW k \in 1..Len(new), NEW l \in 1..Len(new), k < l,
                        new[k].urn = new[l].urn
                 PROVE  new[k].status \in {"duplicate", "citation-only"}
      BY DEF Latest
    <2>1. log[k].urn = new[k].urn /\ log[l].urn = new[l].urn
      BY <1>0
    <2>2. log[k].status \in {"duplicate", "citation-only"}
      BY <1>0, <2>1 DEF Orderly, Latest
    <2> QED
      BY <1>0, <2>2
  <1>3. Named(new)
    <2>1. \A k \in 1..Len(new) : new[k].name = log[k].name
      BY <1>0
    <2> QED
      BY <1>0, <2>1 DEF Orderly, Named
  <1> QED
    BY <1>1, <1>2, <1>3 DEF Orderly, Latest, Named

\* The row a pass is at is the only one of its name, in its ledger and in the one on disk.
LEMMA SoleName ==
  ASSUME Sound, NEW log \in Logs, Orderly(log), Follows(log), NEW i \in 1..Len(log),
         log[i].name \in Names
  PROVE  /\ \A k \in 1..Len(log) : log[k].name = log[i].name => k = i
         /\ \A k \in 1..Len(rows) : rows[k].name = log[i].name => k = i
         /\ i \in 1..Len(rows) /\ Len(rows) = Len(log)
         /\ rows[i].urn = log[i].urn /\ rows[i].name = log[i].name /\ rows[i].sha = log[i].sha
  <1>1. \A k \in 1..Len(log) : log[k].name = log[i].name => k = i
    BY NamesAssumption DEF Orderly, Named
  <1> QED
    BY <1>1 DEF Follows

\* The row that provenance is at.
LEMMA AtRow ==
  ASSUME Sound, InOrder, NEW x \in Workers, NEW log, log = w[x].log, NEW i, i = w[x].i,
         \/ w[x].at = "provenance" /\ HasRow(x)
         \/ w[x].at \in {"unlink", "sidecar"}
  PROVE  /\ w[x] \in Providing /\ log \in Logs /\ i \in Places /\ i \in 1..Len(log)
         /\ Len(log) \in Nat /\ log[i] \in Rows /\ Current(x) = log[i]
         /\ Orderly(log) /\ Checking(w[x]) /\ Follows(log) /\ Seeing(w[x])
         /\ w[x].at # "unlink" => log[i].status \in {"acquired", "registered"}
         /\ w[x].at = "unlink" => log[i].status = "failed"
         /\ Stage(w[x])
  <1>1. w[x] \in Providing /\ Stage(w[x]) /\ w[x].i <= Len(w[x].log)
        /\ w[x].at \in {"provenance", "unlink", "sidecar"}
    BY JobOf DEF Sound, InOrder, HasRow, Placed, Fits
  <1>2. log \in Logs /\ i \in Places /\ Len(log) \in Nat /\ i \in 1..Len(log)
    BY <1>1 DEF Providing, Logs, Places
  <1>3. log[i] \in Rows /\ Current(x) = log[i]
    BY <1>2 DEF Logs, Current
  <1>4. Orderly(log) /\ Checking(w[x])
    BY <1>1 DEF Stage, HasLog, InLoop
  <1>5. Follows(log) /\ Seeing(w[x])
    BY <1>4 DEF Checking
  <1>6. /\ w[x].at # "unlink" => log[i].status \in {"acquired", "registered"}
        /\ w[x].at = "unlink" => log[i].status = "failed"
    BY <1>1 DEF Stage, Treats
  <1> QED
    BY <1>1, <1>2, <1>3, <1>4, <1>5, <1>6

\* A pass that touches what is under the name of its row: the other rows stay as they are.
LEMMA RowsStep ==
  ASSUME Sound, InOrder, NEW log \in Logs, Orderly(log), Follows(log), NEW i \in 1..Len(log),
         log[i].name \in Names, rows' = rows,
         \A m \in Names \ {log[i].name} : Alike(m),
         \A n, u : Says(n, u)' => Says(n, u),
         Kept(log[i])', Kept(rows[i])'
  PROVE  Orderly(log)' /\ Orderly(rows)'
  <1>0. Typed /\ rows \in Logs /\ Orderly(rows)
    BY DEF Sound, Typed, InOrder
  <1>1. /\ \A k \in 1..Len(log) : log[k].name = log[i].name => k = i
        /\ \A k \in 1..Len(rows) : rows[k].name = log[i].name => k = i
    BY SoleName
  <1>2. Orderly(log)'
    BY <1>0, <1>1, OrderlyFrame
  <1>3. Orderly(rows)'
    <2>1. PICK L \in Logs : L = rows
      BY <1>0
    <2>2. Kept(L[i])'
      BY <2>1
    <2>3. Orderly(L)'
      BY <1>0, <1>1, <2>1, <2>2, OrderlyFrame
    <2> QED
      BY <2>1, <2>3
  <1> QED
    BY <1>2, <1>3

LEMMA BackedFrame ==
  ASSUME Typed, Typed', NEW x \in Workers, Alone(x), w[x].at # "date", NEW r,
         r.name \in Names => Alike(r.name)
  PROVE  /\ Left(r) => Left(r)'
         /\ Backed(r) => Backed(r)'
  <1>1. DOMAIN files'["inbox"] \subseteq Names
    BY TableFacts DEF Typed, Folders
  <1>2. InInbox(r)' => InInbox(r) /\ r.name \in Names
    BY <1>1 DEF InInbox, Alike
  <1>3. Left(r) => Left(r)'
    BY <1>2 DEF Left
  <1>4. Backed(r) => Backed(r)'
    <2> SUFFICES ASSUME Backed(r), r.status = "registered", InInbox(r)'
                 PROVE  r.name \in DOMAIN side'["inbox"] /\ Matches(side'["inbox"][r.name], r)
      BY DEF Backed
    <2>1. r.name \in DOMAIN side["inbox"] /\ Matches(side["inbox"][r.name], r)
      BY <1>2, SaysAlone
    <2> QED
      BY <1>2, <2>1 DEF Alike
  <1> QED
    BY <1>3, <1>4

LEMMA NextAfter ==
  ASSUME NEW pass, NEW log \in Logs, NEW i \in 1..Len(log)
  PROVE  /\ NextIndex(pass, log, i) \in Nat /\ NextIndex(pass, log, i) > i
         /\ NextIndex(pass, log, i) >= i /\ NextIndex(pass, log, i) \in Places
         /\ \A k \in (i + 1)..Len(log) :
               log[k].status \in Treats(pass) => NextIndex(pass, log, i) <= k
         /\ NextIndex(pass, log, i) <= Len(log) =>
               log[NextIndex(pass, log, i)].status \in Treats(pass)
  <1>1. Len(log) \in Nat /\ i \in Nat
    BY DEF Logs
  <1> DEFINE n == NextIndex(pass, log, i)
  <1>2. /\ n \in Places
        /\ i < n \/ n = Len(log) + 1
        /\ \A k \in (i + 1)..Len(log) : log[k].status \in Treats(pass) => n <= k
        /\ n <= Len(log) => log[n].status \in Treats(pass)
    BY <1>1, NextIndexType
  <1> HIDE DEF n
  <1>3. n \in Nat /\ n > i /\ n >= i
    BY <1>1, <1>2 DEF Places
  <1> QED
    BY <1>2, <1>3 DEF n

LEMMA MarkRow ==
  ASSUME NEW x \in Workers, NEW log \in Logs, log = w[x].log, NEW i \in 1..Len(log), i = w[x].i,
         NEW status \in Statuses, NEW new, new = Marked(x, status)
  PROVE  /\ SameBut(new, log, i) /\ new \in Logs /\ Len(new) = Len(log) /\ i \in 1..Len(new)
         /\ new[i].urn = log[i].urn /\ new[i].name = log[i].name /\ new[i].sha = log[i].sha
         /\ new[i].status = status
  <1>1. Len(log) \in Nat /\ i \in Nat /\ i <= Len(log) /\ i \in Places /\ log[i] \in Rows
    BY DEF Logs, Places
  <1>2. /\ new \in Logs /\ Len(new) = Len(log)
        /\ new[i] = [Current(x) EXCEPT !.status = status] /\ Current(x) = log[i]
        /\ \A k \in 1..Len(log) : k # i => new[k] = log[k]
    <2>1. Current(x) = log[i]
      BY DEF Current
    <2> QED
      BY <1>1, <2>1, MarkedType
  <1>3. /\ new[i].urn = log[i].urn /\ new[i].name = log[i].name /\ new[i].sha = log[i].sha
        /\ new[i].status = status
    BY <1>1, <1>2 DEF Rows
  <1> QED
    BY <1>2, <1>3 DEF SameBut

LEMMA CheckOn ==
  ASSUME Sound, Sound', NEW x \in Workers, Alone(x), w[x].at # "date",
         NEW log \in Logs, log = w[x].log, NEW i \in 1..Len(log), i = w[x].i,
         Checking(w[x]), Orderly(log), rows' = rows,
         NEW new, w'[x].log = new, SameBut(new, log, i), Onward(i, new[i].status),
         w'[x].i = i \/ /\ w'[x].i = NextIndex("provenance", new, i)
                        /\ Left(new[i])' /\ Backed(new[i])',
         OthersAlike(log, i), Seeing(w[x])'
  PROVE  /\ Checking(w[x])'
         /\ w'[x].i = NextIndex("provenance", new, i) /\ w'[x].i <= Len(new) =>
               new[w'[x].i].status \in Treats("provenance")
  <1>0. Typed /\ Typed' /\ Len(log) \in Nat /\ i \in Nat
        /\ new \in Logs /\ Len(new) = Len(log)
        /\ \A k \in 1..Len(log) : k # i => new[k] = log[k]
    BY DEF Sound, Logs, SameBut
  <1>1. Follows(log)
    BY DEF Checking
  <1>2. Follows(new)'
    BY <1>1 DEF Follows, SameBut, Onward
  <1>3. /\ \A k \in (i + 1)..Len(new) :
              new[k].status \in Treats("provenance") => NextIndex("provenance", new, i) <= k
        /\ NextIndex("provenance", new, i) \in Nat
        /\ NextIndex("provenance", new, i) <= Len(new) =>
              new[NextIndex("provenance", new, i)].status \in Treats("provenance")
    BY <1>0, NextIndexType DEF Places
  <1>4. ASSUME NEW k \in 1..Len(new), k < w'[x].i PROVE Left(new[k])' /\ Backed(new[k])'
    <2>1. CASE k < i
      <3>1. Left(log[k]) /\ Backed(log[k]) /\ new[k] = log[k]
        BY <1>0, <2>1 DEF Checking
      <3>2. log[k].name \in Names => Alike(log[k].name)
        BY <1>0, <2>1 DEF OthersAlike
      <3> QED
        BY <1>0, <3>1, <3>2, BackedFrame
    <2>2. CASE k = i
      BY <1>0, <1>4, <2>2
    <2>3. CASE k > i
      <3>1. new[k].status \notin Treats("provenance")
        BY <1>0, <1>3, <1>4, <2>3
      <3> QED
        BY <3>1 DEF Treats, Left, Backed
    <2> QED
      BY <1>0, <2>1, <2>2, <2>3
  <1> QED
    BY <1>2, <1>3, <1>4 DEF Checking

\* What is seen stays so while sidecars and names go.
LEMMA SeeOn ==
  ASSUME NEW x \in Workers, Seeing(w[x]), NEW log \in Logs, log = w[x].log,
         NEW i \in 1..Len(log), i = w[x].i,
         NEW new, w'[x].log = new, SameBut(new, log, i),
         w'[x].i \in Nat, w'[x].i >= i,
         w'[x].i > i \/ new[i].status # "registered" \/ new[i] = log[i],
         w'[x].seen = w[x].seen,
         NoNews, \A n : Live(n)' => Live(n),
         DOMAIN files'["inbox"] \subseteq DOMAIN files["inbox"]
  PROVE  Seeing(w[x])'
  <1>0. Len(log) \in Nat /\ i \in Nat /\ Len(new) = Len(log)
        /\ \A k \in 1..Len(log) : k # i => new[k] = log[k]
    BY DEF Logs, SameBut
  <1>1. \A n \in DOMAIN side'["inbox"] :
           side'["inbox"][n] # Torn => <<side'["inbox"][n].urn, n>> \in w'[x].seen
    BY DEF Seeing, NoNews
  <1>2. \A u \in Urns, n, m \in Names :
          <<u, n>> \in w'[x].seen /\ <<u, m>> \in w'[x].seen /\ Live(n)' /\ Live(m)' => n = m
    BY DEF Seeing
  <1>3. ASSUME NEW k \in 1..Len(new), k >= w'[x].i, new[k].status = "registered",
               InInbox(new[k])', NEW n \in Names, <<new[k].urn, n>> \in w'[x].seen
        PROVE  n = new[k].name
    <2>1. k \in 1..Len(log) /\ k >= i /\ new[k] = log[k]
      BY <1>0, <1>3
    <2>2. InInbox(log[k])
      BY <1>3, <2>1 DEF InInbox
    <2> QED
      BY <1>3, <2>1, <2>2 DEF Seeing
  <1> QED
    BY <1>1, <1>2, <1>3 DEF Seeing

\* Provenance goes on to its next row: what is to be shown of the step.
LEMMA PassOverOrder ==
  ASSUME Sound, Sound', InOrder, NEW x \in Workers, Alone(x), PassOver(x)
  PROVE  InOrder'
  <1>1. PICK log : log = w[x].log
    OBVIOUS
  <1>2. PICK i : i = w[x].i
    OBVIOUS
  <1>3. w[x].at = "provenance" /\ HasRow(x) /\ log[i].name \notin DOMAIN files["inbox"]
    BY <1>1, <1>2 DEF PassOver, Current
  <1>4. /\ w[x] \in Providing /\ log \in Logs /\ i \in Places /\ i \in 1..Len(log)
        /\ Len(log) \in Nat /\ log[i] \in Rows
        /\ Orderly(log) /\ Checking(w[x]) /\ Follows(log) /\ Seeing(w[x])
    BY <1>1, <1>2, <1>3, AtRow
  <1>5. UNCHANGED <<rows, files, side>> /\ answer' = None
    BY DEF PassOver
  <1>6. /\ \A y \in Workers : y # x => w'[y] = w[y]
        /\ w'[x].at = "provenance" /\ w'[x].log = log
        /\ w'[x].i = NextIndex("provenance", log, i) /\ w'[x].seen = w[x].seen
    <2>1. NextRow(x, log) /\ w[x].job = "provenance"
      BY <1>1, <1>4 DEF PassOver, Providing
    <2> QED
      BY <1>1, <1>2, <1>3, <1>4, <2>1, NextRowStep
  <1>7. NextIndex("provenance", log, i) \in Nat /\ NextIndex("provenance", log, i) > i
    BY <1>4, NextAfter
  <1>8. OneEach' /\ Orderly(rows)' /\ Orderly(log)'
    <2>1. Typed /\ rows \in Logs
      BY DEF Sound, Typed
    <2> QED
      BY <1>4, <1>5, <1>6, <2>1, OrderStill DEF InOrder
  <1>9. OthersAlike(log, i)
    BY <1>5 DEF Alike, OthersAlike
  <1>10. Seeing(w[x])'
    <2>1. \A n : Live(n)' => Live(n)
      BY <1>5 DEF Live
    <2>2. NoNews /\ SameBut(log, log, i) /\ DOMAIN files'["inbox"] = DOMAIN files["inbox"]
      BY <1>4, <1>5 DEF NoNews, SameBut
    <2>3. w'[x].i > i /\ w'[x].i \in Nat /\ w'[x].i >= i
      BY <1>4, <1>6, <1>7
    <2> QED
      BY <1>1, <1>2, <1>4, <1>6, <2>1, <2>2, <2>3, SeeOn
  <1>11. Left(log[i])' /\ Backed(log[i])'
    BY <1>3, <1>5 DEF Left, Backed, InInbox
  <1>12. Onward(i, log[i].status) /\ SameBut(log, log, i)
    BY <1>4 DEF Follows, Onward, SameBut
  <1>13. /\ Checking(w[x])'
         /\ w'[x].i <= Len(log) => log[w'[x].i].status \in Treats("provenance")
    BY <1>1, <1>2, <1>3, <1>4, <1>5, <1>6, <1>9, <1>10, <1>11, <1>12, CheckOn
  <1>14. Stage(w[x])'
    BY <1>6, <1>8, <1>13 DEF Stage
  <1> QED
    BY <1>5, <1>6, <1>8, <1>14, InOrderStep, ValuesAssumption DEF InOrder

LEMMA KeepSidecarOrder ==
  ASSUME Sound, Sound', InOrder, NEW x \in Workers, Alone(x), KeepSidecar(x)
  PROVE  InOrder'
  <1>1. PICK log : log = w[x].log
    OBVIOUS
  <1>2. PICK i : i = w[x].i
    OBVIOUS
  <1>3. /\ w[x].at = "provenance" /\ HasRow(x) /\ log[i].name \in DOMAIN files["inbox"]
        /\ files["inbox"][log[i].name] = log[i].sha /\ log[i].sha \notin Broken
        /\ log[i].name \in DOMAIN side["inbox"] /\ Matches(side["inbox"][log[i].name], log[i])
    <2>1. Current(x) = log[i]
      BY <1>1, <1>2 DEF Current
    <2> QED
      BY <2>1 DEF KeepSidecar, ToCheck, Refused, Bytes, HasSidecar
  <1>4. /\ w[x] \in Providing /\ log \in Logs /\ i \in Places /\ i \in 1..Len(log)
        /\ Len(log) \in Nat /\ log[i] \in Rows /\ Current(x) = log[i]
        /\ Orderly(log) /\ Checking(w[x]) /\ Follows(log) /\ Seeing(w[x])
        /\ log[i].status \in {"acquired", "registered"}
    <2>1. w[x].at = "provenance" /\ HasRow(x)
      BY <1>3
    <2> QED
      BY <1>1, <1>2, <2>1, AtRow
  <1>5. UNCHANGED <<rows, files, side>> /\ answer' = None
    BY DEF KeepSidecar
  <1>6. PICK new : new = Marked(x, "registered")
    OBVIOUS
  <1>7. /\ SameBut(new, log, i) /\ new \in Logs /\ Len(new) = Len(log) /\ i \in 1..Len(new)
        /\ new[i].urn = log[i].urn /\ new[i].name = log[i].name /\ new[i].sha = log[i].sha
        /\ new[i].status = "registered"
    <2>1. "registered" \in Statuses
      BY DEF Statuses
    <2> QED
      BY <1>1, <1>2, <1>4, <1>6, <2>1, MarkRow
  <1>9. /\ \A y \in Workers : y # x => w'[y] = w[y]
        /\ w'[x].at = "provenance" /\ w'[x].log = new
        /\ w'[x].i = NextIndex("provenance", new, i) /\ w'[x].seen = w[x].seen
    <2>1. NextRow(x, new) /\ w[x].job = "provenance"
      BY <1>4, <1>6 DEF KeepSidecar, Providing
    <2>2. Len(new) = Len(w[x].log) /\ new \in Logs /\ w[x].at = "provenance"
          /\ w[x] \in Providing
      BY <1>1, <1>3, <1>4, <1>7
    <2>3. /\ \A y \in Workers : y # x => w'[y] = w[y]
          /\ w'[x].at = w[x].at /\ w'[x].log = new
          /\ w'[x].i = NextIndex(w[x].job, new, w[x].i) /\ w'[x].seen = w[x].seen
      BY <2>1, <2>2, NextRowStep
    <2> QED
      BY <1>2, <1>3, <2>1, <2>3
  <1>10. NextIndex("provenance", new, i) \in Nat /\ NextIndex("provenance", new, i) > i
    <2>1. i \in 1..Len(new)
      BY <1>4, <1>7
    <2> QED
      BY <1>7, <2>1, NextAfter
  <1>11. OneEach' /\ Orderly(rows)' /\ Orderly(log)' /\ \A n, u : Says(n, u)' => Says(n, u)
    <2>1. Typed /\ rows \in Logs
      BY DEF Sound, Typed
    <2> QED
      BY <1>4, <1>5, <1>9, <2>1, OrderStill DEF InOrder
  <1>12. Kept(new[i])'
    <2>1. Says(log[i].name, log[i].urn)
      BY <1>3 DEF Says, Matches
    <2>2. log[i].name \in Names /\ log[i].urn \in Urns
      <3>1. DOMAIN files["inbox"] \subseteq Names
        BY TableFacts DEF Sound, Typed, Folders
      <3> QED
        BY <1>3, <1>4, <3>1 DEF Rows
    <2>3. \A n \in Names : Says(n, log[i].urn)' => n = log[i].name
      BY <1>11, <2>1, <2>2 DEF InOrder, OneEach
    <2> QED
      BY <1>3, <1>5, <1>7, <2>3 DEF Kept, InInbox, Held
  <1>13. Orderly(new)'
    BY <1>4, <1>7, <1>11, <1>12, MarkedOrder
  <1>14. OthersAlike(log, i)
    BY <1>5 DEF Alike, OthersAlike
  <1>15. Seeing(w[x])'
    <2>1. \A n : Live(n)' => Live(n)
      BY <1>5 DEF Live
    <2>2. NoNews /\ DOMAIN files'["inbox"] = DOMAIN files["inbox"]
      BY <1>5 DEF NoNews
    <2>3. w'[x].i > i /\ w'[x].i \in Nat /\ w'[x].i >= i
      BY <1>4, <1>9, <1>10
    <2> QED
      BY <1>1, <1>2, <1>4, <1>7, <1>9, <2>1, <2>2, <2>3, SeeOn
  <1>16. Left(new[i])' /\ Backed(new[i])'
    BY <1>3, <1>5, <1>7 DEF Left, Backed, InInbox, Matches
  <1>17. Onward(i, new[i].status)
    BY <1>4, <1>7 DEF Follows, Onward
  <1>18. /\ Checking(w[x])'
         /\ w'[x].i <= Len(new) => new[w'[x].i].status \in Treats("provenance")
    <2>1. w[x].at # "date" /\ rows' = rows
      BY <1>3, <1>5
    <2>2. w'[x].i = NextIndex("provenance", new, i) /\ Left(new[i])' /\ Backed(new[i])'
      BY <1>9, <1>16
    <2>5. /\ log \in Logs /\ log = w[x].log /\ i \in 1..Len(log) /\ i = w[x].i
          /\ Checking(w[x]) /\ Orderly(log) /\ w'[x].log = new
      BY <1>1, <1>2, <1>4, <1>9
    <2> QED
      BY <1>7, <1>14, <1>15, <1>17, <2>1, <2>2, <2>5, CheckOn
  <1>19. Stage(w[x])'
    BY <1>9, <1>13, <1>18 DEF Stage
  <1> QED
    BY <1>5, <1>9, <1>11, <1>19, InOrderStep, ValuesAssumption DEF InOrder

\* A registered row is neither refused nor collapsed.
LEMMA NotHeld ==
  ASSUME Sound, InOrder, NEW x \in Workers, ToCheck(x), NEW log, log = w[x].log,
         NEW i, i = w[x].i,
         Refused(x) \/ Claimants(x) \ {Current(x).name} # {}
  PROVE  /\ log[i].status = "acquired"
         /\ rows[i].status \notin {"registered", "review"}
         /\ log[i].name \in Names
  <1>1. w[x].at = "provenance" /\ HasRow(x)
    BY DEF ToCheck
  <1>2. /\ w[x] \in Providing /\ log \in Logs /\ i \in Places /\ i \in 1..Len(log)
        /\ Current(x) = log[i] /\ Orderly(log) /\ Follows(log) /\ Seeing(w[x])
        /\ log[i].status \in {"acquired", "registered"}
    BY <1>1, AtRow
  <1>3. DOMAIN files["inbox"] \subseteq Names /\ DOMAIN side["inbox"] \subseteq Names
    BY TableFacts DEF Sound, Typed, Folders
  <1>4. log[i].status # "registered"
    <2> SUFFICES ASSUME log[i].status = "registered" PROVE FALSE
      OBVIOUS
    <2>1. InInbox(log[i]) /\ Held(log[i])
      <3>1. Kept(log[i])
        BY <1>2 DEF Orderly
      <3>2. InInbox(log[i])
        BY <1>2 DEF ToCheck, InInbox
      <3> QED
        BY <3>1, <3>2 DEF Kept
    <2>2. CASE Refused(x)
      BY <1>2, <2>1, <2>2 DEF Refused, Bytes, Held
    <2>3. CASE Claimants(x) \ {Current(x).name} # {}
      <3>1. PICK n \in Names : <<log[i].urn, n>> \in w[x].seen /\ n # log[i].name
        BY <1>2, <1>3, <2>3 DEF Claimants
      <3>2. i >= w[x].i
        BY <1>2 DEF Places
      <3> QED
        BY <1>2, <2>1, <3>1, <3>2 DEF Seeing
    <2> QED
      BY <2>2, <2>3
  <1>5. log[i].status = "acquired" /\ log[i].name \in Names
    BY <1>2, <1>3, <1>4 DEF ToCheck
  <1>6. i \in 1..Len(rows) /\ rows[i].status \notin {"registered", "review"}
    BY <1>2, <1>5 DEF Follows
  <1> QED
    BY <1>5, <1>6

\* Marking a row does not change which one comes after it.
LEMMA NextSame ==
  ASSUME NEW pass, NEW log \in Logs, NEW i \in 1..Len(log), NEW new, SameBut(new, log, i)
  PROVE  NextIndex(pass, new, i) = NextIndex(pass, log, i)
  <1>1. Len(log) \in Nat /\ Len(new) = Len(log) /\ \A k \in (i + 1)..Len(log) : new[k] = log[k]
    BY DEF Logs, SameBut
  <1> DEFINE after == {j \in i + 1 .. Len(new) : new[j].status \in Treats(pass)}
             more == {j \in i + 1 .. Len(log) : log[j].status \in Treats(pass)}
             to(l, S) == IF S = {} THEN Len(l) + 1 ELSE CHOOSE j \in S : \A k \in S : j <= k
  <1>3. NextIndex(pass, log, i) = to(log, more)
    BY DEF NextIndex
  <1>4. NextIndex(pass, new, i) = to(new, after)
    BY DEF NextIndex
  <1>5. after = more
    BY <1>1
  <1> HIDE DEF more, after
  <1> QED
    BY <1>1, <1>3, <1>4, <1>5

\* The provenance pass is done with a row, or has a sidecar to remove or to write for it.
ChecksOn(x, log, new, i) ==
  \/ /\ w'[x].at = "provenance" /\ w'[x].i = NextIndex("provenance", new, i)
     /\ Left(new[i])' /\ Backed(new[i])'
  \/ w'[x].at = "unlink" /\ w'[x].i = i /\ new[i].status = "failed"
  \/ /\ w'[x].at = "sidecar" /\ w'[x].i = i /\ new = log /\ Opened(w[x])'
     /\ log[i].status \in Treats("provenance")

\* Provenance has touched what is under the name of its row, and brings no sidecar that can
\* be read: what is to be shown of the step.
LEMMA ProvenanceOn ==
  ASSUME Sound, Sound', InOrder, NEW x \in Workers, Alone(x), w[x].at # "date",
         NEW log \in Logs, log = w[x].log, NEW i \in 1..Len(log), i = w[x].i,
         Orderly(log), Checking(w[x]), log[i].name \in Names,
         log[i].status \notin {"duplicate", "citation-only"},
         rows' = rows, answer' = None,
         \A y \in Workers : y # x => w'[y] = w[y],
         NEW new, w'[x].log = new, SameBut(new, log, i), Onward(i, new[i].status),
         w'[x].seen = w[x].seen,
         ChecksOn(x, log, new, i),
         \A m \in Names \ {log[i].name} : Alike(m),
         NoNews, \A n : Live(n)' => Live(n),
         DOMAIN files'["inbox"] \subseteq DOMAIN files["inbox"],
         (DOMAIN side["review"] \subseteq DOMAIN files["review"])',
         Kept(log[i])', Kept(rows[i])', Kept(new[i])'
  PROVE  InOrder'
  <1>1. new \in Logs /\ Len(new) = Len(log) /\ i \in 1..Len(new) /\ i \in Nat /\ Len(log) \in Nat
    BY DEF SameBut, Logs
  <1>2. w'[x].at # "date"
    BY DEF ChecksOn
  <1>3. (\A n, u : Says(n, u)' => Says(n, u)) /\ (OneEach => OneEach')
    BY <1>2, SaysLess DEF NoNews
  <1>4. Follows(log) /\ Seeing(w[x])
    BY DEF Checking
  <1>5. Orderly(log)' /\ Orderly(rows)'
    BY <1>3, <1>4, RowsStep
  <1>6. Orderly(new)'
    BY <1>5, MarkedOrder
  <1>7. OthersAlike(log, i)
    <2>1. \A k \in 1..Len(log) : log[k].name = log[i].name => k = i
      BY <1>4, SoleName
    <2> QED
      BY <2>1 DEF OthersAlike
  <1>8. NextIndex("provenance", new, i) \in Nat /\ NextIndex("provenance", new, i) > i
    BY <1>1, NextAfter
  <1>9. Seeing(w[x])'
    <2>1. w'[x].i \in Nat /\ w'[x].i >= i
      BY <1>1, <1>8 DEF ChecksOn
    <2>2. w'[x].i > i \/ new[i].status # "registered" \/ new[i] = log[i]
      BY <1>8 DEF ChecksOn
    <2> QED
      BY <1>4, <2>1, <2>2, SeeOn
  <1>10. /\ Checking(w[x])'
         /\ w'[x].i = NextIndex("provenance", new, i) /\ w'[x].i <= Len(new) =>
               new[w'[x].i].status \in Treats("provenance")
    <2>1. w'[x].i = i \/ /\ w'[x].i = NextIndex("provenance", new, i)
                         /\ Left(new[i])' /\ Backed(new[i])'
      BY DEF ChecksOn
    <2> QED
      BY <1>7, <1>9, <2>1, CheckOn
  <1>11. Stage(w[x])'
    <2>1. CASE w'[x].at = "provenance" /\ w'[x].i = NextIndex("provenance", new, i)
      BY <1>6, <1>10, <2>1 DEF Stage
    <2>2. CASE w'[x].at = "unlink" /\ w'[x].i = i /\ new[i].status = "failed"
      BY <1>6, <1>10, <2>2 DEF Stage
    <2>3. CASE /\ w'[x].at = "sidecar" /\ w'[x].i = i /\ new = log /\ Opened(w[x])'
               /\ log[i].status \in Treats("provenance")
      BY <1>6, <1>10, <2>3 DEF Stage
    <2> QED
      BY <2>1, <2>2, <2>3 DEF ChecksOn
  <1>12. OneEach'
    BY <1>3 DEF InOrder
  <1>13. (answer = "complete" => Truth)'
    BY ValuesAssumption
  <1> QED
    BY <1>5, <1>11, <1>12, <1>13, InOrderStep

\* A file moves out of the inbox, to a folder that no row in order looks into.
LEMMA MoveAway ==
  ASSUME Typed, NEW name \in DOMAIN files["inbox"], NEW to \in {"failed", "duplicates"},
         Move(name, "inbox", to), side' = side
  PROVE  /\ name \in Names /\ name \notin DOMAIN files'["inbox"]
         /\ DOMAIN files'["inbox"] \subseteq DOMAIN files["inbox"]
         /\ files'["review"] = files["review"]
         /\ \A m \in Names \ {name} : Alike(m)
         /\ NoNews /\ \A n : Live(n)' => Live(n)
  <1>1. /\ files'["inbox"] = Drop(files["inbox"], name)
        /\ files'["review"] = files["review"]
    BY MoveFacts DEF Folders
  <1>2. files["inbox"] \in Tables(Docs)
    BY DEF Typed, Folders
  <1>3. /\ DOMAIN files'["inbox"] = DOMAIN files["inbox"] \ {name} /\ name \in Names
        /\ \A y \in DOMAIN files["inbox"] : y # name => files'["inbox"][y] = files["inbox"][y]
    <2>1. DOMAIN files["inbox"] \subseteq Names
      BY <1>2, TableFacts
    <2> QED
      BY <1>1, <2>1 DEF Drop, Restrict
  <1> QED
    BY <1>1, <1>3 DEF Alike, NoNews, Live

LEMMA QuarantineOrder ==
  ASSUME Sound, Sound', InOrder, NEW x \in Workers, Alone(x), Quarantine(x)
  PROVE  InOrder'
  <1>1. PICK log : log = w[x].log
    OBVIOUS
  <1>2. PICK i : i = w[x].i
    OBVIOUS
  <1>3. w[x].at = "provenance" /\ HasRow(x) /\ ToCheck(x) /\ Refused(x)
    BY DEF Quarantine, ToCheck
  <1>4. /\ w[x] \in Providing /\ log \in Logs /\ i \in Places /\ i \in 1..Len(log)
        /\ Current(x) = log[i] /\ Orderly(log) /\ Checking(w[x]) /\ Follows(log)
    BY <1>1, <1>2, <1>3, AtRow
  <1>5. /\ log[i].status = "acquired" /\ log[i].name \in Names
        /\ rows[i].status \notin {"registered", "review"}
    BY <1>1, <1>2, <1>3, NotHeld
  <1>6. PICK new : new = Marked(x, "failed")
    OBVIOUS
  <1>7. /\ SameBut(new, log, i) /\ new[i].status = "failed" /\ new \in Logs
        /\ new[i].name = log[i].name
    <2>1. "failed" \in Statuses
      BY DEF Statuses
    <2> QED
      BY <1>1, <1>2, <1>4, <1>6, <2>1, MarkRow
  <1>8. /\ \A y \in Workers : y # x => w'[y] = w[y]
        /\ w'[x].at = "unlink" /\ w'[x].i = i /\ w'[x].log = new /\ w'[x].seen = w[x].seen
    <2>1. w' = [w EXCEPT ![x].at = "unlink", ![x].moved = TRUE, ![x].log = new]
      BY <1>6 DEF Quarantine
    <2>2. w \in [Workers -> Jobs]
      BY DEF Sound, Typed
    <2> QED
      BY <1>2, <1>4, <2>1, <2>2 DEF Providing
  <1>9. UNCHANGED <<rows, side>> /\ answer' = None /\ Move(log[i].name, "inbox", "failed")
        /\ log[i].name \in DOMAIN files["inbox"]
    BY <1>3, <1>4 DEF Quarantine, ToCheck
  <1>10. /\ log[i].name \notin DOMAIN files'["inbox"]
         /\ DOMAIN files'["inbox"] \subseteq DOMAIN files["inbox"]
         /\ files'["review"] = files["review"]
         /\ \A m \in Names \ {log[i].name} : Alike(m)
         /\ NoNews /\ \A n : Live(n)' => Live(n)
    BY <1>9, MoveAway DEF Sound
  <1>11. Kept(log[i])' /\ Kept(rows[i])' /\ Kept(new[i])'
    BY <1>5, <1>7, <1>9 DEF Kept
  <1>12. Onward(i, new[i].status)
    BY <1>5 DEF Onward
  <1>13. (DOMAIN side["review"] \subseteq DOMAIN files["review"])'
    BY <1>9, <1>10 DEF InOrder
  <1>14. w[x].at # "date" /\ log[i].status \notin {"duplicate", "citation-only"}
    <2>1. w[x].at = "provenance" /\ log[i].status = "acquired"
      BY <1>3, <1>5
    <2> QED
      BY <2>1
  <1> QED
    <2>1. ChecksOn(x, log, new, i)
      BY <1>7, <1>8 DEF ChecksOn
    <2> QED
      BY <1>1, <1>2, <1>4, <1>5, <1>7, <1>8, <1>9, <1>10, <1>11, <1>12, <1>13, <1>14, <2>1,
         ProvenanceOn

LEMMA CollapseOrder ==
  ASSUME Sound, Sound', InOrder, NEW x \in Workers, Alone(x), Collapse(x)
  PROVE  InOrder'
  <1>1. PICK log : log = w[x].log
    OBVIOUS
  <1>2. PICK i : i = w[x].i
    OBVIOUS
  <1>3. w[x].at = "provenance" /\ HasRow(x) /\ ToCheck(x)
        /\ Claimants(x) \ {Current(x).name} # {}
    BY DEF Collapse, ToCheck
  <1>4. /\ w[x] \in Providing /\ log \in Logs /\ i \in Places /\ i \in 1..Len(log)
        /\ Current(x) = log[i] /\ Orderly(log) /\ Checking(w[x]) /\ Follows(log)
    BY <1>1, <1>2, <1>3, AtRow
  <1>5. /\ log[i].status = "acquired" /\ log[i].name \in Names
        /\ rows[i].status \notin {"registered", "review"}
    BY <1>1, <1>2, <1>3, NotHeld
  <1>6. PICK new : new = Marked(x, "duplicate")
    OBVIOUS
  <1>7. /\ SameBut(new, log, i) /\ new[i].status = "duplicate" /\ new \in Logs
        /\ new[i].name = log[i].name
    <2>1. "duplicate" \in Statuses
      BY DEF Statuses
    <2> QED
      BY <1>1, <1>2, <1>4, <1>6, <2>1, MarkRow
  <1>8. /\ \A y \in Workers : y # x => w'[y] = w[y]
        /\ w'[x].at = "provenance" /\ w'[x].log = new /\ w'[x].seen = w[x].seen
        /\ w'[x].i = NextIndex("provenance", log, i)
    <2>1. w' = [w EXCEPT ![x].moved = TRUE, ![x].log = new,
                         ![x].i = NextIndex("provenance", w[x].log, @)]
      BY <1>6 DEF Collapse
    <2>2. w \in [Workers -> Jobs]
      BY DEF Sound, Typed
    <2> QED
      BY <1>1, <1>2, <1>3, <1>4, <2>1, <2>2 DEF Providing
  <1>9. UNCHANGED <<rows, side>> /\ answer' = None /\ Move(log[i].name, "inbox", "duplicates")
        /\ log[i].name \in DOMAIN files["inbox"]
    BY <1>3, <1>4 DEF Collapse, ToCheck
  <1>10. /\ log[i].name \notin DOMAIN files'["inbox"]
         /\ DOMAIN files'["inbox"] \subseteq DOMAIN files["inbox"]
         /\ files'["review"] = files["review"]
         /\ \A m \in Names \ {log[i].name} : Alike(m)
         /\ NoNews /\ \A n : Live(n)' => Live(n)
    BY <1>9, MoveAway DEF Sound
  <1>11. Kept(log[i])' /\ Kept(rows[i])' /\ Kept(new[i])'
    BY <1>5, <1>7, <1>9 DEF Kept
  <1>12. Onward(i, new[i].status)
    BY <1>5 DEF Onward
  <1>13. (DOMAIN side["review"] \subseteq DOMAIN files["review"])'
    BY <1>9, <1>10 DEF InOrder
  <1>14. w[x].at # "date" /\ log[i].status \notin {"duplicate", "citation-only"}
    BY <1>3, <1>5
  <1>15. Left(new[i])' /\ Backed(new[i])'
    BY <1>7 DEF Left, Backed
  <1>16. w'[x].i = NextIndex("provenance", new, i)
    BY <1>4, <1>7, <1>8, NextSame
  <1> QED
    <2>1. ChecksOn(x, log, new, i)
      BY <1>8, <1>15, <1>16 DEF ChecksOn
    <2> QED
      BY <1>1, <1>2, <1>4, <1>5, <1>7, <1>8, <1>9, <1>10, <1>11, <1>12, <1>13, <1>14, <2>1,
         ProvenanceOn

LEMMA UnlinkSidecarOrder ==
  ASSUME Sound, Sound', InOrder, NEW x \in Workers, Alone(x), UnlinkSidecar(x)
  PROVE  InOrder'
  <1>1. PICK log : log = w[x].log
    OBVIOUS
  <1>2. PICK i : i = w[x].i
    OBVIOUS
  <1>3. w[x].at = "unlink"
    BY DEF UnlinkSidecar
  <1>4. /\ w[x] \in Providing /\ log \in Logs /\ i \in Places /\ i \in 1..Len(log)
        /\ Current(x) = log[i] /\ Orderly(log) /\ Checking(w[x]) /\ Follows(log)
        /\ log[i].status = "failed"
    BY <1>1, <1>2, <1>3, AtRow
  <1>5. log[i].name \in Names /\ log[i].status \notin {"registered", "review"}
        /\ rows[i].status \notin {"registered", "review"}
    <2>1. log[i].name \in Names
      BY <1>1, <1>2, <1>3 DEF Sound, Placed, Fits
    <2>2. i \in 1..Len(rows)
      BY <1>4 DEF Follows
    <2> QED
      BY <1>4, <2>1, <2>2 DEF Follows
  <1>6. /\ \A y \in Workers : y # x => w'[y] = w[y]
        /\ w'[x].at = "provenance" /\ w'[x].log = log /\ w'[x].seen = w[x].seen
        /\ w'[x].i = NextIndex("provenance", log, i)
    <2>1. w' = [w EXCEPT ![x].at = "provenance", ![x].i = NextIndex("provenance", w[x].log, @)]
      BY DEF UnlinkSidecar
    <2>2. w \in [Workers -> Jobs]
      BY DEF Sound, Typed
    <2> QED
      BY <1>1, <1>2, <1>4, <2>1, <2>2 DEF Providing
  <1>7. UNCHANGED <<rows, files>> /\ answer' = None
        /\ side' = [side EXCEPT !["inbox"] = Drop(@, log[i].name)]
    BY <1>4 DEF UnlinkSidecar
  <1>8. side'["inbox"] = Drop(side["inbox"], log[i].name) /\ side'["review"] = side["review"]
    BY <1>7 DEF Sound, Typed
  <1>9. /\ DOMAIN side'["inbox"] = DOMAIN side["inbox"] \ {log[i].name}
        /\ \A y \in DOMAIN side["inbox"] : y # log[i].name => side'["inbox"][y] = side["inbox"][y]
    BY <1>8 DEF Drop, Restrict
  <1>10. /\ \A m \in Names \ {log[i].name} : Alike(m)
         /\ NoNews /\ \A n : Live(n)' => Live(n)
    BY <1>7, <1>8, <1>9 DEF Alike, NoNews, Live
  <1>11. Kept(log[i])' /\ Kept(rows[i])'
    BY <1>5, <1>7 DEF Kept
  <1>12. Onward(i, log[i].status) /\ SameBut(log, log, i)
    BY <1>4, <1>5 DEF Onward, SameBut
  <1>13. (DOMAIN side["review"] \subseteq DOMAIN files["review"])'
    BY <1>7, <1>8 DEF InOrder
  <1>14. w[x].at # "date" /\ log[i].status \notin {"duplicate", "citation-only"}
    BY <1>3, <1>4
  <1>15. Left(log[i])' /\ Backed(log[i])'
    BY <1>4 DEF Left, Backed
  <1>16. DOMAIN files'["inbox"] \subseteq DOMAIN files["inbox"]
    BY <1>7
  <1> QED
    <2>1. ChecksOn(x, log, log, i)
      BY <1>6, <1>7, <1>15 DEF ChecksOn
    <2> QED
      BY <1>1, <1>2, <1>4, <1>5, <1>6, <1>7, <1>10, <1>11, <1>12, <1>13, <1>14, <1>16, <2>1,
         ProvenanceOn

LEMMA OpenSidecarOrder ==
  ASSUME Sound, Sound', InOrder, NEW x \in Workers, Alone(x), OpenSidecar(x)
  PROVE  InOrder'
  <1>1. PICK log : log = w[x].log
    OBVIOUS
  <1>2. PICK i : i = w[x].i
    OBVIOUS
  <1>3. w[x].at = "provenance" /\ HasRow(x) /\ ToCheck(x) /\ ~Refused(x)
    BY DEF OpenSidecar, ToCheck
  <1>4. /\ w[x] \in Providing /\ log \in Logs /\ i \in Places /\ i \in 1..Len(log)
        /\ Current(x) = log[i] /\ Orderly(log) /\ Checking(w[x]) /\ Follows(log)
        /\ log[i].status \in {"acquired", "registered"} /\ log[i] \in Rows /\ Seeing(w[x])
    BY <1>1, <1>2, <1>3, AtRow
  <1>5. /\ InInbox(log[i]) /\ log[i].name \in Names /\ log[i].urn \in Urns
        /\ files["inbox"][log[i].name] = log[i].sha /\ log[i].sha \notin Broken
    <2>1. InInbox(log[i]) /\ files["inbox"][log[i].name] = log[i].sha /\ log[i].sha \notin Broken
      BY <1>3, <1>4 DEF ToCheck, InInbox, Refused, Bytes
    <2>2. DOMAIN files["inbox"] \subseteq Names
      BY TableFacts DEF Sound, Typed, Folders
    <2> QED
      BY <1>4, <2>1, <2>2 DEF InInbox, Rows
  <1>6. /\ \A y \in Workers : y # x => w'[y] = w[y]
        /\ w'[x].at = "sidecar" /\ w'[x].log = log /\ w'[x].seen = w[x].seen /\ w'[x].i = i
    <2>1. Goto(x, "sidecar")
      BY DEF OpenSidecar
    <2> QED
      BY <1>1, <1>2, <1>4, <2>1, GotoFacts DEF Sound
  <1>7. UNCHANGED <<rows, files>> /\ answer' = None
        /\ side' = [side EXCEPT !["inbox"] = Put(@, log[i].name, Torn)]
    BY <1>4 DEF OpenSidecar
  <1>8. side'["inbox"] = Put(side["inbox"], log[i].name, Torn) /\ side'["review"] = side["review"]
    BY <1>7 DEF Sound, Typed
  <1>9. /\ DOMAIN side'["inbox"] = DOMAIN side["inbox"] \union {log[i].name}
        /\ side'["inbox"][log[i].name] = Torn
        /\ \A y \in DOMAIN side["inbox"] : y # log[i].name => side'["inbox"][y] = side["inbox"][y]
    BY <1>8 DEF Put
  <1>10. /\ \A m \in Names \ {log[i].name} : Alike(m)
         /\ NoNews /\ \A n : Live(n)' => Live(n)
    BY <1>5, <1>7, <1>8, <1>9 DEF Alike, NoNews, Live, InInbox
  <1>11. \A n, u : Says(n, u)' => Says(n, u)
    <2>1. w'[x].at # "date"
      BY <1>6
    <2> QED
      BY <1>6, <1>10, <2>1, SaysLess DEF NoNews
  <1>12. ASSUME NEW r, Kept(r), r.name = log[i].name, r.status # "review" PROVE Kept(r)'
    <2>1. InInbox(r) /\ InInbox(r)'
      BY <1>5, <1>7, <1>12 DEF InInbox
    <2>2. r.status = "registered" => Held(r)
      BY <1>12, <2>1 DEF Kept
    <2>3. r.status = "registered" => Held(r)'
      BY <1>7, <1>11, <2>2 DEF Held
    <2> QED
      BY <1>12, <2>1, <2>3 DEF Kept
  <1>13. Kept(log[i])' /\ Kept(rows[i])'
    <2>1. Kept(log[i])'
      BY <1>4, <1>12 DEF Orderly
    <2>2. i \in 1..Len(rows) /\ rows[i].name = log[i].name /\ rows[i].status # "review"
      BY <1>4 DEF Follows
    <2>3. PICK r : r = rows[i]
      OBVIOUS
    <2>4. Kept(r)'
      BY <1>12, <2>2, <2>3 DEF InOrder, Orderly
    <2> QED
      BY <1>7, <2>1, <2>3, <2>4
  <1>14. Opened(w[x])'
    <2>1. ASSUME NEW n \in Names, <<log[i].urn, n>> \in w[x].seen, Live(n) PROVE n = log[i].name
      <3>1. n \in Claimants(x)
        BY <1>4, <2>1 DEF Claimants, Live
      <3>2. log[i].name \in Claimants(x)
        BY <1>4, <3>1 DEF OpenSidecar
      <3>3. <<log[i].urn, log[i].name>> \in w[x].seen /\ Live(log[i].name)
        BY <1>4, <3>2 DEF Claimants, Live
      <3> QED
        BY <1>4, <1>5, <2>1, <3>3 DEF Seeing
    <2>2. InInbox(log[i])'
      BY <1>5, <1>7 DEF InInbox
    <2> QED
      BY <1>5, <1>6, <1>7, <1>10, <2>1, <2>2 DEF Opened
  <1>15. Onward(i, log[i].status) /\ SameBut(log, log, i)
    BY <1>4 DEF Onward, SameBut, Follows
  <1>16. (DOMAIN side["review"] \subseteq DOMAIN files["review"])'
    BY <1>7, <1>8 DEF InOrder
  <1>17. w[x].at # "date" /\ log[i].status \notin {"duplicate", "citation-only"}
         /\ log[i].status \in Treats("provenance")
    BY <1>3, <1>4 DEF Treats
  <1>18. DOMAIN files'["inbox"] \subseteq DOMAIN files["inbox"]
    BY <1>7
  <1>19. /\ log \in Logs /\ log = w[x].log /\ i \in 1..Len(log) /\ i = w[x].i
         /\ Orderly(log) /\ Checking(w[x]) /\ log[i].name \in Names
         /\ rows' = rows /\ answer' = None /\ w'[x].log = log /\ w'[x].seen = w[x].seen
         /\ w'[x].at = "sidecar" /\ w'[x].i = i
    BY <1>1, <1>2, <1>4, <1>5, <1>6, <1>7
  <1> QED
    <2>1. ChecksOn(x, log, log, i)
      BY <1>14, <1>17, <1>19 DEF ChecksOn
    <2> QED
      BY <1>6, <1>10, <1>13, <1>15, <1>16, <1>17, <1>18, <1>19, <2>1,
         ProvenanceOn

\* Of the rows that are not done with, no other has the urn of the one that provenance is at.
LEMMA SoleUrn ==
  ASSUME NEW log \in Logs, Orderly(log), Follows(log), NEW i \in 1..Len(log),
         log[i].status \notin {"duplicate", "citation-only"}
  PROVE  /\ \A k \in 1..Len(log) :
               k # i /\ log[k].status = "registered" => log[k].urn # log[i].urn
         /\ \A k \in 1..Len(rows) :
               k # i /\ rows[k].status = "registered" => rows[k].urn # log[i].urn
         /\ \A k \in 1..Len(log) : k > i => log[k].urn # log[i].urn
  <1>1. Len(log) \in Nat
    BY DEF Logs
  <1>2. Latest(log)
    BY DEF Orderly
  <1>3. ASSUME NEW k \in 1..Len(log), k # i, log[k].status \in {"registered", "review"}
        PROVE  log[k].urn # log[i].urn
    <2>1. k < i \/ i < k
      BY <1>1, <1>3
    <2> QED
      BY <1>2, <1>3, <2>1 DEF Latest
  <1>4. \A k \in 1..Len(log) : k > i => log[k].urn # log[i].urn
    BY <1>1, <1>2 DEF Latest
  <1>5. \A k \in 1..Len(rows) :
           k # i /\ rows[k].status = "registered" => rows[k].urn # log[i].urn
    BY <1>3 DEF Follows
  <1> QED
    BY <1>3, <1>4, <1>5

LEMMA PlacedFits ==
  Sound => \A x \in Workers : Fits(w[x])
  BY DEF Sound, Placed

LEMMA WriteSidecarOrder ==
  ASSUME Sound, Sound', InOrder, NEW x \in Workers, Alone(x), WriteSidecar(x)
  PROVE  InOrder'
  <1>1. PICK log : log = w[x].log
    OBVIOUS
  <1>2. PICK i : i = w[x].i
    OBVIOUS
  <1>3. w[x].at = "sidecar"
    BY DEF WriteSidecar
  <1>4. /\ w[x] \in Providing /\ log \in Logs /\ i \in Places /\ i \in 1..Len(log)
        /\ Current(x) = log[i] /\ Orderly(log) /\ Checking(w[x]) /\ Follows(log)
        /\ log[i].status \in {"acquired", "registered"} /\ log[i] \in Rows /\ Seeing(w[x])
        /\ Stage(w[x]) /\ Len(log) \in Nat
    BY <1>1, <1>2, <1>3, AtRow
  <1>5. PICK n : n = log[i].name
    OBVIOUS
  <1>6. PICK u : u = log[i].urn
    OBVIOUS
  <1>7. /\ n \in Names /\ u \in Urns /\ n \in DOMAIN files["inbox"]
        /\ files["inbox"][n] = log[i].sha /\ log[i].sha \notin Broken
        /\ \A m \in Names : <<u, m>> \in w[x].seen /\ Live(m) => m = n
    <2>1. Opened(w[x])
      BY <1>3, <1>4 DEF Stage
    <2>2. n \in Names
      <3>1. Fits(w[x])
        BY PlacedFits, Zenon
      <3> QED
        BY <1>1, <1>2, <1>3, <1>5, <3>1 DEF Fits
    <2>3. /\ InInbox(log[i]) /\ files["inbox"][log[i].name] = log[i].sha
          /\ log[i].sha \notin Broken
          /\ \A m \in Names : <<log[i].urn, m>> \in w[x].seen /\ Live(m) => m = log[i].name
      BY <1>1, <1>2, <2>1 DEF Opened
    <2>4. log[i].urn \in Urns
      BY <1>4 DEF Rows
    <2> QED
      BY <1>5, <1>6, <2>2, <2>3, <2>4 DEF InInbox
  <1>8. PICK new : new = Marked(x, "registered")
    OBVIOUS
  <1>9. /\ SameBut(new, log, i) /\ new[i].status = "registered" /\ new \in Logs
        /\ new[i].name = n /\ new[i].urn = u /\ new[i].sha = log[i].sha
        /\ i \in 1..Len(new) /\ Len(new) = Len(log)
    <2>1. "registered" \in Statuses
      BY DEF Statuses
    <2> QED
      BY <1>1, <1>2, <1>4, <1>5, <1>6, <1>8, <2>1, MarkRow
  <1>10. /\ \A y \in Workers : y # x => w'[y] = w[y]
         /\ w'[x].at = "provenance" /\ w'[x].log = new /\ w'[x].seen = w[x].seen \union {<<u, n>>}
         /\ w'[x].i = NextIndex("provenance", new, i)
    <2>1. w' = [w EXCEPT ![x].at = "provenance", ![x].i = NextIndex("provenance", log, i),
                         ![x].log = new, ![x].seen = w[x].seen \union {<<u, n>>}]
      BY <1>1, <1>2, <1>4, <1>5, <1>6, <1>8 DEF WriteSidecar
    <2>2. w \in [Workers -> Jobs]
      BY DEF Sound, Typed
    <2>3. NextIndex("provenance", new, i) = NextIndex("provenance", log, i)
      BY <1>4, <1>9, NextSame
    <2> QED
      BY <1>4, <2>1, <2>2, <2>3 DEF Providing
  <1>11. PICK s : s = [urn |-> u, sha |-> log[i].sha, dated |-> FALSE]
    OBVIOUS
  <1>12. s \in Sidecars /\ s # Torn /\ s.urn = u /\ s.sha = log[i].sha
    <2>1. s \in [urn : Urns, sha : Docs \union {None}, dated : BOOLEAN]
      BY <1>4, <1>7, <1>11 DEF Rows
    <2> QED
      BY <1>11, <2>1, ValuesAssumption DEF Sidecars
  <1>13. UNCHANGED <<rows, files>> /\ answer' = None
         /\ side'["inbox"] = Put(side["inbox"], n, s) /\ side'["review"] = side["review"]
    <2>1. UNCHANGED <<rows, files>> /\ answer' = None
          /\ side' = [side EXCEPT !["inbox"] = Put(@, n, s)]
      BY <1>4, <1>5, <1>6, <1>11 DEF WriteSidecar
    <2> QED
      BY <2>1 DEF Sound, Typed
  <1>14. /\ DOMAIN side'["inbox"] = DOMAIN side["inbox"] \union {n}
         /\ side'["inbox"][n] = s
         /\ \A y \in DOMAIN side["inbox"] : y # n => side'["inbox"][y] = side["inbox"][y]
    BY <1>13 DEF Put
  <1>15. ASSUME NEW m, NEW v, Says(m, v)' PROVE Says(m, v) \/ (m = n /\ v = u)
    <2>1. ~ \E y \in Workers : w'[y].at = "date" /\ w'[y].name = m /\ w'[y].found.urn = v
      BY <1>10 DEF Alone, Idle
    <2>2. m \in DOMAIN side'["inbox"] /\ side'["inbox"][m] # Torn /\ side'["inbox"][m].urn = v
      BY <1>15, <2>1 DEF Says
    <2> QED
      BY <1>12, <1>14, <2>2 DEF Says
  <1>16. \A m \in Names : Says(m, u)' => m = n
    <2> SUFFICES ASSUME NEW m \in Names, Says(m, u)', m # n PROVE FALSE
      OBVIOUS
    <2>1. m \in DOMAIN side["inbox"] /\ side["inbox"][m] # Torn /\ side["inbox"][m].urn = u
      <3>1. w[x].at # "date"
        BY <1>3
      <3> QED
        BY <1>15, <3>1, SaysAlone
    <2>2. <<u, m>> \in w[x].seen /\ Live(m)
      BY <1>4, <2>1 DEF Seeing, Live
    <2> QED
      BY <1>7, <2>2
  <1>17. OneEach'
    <2> SUFFICES ASSUME NEW v \in Urns, NEW a \in Names, NEW b \in Names, Says(a, v)', Says(b, v)'
                 PROVE  a = b
      BY DEF OneEach
    <2>1. CASE v = u
      BY <1>16, <2>1
    <2>2. CASE v # u
      BY <1>15, <2>2 DEF InOrder, OneEach
    <2> QED
      BY <2>1, <2>2
  <1>18. ASSUME NEW r, r.name = n, r.urn = u, r.sha = log[i].sha, r.status # "review"
         PROVE  Kept(r)'
    <2>1. InInbox(r)' /\ Held(r)'
      BY <1>7, <1>13, <1>16, <1>18 DEF InInbox, Held
    <2> QED
      BY <1>18, <2>1 DEF Kept
  <1>19. \A m \in Names \ {n} : Alike(m)
    BY <1>13, <1>14 DEF Alike
  <1>20. /\ \A k \in 1..Len(log) : log[k].name = n => k = i
         /\ \A k \in 1..Len(rows) : rows[k].name = n => k = i
         /\ rows[i].urn = u /\ rows[i].name = n /\ rows[i].sha = log[i].sha
         /\ i \in 1..Len(rows)
    BY <1>4, <1>5, <1>6, <1>7, SoleName
  <1>21. /\ \A k \in 1..Len(log) : k # i /\ log[k].status = "registered" => log[k].urn # u
         /\ \A k \in 1..Len(rows) : k # i /\ rows[k].status = "registered" => rows[k].urn # u
         /\ \A k \in 1..Len(log) : k > i => log[k].urn # u
    BY <1>4, <1>6, SoleUrn
  <1>22. Orderly(log)'
    <2>1. ASSUME NEW k \in 1..Len(log), log[k].name # n, log[k].status = "registered"
          PROVE  \A m \in Names : Says(m, log[k].urn)' => Says(m, log[k].urn)
      <3>1. log[k].urn # u
        BY <1>5, <1>21, <2>1
      <3> QED
        BY <1>15, <3>1
    <2>2. ASSUME NEW k \in 1..Len(log), log[k].name = n PROVE Kept(log[k])'
      <3>1. k = i /\ log[k].status # "review"
        BY <1>4, <1>20, <2>2
      <3> QED
        BY <1>5, <1>6, <1>18, <3>1
    <2> QED
      BY <1>4, <1>19, <2>1, <2>2, OrderlyFrame DEF Sound
  <1>23. Orderly(rows)'
    <2>1. PICK L \in Logs : L = rows
      BY DEF Sound, Typed
    <2>2. ASSUME NEW k \in 1..Len(L), L[k].name # n, L[k].status = "registered"
          PROVE  \A m \in Names : Says(m, L[k].urn)' => Says(m, L[k].urn)
      <3>1. L[k].urn # u
        BY <1>20, <1>21, <2>1, <2>2
      <3> QED
        BY <1>15, <3>1
    <2>3. ASSUME NEW k \in 1..Len(L), L[k].name = n PROVE Kept(L[k])'
      <3>1. k = i
        BY <1>20, <2>1, <2>3
      <3>2. L[k].status # "review"
        BY <1>4, <1>20, <2>1, <3>1 DEF Follows
      <3> QED
        BY <1>18, <1>20, <2>1, <3>1, <3>2
    <2>4. Orderly(L)
      BY <2>1 DEF InOrder
    <2>5. Orderly(L)'
      BY <1>19, <2>2, <2>3, <2>4, OrderlyFrame DEF Sound
    <2> QED
      BY <1>13, <2>1, <2>5
  <1>24. Orderly(new)'
    <2>1. Kept(new[i])'
      BY <1>9, <1>18
    <2> QED
      BY <1>4, <1>9, <1>22, <2>1, MarkedOrder
  <1>25. NextIndex("provenance", new, i) \in Nat /\ NextIndex("provenance", new, i) > i
    BY <1>9, NextAfter
  <1>26. \A m : Live(m)' => Live(m)
    BY <1>7, <1>13, <1>14 DEF Live
  <1>27. Seeing(w[x])'
    <2>1. \A m \in DOMAIN side'["inbox"] :
             side'["inbox"][m] # Torn => <<side'["inbox"][m].urn, m>> \in w'[x].seen
      BY <1>4, <1>10, <1>12, <1>14 DEF Seeing
    <2>2. ASSUME NEW v \in Urns, NEW a \in Names, NEW b \in Names,
                 <<v, a>> \in w'[x].seen, <<v, b>> \in w'[x].seen, Live(a)', Live(b)'
          PROVE  a = b
      <3>1. (<<v, a>> \in w[x].seen \/ (v = u /\ a = n)) /\ (<<v, b>> \in w[x].seen \/ (v = u /\ b = n))
        BY <1>10, <2>2
      <3>2. Live(a) /\ Live(b)
        BY <1>26, <2>2
      <3> QED
        BY <1>4, <1>7, <3>1, <3>2 DEF Seeing
    <2>3. ASSUME NEW k \in 1..Len(new), k >= w'[x].i, new[k].status = "registered",
                 InInbox(new[k])', NEW m \in Names, <<new[k].urn, m>> \in w'[x].seen
          PROVE  m = new[k].name
      <3>1. k \in 1..Len(log) /\ k > i /\ k >= i
        BY <1>4, <1>9, <1>10, <1>25, <2>3
      <3>2. new[k] = log[k]
        BY <1>4, <3>1, <1>9 DEF SameBut
      <3>3. log[k].urn # u /\ InInbox(log[k])
        BY <1>13, <1>21, <2>3, <3>1, <3>2 DEF InInbox
      <3>4. <<log[k].urn, m>> \in w[x].seen
        BY <1>10, <2>3, <3>2, <3>3
      <3> QED
        BY <1>1, <1>2, <1>4, <2>3, <3>1, <3>2, <3>3, <3>4 DEF Seeing
    <2> QED
      BY <1>10, <2>1, <2>2, <2>3 DEF Seeing
  <1>28. Left(new[i])' /\ Backed(new[i])'
    BY <1>9, <1>12, <1>14 DEF Left, Backed, Matches
  <1>29. Onward(i, new[i].status)
    BY <1>4, <1>9, <1>20 DEF Onward, Follows
  <1>30. OthersAlike(log, i)
    BY <1>19, <1>20 DEF OthersAlike
  <1>31. /\ Checking(w[x])'
         /\ w'[x].i <= Len(new) => new[w'[x].i].status \in Treats("provenance")
    <2>1. w[x].at # "date" /\ rows' = rows
      BY <1>3, <1>13
    <2>2. w'[x].i = NextIndex("provenance", new, i) /\ Left(new[i])' /\ Backed(new[i])'
      BY <1>10, <1>28
    <2>3. /\ log \in Logs /\ log = w[x].log /\ i \in 1..Len(log) /\ i = w[x].i
          /\ Checking(w[x]) /\ Orderly(log) /\ w'[x].log = new
      BY <1>1, <1>2, <1>4, <1>10
    <2> QED
      BY <1>9, <1>27, <1>29, <1>30, <2>1, <2>2, <2>3, CheckOn
  <1>32. Stage(w[x])'
    BY <1>10, <1>24, <1>31 DEF Stage
  <1>33. (DOMAIN side["review"] \subseteq DOMAIN files["review"])'
         /\ (answer = "complete" => Truth)'
    BY <1>13, ValuesAssumption DEF InOrder
  <1> QED
    BY <1>10, <1>17, <1>23, <1>32, <1>33, InOrderStep

\* The row that routing is at, or whose sidecar it carries.
RouteAt(x) == (w[x].at = "route" /\ HasRow(x)) \/ w[x].at = "carry"

LEMMA AtRoute ==
  ASSUME Sound, InOrder, NEW x \in Workers, NEW log, log = w[x].log, NEW i, i = w[x].i,
         RouteAt(x)
  PROVE  /\ w[x] \in Routing /\ log \in Logs /\ i \in Places /\ i \in 1..Len(log)
         /\ Len(log) \in Nat /\ log[i] \in Rows /\ Current(x) = log[i]
         /\ Orderly(log) /\ Moving(w[x]) /\ Follows(log)
         /\ log[i].status \in {"registered", "review"} /\ log[i].name \in Names
         /\ Kept(log[i]) /\ Ready(log[i])
         /\ w[x].at = "carry" => Carrying(w[x])
  <1>1. w[x] \in Routing /\ Stage(w[x]) /\ w[x].i <= Len(w[x].log)
        /\ w[x].at \in {"route", "carry"}
    BY JobOf DEF RouteAt, Sound, InOrder, HasRow, Placed, Fits
  <1>2. log \in Logs /\ i \in Places /\ Len(log) \in Nat /\ i \in 1..Len(log)
    BY <1>1 DEF Routing, Logs, Places
  <1>3. log[i] \in Rows /\ Current(x) = log[i]
    BY <1>2 DEF Logs, Current
  <1>4. Orderly(log) /\ Moving(w[x])
    BY <1>1 DEF Stage, HasLog, InLoop
  <1>5. Follows(log)
    BY <1>4 DEF Moving
  <1>6. w[x].at = "carry" => Carrying(w[x]) /\ log[i].status = "registered"
    BY <1>1 DEF Stage, Carrying
  <1>7. log[i].status \in {"registered", "review"}
    BY <1>1, <1>6 DEF Stage, Treats
  <1>8. Kept(log[i])
    BY <1>2, <1>4 DEF Orderly
  <1>9. Ready(log[i])
    <2>1. i >= w[x].i
      BY <1>2 DEF Places
    <2> QED
      BY <1>2, <1>4, <2>1 DEF Moving
  <1>10. log[i].name \in Names
    BY <1>7, <1>8, KeptNames DEF Sound
  <1> QED
    BY <1>1, <1>2, <1>3, <1>4, <1>5, <1>6, <1>7, <1>8, <1>9, <1>10

LEMMA RoutedFrame ==
  ASSUME Typed', NEW r, r.name \in Names => Alike(r.name)
  PROVE  (Left(r) => Left(r)') /\ (Ready(r) => Ready(r)') /\ (Routed(r) => Routed(r)')
  <1>1. DOMAIN files'["inbox"] \subseteq Names
    BY TableFacts DEF Typed, Folders
  <1>2. InInbox(r)' => InInbox(r) /\ r.name \in Names
    BY <1>1 DEF InInbox, Alike
  <1> QED
    BY <1>2 DEF Left, Ready, Routed, Alike

\* Routing has touched what is under the name of its row: what is to be shown of the step.
LEMMA RouteOn ==
  ASSUME Sound, Sound', InOrder, NEW x \in Workers, Alone(x),
         NEW log \in Logs, log = w[x].log, NEW i \in 1..Len(log), i = w[x].i,
         Orderly(log), Moving(w[x]), log[i].name \in Names,
         log[i].status \in {"registered", "review"},
         rows' = rows, answer' = None,
         \A y \in Workers : y # x => w'[y] = w[y],
         NEW new, w'[x].log = new, SameBut(new, log, i), Onward(i, new[i].status),
         Left(new[i])',
         \/ /\ w'[x].at = "route" /\ w'[x].i = NextIndex("route", new, i) /\ Routed(new[i])'
         \/ /\ w'[x].at = "carry" /\ w'[x].i = i /\ Carrying(w[x])' /\ Ready(new[i])',
         \A m \in Names \ {log[i].name} : Alike(m), NoNews,
         (DOMAIN side["review"] \subseteq DOMAIN files["review"])',
         Kept(log[i])', Kept(rows[i])', Kept(new[i])'
  PROVE  InOrder'
  <1>1. /\ new \in Logs /\ Len(new) = Len(log) /\ i \in 1..Len(new) /\ i \in Nat
        /\ Len(log) \in Nat /\ \A k \in 1..Len(log) : k # i => new[k] = log[k]
    BY DEF SameBut, Logs
  <1>2. (\A n, u : Says(n, u)' => Says(n, u)) /\ (OneEach => OneEach')
    <2>1. w'[x].at # "date"
      OBVIOUS
    <2> QED
      BY <2>1, SaysLess DEF NoNews
  <1>3. Follows(log)
    BY DEF Moving
  <1>4. Orderly(log)' /\ Orderly(rows)'
    BY <1>2, <1>3, RowsStep
  <1>5. Orderly(new)'
    <2>1. log[i].status \notin {"duplicate", "citation-only"}
      OBVIOUS
    <2> QED
      BY <1>4, <2>1, MarkedOrder
  <1>6. \A k \in 1..Len(log) : k # i /\ log[k].name \in Names => Alike(log[k].name)
    <2>1. \A k \in 1..Len(log) : log[k].name = log[i].name => k = i
      BY <1>3, SoleName
    <2> QED
      BY <2>1
  <1>7. /\ \A k \in (i + 1)..Len(new) :
              new[k].status \in Treats("route") => NextIndex("route", new, i) <= k
        /\ NextIndex("route", new, i) \in Nat /\ NextIndex("route", new, i) > i
        /\ NextIndex("route", new, i) <= Len(new) =>
              new[NextIndex("route", new, i)].status \in Treats("route")
    BY <1>1, NextAfter
  <1>8. Follows(new)'
    BY <1>3 DEF Follows, SameBut, Onward
  <1>9. ASSUME NEW k \in 1..Len(new), k # i
        PROVE  /\ Left(new[k])'
               /\ k < i => Routed(new[k])'
               /\ k > i => Ready(new[k])'
    <2>1. PICK r : r = log[k]
      OBVIOUS
    <2>2. new[k] = r /\ k \in 1..Len(log) /\ (r.name \in Names => Alike(r.name))
      BY <1>1, <1>6, <1>9, <2>1
    <2>3. Left(r) /\ (k < i => Routed(r)) /\ (k > i => Ready(r))
      BY <1>1, <2>1, <2>2 DEF Moving
    <2>4. Left(r)' /\ (k < i => Routed(r)') /\ (k > i => Ready(r)')
      BY <2>2, <2>3, RoutedFrame DEF Sound
    <2> QED
      BY <2>2, <2>4
  <1>10. Moving(w[x])'
    <2>1. ASSUME NEW k \in 1..Len(new)
          PROVE  /\ Left(new[k])'
                 /\ k < w'[x].i => Routed(new[k])'
                 /\ k >= w'[x].i => Ready(new[k])'
      <3>1. Left(new[k])'
        BY <1>9
      <3>2. ASSUME k < w'[x].i PROVE Routed(new[k])'
        <4>1. CASE k < i
          BY <1>1, <1>9, <4>1
        <4>2. CASE k = i
          BY <1>1, <3>2, <4>2
        <4>3. CASE k > i
          <5>1. new[k].status \notin Treats("route")
            BY <1>1, <1>7, <3>2, <4>3
          <5> QED
            BY <5>1 DEF Treats, Routed
        <4> QED
          BY <1>1, <4>1, <4>2, <4>3
      <3>3. ASSUME k >= w'[x].i PROVE Ready(new[k])'
        BY <1>1, <1>7, <1>9, <3>3
      <3> QED
        BY <3>1, <3>2, <3>3
    <2> QED
      BY <1>8, <2>1 DEF Moving
  <1>11. Stage(w[x])'
    <2>1. CASE w'[x].at = "route" /\ w'[x].i = NextIndex("route", new, i)
      BY <1>5, <1>7, <1>10, <2>1 DEF Stage
    <2>2. CASE w'[x].at = "carry" /\ Carrying(w[x])'
      BY <1>5, <1>10, <2>2 DEF Stage
    <2> QED
      BY <2>1, <2>2
  <1>12. OneEach'
    BY <1>2 DEF InOrder
  <1>13. (answer = "complete" => Truth)'
    BY ValuesAssumption
  <1> QED
    BY <1>4, <1>11, <1>12, <1>13, InOrderStep

\* The file of the row and the sidecar it gets are in review, and are the row's own unless
\* its name is in the inbox still.
InPlace(q) ==
  /\ q.name \in DOMAIN files["review"] /\ q.name \in DOMAIN side'["review"]
  /\ \/ InInbox(q)
     \/ files["review"][q.name] = q.sha /\ Right(side'["review"][q.name], q)

\* A row with its file and a sidecar in review, which are right unless the name is still in
\* the inbox, is in order whether it is marked yet or not.
LEMMA ReviewKept ==
  ASSUME NEW r, NEW q, r.name = q.name, r.urn = q.urn, r.sha = q.sha,
         r.status = "registered" => Kept(r), files' = files,
         \A n, u : Says(n, u)' => Says(n, u),
         InPlace(q)
  PROVE  Kept(r)'
  <1>1. InInbox(r)' <=> InInbox(q)
    BY DEF InInbox
  <1>2. r.status = "registered" /\ InInbox(q) => Held(r)'
    BY <1>1 DEF Kept, Held, InInbox
  <1>3. ~InInbox(q) => files'["review"][r.name] = r.sha /\ Right(side'["review"][r.name], r)
    BY DEF InPlace, Right, Matches
  <1> QED
    BY <1>1, <1>2, <1>3 DEF InPlace, Kept, Carried, Reviewed

LEMMA CannotLeave ==
  ASSUME Sound, InOrder, NEW x \in Workers, ToRoute(x), ~Arrived(x)
  PROVE  /\ Current(x).status = "registered" /\ InInbox(Current(x)) /\ Complete(x)
  <1>1. w[x].at = "route" /\ HasRow(x)
    BY DEF ToRoute
  <1>2. /\ Kept(Current(x)) /\ Ready(Current(x))
        /\ Current(x).status \in {"registered", "review"}
    <2>1. PICK log : log = w[x].log
      OBVIOUS
    <2>2. PICK i : i = w[x].i
      OBVIOUS
    <2>3. /\ Current(x) = log[i] /\ Kept(log[i]) /\ Ready(log[i])
          /\ log[i].status \in {"registered", "review"}
      <3>1. RouteAt(x)
        BY <1>1 DEF RouteAt
      <3> QED
        BY <2>1, <2>2, <3>1, AtRoute
    <2> QED
      BY <2>3
  <1>3. Current(x).status # "review"
    BY <1>2 DEF Kept, Reviewed, Arrived
  <1>4. InInbox(Current(x))
    BY <1>2, <1>3 DEF Kept, Carried, Arrived
  <1> QED
    BY <1>2, <1>3, <1>4 DEF Ready, Complete, InInbox

LEMMA LeaveThereOrder ==
  ASSUME Sound, InOrder, NEW x \in Workers, LeaveThere(x)
  PROVE  FALSE
  <1>1. ToRoute(x) /\ ~Arrived(x)
    BY DEF LeaveThere
  <1>2. ~Complete(x)
    BY DEF LeaveThere
  <1> QED
    BY <1>1, <1>2, CannotLeave

\* The row that routing is at has its file and its sidecar in review.
LEMMA ReviewedOrder ==
  ASSUME Sound, Sound', InOrder, NEW x \in Workers, Alone(x),
         RouteAt(x),
         NEW log, log = w[x].log, NEW i, i = w[x].i, NEW n, n = log[i].name,
         UNCHANGED <<rows, files>>, answer' = None,
         \A y \in Workers : y # x => w'[y] = w[y],
         NEW new, new = Marked(x, "review"),
         w'[x].log = new, w'[x].at = "route", w'[x].i = NextIndex("route", new, i),
         InPlace(log[i]),
         \A m \in Names \ {n} : Alike(m), NoNews,
         (DOMAIN side["review"] \subseteq DOMAIN files["review"])'
  PROVE  InOrder'
  <1>1. /\ w[x] \in Routing /\ log \in Logs /\ i \in Places /\ i \in 1..Len(log)
        /\ Len(log) \in Nat /\ Current(x) = log[i]
        /\ Orderly(log) /\ Moving(w[x]) /\ Follows(log)
        /\ log[i].status \in {"registered", "review"} /\ log[i].name \in Names
    BY AtRoute
  <1>2. /\ SameBut(new, log, i) /\ new \in Logs /\ Len(new) = Len(log) /\ i \in 1..Len(new)
        /\ new[i].urn = log[i].urn /\ new[i].name = log[i].name /\ new[i].sha = log[i].sha
        /\ new[i].status = "review"
    <2>1. "review" \in Statuses
      BY DEF Statuses
    <2> QED
      BY <1>1, <2>1, MarkRow
  <1>3. /\ rows[i].urn = log[i].urn /\ rows[i].name = n /\ rows[i].sha = log[i].sha
        /\ i \in 1..Len(rows)
    BY <1>1, SoleName
  <1>4. \A m, u : Says(m, u)' => Says(m, u)
    <2>1. w'[x].at # "date"
      OBVIOUS
    <2> QED
      BY <2>1, SaysLess DEF NoNews
  <1>5. Kept(log[i])' /\ Kept(new[i])' /\ Kept(rows[i])'
    <2>1. Kept(log[i]) /\ Kept(rows[i])
      BY <1>1, <1>3 DEF InOrder, Orderly
    <2>2. PICK q : q = log[i]
      OBVIOUS
    <2>3. files' = files /\ InPlace(q)
      BY <2>2
    <2>4. Kept(q)'
      <3>1. q.name = q.name /\ q.urn = q.urn /\ q.sha = q.sha /\ Kept(q)
        BY <2>1, <2>2
      <3> QED
        BY <1>4, <2>3, <3>1, ReviewKept
    <2>5. PICK r : r = rows[i]
      OBVIOUS
    <2>6. r.name = q.name /\ r.urn = q.urn /\ r.sha = q.sha
      BY <1>3, <2>2, <2>5
    <2>7. Kept(r)'
      BY <1>4, <2>1, <2>3, <2>5, <2>6, ReviewKept
    <2>8. PICK p : p = new[i]
      OBVIOUS
    <2>9. p.name = q.name /\ p.urn = q.urn /\ p.sha = q.sha /\ p.status # "registered"
      BY <1>2, <2>2, <2>8
    <2>10. Kept(p)'
      BY <1>4, <2>3, <2>9, ReviewKept
    <2> QED
      BY <2>2, <2>4, <2>5, <2>7, <2>8, <2>10
  <1>6. Onward(i, new[i].status) /\ Left(new[i])' /\ Routed(new[i])'
    BY <1>2 DEF Onward, Left, Routed
  <1> QED
    BY <1>1, <1>2, <1>5, <1>6, RouteOn

\* A sidecar moves to the review folder.
LEMMA SidecarMoved ==
  ASSUME Sound, NEW n \in DOMAIN side["inbox"], MoveSidecar(n), files' = files,
         n \in DOMAIN files["review"], DOMAIN side["review"] \subseteq DOMAIN files["review"]
  PROVE  /\ n \in DOMAIN side'["review"] /\ side'["review"][n] = side["inbox"][n]
         /\ \A m \in Names \ {n} : Alike(m)
         /\ NoNews /\ (DOMAIN side["review"] \subseteq DOMAIN files["review"])'
  <1>1. /\ side'["inbox"] = Drop(side["inbox"], n)
        /\ side'["review"] = Put(side["review"], n, side["inbox"][n])
    BY MoveSidecarFacts DEF Sound
  <1>2. /\ DOMAIN side'["inbox"] = DOMAIN side["inbox"] \ {n}
        /\ \A y \in DOMAIN side["inbox"] : y # n => side'["inbox"][y] = side["inbox"][y]
    BY <1>1 DEF Drop, Restrict
  <1>3. /\ DOMAIN side'["review"] = DOMAIN side["review"] \union {n}
        /\ side'["review"][n] = side["inbox"][n]
        /\ \A y \in DOMAIN side["review"] : y # n => side'["review"][y] = side["review"][y]
    BY <1>1 DEF Put
  <1>4. \A m \in Names \ {n} : Alike(m)
    <2> SUFFICES ASSUME NEW m \in Names, m # n PROVE Alike(m)
      OBVIOUS
    <2>1. files' = files /\ (m \in DOMAIN side'["inbox"] <=> m \in DOMAIN side["inbox"])
          /\ (m \in DOMAIN side'["review"] <=> m \in DOMAIN side["review"])
      BY <1>2, <1>3
    <2> QED
      BY <1>2, <1>3, <2>1 DEF Alike
  <1> QED
    BY <1>2, <1>3, <1>4 DEF NoNews

LEMMA FollowOrder ==
  ASSUME Sound, Sound', InOrder, NEW x \in Workers, Alone(x), Follow(x)
  PROVE  InOrder'
  <1>1. PICK log : log = w[x].log
    OBVIOUS
  <1>2. PICK i : i = w[x].i
    OBVIOUS
  <1>3. w[x].at = "route" /\ HasRow(x)
    BY DEF Follow, ToRoute
  <1>4. /\ w[x] \in Routing /\ log \in Logs /\ i \in Places /\ i \in 1..Len(log)
        /\ Current(x) = log[i] /\ log[i].status \in {"registered", "review"}
        /\ Kept(log[i]) /\ Ready(log[i])
    <2>1. RouteAt(x)
      BY <1>3 DEF RouteAt
    <2> QED
      BY <1>1, <1>2, <2>1, AtRoute
  <1>5. PICK n : n = log[i].name
    OBVIOUS
  <1>6. n \in DOMAIN files["review"]
    BY <1>4, <1>5 DEF Follow, Arrived
  <1>7. /\ n \in DOMAIN side["inbox"] \/ n \in DOMAIN side["review"]
        /\ \/ InInbox(log[i])
           \/ /\ files["review"][n] = log[i].sha
              /\ IF n \in DOMAIN side["review"] THEN Right(side["review"][n], log[i])
                 ELSE Right(side["inbox"][n], log[i])
    BY <1>4, <1>5 DEF Kept, Ready, Carried, Reviewed
  <1>8. PICK new : new = Marked(x, "review")
    OBVIOUS
  <1>9. /\ IF n \in DOMAIN side["review"] THEN UNCHANGED side ELSE MoveSidecar(n)
        /\ NextRow(x, new) /\ UNCHANGED <<rows, files>> /\ answer' = None
    BY <1>4, <1>5, <1>7, <1>8 DEF Follow
  <1>10. new \in Logs /\ Len(new) = Len(log)
    <2>1. "review" \in Statuses
      BY DEF Statuses
    <2> QED
      BY <1>1, <1>2, <1>4, <1>8, <2>1, MarkRow
  <1>11. /\ \A y \in Workers : y # x => w'[y] = w[y]
         /\ w'[x].at = "route" /\ w'[x].log = new /\ w'[x].i = NextIndex("route", new, i)
    <2>1. Len(new) = Len(w[x].log) /\ w[x].job = "route"
      BY <1>1, <1>4, <1>10 DEF Routing
    <2>2. /\ \A y \in Workers : y # x => w'[y] = w[y]
          /\ w'[x].at = w[x].at /\ w'[x].log = new
          /\ w'[x].i = NextIndex(w[x].job, new, w[x].i)
      BY <1>3, <1>4, <1>9, <1>10, <2>1, NextRowStep
    <2> QED
      BY <1>2, <1>3, <2>1, <2>2
  <1>12. /\ n \in DOMAIN side'["review"]
         /\ \/ InInbox(log[i])
            \/ files["review"][n] = log[i].sha /\ Right(side'["review"][n], log[i])
         /\ \A m \in Names \ {n} : Alike(m)
         /\ NoNews /\ (DOMAIN side["review"] \subseteq DOMAIN files["review"])'
    <2>1. CASE n \in DOMAIN side["review"]
      BY <1>7, <1>9, <2>1 DEF Alike, NoNews, InOrder
    <2>2. CASE n \notin DOMAIN side["review"]
      <3>1. n \in DOMAIN side["inbox"] /\ MoveSidecar(n) /\ files' = files
            /\ DOMAIN side["review"] \subseteq DOMAIN files["review"]
        BY <1>7, <1>9, <2>2 DEF InOrder
      <3>2. /\ n \in DOMAIN side'["review"] /\ side'["review"][n] = side["inbox"][n]
            /\ \A m \in Names \ {n} : Alike(m)
            /\ NoNews /\ (DOMAIN side["review"] \subseteq DOMAIN files["review"])'
        BY <1>6, <3>1, SidecarMoved
      <3> QED
        BY <1>7, <2>2, <3>2
    <2> QED
      BY <2>1, <2>2
  <1> QED
    <2>1. RouteAt(x)
      BY <1>3 DEF RouteAt
    <2>2. InPlace(log[i])
      BY <1>5, <1>6, <1>12 DEF InPlace
    <2>3. /\ UNCHANGED <<rows, files>> /\ answer' = None
          /\ \A m \in Names \ {n} : Alike(m)
          /\ NoNews /\ (DOMAIN side["review"] \subseteq DOMAIN files["review"])'
      BY <1>9, <1>12
    <2> QED
      BY <1>1, <1>2, <1>5, <1>8, <1>11, <2>1, <2>2, <2>3, ReviewedOrder

LEMMA RouteSidecarOrder ==
  ASSUME Sound, Sound', InOrder, NEW x \in Workers, Alone(x), RouteSidecar(x)
  PROVE  InOrder'
  <1>1. PICK log : log = w[x].log
    OBVIOUS
  <1>2. PICK i : i = w[x].i
    OBVIOUS
  <1>3. w[x].at = "carry"
    BY DEF RouteSidecar
  <1>4. /\ w[x] \in Routing /\ log \in Logs /\ i \in Places /\ i \in 1..Len(log)
        /\ Current(x) = log[i] /\ Kept(log[i]) /\ Carrying(w[x])
    <2>1. RouteAt(x)
      BY <1>3 DEF RouteAt
    <2>2. w[x].at = "carry"
      BY <1>3
    <2> QED
      BY <1>1, <1>2, <2>1, <2>2, AtRoute
  <1>5. PICK n : n = log[i].name
    OBVIOUS
  <1>6. /\ n \in DOMAIN files["review"] /\ files["review"][n] = log[i].sha
        /\ n \in DOMAIN side["inbox"] /\ Right(side["inbox"][n], log[i])
    <2>1. log[i].status = "registered" /\ ~InInbox(log[i]) /\ n \notin DOMAIN side["review"]
      BY <1>1, <1>2, <1>4, <1>5 DEF Carrying
    <2> QED
      BY <1>4, <1>5, <2>1 DEF Kept, Carried
  <1>7. PICK new : new = Marked(x, "review")
    OBVIOUS
  <1>8. /\ MoveSidecar(n) /\ UNCHANGED <<rows, files>> /\ answer' = None
        /\ w' = [w EXCEPT ![x].at = "route", ![x].i = NextIndex("route", w[x].log, @),
                          ![x].log = new]
    BY <1>4, <1>5, <1>6, <1>7 DEF RouteSidecar
  <1>9. SameBut(new, log, i)
    <2>1. "review" \in Statuses
      BY DEF Statuses
    <2> QED
      BY <1>1, <1>2, <1>4, <1>7, <2>1, MarkRow
  <1>10. /\ \A y \in Workers : y # x => w'[y] = w[y]
         /\ w'[x].at = "route" /\ w'[x].log = new /\ w'[x].i = NextIndex("route", new, i)
    <2>1. NextIndex("route", new, i) = NextIndex("route", log, i)
      BY <1>4, <1>9, NextSame
    <2>2. w \in [Workers -> Jobs]
      BY DEF Sound, Typed
    <2> QED
      BY <1>1, <1>2, <1>4, <1>8, <2>1, <2>2 DEF Routing
  <1>11. /\ n \in DOMAIN side'["review"] /\ side'["review"][n] = side["inbox"][n]
         /\ \A m \in Names \ {n} : Alike(m)
         /\ NoNews /\ (DOMAIN side["review"] \subseteq DOMAIN files["review"])'
    <2>1. DOMAIN side["review"] \subseteq DOMAIN files["review"] /\ files' = files
      BY <1>8 DEF InOrder
    <2> QED
      BY <1>6, <1>8, <2>1, SidecarMoved
  <1>12. files["review"][n] = log[i].sha /\ Right(side'["review"][n], log[i])
    BY <1>6, <1>11
  <1>13. UNCHANGED <<rows, files>> /\ answer' = None
    BY <1>8
  <1> QED
    <2>1. RouteAt(x)
      BY <1>3 DEF RouteAt
    <2>2. InPlace(log[i])
      BY <1>5, <1>6, <1>11, <1>12 DEF InPlace
    <2>3. /\ \A m \in Names \ {n} : Alike(m)
          /\ NoNews /\ (DOMAIN side["review"] \subseteq DOMAIN files["review"])'
      BY <1>11
    <2> QED
      BY <1>1, <1>2, <1>5, <1>7, <1>10, <1>13, <2>1, <2>2, <2>3, ReviewedOrder

LEMMA RouteFileOrder ==
  ASSUME Sound, Sound', InOrder, NEW x \in Workers, Alone(x), RouteFile(x)
  PROVE  InOrder'
  <1>1. PICK log : log = w[x].log
    OBVIOUS
  <1>2. PICK i : i = w[x].i
    OBVIOUS
  <1>3. w[x].at = "route" /\ HasRow(x) /\ ToRoute(x) /\ ~Arrived(x)
    BY DEF RouteFile, ToRoute
  <1>4. /\ w[x] \in Routing /\ log \in Logs /\ i \in Places /\ i \in 1..Len(log)
        /\ Current(x) = log[i] /\ Orderly(log) /\ Moving(w[x]) /\ Follows(log)
        /\ log[i].name \in Names /\ Kept(log[i]) /\ Ready(log[i])
    <2>1. RouteAt(x)
      BY <1>3 DEF RouteAt
    <2> QED
      BY <1>1, <1>2, <2>1, AtRoute
  <1>5. log[i].status = "registered" /\ InInbox(log[i])
    BY <1>3, <1>4, CannotLeave
  <1>6. PICK n : n = log[i].name
    OBVIOUS
  <1>7. /\ n \in DOMAIN files["inbox"] /\ files["inbox"][n] = log[i].sha
        /\ n \in DOMAIN side["inbox"] /\ Right(side["inbox"][n], log[i])
        /\ n \notin DOMAIN side["review"]
    <2>1. n \notin DOMAIN side["review"]
      BY <1>3, <1>4, <1>6 DEF Arrived, InOrder
    <2> QED
      BY <1>4, <1>5, <1>6, <2>1 DEF Kept, Held, Ready, InInbox
  <1>8. Move(n, "inbox", "review") /\ UNCHANGED <<rows, side>> /\ answer' = None
    BY <1>4, <1>6 DEF RouteFile
  <1>9. /\ \A y \in Workers : y # x => w'[y] = w[y]
        /\ w'[x].at = "carry" /\ w'[x].log = log /\ w'[x].i = i
    <2>1. Goto(x, "carry")
      BY DEF RouteFile
    <2> QED
      BY <1>1, <1>2, <1>4, <2>1, GotoFacts DEF Sound
  <1>10. /\ DOMAIN files'["inbox"] = DOMAIN files["inbox"] \ {n}
         /\ \A y \in DOMAIN files["inbox"] : y # n => files'["inbox"][y] = files["inbox"][y]
         /\ DOMAIN files'["review"] = DOMAIN files["review"] \union {n}
         /\ files'["review"][n] = log[i].sha
         /\ \A y \in DOMAIN files["review"] : y # n => files'["review"][y] = files["review"][y]
    <2>1. /\ files'["inbox"] = Drop(files["inbox"], n)
          /\ files'["review"] = Put(files["review"], n, files["inbox"][n])
      BY <1>7, <1>8, MoveFacts DEF Sound, Folders
    <2>2. /\ DOMAIN files'["inbox"] = DOMAIN files["inbox"] \ {n}
          /\ \A y \in DOMAIN files["inbox"] : y # n => files'["inbox"][y] = files["inbox"][y]
      BY <2>1 DEF Drop, Restrict
    <2>3. /\ DOMAIN files'["review"] = DOMAIN files["review"] \union {n}
          /\ files'["review"][n] = files["inbox"][n]
          /\ \A y \in DOMAIN files["review"] : y # n => files'["review"][y] = files["review"][y]
      BY <2>1 DEF Put
    <2> QED
      BY <1>7, <2>2, <2>3
  <1>11. (\A m \in Names \ {n} : Alike(m)) /\ NoNews
    BY <1>8, <1>10 DEF Alike, NoNews
  <1>12. ASSUME NEW r, r.name = n, r.urn = log[i].urn, r.sha = log[i].sha, r.status # "review"
         PROVE  Kept(r)'
    BY <1>7, <1>8, <1>10, <1>12 DEF Kept, InInbox, Carried, Right, Matches
  <1>13. Kept(log[i])' /\ Kept(rows[i])'
    <2>1. i \in 1..Len(rows) /\ rows[i].name = n /\ rows[i].urn = log[i].urn
          /\ rows[i].sha = log[i].sha /\ rows[i].status # "review"
      BY <1>4, <1>5, <1>6 DEF Follows
    <2>2. PICK r : r = rows[i]
      OBVIOUS
    <2>3. Kept(r)' /\ Kept(log[i])'
      BY <1>5, <1>6, <1>12, <2>1, <2>2
    <2> QED
      BY <1>8, <2>2, <2>3
  <1>14. Carrying(w[x])' /\ Left(log[i])' /\ Ready(log[i])'
    <2>1. ~InInbox(log[i])'
      BY <1>6, <1>10 DEF InInbox
    <2> QED
      BY <1>5, <1>6, <1>7, <1>8, <1>9, <2>1 DEF Carrying, Left, Ready
  <1>15. Onward(i, log[i].status) /\ SameBut(log, log, i)
    BY <1>4 DEF Onward, SameBut, Follows
  <1>16. (DOMAIN side["review"] \subseteq DOMAIN files["review"])'
    BY <1>8, <1>10 DEF InOrder
  <1>17. /\ log \in Logs /\ log = w[x].log /\ i \in 1..Len(log) /\ i = w[x].i
         /\ Orderly(log) /\ Moving(w[x]) /\ log[i].name \in Names
         /\ log[i].status \in {"registered", "review"} /\ rows' = rows /\ answer' = None
         /\ \A m \in Names \ {log[i].name} : Alike(m)
    BY <1>1, <1>2, <1>4, <1>5, <1>6, <1>8, <1>11
  <1> QED
    BY <1>9, <1>11, <1>13, <1>14, <1>15, <1>16, <1>17, RouteOn

\* A step of a worker leaves the others, and is one of a busy worker or begins a call.
LEMMA OneMoves ==
  ASSUME Sound, NEW x \in Workers,
         \/ \E item \in Items : \E doc \in item.gives : Acquire(x, item, doc)
         \/ Place(x) \/ DropCitation(x) \/ SaveOpen(x) \/ SaveWrite(x)
         \/ Process(x) \/ Start(x) \/ Provenance(x)
         \/ \E n : YearRead(x, n)
         \/ YearWrite(x) \/ Route(x) \/ Audit(x) \/ Record(x) \/ Crash(x)
  PROVE  /\ \A y \in Workers : y # x => w'[y] = w[y]
         /\ hist \subseteq hist'
         /\ w[x] # Idle \/ Alone(x) \/ "overlap" \in hist'
  <1>0. Typed /\ w \in [Workers -> Jobs]
    BY DEF Sound, Typed
  <1>1. ASSUME NEW item \in Items, NEW doc \in item.gives, Acquire(x, item, doc)
        PROVE  /\ \A y \in Workers : y # x => w'[y] = w[y]
               /\ hist \subseteq hist' /\ (Alone(x) \/ "overlap" \in hist')
    <2>1. \A y \in Workers : y # x => w'[y] = w[y]
      BY <1>1, AcquireTypes DEF Acquire
    <2>2. PICK more \in SUBSET {"refetch"} : Overlap(x, more)
      BY <1>1 DEF Acquire
    <2> QED
      BY <1>0, <2>1, <2>2, OverlapTypes
  <1>2. CASE Process(x)
    <2>1. \A y \in Workers : y # x => w'[y] = w[y]
      BY <1>0, <1>2 DEF Process
    <2>2. PICK more \in SUBSET {"refetch"} : Overlap(x, more)
      BY <1>2 DEF Process
    <2> QED
      BY <1>0, <2>1, <2>2, OverlapTypes
  <1>3. CASE Place(x) \/ DropCitation(x) \/ SaveOpen(x)
    <2>1. \E at : Goto(x, at)
      BY <1>3 DEF Place, DropCitation, SaveOpen
    <2>2. hist \subseteq hist'
      BY <1>3 DEF Place, DropCitation, SaveOpen
    <2>3. w[x] # Idle
      BY <1>3 DEF Place, DropCitation, SaveOpen, ToSave, Idle
    <2> QED
      BY <1>0, <2>1, <2>2, <2>3, GotoFacts
  <1>4. CASE SaveWrite(x)
    <2>1. w[x] \in Acquiring \union Providing \union Routing /\ w[x] # Idle
      BY <1>0, <1>4, JobOf DEF SaveWrite, Idle
    <2>2. w[x].job \in {"acquire", "provenance", "route"}
      BY <2>1 DEF Acquiring, Providing, Routing
    <2> QED
      BY <1>0, <1>4, <2>1, <2>2 DEF SaveWrite, Rest
  <1>5. CASE Start(x) \/ YearWrite(x) \/ Audit(x) \/ Record(x) \/ Crash(x) \/ RouteBegin(x)
    BY <1>0, <1>5 DEF Start, YearWrite, Audit, Record, Crash, Rest, Finish, RouteBegin, Idle
  <1>6. CASE \E n : YearRead(x, n)
    BY <1>0, <1>6 DEF YearRead, Idle
  <1>7. CASE Provenance(x)
    <2>1. w[x] # Idle
      BY <1>7 DEF Provenance, PassOver, Quarantine, UnlinkSidecar, KeepSidecar, Collapse,
                  OpenSidecar, WriteSidecar, ToCheck, HasRow, Idle
    <2>2. hist \subseteq hist'
      BY <1>7 DEF Provenance, PassOver, Quarantine, UnlinkSidecar, KeepSidecar, Collapse,
                  OpenSidecar, WriteSidecar, Move
    <2>3. \A y \in Workers : y # x => w'[y] = w[y]
      BY <1>0, <1>7 DEF Provenance, PassOver, Quarantine, UnlinkSidecar, KeepSidecar, Collapse,
                        OpenSidecar, WriteSidecar, NextRow, Goto
    <2> QED
      BY <2>1, <2>2, <2>3
  <1>8. CASE LeaveThere(x) \/ Follow(x) \/ RouteFile(x) \/ RouteSidecar(x)
    <2>1. w[x] # Idle
      BY <1>8 DEF LeaveThere, Follow, RouteFile, RouteSidecar, ToRoute, HasRow, Idle
    <2>2. hist \subseteq hist'
      BY <1>8 DEF LeaveThere, Follow, RouteFile, RouteSidecar, Move
    <2>3. \A y \in Workers : y # x => w'[y] = w[y]
      BY <1>0, <1>8 DEF LeaveThere, Follow, RouteFile, RouteSidecar, NextRow, Goto, Finish
    <2> QED
      BY <2>1, <2>2, <2>3
  <1> QED
    BY <1>1, <1>2, <1>3, <1>4, <1>5, <1>6, <1>7, <1>8 DEF Route

\* A step that leaves what InOrder is about.
LEMMA StutterOrder ==
  ASSUME Sound, InOrder, UNCHANGED vars
  PROVE  InOrder'
  <1>1. UNCHANGED <<rows, files, side, w, answer>>
    BY DEF vars
  <1>2. \A n, u : Says(n, u)' <=> Says(n, u)
    BY <1>1 DEF Says
  <1>3. \A r : (InInbox(r)' <=> InInbox(r)) /\ (Left(r)' <=> Left(r)) /\ (Ready(r)' <=> Ready(r))
               /\ (Routed(r)' <=> Routed(r)) /\ (Backed(r)' <=> Backed(r))
    BY <1>1 DEF InInbox, Left, Ready, Routed, Backed
  <1>4. \A r : Kept(r)' <=> Kept(r)
    BY <1>1, <1>2, <1>3 DEF Kept, Held, Carried, Reviewed
  <1>5. \A log : Orderly(log)' <=> Orderly(log)
    BY <1>4 DEF Orderly, Latest, Named
  <1>6. Orderly(rows)' /\ OneEach'
    BY <1>1, <1>2, <1>5 DEF OneEach, InOrder
  <1>7. \A log : Follows(log)' <=> Follows(log)
    BY <1>1 DEF Follows
  <1>8. ASSUME NEW x \in Workers PROVE Stage(w[x])'
    <2>1. PICK j : j = w[x]
      OBVIOUS
    <2>2. Stage(j)
      BY <2>1 DEF InOrder
    <2>3. /\ Seeing(j)' <=> Seeing(j)
          /\ Opened(j)' <=> Opened(j)
          /\ Carrying(j)' <=> Carrying(j)
          /\ Fresh(j)' <=> Fresh(j)
          /\ Truth' <=> Truth
      BY <1>1, <1>3 DEF Seeing, Opened, Carrying, Fresh, Live, Truth
    <2>4. (Checking(j)' <=> Checking(j)) /\ (Moving(j)' <=> Moving(j))
      BY <1>3, <1>7, <2>3 DEF Checking, Moving
    <2>5. Stage(j)'
      BY <1>1, <1>3, <1>5, <2>2, <2>3, <2>4 DEF Stage
    <2> QED
      BY <1>1, <2>1, <2>5
  <1>9. Truth' <=> Truth
    BY <1>1 DEF Truth
  <1> QED
    BY <1>1, <1>6, <1>8, <1>9 DEF InOrder

LEMMA CompleteStep ==
  Sound /\ CompleteInv /\ [Next]_vars => CompleteInv'
  <1> SUFFICES ASSUME Sound, CompleteInv, [Next]_vars, Calm'
               PROVE  InOrder' /\ \A x, y \in Workers : w'[x] # Idle /\ w'[y] # Idle => x = y
    BY DEF CompleteInv
  <1>0. Sound'
    BY SoundStep
  \* One worker steps: it is alone, and what is to be shown is that its step keeps InOrder.
  <1>1. ASSUME NEW x \in Workers, \A y \in Workers : y # x => w'[y] = w[y], hist \subseteq hist',
               w[x] # Idle \/ Alone(x) \/ "overlap" \in hist',
               InOrder /\ Alone(x) => InOrder'
        PROVE  InOrder' /\ \A y, z \in Workers : w'[y] # Idle /\ w'[z] # Idle => y = z
    <2>1. Calm /\ "overlap" \notin hist'
      BY <1>1 DEF Calm
    <2>2. InOrder /\ \A y, z \in Workers : w[y] # Idle /\ w[z] # Idle => y = z
      BY <2>1 DEF CompleteInv
    <2>3. Alone(x)
      BY <1>1, <2>1, <2>2 DEF Alone
    <2>4. \A y \in Workers : y # x => w'[y] = Idle
      BY <1>1, <2>3 DEF Alone
    <2> QED
      BY <1>1, <2>2, <2>3, <2>4
  <1>2. CASE UNCHANGED vars
    <2>1. hist' = hist /\ w' = w
      BY <1>2 DEF vars
    <2>2. Calm
      BY <2>1 DEF Calm
    <2>3. InOrder /\ \A y, z \in Workers : w[y] # Idle /\ w[z] # Idle => y = z
      BY <2>2 DEF CompleteInv
    <2> QED
      BY <1>2, <2>1, <2>3, StutterOrder
  <1>3. ASSUME NEW x \in Workers, InOrder, Alone(x),
               \/ \E item \in Items : \E doc \in item.gives : Acquire(x, item, doc)
               \/ Place(x) \/ DropCitation(x) \/ SaveOpen(x) \/ SaveWrite(x)
               \/ Process(x) \/ Start(x) \/ Provenance(x)
               \/ \E n : YearRead(x, n)
               \/ YearWrite(x) \/ Route(x) \/ Audit(x) \/ Record(x) \/ Crash(x)
        PROVE  InOrder'
    <2>1. CASE \E item \in Items : \E doc \in item.gives : Acquire(x, item, doc)
      BY <1>3, <2>1, AcquireOrder
    <2>2. CASE Place(x)
      BY <1>3, <2>2, PlaceOrder
    <2>3. CASE DropCitation(x) \/ SaveOpen(x) \/ SaveWrite(x)
      BY <1>3, <2>3, DropOrder, SaveOpenOrder, SaveWriteOrder
    <2>4. CASE Process(x) \/ Start(x)
      BY <1>3, <2>4, ProcessOrder, StartOrder
    <2>5. CASE Provenance(x)
      BY <1>0, <1>3, <2>5, PassOverOrder, QuarantineOrder, UnlinkSidecarOrder, KeepSidecarOrder,
         CollapseOrder, OpenSidecarOrder, WriteSidecarOrder DEF Provenance
    <2>6. CASE \E n : YearRead(x, n)
      BY <1>3, <2>6, YearReadOrder
    <2>7. CASE YearWrite(x)
      BY <1>3, <2>7, YearWriteOrder
    <2>8. CASE Route(x)
      BY <1>0, <1>3, <2>8, RouteBeginOrder, LeaveThereOrder, FollowOrder, RouteFileOrder,
         RouteSidecarOrder DEF Route
    <2>9. CASE Audit(x) \/ Record(x) \/ Crash(x)
      BY <1>3, <2>9, AuditOrder, RestOrder
    <2> QED
      BY <1>3, <2>1, <2>2, <2>3, <2>4, <2>5, <2>6, <2>7, <2>8, <2>9
  <1>4. CASE Next
    <2>1. PICK x \in Workers :
             \/ \E item \in Items : \E doc \in item.gives : Acquire(x, item, doc)
             \/ Place(x) \/ DropCitation(x) \/ SaveOpen(x) \/ SaveWrite(x)
             \/ Process(x) \/ Start(x) \/ Provenance(x)
             \/ \E n : YearRead(x, n)
             \/ YearWrite(x) \/ Route(x) \/ Audit(x) \/ Record(x) \/ Crash(x)
      BY <1>4 DEF Next
    <2>2. /\ \A y \in Workers : y # x => w'[y] = w[y]
          /\ hist \subseteq hist'
          /\ w[x] # Idle \/ Alone(x) \/ "overlap" \in hist'
      BY <2>1, OneMoves
    <2>3. InOrder /\ Alone(x) => InOrder'
      BY <1>3, <2>1
    <2> QED
      BY <1>1, <2>2, <2>3
  <1> QED
    BY <1>2, <1>4

LEMMA CompleteInit ==
  Init => CompleteInv
  <1> SUFFICES ASSUME Init PROVE InOrder /\ \A x \in Workers : w[x] = Idle
    BY DEF CompleteInv
  <1>1. \A x \in Workers : w[x] = Idle
    BY DEF Init
  <1>2. \A x \in Workers : Stage(w[x])
    BY <1>1 DEF Stage, HasLog, InLoop, Storing, Idle
  <1>3. OneEach
    <2>1. side["inbox"] = << >>
      BY DEF Init
    <2>2. \A n, u : ~Says(n, u)
      BY <1>1, <2>1 DEF Says, Idle
    <2> QED
      BY <2>2 DEF OneEach
  <1>4. Orderly(rows) /\ DOMAIN side["review"] \subseteq DOMAIN files["review"]
    BY DEF Init, Orderly, Latest, Named, Folders
  <1>5. answer # "complete"
    BY ValuesAssumption DEF Init
  <1> QED
    BY <1>1, <1>2, <1>3, <1>4, <1>5 DEF InOrder

\* A run that ends complete has done all of its work: nothing waits in the inbox, and what is in
\* review has the bytes of its row and a whole sidecar with its identity and its date, wherever
\* an earlier pass died, as long as calls come one after the other and no two documents have
\* been given one name: for any workers, items and bounds.
THEOREM CompletionsAreTrue == Spec => []CompleteIsTrue
  <1>1. Init => CompleteInv
    BY CompleteInit
  <1>2. Sound /\ CompleteInv => CompleteIsTrue
    <2> SUFFICES ASSUME Sound, CompleteInv, answer = "complete", Calm, NEW r \in Range(rows)
                 PROVE  /\ r.status \notin {"acquired", "registered"}
                        /\ r.status = "review" =>
                              /\ files["review"][r.name] = r.sha
                              /\ Matches(side["review"][r.name], r) /\ side["review"][r.name].dated
      BY DEF CompleteIsTrue, Calm
    <2>1. Truth
      BY DEF CompleteInv, InOrder
    <2>2. PICK k \in 1..Len(rows) : r = rows[k]
      BY DEF Range, Sound, Typed, Logs
    <2> QED
      BY <2>1, <2>2 DEF Truth, Right
  <1> QED
    BY <1>1, <1>2, TypedInit, SoundStep, CompleteStep, PTL DEF Spec
----------------------------------------------------------------------------
(* A run that nothing has disturbed ends complete.                         *)

\* The rows have their files where their status says; of those registered or in review,
\* Orderly says it.  Nothing is a duplicate: an identity is stored once.
Filed(r) ==
    /\ r.status # "duplicate"
    /\ r.status = "acquired" => InInbox(r)
    /\ r.status = "failed" => r.name \in DOMAIN files["failed"]
    /\ r.status = "citation-only" => r.urn \in pending

\* The files of the inbox and of review belong to rows.
Owned(log) ==
    /\ \A n \in DOMAIN files["inbox"] : \E k \in 1..Len(log) :
          log[k].name = n /\ log[k].status \in {"acquired", "registered"}
    /\ \A n \in DOMAIN files["review"] : \E k \in 1..Len(log) :
          log[k].name = n /\ log[k].status \in {"registered", "review"}

\* So do the sidecars of the inbox, and they carry the urns of their rows.
Witness(log, n) ==
    \E k \in 1..Len(log) :
        /\ log[k].name = n /\ log[k].status \in {"acquired", "registered"}
        /\ \A u \in Urns : Says(n, u) => u = log[k].urn
Witnessed(log) == \A n \in DOMAIN side["inbox"] : Witness(log, n)

Cited(log) ==
    \A i, k \in 1..Len(log) : i # k /\ log[i].status = "citation-only"
                                    /\ log[k].status = "citation-only" => log[i].urn # log[k].urn

Tidy(log) ==
    /\ \A k \in 1..Len(log) : Filed(log[k])
    /\ Owned(log) /\ Cited(log) /\ Witnessed(log)

\* No name is in the inbox and in review.
Apart == \A d \in {files, side} : DOMAIN d["inbox"] \intersect DOMAIN d["review"] = {}

\* What a worker has done to the folders is not in the ledger yet.
Unsaved(j) ==
    \/ j.at \in {"drop", "write"}
    \/ j.at = "save" /\ j.name # None
    \/ j.at \in {"provenance", "unlink", "sidecar"} /\ j.moved

\* The row of the ledger in memory that an acquire is about to store.
Storable(j) ==
    \E k \in 1..Len(j.log) :
        /\ j.log[k].name = j.name
        /\ IF j.name = None THEN j.log[k].status = "citation-only" /\ j.log[k].urn = j.ack.urn
           ELSE j.log[k].status = "acquired"
        /\ \A i \in 1..Len(j.log) \ {k} : Filed(j.log[i])

\* No citation that stays has the urn of the one that goes.
Droppable(j) ==
    j.drop # None =>
        /\ j.name # None
        /\ \A k \in 1..Len(j.log) : j.log[k].status = "citation-only" => j.log[k].urn # j.drop

Neat(j) ==
    /\ ~Unsaved(j) => Tidy(rows)
    /\ j.at = "place" => Storable(j) /\ Owned(j.log) /\ Cited(j.log) /\ Witnessed(j.log)
    /\ j.at \in {"place", "drop"} => Droppable(j)
    /\ HasLog(j) /\ j.at \notin {"place", "unlink"} => Tidy(j.log)
    /\ j.at = "unlink" =>
          /\ \A k \in 1..Len(j.log) : Filed(j.log[k])
          /\ Owned(j.log) /\ Cited(j.log)
          /\ \A n \in DOMAIN side["inbox"] \ {j.log[j.i].name} : Witness(j.log, n)
    /\ j.at \in {"provenance", "unlink", "sidecar"} =>
          \A u \in Urns, n \in Names : <<u, n>> \in j.seen =>
             \E k \in 1..Len(j.log) : j.log[k].urn = u /\ j.log[k].name = n
    /\ j.at \in {"route", "carry"} =>
          \A k \in 1..Len(j.log) :
             /\ \/ j.log[k].status = rows[k].status
                \/ rows[k].status = "registered" /\ j.log[k].status = "review"
             /\ k < j.i => j.log[k].status # "registered"
    /\ j.at = "write" /\ j.job = "route" => \A k \in 1..Len(j.log) : j.log[k].status # "registered"
    /\ j.at = "audit" => \A k \in 1..Len(rows) : rows[k].status # "registered"
    /\ j.at = "end" => j.status = "complete"

InHand == \A l \in DOMAIN records :
             records[l] = Torn => \E x \in Workers : w[x].at \in {"start", "end"} /\ w[x].id = l

Undisturbed ==
    /\ Apart /\ InHand /\ answer \notin {"failed", "raised"}
    /\ (\A x \in Workers : w[x] = Idle) => Tidy(rows)
    /\ \A x \in Workers : w[x] # Idle => Neat(w[x])

Quiet == hist \intersect {"overlap", "names", "death"} = {}

TidyInv == Quiet => Undisturbed

LEMMA UndisturbedStep ==
  ASSUME NEW x \in Workers, Alone(x), \A y \in Workers : y # x => w'[y] = w[y],
         Apart', InHand', answer' \notin {"failed", "raised"},
         w'[x] = Idle => Tidy(rows)', w'[x] # Idle => Neat(w[x])'
  PROVE  Undisturbed'
  <1>1. ASSUME NEW y \in Workers, w'[y] # Idle PROVE y = x
    BY <1>1 DEF Alone
  <1>2. ASSUME NEW y \in Workers, w'[y] # Idle PROVE Neat(w[y])'
    BY <1>1, <1>2
  <1> QED
    BY <1>2 DEF Undisturbed

\* Outside of its beginning and its end no run has half a record.
LEMMA NoneInHand ==
  ASSUME InHand, NEW x \in Workers, Alone(x), w[x].at \notin {"start", "end"}
  PROVE  \A l \in DOMAIN records : records[l] # Torn
  BY DEF InHand, Alone, Idle

LEMMA HandStill ==
  ASSUME InHand, NEW x \in Workers, Alone(x), w[x].at \notin {"start", "end"}, records' = records
  PROVE  InHand'
  BY NoneInHand DEF InHand

\* A step that leaves files, sidecars and citations.
LEMMA TidyStill ==
  ASSUME NEW x \in Workers, \A y \in Workers : y # x => w'[y] = w[y], w'[x].at # "date",
         UNCHANGED <<files, side, pending>>
  PROVE  /\ \A r : Filed(r) => Filed(r)'
         /\ \A log : (Owned(log) => Owned(log)') /\ (Cited(log) => Cited(log)')
                     /\ (Witnessed(log) => Witnessed(log)')
         /\ \A log, n : Witness(log, n) => Witness(log, n)'
         /\ \A log : Tidy(log) => Tidy(log)'
         /\ Apart => Apart'
  <1>1. \A n, u : Says(n, u)' => Says(n, u)
    BY SaysLess
  <1>2. \A r : Filed(r) => Filed(r)'
    BY DEF Filed, InInbox
  <1>3. \A log, n : Witness(log, n) => Witness(log, n)'
    BY <1>1 DEF Witness
  <1>4. \A log : (Owned(log) => Owned(log)') /\ (Cited(log) => Cited(log)')
    BY DEF Owned, Cited
  <1>5. \A log : Witnessed(log) => Witnessed(log)'
    BY <1>3 DEF Witnessed
  <1>6. Apart => Apart'
    BY DEF Apart
  <1> QED
    BY <1>2, <1>3, <1>4, <1>5, <1>6 DEF Tidy

\* The plan of an acquire, over the ledger it has read: one row is new or refilled, and a
\* citation that goes is the one that the row was.
Planned(j) ==
    \E k \in 1..Len(j.log) :
        /\ \A i \in 1..Len(j.log) \ {k} : i <= Len(rows) /\ j.log[i] = rows[i]
        /\ \A i \in 1..Len(rows) \ {k} : i <= Len(j.log)
        /\ k <= Len(rows) => rows[k].status \in {"failed", "citation-only"}
        /\ j.log[k].name = j.name
        /\ j.name # None => j.log[k].status = "acquired"
        /\ j.name = None => /\ j.log[k].status = "citation-only" /\ j.log[k].urn = j.ack.urn
                            /\ \A i \in 1..Len(rows) : rows[i].urn # j.ack.urn
        /\ j.drop # None => /\ j.name # None /\ k <= Len(rows)
                            /\ rows[k].status = "citation-only" /\ rows[k].urn = j.drop

LEMMA AcquirePlanned ==
  ASSUME Sound, NEW x \in Workers, NEW item \in Items, NEW doc \in item.gives, w[x] = Idle,
         IF doc # None THEN AcquireBytes(x, item, doc) ELSE AcquireCitation(x, item),
         w'[x] # Idle, rows' = rows
  PROVE  Planned(w'[x])
  <1>0. rows \in Logs /\ w \in [Workers -> Jobs] /\ Len(rows) \in Nat
        /\ DOMAIN rows = 1..Len(rows)
    BY DEF Sound, Typed, Logs
  <1>1. CASE doc # None
    <2> DEFINE urn == Identity(item, doc)
               name == ArtifactName(item, doc)
               i == Existing(rows, item, urn)
               new == IF i # 0 /\ Refills(rows[i], item)
                      THEN [rows EXCEPT ![i] = Refilled(@, item, urn, name, doc)]
                      ELSE Append(rows, Row(item, urn, "acquired", name, doc))
               drop == IF i # 0 /\ item.url /\ rows[i].status = "citation-only"
                       THEN rows[i].urn ELSE None
    <2>1. Plan(x, new, name, drop, Acked(urn, doc))
      BY <1>0, <1>1 DEF AcquireBytes
    <2>2. w'[x].log = new /\ w'[x].name = name /\ w'[x].drop = drop
      BY <1>0, <2>1 DEF Plan
    <2>3. urn \in Urns /\ name \in Names /\ doc \in Docs /\ name # None
      BY ItemTypes, NamesAssumption
    <2>4. i \in DOMAIN rows \union {0}
      <3>1. i = IF ByUrn(rows, urn) = 0 /\ item.url THEN ByInput(rows, item.input)
                ELSE ByUrn(rows, urn)
        BY DEF Existing
      <3>2. /\ ByUrn(rows, urn) \in DOMAIN rows \union {0}
            /\ ByInput(rows, item.input) \in DOMAIN rows \union {0}
        BY <1>0, ExistingFacts
      <3> QED
        BY <3>1, <3>2
    <2> HIDE DEF urn, name, i
    <2>5. i # 0 => rows[i] \in Rows
      BY <1>0, <2>4 DEF Logs
    <2>6. CASE i # 0 /\ Refills(rows[i], item)
      <3> DEFINE row == Refilled(rows[i], item, urn, name, doc)
      <3>1. row.status = "acquired" /\ row.name = name
        BY <2>3, <2>5, <2>6, RefilledType
      <3>2. rows[i].status \in {"failed", "citation-only"} /\ i \in 1..Len(rows)
        BY <1>0, <2>4, <2>6 DEF Refills
      <3> HIDE DEF row
      <3>3. new = [rows EXCEPT ![i] = row]
        BY <2>6 DEF row
      <3> HIDE DEF new
      <3>4. /\ Len(new) = Len(rows) /\ new[i] = row
            /\ \A j \in 1..Len(rows) \ {i} : new[j] = rows[j]
        BY <1>0, <3>2, <3>3 DEF Logs
      <3>5. drop # None => rows[i].status = "citation-only" /\ rows[i].urn = drop
        OBVIOUS
      <3> HIDE DEF drop
      <3> QED
        BY <1>0, <2>2, <2>3, <3>1, <3>2, <3>4, <3>5 DEF Planned
    <2>7. CASE ~(i # 0 /\ Refills(rows[i], item))
      <3> DEFINE row == Row(item, urn, "acquired", name, doc)
                 k == Len(rows) + 1
      <3>1. new = Append(rows, row)
        BY <2>7
      <3>2. row.name = name /\ row.status = "acquired"
        BY DEF Row
      <3>3. drop = None
        BY <2>7 DEF Refills
      <3> HIDE DEF row, new, drop
      <3>4. /\ Len(new) = k /\ new[k] = row /\ k \in 1..Len(new)
            /\ \A j \in 1..Len(rows) : new[j] = rows[j]
        BY <1>0, <3>1 DEF Logs
      <3> QED
        BY <1>0, <2>2, <2>3, <3>2, <3>3, <3>4 DEF Planned
    <2> QED
      BY <2>6, <2>7
  <1>2. CASE doc = None
    <2> DEFINE urn == Identity(item, None)
               row == Row(item, urn, "citation-only", None, None)
               new == Append(rows, row)
               k == Len(rows) + 1
    <2>1. Plan(x, new, None, None, Acked(urn, None)) /\ ByUrn(rows, urn) = 0
      BY <1>0, <1>2 DEF AcquireCitation
    <2>2. w'[x].log = new /\ w'[x].name = None /\ w'[x].drop = None /\ w'[x].ack.urn = urn
      BY <1>0, <2>1 DEF Plan, Acked
    <2>3. row.urn = urn /\ row.name = None /\ row.status = "citation-only"
      BY DEF Row
    <2>4. \A j \in 1..Len(rows) : rows[j].urn # urn
      BY <1>0, <2>1, ExistingFacts
    <2> HIDE DEF row, urn
    <2>5. /\ Len(new) = k /\ new[k] = row /\ k \in 1..Len(new)
          /\ \A j \in 1..Len(rows) : new[j] = rows[j]
      BY <1>0 DEF Logs
    <2> HIDE DEF new
    <2> QED
      BY <1>0, <2>2, <2>3, <2>4, <2>5 DEF Planned
  <1> QED
    BY <1>1, <1>2

\* Before it places anything, all but the planned row is in order.
LEMMA PlannedNeat ==
  ASSUME Tidy(rows), NEW j, Planned(j), Len(rows) \in Nat, Len(j.log) \in Nat
  PROVE  /\ Storable(j) /\ Droppable(j)
         /\ Owned(j.log) /\ Cited(j.log) /\ Witnessed(j.log)
  <1>1. PICK k \in 1..Len(j.log) :
        /\ \A i \in 1..Len(j.log) \ {k} : i <= Len(rows) /\ j.log[i] = rows[i]
        /\ \A i \in 1..Len(rows) \ {k} : i <= Len(j.log)
        /\ k <= Len(rows) => rows[k].status \in {"failed", "citation-only"}
        /\ j.log[k].name = j.name
        /\ j.name # None => j.log[k].status = "acquired"
        /\ j.name = None => /\ j.log[k].status = "citation-only" /\ j.log[k].urn = j.ack.urn
                            /\ \A i \in 1..Len(rows) : rows[i].urn # j.ack.urn
        /\ j.drop # None => /\ j.name # None /\ k <= Len(rows)
                            /\ rows[k].status = "citation-only" /\ rows[k].urn = j.drop
    BY DEF Planned
  <1>2. PICK log : log = j.log
    OBVIOUS
  <1>3. \A i \in 1..Len(log) \ {k} : i \in 1..Len(rows) /\ log[i] = rows[i]
    BY <1>1, <1>2
  <1>4. \A i \in 1..Len(rows) : rows[i].status \in {"acquired", "registered", "review"} =>
           i \in 1..Len(log) /\ log[i] = rows[i]
    BY <1>1, <1>2
  <1>5. Storable(j)
    <2>1. \A i \in 1..Len(log) \ {k} : Filed(log[i])
      BY <1>3 DEF Tidy
    <2> QED
      BY <1>1, <1>2, <2>1 DEF Storable
  <1>6. Droppable(j)
    <2> SUFFICES ASSUME j.drop # None, NEW i \in 1..Len(log), log[i].status = "citation-only"
                 PROVE  log[i].urn # j.drop
      BY <1>1, <1>2 DEF Droppable
    <2>1. i # k /\ k \in 1..Len(rows)
      BY <1>1, <1>2
    <2> QED
      BY <1>1, <1>3, <2>1 DEF Tidy, Cited
  <1>7. Owned(log)
    BY <1>4 DEF Tidy, Owned
  <1>8. Witnessed(log)
    BY <1>4 DEF Tidy, Witnessed, Witness
  <1>9. Cited(log)
    <2> SUFFICES ASSUME NEW a \in 1..Len(log), NEW b \in 1..Len(log), a # b,
                        log[a].status = "citation-only", log[b].status = "citation-only"
                 PROVE  log[a].urn # log[b].urn
      BY DEF Cited
    <2>1. CASE a # k /\ b # k
      BY <1>3, <2>1 DEF Tidy, Cited
    <2>2. CASE a = k
      BY <1>1, <1>2, <1>3, <2>2
    <2>3. CASE b = k
      BY <1>1, <1>2, <1>3, <2>3
    <2> QED
      BY <2>1, <2>2, <2>3
  <1> QED
    BY <1>2, <1>5, <1>6, <1>7, <1>8, <1>9

LEMMA AcquireTidy ==
  ASSUME Sound, Sound', Undisturbed, NEW x \in Workers, Alone(x), NEW item \in Items,
         NEW doc \in item.gives, Acquire(x, item, doc)
  PROVE  Undisturbed'
  <1>1. UNCHANGED <<rows, files, side, pending, records>> /\ w[x] = Idle /\ answer' = None
    BY DEF Acquire
  <1>2. /\ \A y \in Workers : y # x => w'[y] = w[y]
        /\ w'[x] = Idle \/ w'[x].at = "place"
    BY AcquireTypes DEF Acquire
  <1>3. w'[x].at # "date" /\ w[x].at \notin {"start", "end"}
    BY <1>1, <1>2 DEF Idle
  <1>4. Tidy(rows)
    BY <1>1 DEF Undisturbed, Alone
  <1>5. /\ \A r : Filed(r) => Filed(r)'
        /\ \A log : (Owned(log) => Owned(log)') /\ (Cited(log) => Cited(log)')
                    /\ (Witnessed(log) => Witnessed(log)')
        /\ \A log : Tidy(log) => Tidy(log)'
        /\ Apart'
    BY <1>1, <1>2, <1>3, TidyStill DEF Undisturbed
  <1>6. Tidy(rows)'
    <2>1. PICK l : l = rows
      OBVIOUS
    <2>2. Tidy(l)'
      BY <1>4, <1>5, <2>1
    <2> QED
      BY <1>1, <2>1, <2>2
  <1>7. InHand'
    BY <1>1, <1>3, HandStill DEF Undisturbed
  <1>8. ASSUME w'[x] # Idle PROVE Neat(w[x])'
    <2>1. PICK j : j = w'[x]
      OBVIOUS
    <2>2. Planned(j)
      BY <1>1, <1>8, <2>1, AcquirePlanned DEF Acquire
    <2>3. j \in Acquiring /\ j.at = "place"
      <3>1. w'[x].at = "place"
        BY <1>2, <1>8
      <3>2. w'[x] \in Jobs
        BY DEF Sound, Typed
      <3> QED
        BY <2>1, <3>1, <3>2 DEF Jobs, Idle, Acquiring, Providing, Routing, Starting, Dating,
                                Writing, Auditing, Ending
    <2>4. Len(rows) \in Nat /\ Len(j.log) \in Nat
      BY <2>3 DEF Acquiring, Logs, Sound, Typed
    <2>5. Storable(j) /\ Droppable(j) /\ Owned(j.log) /\ Cited(j.log) /\ Witnessed(j.log)
      BY <1>4, <2>2, <2>4, PlannedNeat
    <2>6. Storable(j)' /\ Droppable(j)' /\ Owned(j.log)' /\ Cited(j.log)' /\ Witnessed(j.log)'
      BY <1>5, <2>5 DEF Storable, Droppable
    <2>7. Neat(j)'
      BY <1>6, <2>3, <2>6 DEF Neat
    <2> QED
      BY <2>1, <2>7
  <1> QED
    BY <1>1, <1>2, <1>5, <1>6, <1>7, <1>8, UndisturbedStep, ValuesAssumption

LEMMA ProcessTidy ==
  ASSUME Sound, Undisturbed, NEW x \in Workers, Alone(x), Process(x)
  PROVE  Undisturbed'
  <1>0. w \in [Workers -> Jobs] /\ w[x] = Idle /\ UNCHANGED <<rows, files, side, pending>>
    BY DEF Sound, Typed, Process
  <1>1. \A l \in DOMAIN records : records[l] # Torn
    BY <1>0, NoneInHand DEF Undisturbed, Idle
  <1>2. \/ answer' = "resumed" /\ UNCHANGED <<records, w>>
        \/ /\ answer' = None /\ records' = Put(records, rows, Torn)
           /\ w' = [w EXCEPT ![x] = [at |-> "start", id |-> rows]]
    BY <1>1 DEF Process
  <1>3. /\ \A y \in Workers : y # x => w'[y] = w[y]
        /\ w'[x].at \in {"idle", "start"}
    BY <1>0, <1>2 DEF Idle
  <1>4. Tidy(rows)
    BY <1>0 DEF Undisturbed, Alone
  <1>5. Apart' /\ \A log : Tidy(log) => Tidy(log)'
    BY <1>0, <1>3, TidyStill DEF Undisturbed
  <1>6. Tidy(rows)'
    <2>1. PICK l : l = rows
      OBVIOUS
    <2>2. Tidy(l)'
      BY <1>4, <1>5, <2>1
    <2> QED
      BY <1>0, <2>1, <2>2
  <1>7. InHand'
    <2>1. CASE UNCHANGED <<records, w>>
      BY <1>1, <2>1 DEF InHand
    <2>2. CASE /\ records' = Put(records, rows, Torn)
               /\ w' = [w EXCEPT ![x] = [at |-> "start", id |-> rows]]
      <3>1. w'[x].at = "start" /\ w'[x].id = rows
        BY <1>0, <2>2
      <3>2. \A l \in DOMAIN records' : records'[l] = Torn => l = rows
        BY <1>1, <2>2 DEF Put
      <3> QED
        BY <3>1, <3>2 DEF InHand
    <2> QED
      BY <1>2, <2>1, <2>2
  <1>8. Neat(w[x])'
    BY <1>3, <1>6 DEF Neat, HasLog, InLoop, Storing
  <1>9. answer' \notin {"failed", "raised"}
    BY <1>2, ValuesAssumption
  <1> QED
    BY <1>3, <1>5, <1>6, <1>7, <1>8, <1>9, UndisturbedStep

LEMMA SaveOpenTidy ==
  ASSUME Sound, Undisturbed, NEW x \in Workers, Alone(x), SaveOpen(x)
  PROVE  Undisturbed'
  <1>0. \/ w[x] \in Acquiring /\ w[x].at = "save"
        \/ w[x] \in Providing /\ w[x].at = "provenance" /\ w[x].i > Len(w[x].log)
        \/ w[x] \in Routing /\ w[x].at = "route" /\ w[x].i > Len(w[x].log)
    BY JobOf DEF Sound, SaveOpen, ToSave
  <1>1. PICK log : log = w[x].log
    OBVIOUS
  <1>2. log \in Logs /\ Len(log) \in Nat /\ w[x].at \in {"save", "provenance", "route"}
    BY <1>0, <1>1 DEF Acquiring, Providing, Routing, Logs
  <1>3. /\ \A y \in Workers : y # x => w'[y] = w[y]
        /\ w'[x].at = "write" /\ w'[x].log = log /\ w'[x].job = w[x].job
    <2>1. Goto(x, "write")
      BY DEF SaveOpen
    <2> QED
      BY <1>0, <1>1, <2>1, GotoFacts DEF Sound
  <1>4. UNCHANGED <<files, side, pending, records>> /\ answer' = None
    BY DEF SaveOpen
  <1>5. Neat(w[x]) /\ w[x] # Idle
    BY <1>2 DEF Undisturbed, Idle
  <1>6. Tidy(log)
    BY <1>1, <1>2, <1>5 DEF Neat, HasLog, Storing, InLoop
  <1>7. Tidy(log)' /\ Apart'
    BY <1>3, <1>4, <1>6, TidyStill DEF Undisturbed
  <1>8. w'[x].job = "route" => \A k \in 1..Len(log) : log[k].status # "registered"
    <2> SUFFICES ASSUME w[x].job = "route", NEW k \in 1..Len(log)
                 PROVE  log[k].status # "registered"
      BY <1>3
    <2>1. w[x] \in Routing /\ w[x].at = "route" /\ w[x].i > Len(w[x].log)
      BY <1>0 DEF Acquiring, Providing
    <2>2. k < w[x].i
      BY <1>1, <1>2, <2>1 DEF Routing, Places
    <2> QED
      BY <1>1, <1>5, <2>1, <2>2 DEF Neat
  <1>9. Neat(w[x])'
    <2>1. Unsaved(w[x])'
      BY <1>3 DEF Unsaved
    <2> QED
      BY <1>3, <1>7, <1>8, <2>1 DEF Neat
  <1>10. InHand'
    BY <1>2, <1>4, HandStill DEF Undisturbed
  <1>11. w'[x] # Idle
    BY <1>3 DEF Idle
  <1> QED
    BY <1>3, <1>4, <1>7, <1>9, <1>10, <1>11, UndisturbedStep, ValuesAssumption

LEMMA SaveWriteTidy ==
  ASSUME Sound, Undisturbed, NEW x \in Workers, Alone(x), SaveWrite(x)
  PROVE  Undisturbed'
  <1>0. w \in [Workers -> Jobs] /\ w[x].at = "write" /\ w[x] \in Jobs
    BY DEF Sound, Typed, SaveWrite
  <1>1. PICK log : log = w[x].log
    OBVIOUS
  <1>2. rows' = log /\ UNCHANGED <<files, side, pending, records>> /\ answer' = None
    BY <1>1 DEF SaveWrite
  <1>3. \/ w[x].job = "acquire" /\ w' = [w EXCEPT ![x] = Idle]
        \/ w[x].job = "provenance" /\ w' = [w EXCEPT ![x] = [at |-> "year", id |-> w[x].id,
                                                           todo |-> DOMAIN side["inbox"]]]
        \/ w[x].job = "route" /\ w' = [w EXCEPT ![x] = [at |-> "audit", id |-> w[x].id]]
    <2>1. w[x] \in Acquiring \union Providing \union Routing
      BY <1>0, JobOf DEF Sound
    <2>2. w[x].job \in {"acquire", "provenance", "route"}
      BY <2>1 DEF Acquiring, Providing, Routing
    <2> QED
      BY <2>2 DEF SaveWrite, Rest
  <1>4. /\ \A y \in Workers : y # x => w'[y] = w[y]
        /\ w'[x].at \in {"idle", "year", "audit"}
        /\ w'[x].at = "audit" => w[x].job = "route"
    BY <1>0, <1>3 DEF Idle
  <1>5. Neat(w[x])
    BY <1>0 DEF Undisturbed, Idle
  <1>6. Tidy(log)
    BY <1>0, <1>1, <1>5 DEF Neat, HasLog
  <1>7. Tidy(log)' /\ Apart'
    BY <1>2, <1>4, <1>6, TidyStill DEF Undisturbed
  <1>8. Tidy(rows)'
    BY <1>2, <1>7
  <1>9. w'[x].at = "audit" => \A k \in 1..Len(log) : log[k].status # "registered"
    BY <1>0, <1>1, <1>4, <1>5 DEF Neat
  <1>10. Neat(w[x])'
    BY <1>2, <1>4, <1>8, <1>9 DEF Neat, HasLog, InLoop, Storing
  <1>11. InHand'
    BY <1>0, <1>2, HandStill DEF Undisturbed
  <1> QED
    BY <1>2, <1>4, <1>7, <1>8, <1>10, <1>11, UndisturbedStep, ValuesAssumption

LEMMA RestTidy ==
  ASSUME Sound, Undisturbed, NEW x \in Workers, Alone(x), Quiet', Record(x) \/ Crash(x)
  PROVE  Undisturbed'
  <1>0. w \in [Workers -> Jobs] /\ UNCHANGED <<rows, files, side, pending>> /\ Rest(x)
    BY DEF Sound, Typed, Record, Crash
  <1>1. w'[x] = Idle /\ \A y \in Workers : y # x => w'[y] = w[y]
    BY <1>0 DEF Rest
  <1>2. w[x] # Idle /\ Neat(w[x])
    BY DEF Undisturbed, Record, Crash, Idle
  <1>3. ~Unsaved(w[x])
    <2>1. CASE Record(x)
      BY <2>1 DEF Record, Unsaved
    <2>2. CASE Crash(x)
      BY <2>2 DEF Quiet, Crash, Harmful, Unsaved
    <2> QED
      BY <2>1, <2>2
  <1>4. Tidy(rows)
    BY <1>2, <1>3 DEF Neat
  <1>5. w'[x].at # "date"
    BY <1>1 DEF Idle
  <1>6. Apart' /\ \A log : Tidy(log) => Tidy(log)'
    BY <1>0, <1>1, <1>5, TidyStill DEF Undisturbed
  <1>7. Tidy(rows)'
    <2>1. PICK l : l = rows
      OBVIOUS
    <2>2. Tidy(l)'
      BY <1>4, <1>6, <2>1
    <2> QED
      BY <1>0, <2>1, <2>2
  <1>8. InHand' /\ answer' \notin {"failed", "raised"}
    <2>1. CASE Record(x)
      <3>1. /\ w[x].at = "end" /\ w[x].status = "complete" /\ answer' = w[x].status
            /\ records' = [records EXCEPT ![w[x].id] = w[x].status]
        BY <1>2, <2>1 DEF Record, Neat
      <3>2. \A l \in DOMAIN records : records[l] = Torn => w[x].id = l
        BY DEF Undisturbed, InHand, Alone, Idle
      <3>3. \A l \in DOMAIN records' : records'[l] # Torn
        BY <3>1, <3>2, ValuesAssumption
      <3> QED
        BY <3>1, <3>3 DEF InHand
    <2>2. CASE Crash(x)
      <3>1. records' = records /\ w[x].at \notin {"start", "end"} /\ answer' = None
        BY <2>2 DEF Quiet, Crash, Harmful
      <3> QED
        BY <3>1, HandStill, ValuesAssumption DEF Undisturbed
    <2> QED
      BY <2>1, <2>2
  <1> QED
    BY <1>1, <1>6, <1>7, <1>8, UndisturbedStep

\* What is seen is what sidecars say, and these belong to rows.
LEMMA StartTidy ==
  ASSUME Sound, Undisturbed, NEW x \in Workers, Alone(x), Start(x)
  PROVE  Undisturbed'
  <1>0. w \in [Workers -> Jobs] /\ w[x].at = "start"
    BY DEF Sound, Typed, Start
  <1>1. PICK log : log = rows
    OBVIOUS
  <1> DEFINE seen == {<<side["inbox"][n].urn, n>> :
                        n \in {n \in DOMAIN side["inbox"] : side["inbox"][n] # Torn}}
  <1>2. UNCHANGED <<rows, files, side, pending>> /\ answer' = None
        /\ records' = [records EXCEPT ![w[x].id] = "running"]
    BY DEF Start
  <1>3. /\ \A y \in Workers : y # x => w'[y] = w[y]
        /\ w'[x].at = "provenance" /\ w'[x].log = log /\ ~w'[x].moved /\ w'[x].seen = seen
    BY <1>0, <1>1 DEF Start
  <1>4. Tidy(log)
    BY <1>0, <1>1 DEF Undisturbed, Neat, Unsaved, Idle
  <1>5. Tidy(log)' /\ Apart'
    BY <1>2, <1>3, <1>4, TidyStill DEF Undisturbed
  <1>6. \A u \in Urns, n \in Names : <<u, n>> \in seen =>
           \E k \in 1..Len(log) : log[k].urn = u /\ log[k].name = n
    <2> SUFFICES ASSUME NEW u \in Urns, NEW n \in Names, <<u, n>> \in seen
                 PROVE  \E k \in 1..Len(log) : log[k].urn = u /\ log[k].name = n
      OBVIOUS
    <2>1. n \in DOMAIN side["inbox"] /\ Says(n, u)
      BY DEF Says
    <2> QED
      BY <1>4, <2>1 DEF Tidy, Witnessed, Witness
  <1> HIDE DEF seen
  <1>7. Neat(w[x])'
    <2>1. Tidy(rows)' /\ Tidy(w[x].log)'
      BY <1>1, <1>2, <1>3, <1>5
    <2> QED
      BY <1>3, <1>6, <2>1 DEF Neat
  <1>8. InHand'
    <2>1. \A l \in DOMAIN records : records[l] = Torn => w[x].id = l
      BY DEF Undisturbed, InHand, Alone, Idle
    <2>2. \A l \in DOMAIN records' : records'[l] # Torn
      BY <1>2, <2>1, ValuesAssumption
    <2> QED
      BY <2>2 DEF InHand
  <1>9. w'[x] # Idle
    BY <1>3 DEF Idle
  <1> QED
    BY <1>2, <1>3, <1>5, <1>7, <1>8, <1>9, UndisturbedStep, ValuesAssumption

LEMMA RouteBeginTidy ==
  ASSUME Sound, Undisturbed, NEW x \in Workers, Alone(x), RouteBegin(x)
  PROVE  Undisturbed'
  <1>0. w \in [Workers -> Jobs] /\ w[x].at = "year" /\ rows \in Logs
    BY DEF Sound, Typed, RouteBegin
  <1>1. PICK log : log = rows
    OBVIOUS
  <1>2. UNCHANGED <<rows, files, side, pending, records>> /\ answer' = None
    BY DEF RouteBegin
  <1>3. /\ \A y \in Workers : y # x => w'[y] = w[y]
        /\ w'[x].at = "route" /\ w'[x].log = log /\ w'[x].i = NextIndex("route", log, 0)
    BY <1>0, <1>1 DEF RouteBegin
  <1>4. Tidy(log)
    BY <1>0, <1>1 DEF Undisturbed, Neat, Unsaved, Idle
  <1>5. Tidy(log)' /\ Apart'
    BY <1>2, <1>3, <1>4, TidyStill DEF Undisturbed
  <1>6. \A k \in 1..Len(log) : k < w'[x].i => log[k].status # "registered"
    <2>1. log \in Logs /\ Len(log) \in Nat
      BY <1>0, <1>1 DEF Logs
    <2>2. /\ \A j \in 1..Len(log) :
                log[j].status \in Treats("route") => NextIndex("route", log, 0) <= j
          /\ NextIndex("route", log, 0) \in Nat
      BY <2>1, NextIndexType DEF Places
    <2> QED
      BY <1>3, <2>1, <2>2 DEF Treats
  <1>7. Neat(w[x])'
    <2>1. Tidy(rows)' /\ Tidy(w[x].log)' /\ rows' = log
      BY <1>1, <1>2, <1>3, <1>5
    <2> QED
      BY <1>3, <1>6, <2>1 DEF Neat
  <1>8. InHand'
    BY <1>0, <1>2, HandStill DEF Undisturbed
  <1>9. w'[x] # Idle
    BY <1>3 DEF Idle
  <1> QED
    BY <1>2, <1>3, <1>5, <1>7, <1>8, <1>9, UndisturbedStep, ValuesAssumption

\* What routing has left of a ledger that is tidy, the audits accept.
LEMMA AuditTidy ==
  ASSUME Sound, InOrder, Undisturbed, NEW x \in Workers, Alone(x), Audit(x)
  PROVE  Undisturbed'
  <1>0. w \in [Workers -> Jobs] /\ w[x].at = "audit" /\ rows \in Logs /\ Len(rows) \in Nat
        /\ DOMAIN rows = 1..Len(rows) /\ w[x] # Idle
    BY DEF Sound, Typed, Audit, Logs, Idle
  <1>1. UNCHANGED <<rows, files, side, pending>> /\ answer' = None
        /\ records' = Put(records, w[x].id, Torn)
    BY DEF Audit, Finish
  <1>2. Neat(w[x]) /\ Stage(w[x])
    BY <1>0 DEF Undisturbed, InOrder
  <1>3. Tidy(rows)
    BY <1>0, <1>2 DEF Neat, Unsaved
  <1>4. \A k \in 1..Len(rows) : rows[k].status \notin {"acquired", "registered"}
    <2> SUFFICES ASSUME NEW k \in 1..Len(rows) PROVE rows[k].status \notin {"acquired", "registered"}
      OBVIOUS
    <2>1. rows[k].status # "registered"
      BY <1>0, <1>2 DEF Neat
    <2>2. Left(rows[k]) /\ Filed(rows[k])
      BY <1>0, <1>2, <1>3 DEF Stage, Tidy
    <2> QED
      BY <2>1, <2>2 DEF Left, Filed
  <1>5. Waiting = {}
    BY <1>0, <1>4 DEF Waiting, Range
  <1>6. DOMAIN files["inbox"] = {} /\ DOMAIN side["inbox"] = {}
    BY <1>3, <1>4 DEF Tidy, Owned, Witnessed, Witness
  <1>7. ASSUME NEW k \in 1..Len(rows) PROVE ~OrphanRow(rows[k])
    <2>1. PICK r : r = rows[k]
      OBVIOUS
    <2>2. Filed(r) /\ Kept(r) /\ r.status \in Statuses /\ r.status \notin {"acquired", "registered"}
      <3>1. Filed(r) /\ r.status \notin {"acquired", "registered"}
        BY <1>3, <1>4, <2>1 DEF Tidy
      <3>2. Kept(r)
        BY <2>1 DEF InOrder, Orderly
      <3>3. r.status \in Statuses
        <4>1. r \in Rows
          BY <1>0, <2>1 DEF Logs
        <4> QED
          BY <4>1 DEF Rows
      <3> QED
        BY <3>1, <3>2, <3>3
    <2>3. CASE r.status = "citation-only"
      BY <2>1, <2>2, <2>3 DEF Filed, OrphanRow
    <2>4. CASE r.status = "failed"
      BY <2>1, <2>2, <2>4 DEF Filed, OrphanRow, FolderOf
    <2>5. CASE r.status = "review"
      BY <2>1, <2>2, <2>5 DEF Kept, Reviewed, OrphanRow, FolderOf
    <2> QED
      BY <2>2, <2>3, <2>4, <2>5 DEF Statuses, Filed
  <1>8. Clean
    <2>1. \A r \in Range(rows) : ~OrphanRow(r)
      BY <1>0, <1>7 DEF Range
    <2> QED
      BY <1>5, <1>6, <2>1 DEF Clean, AcquireClean, ProvenanceClean
  <1>9. /\ \A y \in Workers : y # x => w'[y] = w[y]
        /\ w'[x].at = "end" /\ w'[x].status = "complete" /\ w'[x].id = w[x].id
    BY <1>0, <1>8 DEF Audit, Finish
  <1>10. Apart' /\ \A log : Tidy(log) => Tidy(log)'
    BY <1>1, <1>9, TidyStill DEF Undisturbed
  <1>11. Tidy(rows)'
    <2>1. PICK l : l = rows
      OBVIOUS
    <2>2. Tidy(l)'
      BY <1>3, <1>10, <2>1
    <2> QED
      BY <1>1, <2>1, <2>2
  <1>12. Neat(w[x])'
    BY <1>9, <1>11 DEF Neat, HasLog, InLoop, Storing
  <1>13. InHand'
    <2>1. \A l \in DOMAIN records : records[l] # Torn
      BY <1>0, NoneInHand DEF Undisturbed
    <2>2. \A l \in DOMAIN records' : records'[l] = Torn => l = w[x].id
      BY <1>1, <2>1 DEF Put
    <2> QED
      BY <1>9, <2>2 DEF InHand
  <1>14. w'[x] # Idle
    BY <1>9 DEF Idle
  <1> QED
    BY <1>1, <1>9, <1>10, <1>12, <1>13, <1>14, UndisturbedStep, ValuesAssumption

LEMMA DropTidy ==
  ASSUME Sound, Undisturbed, NEW x \in Workers, Alone(x), DropCitation(x)
  PROVE  Undisturbed'
  <1>0. w[x] \in Acquiring /\ w[x].at = "drop" /\ w[x].drop # None
    BY JobOf DEF DropCitation, Sound, Placed, Fits
  <1>1. PICK log : log = w[x].log
    OBVIOUS
  <1>2. PICK drop : drop = w[x].drop
    OBVIOUS
  <1>3. UNCHANGED <<files, side, records>> /\ answer' = None /\ pending' = pending \ {drop}
    BY <1>2 DEF DropCitation
  <1>4. /\ \A y \in Workers : y # x => w'[y] = w[y]
        /\ w'[x].at = "save" /\ w'[x].log = log /\ w'[x].name = w[x].name
    BY <1>0, <1>1, GotoFacts DEF DropCitation, Sound, Acquiring
  <1>5. Neat(w[x]) /\ w[x] # Idle
    BY <1>0 DEF Undisturbed, Idle
  <1>6. Tidy(log) /\ Droppable(w[x])
    BY <1>0, <1>1, <1>5 DEF Neat, HasLog, Storing
  <1>7. \A n, u : Says(n, u)' => Says(n, u)
    BY <1>3, <1>4, SaysLess
  <1>8. Tidy(log)'
    <2>1. \A k \in 1..Len(log) : Filed(log[k])'
      BY <1>0, <1>1, <1>2, <1>3, <1>6 DEF Tidy, Filed, InInbox, Droppable
    <2>2. Owned(log)' /\ Cited(log)'
      BY <1>3, <1>6 DEF Tidy, Owned, Cited
    <2>3. Witnessed(log)'
      BY <1>3, <1>6, <1>7 DEF Tidy, Witnessed, Witness
    <2> QED
      BY <2>1, <2>2, <2>3 DEF Tidy
  <1>9. Neat(w[x])'
    <2>1. Unsaved(w[x])'
      BY <1>0, <1>4, <1>6 DEF Unsaved, Droppable
    <2> QED
      BY <1>4, <1>8, <2>1 DEF Neat
  <1>10. InHand'
    BY <1>0, <1>3, HandStill DEF Undisturbed
  <1>11. w'[x] # Idle /\ Apart'
    BY <1>3, <1>4 DEF Idle, Undisturbed, Apart
  <1> QED
    BY <1>3, <1>4, <1>9, <1>10, <1>11, UndisturbedStep, ValuesAssumption

\* A file or a citation comes: the planned row is filed, and no row that is in review has the
\* name, for two rows under one name are a disturbance.
LEMMA PlaceTidy ==
  ASSUME Sound, Undisturbed, InOrder, NEW x \in Workers, Alone(x), Quiet', Place(x)
  PROVE  Undisturbed'
  <1>0. w[x] \in Acquiring /\ w[x].at = "place" /\ (w[x].name = None <=> w[x].ack.doc = None)
    BY JobOf DEF Place, Sound, Placed, Fits
  <1>1. PICK log : log = w[x].log
    OBVIOUS
  <1>2. PICK n : n = w[x].name
    OBVIOUS
  <1>3. log \in Logs /\ Len(log) \in Nat /\ n \in Names \union {None} /\ DOMAIN log = 1..Len(log)
    BY <1>0, <1>1, <1>2 DEF Acquiring, Logs
  <1>4. UNCHANGED <<rows, side, records>> /\ answer' = None
    BY DEF Place
  <1>5. /\ \A y \in Workers : y # x => w'[y] = w[y]
        /\ w'[x].log = log /\ w'[x].name = n /\ w'[x].drop = w[x].drop
        /\ w'[x].at = IF w[x].drop = None THEN "save" ELSE "drop"
    BY <1>0, <1>1, <1>2, GotoFacts DEF Place, Sound, Acquiring
  <1>6. Neat(w[x]) /\ w[x] # Idle
    BY <1>0 DEF Undisturbed, Idle
  <1>7. /\ Tidy(rows) /\ Storable(w[x]) /\ Owned(log) /\ Cited(log) /\ Witnessed(log)
        /\ Droppable(w[x])
    BY <1>0, <1>1, <1>6 DEF Neat, Unsaved
  <1>8. w'[x].at # "date" /\ w'[x] # Idle
    BY <1>5 DEF Idle
  <1>9. \A m, u : Says(m, u)' => Says(m, u)
    BY <1>4, <1>5, <1>8, SaysLess
  <1>10. Cited(log)' /\ Witnessed(log)' /\ Droppable(w[x])'
    <2>1. Cited(log)' /\ Witnessed(log)'
      BY <1>4, <1>7, <1>9 DEF Cited, Witnessed, Witness
    <2> QED
      BY <1>1, <1>2, <1>5, <1>7, <2>1 DEF Droppable
  <1>11. InHand'
    BY <1>0, <1>4, HandStill DEF Undisturbed
  <1>12. PICK k \in 1..Len(log) :
            /\ log[k].name = n
            /\ IF n = None THEN log[k].status = "citation-only" /\ log[k].urn = w[x].ack.urn
               ELSE log[k].status = "acquired"
            /\ \A i \in 1..Len(log) \ {k} : Filed(log[i])
    BY <1>1, <1>2, <1>7 DEF Storable
  <1>13. CASE n = None
    <2>1. files' = files /\ pending' = pending \union {w[x].ack.urn}
      BY <1>2, <1>13 DEF Place
    <2>2. \A r : Filed(r) => Filed(r)'
      BY <2>1 DEF Filed, InInbox
    <2>3. Filed(log[k])'
      BY <1>12, <1>13, <2>1 DEF Filed
    <2>4. \A i \in 1..Len(log) : Filed(log[i])'
      BY <1>12, <2>2, <2>3
    <2>5. Owned(log)' /\ Apart'
      BY <1>4, <1>7, <2>1 DEF Owned, Apart, Undisturbed
    <2>6. Tidy(log)'
      BY <1>10, <2>4, <2>5 DEF Tidy
    <2>7. Tidy(rows)'
      <3>1. PICK l : l = rows
        OBVIOUS
      <3>2. (\A i \in 1..Len(l) : Filed(l[i])') /\ Owned(l)' /\ Cited(l)'
        BY <1>7, <2>1, <2>2, <3>1 DEF Tidy, Owned, Cited
      <3>3. Witnessed(l)'
        BY <1>4, <1>7, <1>9, <3>1 DEF Tidy, Witnessed, Witness
      <3>4. Tidy(l)'
        BY <3>2, <3>3 DEF Tidy
      <3> QED
        BY <1>4, <3>1, <3>4
    <2>8. Neat(w[x])'
      BY <1>5, <1>10, <2>6, <2>7 DEF Neat
    <2> QED
      BY <1>4, <1>5, <1>8, <1>11, <2>5, <2>8, UndisturbedStep, ValuesAssumption
  <1>14. CASE n # None
    <2>1. ~Reused(x) /\ pending' = pending
          /\ files' = [files EXCEPT !["inbox"] = Put(@, n, w[x].ack.doc)]
      BY <1>2, <1>14 DEF Place, Quiet
    <2>2. \A i \in 1..Len(log) : log[i].name = n => i = k
      <3> DEFINE S == {i \in DOMAIN log : log[i].name = n}
      <3>1. IsFiniteSet(S)
        <4>1. IsFiniteSet(1..Len(log))
          BY <1>3, FS_Interval
        <4> QED
          BY <1>3, <4>1, FS_Subset
      <3>2. ~(Cardinality(S) > 1)
        BY <1>1, <1>2, <2>1 DEF Reused
      <3>3. \A a, b \in S : a = b
        BY <3>1, <3>2, AtMostOne
      <3> QED
        BY <1>3, <1>12, <3>3
    <2>3. /\ DOMAIN files'["inbox"] = DOMAIN files["inbox"] \union {n}
          /\ files'["review"] = files["review"] /\ files'["failed"] = files["failed"]
      BY <2>1 DEF Put, Sound, Typed, Folders
    <2>4. n \notin DOMAIN files["review"]
      BY <1>7, <1>12, <1>14, <2>2 DEF Owned
    <2>5. Apart'
      BY <1>4, <2>3, <2>4 DEF Apart, Undisturbed
    <2>6. \A i \in 1..Len(log) : Filed(log[i])'
      <3>1. \A r : Filed(r) => Filed(r)'
        BY <2>1, <2>3 DEF Filed, InInbox
      <3>2. Filed(log[k])'
        BY <1>12, <1>14, <2>3 DEF Filed, InInbox
      <3> QED
        BY <1>12, <3>1, <3>2
    <2>7. Owned(log)'
      BY <1>7, <1>12, <1>14, <2>3 DEF Owned
    <2>8. Tidy(log)'
      BY <1>10, <2>6, <2>7 DEF Tidy
    <2>9. Neat(w[x])'
      <3>1. Unsaved(w[x])'
        BY <1>5, <1>14 DEF Unsaved
      <3> QED
        BY <1>5, <1>10, <2>8, <3>1 DEF Neat
    <2> QED
      BY <1>4, <1>5, <1>8, <1>11, <2>5, <2>9, UndisturbedStep, ValuesAssumption
  <1> QED
    BY <1>13, <1>14

\* Only sidecars change: one that is new or rewritten belongs to a row that waits.
LEMMA SidecarsTidy ==
  ASSUME NEW log, UNCHANGED <<files, pending>>,
         \A m \in DOMAIN side'["inbox"] :
            \/ m \in DOMAIN side["inbox"] /\ \A u : Says(m, u)' => Says(m, u)
            \/ /\ m \in DOMAIN files["inbox"]
               /\ \A u : Says(m, u)' => \A k \in 1..Len(log) : log[k].name = m => log[k].urn = u,
         Tidy(log)
  PROVE  Tidy(log)'
  <1>1. \A k \in 1..Len(log) : Filed(log[k])'
    BY DEF Tidy, Filed, InInbox
  <1>2. Owned(log)' /\ Cited(log)'
    BY DEF Tidy, Owned, Cited
  <1>3. ASSUME NEW m \in DOMAIN side'["inbox"] PROVE Witness(log, m)'
    <2>1. CASE m \in DOMAIN side["inbox"] /\ \A u : Says(m, u)' => Says(m, u)
      <3>1. PICK k \in 1..Len(log) :
               /\ log[k].name = m /\ log[k].status \in {"acquired", "registered"}
               /\ \A u \in Urns : Says(m, u) => u = log[k].urn
        BY <2>1 DEF Tidy, Witnessed, Witness
      <3> QED
        BY <2>1, <3>1 DEF Witness
    <2>2. CASE /\ m \in DOMAIN files["inbox"]
               /\ \A u : Says(m, u)' => \A k \in 1..Len(log) : log[k].name = m => log[k].urn = u
      <3>1. PICK k \in 1..Len(log) :
               log[k].name = m /\ log[k].status \in {"acquired", "registered"}
        BY <2>2 DEF Tidy, Owned
      <3> QED
        BY <2>2, <3>1 DEF Witness
    <2> QED
      BY <2>1, <2>2
  <1> QED
    BY <1>1, <1>2, <1>3 DEF Tidy, Witnessed

\* A row is marked registered, or review when nothing of its name is in the inbox any more.
LEMMA MarkTidy ==
  ASSUME NEW log \in Logs, NEW new, NEW i \in 1..Len(log), SameBut(new, log, i), Tidy(log)',
         \/ new[i].status = "registered"
         \/ /\ new[i].status = "review"
            /\ log[i].name \notin DOMAIN files'["inbox"] /\ log[i].name \notin DOMAIN side'["inbox"]
  PROVE  Tidy(new)'
  <1>0. /\ Len(new) = Len(log) /\ new[i].urn = log[i].urn /\ new[i].name = log[i].name
        /\ \A k \in 1..Len(log) : k # i => new[k] = log[k]
        /\ new[i].status \in {"registered", "review"}
    BY DEF SameBut
  <1>1. \A k \in 1..Len(new) : Filed(new[k])'
    <2>1. Filed(new[i])'
      BY <1>0 DEF Filed
    <2>2. \A k \in 1..Len(log) : Filed(log[k])'
      BY DEF Tidy
    <2> QED
      BY <1>0, <2>1, <2>2
  <1>2. Owned(new)'
    <2>1. Owned(log)'
      BY DEF Tidy
    <2> QED
      BY <1>0, <2>1 DEF Owned
  <1>3. Cited(new)'
    <2>1. Cited(log)'
      BY DEF Tidy
    <2> QED
      BY <1>0, <2>1 DEF Cited
  <1>4. Witnessed(new)'
    <2> SUFFICES ASSUME NEW m \in DOMAIN side'["inbox"] PROVE Witness(new, m)'
      BY DEF Witnessed
    <2>1. PICK k \in 1..Len(log) :
             /\ log[k].name = m /\ log[k].status \in {"acquired", "registered"}
             /\ \A u \in Urns : Says(m, u)' => u = log[k].urn
      BY DEF Tidy, Witnessed, Witness
    <2>2. k \in 1..Len(new) /\ new[k].name = m /\ new[k].urn = log[k].urn
          /\ new[k].status \in {"acquired", "registered"}
      BY <1>0, <2>1
    <2> QED
      BY <2>1, <2>2 DEF Witness
  <1> QED
    BY <1>1, <1>2, <1>3, <1>4 DEF Tidy

\* Provenance goes on.
LEMMA NeatOn ==
  ASSUME NEW x \in Workers, w[x].at \in {"provenance", "unlink", "sidecar"}, Neat(w[x]),
         NEW log, log = w[x].log, NEW i \in 1..Len(log), NEW new, SameBut(new, log, i),
         w'[x].at \in {"provenance", "sidecar"}, w'[x].log = new, w'[x].moved = w[x].moved,
         w'[x].seen \subseteq w[x].seen \union {<<log[i].urn, log[i].name>>},
         Tidy(new)', Tidy(rows) => Tidy(rows)'
  PROVE  Neat(w[x])'
  <1>0. /\ Len(new) = Len(log) /\ new[i].urn = log[i].urn /\ new[i].name = log[i].name
        /\ \A k \in 1..Len(log) : k # i => new[k] = log[k]
    BY DEF SameBut
  <1>1. ~Unsaved(w[x])' => Tidy(rows)'
    BY DEF Unsaved, Neat
  <1>2. ASSUME NEW u \in Urns, NEW n \in Names, <<u, n>> \in w'[x].seen
        PROVE  \E k \in 1..Len(new) : new[k].urn = u /\ new[k].name = n
    <2>1. \E k \in 1..Len(log) : log[k].urn = u /\ log[k].name = n
      <3>1. CASE <<u, n>> \in w[x].seen
        BY <3>1 DEF Neat
      <3>2. CASE <<u, n>> = <<log[i].urn, log[i].name>>
        BY <3>2
      <3> QED
        BY <1>2, <3>1, <3>2
    <2> QED
      BY <1>0, <2>1
  <1> QED
    BY <1>1, <1>2 DEF Neat

LEMMA PassOverTidy ==
  ASSUME Sound, InOrder, Undisturbed, NEW x \in Workers, Alone(x), PassOver(x)
  PROVE  Undisturbed'
  <1>1. PICK log : log = w[x].log
    OBVIOUS
  <1>2. PICK i : i = w[x].i
    OBVIOUS
  <1>3. w[x].at = "provenance" /\ HasRow(x)
    BY DEF PassOver
  <1>4. /\ w[x] \in Providing /\ log \in Logs /\ i \in Places /\ i \in 1..Len(log)
    BY <1>1, <1>2, <1>3, AtRow
  <1>5. UNCHANGED <<rows, files, side, pending, records>> /\ answer' = None
    BY DEF PassOver
  <1>6. /\ \A y \in Workers : y # x => w'[y] = w[y]
        /\ w'[x].at = "provenance" /\ w'[x].log = log
        /\ w'[x].seen = w[x].seen /\ w'[x].moved = w[x].moved
    <2>1. NextRow(x, log) /\ w \in [Workers -> Jobs]
      BY <1>1 DEF PassOver, Sound, Typed
    <2> QED
      BY <1>1, <1>3, <1>4, <2>1 DEF NextRow, Providing
  <1>7. Neat(w[x]) /\ w'[x] # Idle
    BY <1>3, <1>6 DEF Undisturbed, Idle
  <1>8. Tidy(log)
    BY <1>1, <1>3, <1>7 DEF Neat, HasLog, InLoop
  <1>9. Apart' /\ \A l : Tidy(l) => Tidy(l)'
    BY <1>5, <1>6, TidyStill DEF Undisturbed
  <1>10. Tidy(rows) => Tidy(rows)'
    <2>1. PICK l : l = rows
      OBVIOUS
    <2> QED
      BY <1>5, <1>9, <2>1
  <1>11. Neat(w[x])'
    <2>1. SameBut(log, log, i)
      BY <1>4 DEF SameBut
    <2> QED
      BY <1>1, <1>3, <1>4, <1>6, <1>7, <1>8, <1>9, <1>10, <2>1, NeatOn
  <1>12. InHand'
    BY <1>3, <1>5, HandStill DEF Undisturbed
  <1> QED
    BY <1>5, <1>6, <1>7, <1>9, <1>11, <1>12, UndisturbedStep, ValuesAssumption

LEMMA KeepSidecarTidy ==
  ASSUME Sound, InOrder, Undisturbed, NEW x \in Workers, Alone(x), KeepSidecar(x)
  PROVE  Undisturbed'
  <1>1. PICK log : log = w[x].log
    OBVIOUS
  <1>2. PICK i : i = w[x].i
    OBVIOUS
  <1>3. w[x].at = "provenance" /\ HasRow(x)
    BY DEF KeepSidecar, ToCheck
  <1>4. /\ w[x] \in Providing /\ log \in Logs /\ i \in Places /\ i \in 1..Len(log)
    BY <1>1, <1>2, <1>3, AtRow
  <1>5. UNCHANGED <<rows, files, side, pending, records>> /\ answer' = None
    BY DEF KeepSidecar
  <1>6. PICK new : new = Marked(x, "registered")
    OBVIOUS
  <1>7. SameBut(new, log, i) /\ new[i].status = "registered"
    <2>1. "registered" \in Statuses
      BY DEF Statuses
    <2> QED
      BY <1>1, <1>2, <1>4, <1>6, <2>1, MarkRow
  <1>8. /\ \A y \in Workers : y # x => w'[y] = w[y]
        /\ w'[x].at = "provenance" /\ w'[x].log = new
        /\ w'[x].seen = w[x].seen /\ w'[x].moved = w[x].moved
    <2>1. NextRow(x, new) /\ w \in [Workers -> Jobs]
      BY <1>6 DEF KeepSidecar, Sound, Typed
    <2> QED
      BY <1>3, <1>4, <2>1 DEF NextRow, Providing
  <1>9. Neat(w[x]) /\ w'[x] # Idle
    BY <1>3, <1>8 DEF Undisturbed, Idle
  <1>10. Tidy(log)
    BY <1>1, <1>3, <1>9 DEF Neat, HasLog, InLoop
  <1>11. Apart' /\ \A l : Tidy(l) => Tidy(l)'
    BY <1>5, <1>8, TidyStill DEF Undisturbed
  <1>12. Tidy(rows) => Tidy(rows)'
    <2>1. PICK l : l = rows
      OBVIOUS
    <2> QED
      BY <1>5, <1>11, <2>1
  <1>13. Tidy(new)'
    BY <1>4, <1>7, <1>10, <1>11, MarkTidy
  <1>14. Neat(w[x])'
    BY <1>1, <1>3, <1>4, <1>7, <1>8, <1>9, <1>12, <1>13, NeatOn
  <1>15. InHand'
    BY <1>3, <1>5, HandStill DEF Undisturbed
  <1> QED
    BY <1>5, <1>8, <1>9, <1>11, <1>14, <1>15, UndisturbedStep, ValuesAssumption

\* What claims the identity of a row that waits would be another row that waits.
LEMMA CollapseTidy ==
  ASSUME Sound, InOrder, Undisturbed, NEW x \in Workers, Alone(x), Collapse(x)
  PROVE  FALSE
  <1>1. PICK log : log = w[x].log
    OBVIOUS
  <1>2. PICK i : i = w[x].i
    OBVIOUS
  <1>3. w[x].at = "provenance" /\ HasRow(x)
    BY DEF Collapse, ToCheck
  <1>4. /\ log \in Logs /\ i \in 1..Len(log) /\ Len(log) \in Nat /\ Current(x) = log[i]
        /\ Orderly(log) /\ log[i].status \in {"acquired", "registered"} /\ log[i] \in Rows
    BY <1>1, <1>2, <1>3, AtRow
  <1>5. Neat(w[x])
    BY <1>3 DEF Undisturbed, Idle
  <1>6. Tidy(log)
    BY <1>1, <1>3, <1>5 DEF Neat, HasLog, InLoop
  <1>7. PICK m : Live(m) /\ m # log[i].name /\ <<log[i].urn, m>> \in w[x].seen
    BY <1>4 DEF Collapse, Claimants, Live
  <1>8. m \in Names /\ m # None /\ log[i].urn \in Urns
    <2>1. DOMAIN files["inbox"] \subseteq Names /\ DOMAIN side["inbox"] \subseteq Names
      BY TableFacts DEF Sound, Typed, Folders
    <2> QED
      BY <1>4, <1>7, <2>1, NamesAssumption DEF Live, Rows
  <1>9. PICK k \in 1..Len(log) : log[k].urn = log[i].urn /\ log[k].name = m
    BY <1>1, <1>3, <1>5, <1>7, <1>8 DEF Neat
  <1>10. PICK j \in 1..Len(log) : log[j].name = m /\ log[j].status \in {"acquired", "registered"}
    BY <1>6, <1>7 DEF Live, Tidy, Owned, Witnessed, Witness
  <1>11. j = k
    BY <1>4, <1>8, <1>9, <1>10 DEF Orderly, Named
  <1>12. k # i /\ k \in Nat /\ i \in Nat
    BY <1>4, <1>7, <1>9
  <1> QED
    BY <1>4, <1>9, <1>10, <1>11, <1>12 DEF Orderly, Latest

\* A file that is refused leaves the inbox, and its row with it.
LEMMA FailedTidy ==
  ASSUME Sound, NEW log \in Logs, NEW i \in 1..Len(log), NEW new, SameBut(new, log, i),
         Tidy(log), Apart, new[i].status = "failed", log[i].status = "acquired",
         log[i].name \in DOMAIN files["inbox"],
         \A k \in 1..Len(log) : log[k].name = log[i].name => k = i,
         Move(log[i].name, "inbox", "failed"), UNCHANGED <<side, pending>>,
         \A m, u : Says(m, u)' => Says(m, u)
  PROVE  /\ Apart' /\ Owned(new)' /\ Cited(new)' /\ \A k \in 1..Len(new) : Filed(new[k])'
         /\ \A m \in DOMAIN side'["inbox"] \ {log[i].name} : Witness(new, m)'
  <1>0. /\ Len(new) = Len(log) /\ new[i].urn = log[i].urn /\ new[i].name = log[i].name
        /\ \A k \in 1..Len(log) : k # i => new[k] = log[k]
    BY DEF SameBut
  <1>1. /\ files'["inbox"] = Drop(files["inbox"], log[i].name)
        /\ files'["failed"] = Put(files["failed"], log[i].name, files["inbox"][log[i].name])
        /\ files'["review"] = files["review"]
    BY MoveFacts DEF Sound, Folders
  <1>2. /\ DOMAIN files'["inbox"] = DOMAIN files["inbox"] \ {log[i].name}
        /\ DOMAIN files'["failed"] = DOMAIN files["failed"] \union {log[i].name}
    BY <1>1 DEF Drop, Restrict, Put
  <1>3. Apart'
    BY <1>1, <1>2 DEF Apart
  <1>4. ASSUME NEW k \in 1..Len(new) PROVE Filed(new[k])'
    <2>1. CASE k = i
      BY <1>0, <1>2, <2>1 DEF Filed
    <2>2. CASE k # i
      <3>1. new[k] = log[k] /\ Filed(log[k]) /\ log[k].name # log[i].name
        BY <1>0, <2>2 DEF Tidy
      <3> QED
        BY <1>2, <3>1 DEF Filed, InInbox
    <2> QED
      BY <2>1, <2>2
  <1>5. Owned(new)'
    <2>1. ASSUME NEW n \in DOMAIN files'["inbox"]
          PROVE  \E k \in 1..Len(new) :
                    new[k].name = n /\ new[k].status \in {"acquired", "registered"}
      <3>1. PICK k \in 1..Len(log) : log[k].name = n /\ log[k].status \in {"acquired", "registered"}
        BY <1>2 DEF Tidy, Owned
      <3> QED
        BY <1>0, <1>2, <3>1
    <2>2. ASSUME NEW n \in DOMAIN files'["review"]
          PROVE  \E k \in 1..Len(new) :
                    new[k].name = n /\ new[k].status \in {"registered", "review"}
      <3>1. PICK k \in 1..Len(log) : log[k].name = n /\ log[k].status \in {"registered", "review"}
        BY <1>1 DEF Tidy, Owned
      <3> QED
        BY <1>0, <3>1
    <2> QED
      BY <2>1, <2>2 DEF Owned
  <1>6. Cited(new)'
    BY <1>0 DEF Tidy, Cited
  <1>7. ASSUME NEW m \in DOMAIN side'["inbox"] \ {log[i].name} PROVE Witness(new, m)'
    <2>1. PICK k \in 1..Len(log) :
             /\ log[k].name = m /\ log[k].status \in {"acquired", "registered"}
             /\ \A u \in Urns : Says(m, u) => u = log[k].urn
      BY DEF Tidy, Witnessed, Witness
    <2>2. k \in 1..Len(new) /\ new[k] = log[k]
      BY <1>0, <2>1
    <2> QED
      BY <2>1, <2>2 DEF Witness
  <1> QED
    BY <1>3, <1>4, <1>5, <1>6, <1>7

LEMMA QuarantineTidy ==
  ASSUME Sound, InOrder, Undisturbed, NEW x \in Workers, Alone(x), Quarantine(x)
  PROVE  Undisturbed'
  <1>1. PICK log : log = w[x].log
    OBVIOUS
  <1>2. PICK i : i = w[x].i
    OBVIOUS
  <1>3. w[x].at = "provenance" /\ HasRow(x) /\ ToCheck(x) /\ Refused(x)
    BY DEF Quarantine, ToCheck
  <1>4. /\ w[x] \in Providing /\ log \in Logs /\ i \in Places /\ i \in 1..Len(log)
        /\ Current(x) = log[i] /\ Orderly(log) /\ Follows(log)
    BY <1>1, <1>2, <1>3, AtRow
  <1>5. log[i].status = "acquired" /\ log[i].name \in Names
    BY <1>1, <1>2, <1>3, NotHeld
  <1>6. PICK new : new = Marked(x, "failed")
    OBVIOUS
  <1>7. SameBut(new, log, i) /\ new[i].status = "failed"
    <2>1. "failed" \in Statuses
      BY DEF Statuses
    <2> QED
      BY <1>1, <1>2, <1>4, <1>6, <2>1, MarkRow
  <1>8. /\ \A y \in Workers : y # x => w'[y] = w[y]
        /\ w'[x].at = "unlink" /\ w'[x].i = i /\ w'[x].log = new /\ w'[x].seen = w[x].seen
        /\ w'[x].moved
    <2>1. w' = [w EXCEPT ![x].at = "unlink", ![x].moved = TRUE, ![x].log = new]
      BY <1>6 DEF Quarantine
    <2>2. w \in [Workers -> Jobs]
      BY DEF Sound, Typed
    <2> QED
      BY <1>2, <1>4, <2>1, <2>2 DEF Providing
  <1>9. /\ UNCHANGED <<rows, side, pending, records>> /\ answer' = None
        /\ Move(log[i].name, "inbox", "failed") /\ log[i].name \in DOMAIN files["inbox"]
    BY <1>3, <1>4 DEF Quarantine, ToCheck
  <1>10. Neat(w[x]) /\ w'[x] # Idle /\ Apart
    BY <1>3, <1>8 DEF Undisturbed, Idle
  <1>11. Tidy(log)
    BY <1>1, <1>3, <1>10 DEF Neat, HasLog, InLoop
  <1>12. \A m, u : Says(m, u)' => Says(m, u)
    <2>1. w'[x].at # "date"
      BY <1>8
    <2> QED
      BY <1>8, <1>9, <2>1, SaysLess
  <1>13. \A k \in 1..Len(log) : log[k].name = log[i].name => k = i
    BY <1>4, <1>5, SoleName
  <1>14. /\ Apart' /\ Owned(new)' /\ Cited(new)' /\ \A k \in 1..Len(new) : Filed(new[k])'
         /\ \A m \in DOMAIN side'["inbox"] \ {log[i].name} : Witness(new, m)'
    BY <1>4, <1>5, <1>7, <1>9, <1>10, <1>11, <1>12, <1>13, FailedTidy
  <1>15. Neat(w[x])'
    <2>1. Unsaved(w[x])'
      BY <1>8 DEF Unsaved
    <2>2. new[i].name = log[i].name /\ new[i].urn = log[i].urn /\ Len(new) = Len(log)
          /\ \A k \in 1..Len(log) : k # i => new[k] = log[k]
      BY <1>7 DEF SameBut
    <2>3. \A u \in Urns, n \in Names : <<u, n>> \in w'[x].seen =>
             \E k \in 1..Len(new) : new[k].urn = u /\ new[k].name = n
      <3>1. \A u \in Urns, n \in Names : <<u, n>> \in w[x].seen =>
               \E k \in 1..Len(log) : log[k].urn = u /\ log[k].name = n
        BY <1>1, <1>3, <1>10 DEF Neat
      <3> QED
        BY <1>8, <2>2, <3>1
    <2> QED
      BY <1>8, <1>14, <2>1, <2>2, <2>3 DEF Neat
  <1>16. InHand'
    BY <1>3, <1>9, HandStill DEF Undisturbed
  <1> QED
    BY <1>8, <1>9, <1>10, <1>14, <1>15, <1>16, UndisturbedStep, ValuesAssumption

LEMMA UnlinkSidecarTidy ==
  ASSUME Sound, InOrder, Undisturbed, NEW x \in Workers, Alone(x), UnlinkSidecar(x)
  PROVE  Undisturbed'
  <1>1. PICK log : log = w[x].log
    OBVIOUS
  <1>2. PICK i : i = w[x].i
    OBVIOUS
  <1>3. w[x].at = "unlink"
    BY DEF UnlinkSidecar
  <1>4. /\ w[x] \in Providing /\ log \in Logs /\ i \in Places /\ i \in 1..Len(log)
        /\ Current(x) = log[i]
    BY <1>1, <1>2, <1>3, AtRow
  <1>5. /\ \A y \in Workers : y # x => w'[y] = w[y]
        /\ w'[x].at = "provenance" /\ w'[x].log = log /\ w'[x].seen = w[x].seen
        /\ w'[x].moved = w[x].moved
    <2>1. w' = [w EXCEPT ![x].at = "provenance", ![x].i = NextIndex("provenance", w[x].log, @)]
      BY DEF UnlinkSidecar
    <2>2. w \in [Workers -> Jobs]
      BY DEF Sound, Typed
    <2> QED
      BY <1>1, <1>4, <2>1, <2>2 DEF Providing
  <1>6. UNCHANGED <<rows, files, pending, records>> /\ answer' = None
        /\ side' = [side EXCEPT !["inbox"] = Drop(@, log[i].name)]
    BY <1>4 DEF UnlinkSidecar
  <1>7. side'["inbox"] = Drop(side["inbox"], log[i].name) /\ side'["review"] = side["review"]
    BY <1>6 DEF Sound, Typed
  <1>8. /\ DOMAIN side'["inbox"] = DOMAIN side["inbox"] \ {log[i].name}
        /\ \A y \in DOMAIN side["inbox"] : y # log[i].name => side'["inbox"][y] = side["inbox"][y]
    BY <1>7 DEF Drop, Restrict
  <1>9. \A m, u : Says(m, u)' => Says(m, u)
    <2>1. w'[x].at # "date"
      BY <1>5
    <2> QED
      BY <1>5, <1>8, <2>1, SaysLess
  <1>10. Neat(w[x]) /\ w'[x] # Idle /\ Apart
    BY <1>3, <1>5 DEF Undisturbed, Idle
  <1>11. Apart'
    BY <1>6, <1>7, <1>8, <1>10 DEF Apart
  <1>12. Tidy(log)'
    <2>1. /\ \A k \in 1..Len(log) : Filed(log[k])
          /\ Owned(log) /\ Cited(log)
          /\ \A n \in DOMAIN side["inbox"] \ {log[i].name} : Witness(log, n)
      BY <1>1, <1>2, <1>3, <1>10 DEF Neat
    <2>2. \A k \in 1..Len(log) : Filed(log[k])'
      BY <1>6, <2>1 DEF Filed, InInbox
    <2>3. Owned(log)' /\ Cited(log)'
      BY <1>6, <2>1 DEF Owned, Cited
    <2>4. Witnessed(log)'
      BY <1>8, <1>9, <2>1 DEF Witnessed, Witness
    <2> QED
      BY <2>2, <2>3, <2>4 DEF Tidy
  <1>13. Tidy(rows) => Tidy(rows)'
    <2>1. PICK l : l = rows
      OBVIOUS
    <2>2. \A m \in DOMAIN side'["inbox"] :
             m \in DOMAIN side["inbox"] /\ \A u : Says(m, u)' => Says(m, u)
      BY <1>8, <1>9
    <2>3. Tidy(l) => Tidy(l)'
      BY <1>6, <2>2, SidecarsTidy
    <2> QED
      BY <1>6, <2>1, <2>3
  <1>14. Neat(w[x])'
    <2>1. SameBut(log, log, i)
      BY <1>4 DEF SameBut
    <2> QED
      BY <1>1, <1>3, <1>4, <1>5, <1>10, <1>12, <1>13, <2>1, NeatOn
  <1>15. InHand'
    BY <1>3, <1>6, HandStill DEF Undisturbed
  <1> QED
    BY <1>5, <1>6, <1>10, <1>11, <1>14, <1>15, UndisturbedStep, ValuesAssumption

\* A sidecar comes to the file of the row that provenance is at.
LEMMA SidecarComes ==
  ASSUME Sound, InOrder, Undisturbed, NEW x \in Workers, Alone(x),
         \A y \in Workers : y # x => w'[y] = w[y], w'[x].at # "date",
         NEW log \in Logs, Orderly(log), Follows(log), Tidy(log), NEW i \in 1..Len(log),
         log[i].name \in DOMAIN files["inbox"], NEW s, s = Torn \/ s.urn = log[i].urn,
         side' = [side EXCEPT !["inbox"] = Put(@, log[i].name, s)],
         UNCHANGED <<rows, files, pending>>
  PROVE  Apart' /\ Tidy(log)' /\ (Tidy(rows) => Tidy(rows)')
  <1>1. PICK n : n = log[i].name
    OBVIOUS
  <1>2. side'["inbox"] = Put(side["inbox"], n, s) /\ side'["review"] = side["review"]
    BY <1>1 DEF Sound, Typed
  <1>3. /\ DOMAIN side'["inbox"] = DOMAIN side["inbox"] \union {n} /\ side'["inbox"][n] = s
        /\ \A y \in DOMAIN side["inbox"] : y # n => side'["inbox"][y] = side["inbox"][y]
    BY <1>2 DEF Put
  <1>4. Apart'
    <2>1. n \notin DOMAIN side["review"] /\ Apart
      BY <1>1 DEF Undisturbed, Apart, InOrder
    <2> QED
      <3>1. DOMAIN files'["inbox"] \intersect DOMAIN files'["review"] = {}
        BY <2>1 DEF Apart
      <3>2. DOMAIN side'["inbox"] \intersect DOMAIN side'["review"] = {}
        BY <1>2, <1>3, <2>1 DEF Apart
      <3> QED
        BY <3>1, <3>2 DEF Apart
  <1>5. /\ \A u : Says(n, u)' => u = log[i].urn
        /\ \A m \in DOMAIN side["inbox"] : m # n => \A u : Says(m, u)' => Says(m, u)
    <2>1. \A y \in Workers : w'[y].at # "date"
      BY DEF Alone, Idle
    <2> QED
      BY <1>3, <2>1 DEF Says
  <1>6. n \in Names
    <2>1. DOMAIN files["inbox"] \subseteq Names
      BY TableFacts DEF Sound, Typed, Folders
    <2> QED
      BY <1>1, <2>1
  <1>7. /\ \A k \in 1..Len(log) : log[k].name = n => k = i
        /\ \A k \in 1..Len(rows) : rows[k].name = n => k = i
        /\ rows[i].urn = log[i].urn
    BY <1>1, <1>6, SoleName
  <1>8. ASSUME NEW l, Tidy(l), \A k \in 1..Len(l) : l[k].name = n => l[k].urn = log[i].urn
        PROVE  Tidy(l)'
    <2>1. ASSUME NEW m \in DOMAIN side'["inbox"]
          PROVE  \/ m \in DOMAIN side["inbox"] /\ \A u : Says(m, u)' => Says(m, u)
                 \/ /\ m \in DOMAIN files["inbox"]
                    /\ \A u : Says(m, u)' => \A k \in 1..Len(l) : l[k].name = m => l[k].urn = u
      BY <1>1, <1>3, <1>5, <1>8
    <2> QED
      BY <1>8, <2>1, SidecarsTidy
  <1>9. Tidy(log)'
    BY <1>7, <1>8
  <1>10. Tidy(rows) => Tidy(rows)'
    <2>1. PICK l : l = rows
      OBVIOUS
    <2>2. Tidy(l) => Tidy(l)'
      BY <1>7, <1>8, <2>1
    <2> QED
      BY <2>1, <2>2
  <1> QED
    BY <1>4, <1>9, <1>10

LEMMA OpenSidecarTidy ==
  ASSUME Sound, InOrder, Undisturbed, NEW x \in Workers, Alone(x), OpenSidecar(x)
  PROVE  Undisturbed'
  <1>1. PICK log : log = w[x].log
    OBVIOUS
  <1>2. PICK i : i = w[x].i
    OBVIOUS
  <1>3. w[x].at = "provenance" /\ HasRow(x) /\ ToCheck(x)
    BY DEF OpenSidecar, ToCheck
  <1>4. /\ w[x] \in Providing /\ log \in Logs /\ i \in Places /\ i \in 1..Len(log)
        /\ Current(x) = log[i] /\ Orderly(log) /\ Follows(log)
    BY <1>1, <1>2, <1>3, AtRow
  <1>5. log[i].name \in DOMAIN files["inbox"]
    BY <1>3, <1>4 DEF ToCheck
  <1>6. /\ \A y \in Workers : y # x => w'[y] = w[y]
        /\ w'[x].at = "sidecar" /\ w'[x].log = log /\ w'[x].seen = w[x].seen
        /\ w'[x].moved = w[x].moved
    <2>1. Goto(x, "sidecar")
      BY DEF OpenSidecar
    <2> QED
      BY <1>1, <1>4, <2>1, GotoFacts DEF Sound
  <1>7. /\ UNCHANGED <<rows, files, pending, records>> /\ answer' = None
        /\ side' = [side EXCEPT !["inbox"] = Put(@, log[i].name, Torn)]
    BY <1>4 DEF OpenSidecar
  <1>8. Neat(w[x]) /\ w'[x] # Idle /\ w'[x].at # "date"
    BY <1>3, <1>6 DEF Undisturbed, Idle
  <1>9. Tidy(log)
    BY <1>1, <1>3, <1>8 DEF Neat, HasLog, InLoop
  <1>10. Apart' /\ Tidy(log)' /\ (Tidy(rows) => Tidy(rows)')
    BY <1>4, <1>5, <1>6, <1>7, <1>8, <1>9, SidecarComes
  <1>11. Neat(w[x])'
    <2>1. SameBut(log, log, i)
      BY <1>4 DEF SameBut
    <2> QED
      BY <1>1, <1>3, <1>4, <1>6, <1>8, <1>10, <2>1, NeatOn
  <1>12. InHand'
    BY <1>3, <1>7, HandStill DEF Undisturbed
  <1> QED
    BY <1>6, <1>7, <1>8, <1>10, <1>11, <1>12, UndisturbedStep, ValuesAssumption

LEMMA WriteSidecarTidy ==
  ASSUME Sound, InOrder, Undisturbed, NEW x \in Workers, Alone(x), WriteSidecar(x)
  PROVE  Undisturbed'
  <1>1. PICK log : log = w[x].log
    OBVIOUS
  <1>2. PICK i : i = w[x].i
    OBVIOUS
  <1>3. w[x].at = "sidecar"
    BY DEF WriteSidecar
  <1>4. /\ w[x] \in Providing /\ log \in Logs /\ i \in Places /\ i \in 1..Len(log)
        /\ Current(x) = log[i] /\ Orderly(log) /\ Follows(log) /\ Stage(w[x])
    BY <1>1, <1>2, <1>3, AtRow
  <1>5. log[i].name \in DOMAIN files["inbox"]
    <2>1. Opened(w[x])
      BY <1>3, <1>4 DEF Stage
    <2> QED
      BY <1>1, <1>2, <2>1 DEF Opened, InInbox
  <1>6. PICK new : new = Marked(x, "registered")
    OBVIOUS
  <1>7. SameBut(new, log, i) /\ new[i].status = "registered"
    <2>1. "registered" \in Statuses
      BY DEF Statuses
    <2> QED
      BY <1>1, <1>2, <1>4, <1>6, <2>1, MarkRow
  <1>8. PICK s : s = [urn |-> log[i].urn, sha |-> log[i].sha, dated |-> FALSE]
    OBVIOUS
  <1>9. /\ UNCHANGED <<rows, files, pending, records>> /\ answer' = None
        /\ side' = [side EXCEPT !["inbox"] = Put(@, log[i].name, s)]
        /\ w' = [w EXCEPT ![x].at = "provenance",
                          ![x].i = NextIndex("provenance", w[x].log, @),
                          ![x].log = new,
                          ![x].seen = @ \union {<<log[i].urn, log[i].name>>}]
    BY <1>4, <1>6, <1>8 DEF WriteSidecar
  <1>10. /\ \A y \in Workers : y # x => w'[y] = w[y]
         /\ w'[x].at = "provenance" /\ w'[x].log = new /\ w'[x].moved = w[x].moved
         /\ w'[x].seen = w[x].seen \union {<<log[i].urn, log[i].name>>}
    <2>1. w \in [Workers -> Jobs]
      BY DEF Sound, Typed
    <2> QED
      BY <1>4, <1>9, <2>1 DEF Providing
  <1>11. Neat(w[x]) /\ w'[x] # Idle /\ w'[x].at # "date"
    BY <1>3, <1>10 DEF Undisturbed, Idle
  <1>12. Tidy(log)
    BY <1>1, <1>3, <1>11 DEF Neat, HasLog, InLoop
  <1>13. Apart' /\ Tidy(log)' /\ (Tidy(rows) => Tidy(rows)')
    <2>1. s.urn = log[i].urn
      BY <1>8
    <2>2. /\ UNCHANGED <<rows, files, pending>>
          /\ side' = [side EXCEPT !["inbox"] = Put(@, log[i].name, s)]
      BY <1>9
    <2>3. /\ log \in Logs /\ i \in 1..Len(log) /\ Orderly(log) /\ Follows(log) /\ Tidy(log)
          /\ w'[x].at # "date" /\ \A y \in Workers : y # x => w'[y] = w[y]
      BY <1>4, <1>10, <1>11, <1>12
    <2> QED
      BY <1>5, <2>1, <2>2, <2>3, SidecarComes
  <1>14. Tidy(new)'
    BY <1>4, <1>7, <1>13, MarkTidy
  <1>15. Neat(w[x])'
    BY <1>1, <1>3, <1>4, <1>7, <1>10, <1>11, <1>13, <1>14, NeatOn
  <1>16. InHand'
    BY <1>3, <1>9, HandStill DEF Undisturbed
  <1> QED
    BY <1>9, <1>10, <1>11, <1>13, <1>15, <1>16, UndisturbedStep, ValuesAssumption

\* The year pass works on sidecars that are there, and does not change what they say.
LEMMA YearTidy ==
  ASSUME Sound, InOrder, Undisturbed, NEW x \in Workers, Alone(x), w[x].at \in {"year", "date"},
         \A y \in Workers : y # x => w'[y] = w[y], w'[x].at \in {"year", "date"},
         UNCHANGED <<rows, files, pending, records>>, answer' = None,
         side'["review"] = side["review"], DOMAIN side'["inbox"] = DOMAIN side["inbox"],
         \A m, u : Says(m, u)' => Says(m, u)
  PROVE  Undisturbed'
  <1>1. Neat(w[x]) /\ w'[x] # Idle /\ Apart
    BY DEF Undisturbed, Idle
  <1>2. Apart'
    BY <1>1 DEF Apart
  <1>3. Tidy(rows)
    BY <1>1 DEF Neat, Unsaved
  <1>4. Tidy(rows)'
    <2>1. PICK l : l = rows
      OBVIOUS
    <2>2. \A m \in DOMAIN side'["inbox"] :
             m \in DOMAIN side["inbox"] /\ \A u : Says(m, u)' => Says(m, u)
      OBVIOUS
    <2>3. Tidy(l)'
      BY <1>3, <2>1, <2>2, SidecarsTidy
    <2> QED
      BY <2>1, <2>3
  <1>5. Neat(w[x])'
    BY <1>4 DEF Neat, HasLog, InLoop, Storing
  <1>6. InHand'
    BY HandStill DEF Undisturbed
  <1> QED
    BY <1>1, <1>2, <1>5, <1>6, UndisturbedStep, ValuesAssumption

LEMMA YearReadTidy ==
  ASSUME Sound, InOrder, Undisturbed, NEW x \in Workers, Alone(x), NEW n, YearRead(x, n)
  PROVE  Undisturbed'
  <1>0. /\ w \in [Workers -> Jobs] /\ w[x] \in Dating /\ w[x].at = "year"
        /\ DOMAIN side = {"inbox", "review"}
        /\ side["inbox"] \in Tables(Sidecars \union {Torn})
    BY JobOf DEF Sound, Typed, YearRead
  <1>1. UNCHANGED <<rows, files, pending, records>> /\ answer' = None
    BY DEF YearRead
  <1>2. CASE n \in DOMAIN side["inbox"] /\ side["inbox"][n] # Torn /\ ~side["inbox"][n].dated
    <2>1. /\ side' = [side EXCEPT !["inbox"][n] = Torn]
          /\ w' = [w EXCEPT ![x] = [at |-> "date", id |-> w[x].id, todo |-> w[x].todo \ {n},
                                    name |-> n, found |-> side["inbox"][n]]]
      BY <1>2 DEF YearRead
    <2>2. /\ \A y \in Workers : y # x => w'[y] = w[y]
          /\ w'[x].at = "date" /\ w'[x].name = n /\ w'[x].found = side["inbox"][n]
      BY <1>0, <2>1
    <2>3. /\ side'["review"] = side["review"] /\ DOMAIN side'["inbox"] = DOMAIN side["inbox"]
          /\ side'["inbox"][n] = Torn
          /\ \A m \in DOMAIN side["inbox"] : m # n => side'["inbox"][m] = side["inbox"][m]
      BY <1>0, <1>2, <2>1
    <2>4. ASSUME NEW m, NEW u, Says(m, u)' PROVE Says(m, u)
      <3>1. CASE m \in DOMAIN side'["inbox"] /\ side'["inbox"][m] # Torn /\ side'["inbox"][m].urn = u
        BY <2>3, <3>1 DEF Says
      <3>2. CASE \E y \in Workers : w'[y].at = "date" /\ w'[y].name = m /\ w'[y].found.urn = u
        <4>1. PICK y \in Workers : w'[y].at = "date" /\ w'[y].name = m /\ w'[y].found.urn = u
          BY <3>2
        <4> QED
          BY <1>2, <2>2, <4>1 DEF Says
      <3> QED
        BY <2>4, <3>1, <3>2 DEF Says
    <2> QED
      BY <1>0, <1>1, <2>2, <2>3, <2>4, YearTidy
  <1>3. CASE ~(n \in DOMAIN side["inbox"] /\ side["inbox"][n] # Torn /\ ~side["inbox"][n].dated)
    <2>1. UNCHANGED side /\ w' = [w EXCEPT ![x].todo = @ \ {n}]
      BY <1>3 DEF YearRead
    <2>2. (\A y \in Workers : y # x => w'[y] = w[y]) /\ w'[x].at = "year"
      BY <1>0, <2>1 DEF Dating
    <2>3. \A m, u : Says(m, u)' => Says(m, u)
      <3>1. w'[x].at # "date"
        BY <2>2
      <3> QED
        BY <2>1, <2>2, <3>1, SaysLess
    <2> QED
      BY <1>0, <1>1, <2>1, <2>2, <2>3, YearTidy
  <1> QED
    BY <1>2, <1>3

LEMMA YearWriteTidy ==
  ASSUME Sound, InOrder, Undisturbed, NEW x \in Workers, Alone(x), YearWrite(x)
  PROVE  Undisturbed'
  <1>0. /\ w \in [Workers -> Jobs] /\ w[x] \in Writing /\ w[x].at = "date" /\ Stage(w[x])
        /\ DOMAIN side = {"inbox", "review"}
    BY JobOf DEF Sound, Typed, InOrder, YearWrite
  <1>1. UNCHANGED <<rows, files, pending, records>> /\ answer' = None
    BY DEF YearWrite
  <1>2. PICK n : n = w[x].name
    OBVIOUS
  <1>3. PICK s : s = [w[x].found EXCEPT !.dated = TRUE]
    OBVIOUS
  <1>4. s.urn = w[x].found.urn
    BY <1>0, <1>3 DEF Writing, Sidecars
  <1>5. n \in DOMAIN side["inbox"]
    BY <1>0, <1>2 DEF Stage
  <1>6. (\A y \in Workers : y # x => w'[y] = w[y]) /\ w'[x].at = "year"
    BY <1>0 DEF YearWrite
  <1>7. /\ side'["review"] = side["review"] /\ DOMAIN side'["inbox"] = DOMAIN side["inbox"]
        /\ side'["inbox"][n] = s
        /\ \A m \in DOMAIN side["inbox"] : m # n => side'["inbox"][m] = side["inbox"][m]
    <2>1. side' = [side EXCEPT !["inbox"] = Put(@, n, s)]
      BY <1>2, <1>3 DEF YearWrite
    <2>2. side'["review"] = side["review"] /\ side'["inbox"] = Put(side["inbox"], n, s)
      BY <1>0, <2>1
    <2> QED
      BY <1>5, <2>2 DEF Put
  <1>8. ASSUME NEW m, NEW u, Says(m, u)' PROVE Says(m, u)
    <2>1. CASE m \in DOMAIN side'["inbox"] /\ side'["inbox"][m] # Torn /\ side'["inbox"][m].urn = u
      <3>1. CASE m = n
        BY <1>0, <1>2, <1>4, <1>7, <2>1, <3>1 DEF Says
      <3>2. CASE m # n
        BY <1>7, <2>1, <3>2 DEF Says
      <3> QED
        BY <3>1, <3>2
    <2>2. CASE \E y \in Workers : w'[y].at = "date" /\ w'[y].name = m /\ w'[y].found.urn = u
      BY <1>6, <2>2 DEF Says
    <2> QED
      BY <1>8, <2>1, <2>2 DEF Says
  <1> QED
    BY <1>0, <1>1, <1>6, <1>7, <1>8, YearTidy

\* Routing goes on: its row is in review.
LEMMA ReviewTidy ==
  ASSUME Sound, InOrder, Undisturbed, NEW x \in Workers, Alone(x), RouteAt(x),
         NEW log, log = w[x].log, NEW i, i = w[x].i, NEW n, n = log[i].name,
         UNCHANGED <<rows, files, pending, records>>, answer' = None,
         \A y \in Workers : y # x => w'[y] = w[y],
         NEW new, new = Marked(x, "review"),
         w'[x].log = new, w'[x].at = "route", w'[x].i = NextIndex("route", new, i),
         n \notin DOMAIN files["inbox"], n \notin DOMAIN side'["inbox"], NoNews,
         DOMAIN side'["inbox"] \subseteq DOMAIN side["inbox"], Apart'
  PROVE  Undisturbed'
  <1>1. /\ w[x] \in Routing /\ log \in Logs /\ i \in Places /\ i \in 1..Len(log)
        /\ Len(log) \in Nat /\ log[i].status \in {"registered", "review"}
    BY AtRoute
  <1>2. /\ SameBut(new, log, i) /\ new \in Logs /\ Len(new) = Len(log) /\ i \in 1..Len(new)
        /\ new[i].name = log[i].name /\ new[i].status = "review"
    <2>1. "review" \in Statuses
      BY DEF Statuses
    <2> QED
      BY <1>1, <2>1, MarkRow
  <1>3. \A m, u : Says(m, u)' => Says(m, u)
    <2>1. w'[x].at # "date"
      OBVIOUS
    <2> QED
      BY <2>1, SaysLess DEF NoNews
  <1>4. w[x].at \in {"route", "carry"} /\ w[x] # Idle /\ w'[x] # Idle
    BY DEF RouteAt, Idle
  <1>5. Neat(w[x])
    BY <1>4 DEF Undisturbed
  <1>6. Tidy(log) /\ Tidy(rows)
    BY <1>4, <1>5 DEF Neat, HasLog, InLoop, Unsaved
  <1>7. \A l : Tidy(l) => Tidy(l)'
    <2>1. \A m \in DOMAIN side'["inbox"] :
             m \in DOMAIN side["inbox"] /\ \A u : Says(m, u)' => Says(m, u)
      BY <1>3
    <2> QED
      BY <2>1, SidecarsTidy
  <1>8. Tidy(rows)'
    <2>1. PICK l : l = rows
      OBVIOUS
    <2>2. Tidy(l)'
      BY <1>6, <1>7, <2>1
    <2> QED
      BY <2>1, <2>2
  <1>9. Tidy(new)'
    <2>1. Tidy(log)' /\ log[i].name \notin DOMAIN files'["inbox"]
          /\ log[i].name \notin DOMAIN side'["inbox"]
      BY <1>6, <1>7
    <2> QED
      BY <1>1, <1>2, <2>1, MarkTidy
  <1>10. ASSUME NEW k \in 1..Len(new)
         PROVE  /\ \/ new[k].status = rows[k].status
                   \/ rows[k].status = "registered" /\ new[k].status = "review"
                /\ k < w'[x].i => new[k].status # "registered"
    <2>1. /\ \/ log[k].status = rows[k].status
             \/ rows[k].status = "registered" /\ log[k].status = "review"
          /\ k < i => log[k].status # "registered"
      BY <1>2, <1>4, <1>5 DEF Neat
    <2>2. k # i => new[k] = log[k]
      BY <1>2 DEF SameBut
    <2>3. \A j \in (i + 1)..Len(new) : new[j].status \in Treats("route") => w'[x].i <= j
          /\ w'[x].i \in Nat
      BY <1>2, NextAfter
    <2>4. k < w'[x].i => new[k].status # "registered"
      <3>1. CASE k < i
        BY <2>1, <2>2, <3>1, <1>1
      <3>2. CASE k = i
        BY <1>2, <3>2
      <3>3. CASE k > i
        <4>1. k \in (i + 1)..Len(new) /\ i \in Nat
          BY <1>1, <1>2, <3>3
        <4> QED
          BY <2>3, <4>1 DEF Treats
      <3> QED
        BY <1>1, <1>2, <3>1, <3>2, <3>3
    <2> QED
      BY <1>1, <1>2, <2>1, <2>2, <2>4
  <1>11. Neat(w[x])'
    <2>1. \A k \in 1..Len(new) :
             \/ new[k].status = rows'[k].status
             \/ rows'[k].status = "registered" /\ new[k].status = "review"
      BY <1>10
    <2>2. \A k \in 1..Len(new) : k < w'[x].i => new[k].status # "registered"
      BY <1>10
    <2> QED
      BY <1>8, <1>9, <2>1, <2>2 DEF Neat
  <1>12. InHand'
    <2>1. w[x].at \notin {"start", "end"}
      BY <1>4
    <2> QED
      BY <2>1, HandStill DEF Undisturbed
  <1> QED
    BY <1>4, <1>11, <1>12, UndisturbedStep, ValuesAssumption

LEMMA SidecarGone ==
  ASSUME Sound, Apart, NEW n \in DOMAIN side["inbox"], MoveSidecar(n), files' = files
  PROVE  /\ n \notin DOMAIN side'["inbox"] /\ NoNews /\ Apart'
         /\ DOMAIN side'["inbox"] \subseteq DOMAIN side["inbox"]
  <1>1. /\ side'["inbox"] = Drop(side["inbox"], n)
        /\ side'["review"] = Put(side["review"], n, side["inbox"][n])
    BY MoveSidecarFacts DEF Sound
  <1>2. /\ DOMAIN side'["inbox"] = DOMAIN side["inbox"] \ {n}
        /\ \A y \in DOMAIN side["inbox"] : y # n => side'["inbox"][y] = side["inbox"][y]
    BY <1>1 DEF Drop, Restrict
  <1>3. DOMAIN side'["review"] = DOMAIN side["review"] \union {n}
    BY <1>1 DEF Put
  <1>4. Apart'
    BY <1>2, <1>3 DEF Apart
  <1> QED
    BY <1>2, <1>4 DEF NoNews

LEMMA FollowTidy ==
  ASSUME Sound, InOrder, Undisturbed, NEW x \in Workers, Alone(x), Follow(x)
  PROVE  Undisturbed'
  <1>1. PICK log : log = w[x].log
    OBVIOUS
  <1>2. PICK i : i = w[x].i
    OBVIOUS
  <1>3. w[x].at = "route" /\ HasRow(x) /\ RouteAt(x)
    BY DEF Follow, ToRoute, RouteAt
  <1>4. /\ w[x] \in Routing /\ log \in Logs /\ i \in Places /\ i \in 1..Len(log)
        /\ Current(x) = log[i] /\ log[i].status \in {"registered", "review"}
        /\ Kept(log[i])
    BY <1>1, <1>2, <1>3, AtRoute
  <1>5. PICK n : n = log[i].name
    OBVIOUS
  <1>6. n \in DOMAIN files["review"] /\ n \notin DOMAIN files["inbox"] /\ Apart
    BY <1>4, <1>5 DEF Follow, Arrived, Undisturbed, Apart
  <1>7. n \in DOMAIN side["inbox"] \/ n \in DOMAIN side["review"]
    BY <1>4, <1>5, <1>6 DEF Kept, InInbox, Carried, Reviewed
  <1>8. PICK new : new = Marked(x, "review")
    OBVIOUS
  <1>9. /\ IF n \in DOMAIN side["review"] THEN UNCHANGED side ELSE MoveSidecar(n)
        /\ NextRow(x, new) /\ UNCHANGED <<rows, files, pending, records>> /\ answer' = None
    BY <1>4, <1>5, <1>7, <1>8 DEF Follow
  <1>10. new \in Logs /\ Len(new) = Len(log)
    <2>1. "review" \in Statuses
      BY DEF Statuses
    <2> QED
      BY <1>1, <1>2, <1>4, <1>8, <2>1, MarkRow
  <1>11. /\ \A y \in Workers : y # x => w'[y] = w[y]
         /\ w'[x].at = "route" /\ w'[x].log = new /\ w'[x].i = NextIndex("route", new, i)
    <2>1. Len(new) = Len(w[x].log) /\ w[x].job = "route"
      BY <1>1, <1>4, <1>10 DEF Routing
    <2>2. /\ \A y \in Workers : y # x => w'[y] = w[y]
          /\ w'[x].at = w[x].at /\ w'[x].log = new
          /\ w'[x].i = NextIndex(w[x].job, new, w[x].i)
      BY <1>3, <1>4, <1>9, <1>10, <2>1, NextRowStep
    <2> QED
      BY <1>2, <1>3, <2>1, <2>2
  <1>12. /\ n \notin DOMAIN side'["inbox"] /\ NoNews /\ Apart'
         /\ DOMAIN side'["inbox"] \subseteq DOMAIN side["inbox"]
    <2>1. CASE n \in DOMAIN side["review"]
      BY <1>6, <1>9, <2>1 DEF NoNews, Apart
    <2>2. CASE n \notin DOMAIN side["review"]
      BY <1>6, <1>7, <1>9, <2>2, SidecarGone
    <2> QED
      BY <2>1, <2>2
  <1> QED
    BY <1>1, <1>2, <1>3, <1>5, <1>6, <1>8, <1>9, <1>11, <1>12, ReviewTidy

\* The one row of the name is registered.
Waits(log, n) ==
    \E i \in 1..Len(log) : /\ log[i].status = "registered" /\ log[i].name = n
                           /\ \A k \in 1..Len(log) : log[k].name = n => k = i

\* A file moves to review with a sidecar to follow it, and its row waits.
LEMMA ReviewedTidy ==
  ASSUME NEW log, NEW n,
         DOMAIN files'["inbox"] = DOMAIN files["inbox"] \ {n},
         DOMAIN files'["review"] = DOMAIN files["review"] \union {n},
         files'["failed"] = files["failed"], UNCHANGED <<side, pending>>,
         \A m, u : Says(m, u)' => Says(m, u),
         Waits(log, n), Tidy(log)
  PROVE  Tidy(log)'
  <1>0. PICK i \in 1..Len(log) : /\ log[i].status = "registered" /\ log[i].name = n
                                 /\ \A k \in 1..Len(log) : log[k].name = n => k = i
    BY DEF Waits
  <1>1. ASSUME NEW k \in 1..Len(log) PROVE Filed(log[k])'
    BY <1>0 DEF Tidy, Filed, InInbox
  <1>2. Owned(log)'
    <2>1. Owned(log)
      BY DEF Tidy
    <2> QED
      BY <1>0, <2>1 DEF Owned
  <1>3. Cited(log)' /\ Witnessed(log)'
    BY DEF Tidy, Cited, Witnessed, Witness
  <1> QED
    BY <1>1, <1>2, <1>3 DEF Tidy

LEMMA RouteFileTidy ==
  ASSUME Sound, InOrder, Undisturbed, NEW x \in Workers, Alone(x), RouteFile(x)
  PROVE  Undisturbed'
  <1>1. PICK log : log = w[x].log
    OBVIOUS
  <1>2. PICK i : i = w[x].i
    OBVIOUS
  <1>3. w[x].at = "route" /\ HasRow(x) /\ ToRoute(x) /\ ~Arrived(x) /\ RouteAt(x)
    BY DEF RouteFile, ToRoute, RouteAt
  <1>4. /\ w[x] \in Routing /\ log \in Logs /\ i \in Places /\ i \in 1..Len(log)
        /\ Current(x) = log[i] /\ Orderly(log) /\ Follows(log) /\ log[i].name \in Names
    BY <1>1, <1>2, <1>3, AtRoute
  <1>5. log[i].status = "registered" /\ log[i].name \in DOMAIN files["inbox"]
    BY <1>3, <1>4, CannotLeave DEF InInbox
  <1>6. PICK n : n = log[i].name
    OBVIOUS
  <1>7. /\ Move(n, "inbox", "review") /\ UNCHANGED <<rows, side, pending, records>>
        /\ answer' = None
    BY <1>4, <1>6 DEF RouteFile
  <1>8. /\ \A y \in Workers : y # x => w'[y] = w[y]
        /\ w'[x].at = "carry" /\ w'[x].log = log /\ w'[x].i = i
    <2>1. Goto(x, "carry")
      BY DEF RouteFile
    <2> QED
      BY <1>1, <1>2, <1>4, <2>1, GotoFacts DEF Sound
  <1>9. /\ DOMAIN files'["inbox"] = DOMAIN files["inbox"] \ {n}
        /\ DOMAIN files'["review"] = DOMAIN files["review"] \union {n}
        /\ files'["failed"] = files["failed"]
    <2>1. /\ files'["inbox"] = Drop(files["inbox"], n)
          /\ files'["review"] = Put(files["review"], n, files["inbox"][n])
          /\ files'["failed"] = files["failed"]
      BY <1>5, <1>6, <1>7, MoveFacts DEF Sound, Folders
    <2> QED
      BY <2>1 DEF Drop, Restrict, Put
  <1>10. \A m, u : Says(m, u)' => Says(m, u)
    <2>1. w'[x].at # "date"
      BY <1>8
    <2> QED
      BY <1>7, <1>8, <2>1, SaysLess
  <1>11. Neat(w[x]) /\ w'[x] # Idle /\ Apart
    BY <1>3, <1>8 DEF Undisturbed, Idle
  <1>12. Tidy(log) /\ Tidy(rows)
    BY <1>1, <1>3, <1>11 DEF Neat, HasLog, InLoop, Unsaved
  <1>13. /\ \A k \in 1..Len(log) : log[k].name = n => k = i
         /\ \A k \in 1..Len(rows) : rows[k].name = n => k = i
         /\ i \in 1..Len(rows) /\ rows[i].name = n
    BY <1>4, <1>6, SoleName
  <1>14. rows[i].status = "registered"
    <2>1. \/ log[i].status = rows[i].status
          \/ rows[i].status = "registered" /\ log[i].status = "review"
      BY <1>1, <1>3, <1>4, <1>11 DEF Neat
    <2> QED
      BY <1>5, <2>1
  <1>15. Tidy(log)'
    <2>1. Waits(log, n) /\ UNCHANGED <<side, pending>>
      BY <1>4, <1>5, <1>6, <1>7, <1>13 DEF Waits
    <2> QED
      BY <1>9, <1>10, <1>12, <2>1, ReviewedTidy
  <1>16. Tidy(rows)'
    <2>1. PICK l : l = rows
      OBVIOUS
    <2>2. Waits(l, n) /\ Tidy(l)
      BY <1>12, <1>13, <1>14, <2>1 DEF Waits
    <2>3. UNCHANGED <<side, pending>>
      BY <1>7
    <2>4. Tidy(l)'
      BY <1>9, <1>10, <2>2, <2>3, ReviewedTidy
    <2> QED
      BY <1>7, <2>1, <2>4
  <1>17. Apart'
    BY <1>7, <1>9, <1>11 DEF Apart
  <1>18. Neat(w[x])'
    <2>1. \A k \in 1..Len(log) :
             /\ \/ log[k].status = rows'[k].status
                \/ rows'[k].status = "registered" /\ log[k].status = "review"
             /\ k < i => log[k].status # "registered"
      BY <1>1, <1>2, <1>3, <1>7, <1>11 DEF Neat
    <2> QED
      BY <1>8, <1>15, <1>16, <2>1 DEF Neat
  <1>19. InHand'
    <2>1. w[x].at \notin {"start", "end"}
      BY <1>3
    <2> QED
      BY <1>7, <2>1, HandStill DEF Undisturbed
  <1> QED
    BY <1>7, <1>8, <1>11, <1>17, <1>18, <1>19, UndisturbedStep, ValuesAssumption

LEMMA RouteSidecarTidy ==
  ASSUME Sound, InOrder, Undisturbed, NEW x \in Workers, Alone(x), RouteSidecar(x)
  PROVE  Undisturbed'
  <1>1. PICK log : log = w[x].log
    OBVIOUS
  <1>2. PICK i : i = w[x].i
    OBVIOUS
  <1>3. w[x].at = "carry" /\ RouteAt(x)
    BY DEF RouteSidecar, RouteAt
  <1>4. /\ w[x] \in Routing /\ log \in Logs /\ i \in Places /\ i \in 1..Len(log)
        /\ Current(x) = log[i] /\ Kept(log[i]) /\ Carrying(w[x])
    BY <1>1, <1>2, <1>3, AtRoute
  <1>5. PICK n : n = log[i].name
    OBVIOUS
  <1>6. /\ n \in DOMAIN files["review"] /\ n \in DOMAIN side["inbox"]
        /\ n \notin DOMAIN files["inbox"] /\ n \notin DOMAIN side["review"]
    <2>1. log[i].status = "registered" /\ ~InInbox(log[i]) /\ n \notin DOMAIN side["review"]
      BY <1>1, <1>2, <1>4, <1>5 DEF Carrying
    <2> QED
      BY <1>4, <1>5, <2>1 DEF Kept, Carried, InInbox
  <1>7. PICK new : new = Marked(x, "review")
    OBVIOUS
  <1>8. /\ MoveSidecar(n) /\ UNCHANGED <<rows, files, pending, records>> /\ answer' = None
        /\ w' = [w EXCEPT ![x].at = "route", ![x].i = NextIndex("route", w[x].log, @),
                          ![x].log = new]
    BY <1>4, <1>5, <1>6, <1>7 DEF RouteSidecar
  <1>9. SameBut(new, log, i)
    <2>1. "review" \in Statuses
      BY DEF Statuses
    <2> QED
      BY <1>1, <1>2, <1>4, <1>7, <2>1, MarkRow
  <1>10. /\ \A y \in Workers : y # x => w'[y] = w[y]
         /\ w'[x].at = "route" /\ w'[x].log = new /\ w'[x].i = NextIndex("route", new, i)
    <2>1. NextIndex("route", new, i) = NextIndex("route", log, i)
      BY <1>4, <1>9, NextSame
    <2>2. w \in [Workers -> Jobs]
      BY DEF Sound, Typed
    <2> QED
      BY <1>1, <1>2, <1>4, <1>8, <2>1, <2>2 DEF Routing
  <1>11. /\ n \notin DOMAIN side'["inbox"] /\ NoNews /\ Apart'
         /\ DOMAIN side'["inbox"] \subseteq DOMAIN side["inbox"]
    <2>1. Apart /\ files' = files
      BY <1>8 DEF Undisturbed
    <2> QED
      BY <1>6, <1>8, <2>1, SidecarGone
  <1>12. UNCHANGED <<rows, files, pending, records>> /\ answer' = None
    BY <1>8
  <1> QED
    BY <1>1, <1>2, <1>3, <1>5, <1>6, <1>7, <1>10, <1>11, <1>12, ReviewTidy

LEMMA StutterTidy ==
  ASSUME Undisturbed, UNCHANGED vars
  PROVE  Undisturbed'
  <1>1. UNCHANGED <<rows, files, side, pending, records, w, answer>>
    BY DEF vars
  <1>2. \A n, u : Says(n, u)' <=> Says(n, u)
    BY <1>1 DEF Says
  <1>3. \A r : Filed(r)' <=> Filed(r)
    BY <1>1 DEF Filed, InInbox
  <1>4. \A log, n : Witness(log, n)' <=> Witness(log, n)
    BY <1>2 DEF Witness
  <1>5. \A log : (Owned(log)' <=> Owned(log)) /\ (Cited(log)' <=> Cited(log))
                 /\ (Witnessed(log)' <=> Witnessed(log))
    BY <1>1, <1>4 DEF Owned, Cited, Witnessed
  <1>6. \A log : Tidy(log)' <=> Tidy(log)
    BY <1>3, <1>5 DEF Tidy
  <1>7. \A j : (Unsaved(j)' <=> Unsaved(j)) /\ (Storable(j)' <=> Storable(j))
               /\ (Droppable(j)' <=> Droppable(j))
    BY <1>3 DEF Unsaved, Storable, Droppable
  <1>8. Tidy(rows)' <=> Tidy(rows)
    <2>1. PICK l : l = rows
      OBVIOUS
    <2> QED
      BY <1>1, <1>6, <2>1
  <1>9. ASSUME NEW x \in Workers, w[x] # Idle PROVE Neat(w[x])'
    <2>1. PICK j : j = w[x]
      OBVIOUS
    <2>2. Neat(j)
      BY <1>9, <2>1 DEF Undisturbed
    <2>3. Neat(j)'
      BY <1>1, <1>3, <1>4, <1>5, <1>6, <1>7, <1>8, <2>2 DEF Neat
    <2> QED
      BY <1>1, <2>1, <2>3
  <1> QED
    BY <1>1, <1>8, <1>9 DEF Undisturbed, Apart, InHand

LEMMA TidyStep ==
  Sound /\ CompleteInv /\ TidyInv /\ [Next]_vars => TidyInv'
  <1> SUFFICES ASSUME Sound, CompleteInv, TidyInv, [Next]_vars, Quiet'
               PROVE  Undisturbed'
    BY DEF TidyInv
  <1>0. Sound'
    BY SoundStep
  <1>1. CASE UNCHANGED vars
    BY <1>1, StutterTidy DEF TidyInv, Quiet, vars
  <1>2. ASSUME NEW x \in Workers, InOrder, Undisturbed, Alone(x),
               \/ \E item \in Items : \E doc \in item.gives : Acquire(x, item, doc)
               \/ Place(x) \/ DropCitation(x) \/ SaveOpen(x) \/ SaveWrite(x)
               \/ Process(x) \/ Start(x) \/ Provenance(x)
               \/ \E n : YearRead(x, n)
               \/ YearWrite(x) \/ Route(x) \/ Audit(x) \/ Record(x) \/ Crash(x)
        PROVE  Undisturbed'
    <2>1. CASE \E item \in Items : \E doc \in item.gives : Acquire(x, item, doc)
      BY <1>0, <1>2, <2>1, AcquireTidy
    <2>2. CASE Place(x)
      BY <1>2, <2>2, PlaceTidy
    <2>3. CASE DropCitation(x) \/ SaveOpen(x) \/ SaveWrite(x)
      BY <1>2, <2>3, DropTidy, SaveOpenTidy, SaveWriteTidy
    <2>4. CASE Process(x) \/ Start(x)
      BY <1>2, <2>4, ProcessTidy, StartTidy
    <2>5. CASE Provenance(x)
      BY <1>2, <2>5, PassOverTidy, QuarantineTidy, UnlinkSidecarTidy, KeepSidecarTidy,
         CollapseTidy, OpenSidecarTidy, WriteSidecarTidy DEF Provenance
    <2>6. CASE \E n : YearRead(x, n)
      BY <1>2, <2>6, YearReadTidy
    <2>7. CASE YearWrite(x)
      BY <1>2, <2>7, YearWriteTidy
    <2>8. CASE Route(x)
      BY <1>2, <2>8, RouteBeginTidy, LeaveThereOrder, FollowTidy, RouteFileTidy,
         RouteSidecarTidy DEF Route
    <2>9. CASE Audit(x)
      BY <1>2, <2>9, AuditTidy
    <2>10. CASE Record(x) \/ Crash(x)
      BY <1>2, <2>10, RestTidy
    <2> QED
      BY <1>2, <2>1, <2>2, <2>3, <2>4, <2>5, <2>6, <2>7, <2>8, <2>9, <2>10
  <1>3. CASE Next
    <2>1. PICK x \in Workers :
             \/ \E item \in Items : \E doc \in item.gives : Acquire(x, item, doc)
             \/ Place(x) \/ DropCitation(x) \/ SaveOpen(x) \/ SaveWrite(x)
             \/ Process(x) \/ Start(x) \/ Provenance(x)
             \/ \E n : YearRead(x, n)
             \/ YearWrite(x) \/ Route(x) \/ Audit(x) \/ Record(x) \/ Crash(x)
      BY <1>3 DEF Next
    <2>2. hist \subseteq hist' /\ (w[x] # Idle \/ Alone(x) \/ "overlap" \in hist')
      BY <2>1, OneMoves
    <2>3. Quiet /\ Calm /\ "overlap" \notin hist'
      BY <2>2 DEF Quiet, Calm
    <2>4. InOrder /\ Undisturbed /\ \A y, z \in Workers : w[y] # Idle /\ w[z] # Idle => y = z
      BY <2>3 DEF CompleteInv, TidyInv
    <2>5. Alone(x)
      BY <2>2, <2>3, <2>4 DEF Alone
    <2> QED
      BY <1>2, <2>1, <2>4, <2>5
  <1> QED
    BY <1>1, <1>3

\* A run ends complete unless the folders have been disturbed: with calls one after the other,
\* no name used twice and no death in a window that Harmful names, the audits accept what the
\* passes leave, and no record is found cut off: for any workers, items and bounds.
THEOREM UndisturbedRunsComplete == Spec => []RunsComplete
  <1>1. Init => CompleteInv
    BY CompleteInit
  <1>2. Init => TidyInv
    <2> SUFFICES ASSUME Init PROVE Undisturbed
      BY DEF TidyInv
    <2>1. Apart /\ Tidy(rows)
      BY DEF Init, Apart, Tidy, Owned, Cited, Witnessed, Folders
    <2>2. InHand /\ (\A x \in Workers : w[x] = Idle) /\ answer = None
      BY DEF Init, InHand
    <2> QED
      BY <2>1, <2>2, ValuesAssumption DEF Undisturbed
  <1>3. TidyInv => RunsComplete
    BY DEF TidyInv, RunsComplete, Undisturbed, Quiet
  <1> QED
    BY <1>1, <1>2, <1>3, TypedInit, SoundStep, CompleteStep, TidyStep, PTL DEF Spec
=============================================================================
