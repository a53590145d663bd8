---------------------------- MODULE FolderProofs ----------------------------
(***************************************************************************)
(* What the operations on a folder keep, for any folders, workers and      *)
(* documents, whatever the registry of the KG and the resolver ladder      *)
(* answer, and whichever captures overlap or die.                          *)
(*                                                                         *)
(* The registry never has a digest or a urn twice.  A capture decides by   *)
(* the rows it has loaded and writes them all back later, so RegistryInv   *)
(* says that of what is in memory too: with the row a worker is about to   *)
(* add, the rows it has loaded are free of duplicates, and so is every     *)
(* registry that is queued to be written.                                  *)
(*                                                                         *)
(* A calm result is true when it is there.  Shapes says what a worker is   *)
(* made of at each place, and Apart that one that is calm has what it      *)
(* works on for itself, so others leave alone what it has found (Foreign). *)
(* Then each kind of result has an invariant of its own, of what is known  *)
(* at each place (Capturing, Covering, Suggesting, Confirming,             *)
(* Materializing); of tables it speaks as they will be once all that is    *)
(* queued is written (Final), which truncating and writing do not change.  *)
(***************************************************************************)
EXTENDS Folder, FoldTheorems, SequenceTheorems

Unique(rows) == \A q, r \in rows : q.urn = r.urn \/ q.sha = r.sha => q = r

\* A urn of the fallback form is that of the bytes it is made of, if nobody else gives one.
FallbacksOwn == \A d \in Documents : Fallback(d) \notin {r.urn : r \in Registered} \union Ladder
Own(rows) == \A r \in rows, d \in Documents : r.urn = Fallback(d) => r.sha = d

Sound(rows) == Unique(rows) /\ (FallbacksOwn => Own(rows))

\* Tables queued to be written, the registry among them without duplicates.
Queue(out) ==
    /\ out \in Seq({out[i] : i \in DOMAIN out}) /\ out # <<>>
    /\ \A i \in DOMAIN out : out[i].table = "registry" => Sound(out[i].rows)

Job(j) ==
    j # Idle =>
        /\ {"job", "calm", "at"} \subseteq DOMAIN j
        /\ j.at \in {"copy", "stub"} =>
              {"row", "rows", "todo"} \subseteq DOMAIN j /\ Sound(j.rows \union {j.row})
        /\ j.at \in {"open", "write"} =>
              {"out", "then"} \subseteq DOMAIN j /\ Queue(j.out) /\ j.then \in {"admitted", "end"}

Jobs == w = [x \in Workers |-> w[x]] /\ \A x \in Workers : Job(w[x])

RegistryInv == Jobs /\ store = [t \in Tables |-> store[t]] /\ Sound(store["registry"])

-----------------------------------------------------------------------------
(* The decision. *)

\* What is admitted has neither its digest nor its urn in the registry yet.
LEMMA CaptureUrns ==
  ASSUME NEW source, NEW answer \in Ladder \union {None}, FallbacksOwn, NEW d \in Documents
  PROVE  CaptureUrn(source, answer) # Fallback(d)
  <1>1. ReuseUrn(source.path) # None => ReuseUrn(source.path) \in {r.urn : r \in Registered}
    BY DEF ReuseUrn, RowsFor
  <1>2. Minted(source.path, source.doc) # Fallback(d) /\ Fallback(d) # None
    BY NoneAssumption DEF Minted, Canonical, ByContent, Fallback
  <1> QED
    BY <1>1, <1>2 DEF CaptureUrn, FallbacksOwn

LEMMA AdmittedNew ==
  ASSUME NEW rows, Sound(rows), NEW source, NEW answer \in Ladder \union {None}, NEW urn,
         urn # None, urn = AdmittedUrn(rows, source, answer)
  PROVE  Sound(rows \union {Row(source, urn)})
  <1>1. \A r \in rows : r.sha # source.doc /\ r.urn # urn
    BY DEF AdmittedUrn, SameBytes, Taken
  <1>2. Row(source, urn).urn = urn /\ Row(source, urn).sha = source.doc
    BY DEF Row
  <1>3. urn \in {CaptureUrn(source, answer), Fallback(source.doc)}
    BY DEF AdmittedUrn
  <1>4. FallbacksOwn => \A d \in Documents : urn = Fallback(d) => source.doc = d
    BY <1>3, CaptureUrns DEF Fallback
  <1>5. Unique(rows \union {Row(source, urn)})
    BY <1>1, <1>2 DEF Sound, Unique
  <1>6. FallbacksOwn => Own(rows \union {Row(source, urn)})
    BY <1>2, <1>4 DEF Sound, Own
  <1> QED
    BY <1>5, <1>6 DEF Sound

-----------------------------------------------------------------------------
(* The folder that has been captured. *)

Decided(path, rows) == AdmittedUrn(rows, Inside(path), None)
Urns0 == {CaptureUrn(Inside(p), None) : p \in Paths} \union {Fallback(folder[p]) : p \in Paths}
Registries ==
    {rows \in SUBSET {Row(Inside(p), u) : p \in Paths, u \in Urns0} : Sound(rows)}

LEMMA AdmitType ==
  ASSUME NEW rows \in Registries, NEW path \in Paths
  PROVE  AdmitNext(rows, path) \in Registries
  <1> DEFINE urn == Decided(path, rows)
  <1>1. urn \in Urns0 \union {None}
    BY DEF Decided, AdmittedUrn, Urns0, Inside, Source
  <1>2. AdmitNext(rows, path) =
           IF path \notin DOMAIN folder \/ urn = None THEN rows
           ELSE rows \union {Row(Inside(path), urn)}
    BY DEF AdmitNext, Decided
  <1>3. urn # None => Sound(rows \union {Row(Inside(path), urn)})
    BY AdmittedNew DEF Decided, Registries
  <1> HIDE DEF urn
  <1>4. urn # None => Row(Inside(path), urn) \in {Row(Inside(p), u) : p \in Paths, u \in Urns0}
    BY <1>1
  <1> QED
    BY <1>2, <1>3, <1>4 DEF Registries

Folds(iter) ==
    iter = [S \in SUBSET (1..Len(Order)) |->
              IF S = {} THEN {} ELSE AdmitNext(iter[S \ {Max(S)}], Order[Max(S)])]

LEMMA FoldsAt ==
  ASSUME NEW it, Folds(it), NEW S \in SUBSET (1..Len(Order))
  PROVE  it[S] = IF S = {} THEN {} ELSE AdmitNext(it[S \ {Max(S)}], Order[Max(S)])
  <1> DEFINE all == [U \in SUBSET (1..Len(Order)) |->
                       IF U = {} THEN {} ELSE AdmitNext(it[U \ {Max(U)}], Order[Max(U)])]
  <1>1. all[S] = IF S = {} THEN {} ELSE AdmitNext(it[S \ {Max(S)}], Order[Max(S)])
    OBVIOUS
  <1>2. it = all
    BY DEF Folds
  <1> HIDE DEF all
  <1> QED
    BY <1>1, <1>2

\* There is a fold, and what any of them gives is a registry without duplicates.
LEMMA CapturedSound == Sound(FoldLeft(AdmitNext, {}, Order))
  <1> DEFINE n == Len(Order)
             step == [i \in 1..n |-> [v \in Registries |-> AdmitNext(v, Order[i])]]
             it == CHOOSE iter : Folds(iter)
  <1>1. n \in Nat /\ DOMAIN Order = 1..n /\ \A i \in 1..n : Order[i] \in Paths
    BY OrderAssumption DEF Paths, Range
  <1>2. {} \in Registries
    BY DEF Registries, Sound, Unique, Own
  <1>3. \A i \in 1..n : [v \in Registries |-> AdmitNext(v, Order[i])] \in [Registries -> Registries]
    BY <1>1, AdmitType
  <1>4. step \in [1..n -> [Registries -> Registries]]
        /\ \A i \in 1..n, v \in Registries : step[i][v] = AdmitNext(v, Order[i])
    BY <1>3
  <1>5. FoldLeft(AdmitNext, {}, Order) = it[1..n]
    BY <1>1 DEF FoldLeft, MapThenFoldSet, Folds
  <1> HIDE DEF n, step, it
  <1>6. PICK iter : Iterates(iter, n, Registries, {}, step)
    BY <1>1, <1>2, <1>4, FoldExists
  <1>7. Folds(iter)
    <2>1. ASSUME NEW S \in SUBSET (1..n), S # {}
          PROVE  step[Max(S)][iter[S \ {Max(S)}]] = AdmitNext(iter[S \ {Max(S)}], Order[Max(S)])
      <3>1. Max(S) \in 1..n /\ iter[S \ {Max(S)}] \in Registries
        BY <1>1, <1>6, <2>1, MaxFacts DEF Iterates
      <3> QED
        BY <1>4, <3>1
    <2>2. iter \in [SUBSET (1..n) -> Registries]
      BY <1>6 DEF Iterates
    <2>3. \A S \in SUBSET (1..n) :
            iter[S] = IF S = {} THEN {} ELSE AdmitNext(iter[S \ {Max(S)}], Order[Max(S)])
      BY <1>6, <2>1 DEF Iterates
    <2>4. iter = [S \in SUBSET (1..n) |->
                    IF S = {} THEN {} ELSE AdmitNext(iter[S \ {Max(S)}], Order[Max(S)])]
      BY <2>2, <2>3
    <2> QED
      BY <2>4 DEF Folds, n
  <1>8. Folds(it)
    BY <1>7 DEF it
  <1> DEFINE Bad == {k \in Nat : k <= n /\ it[1..k] \notin Registries}
  <1>9. ASSUME Bad # {} PROVE FALSE
    <2>1. PICK k \in Bad : \A j \in Bad : k <= j
      BY <1>9, LeastNumber
    <2>2. 1..k \in SUBSET (1..Len(Order))
      BY <1>1, <2>1 DEF n
    <2>3. CASE k = 0
      <3>1. 1..k = {}
        BY <2>3
      <3> QED
        BY <1>2, <1>8, <2>1, <2>2, <3>1, FoldsAt
    <2>4. CASE k # 0
      <3>1. k \in 1..n /\ k - 1 \in Nat /\ k - 1 <= n /\ ~(k <= k - 1)
        BY <1>1, <2>1, <2>4
      <3>2. it[1..(k - 1)] \in Registries
        BY <2>1, <3>1
      <3>3. Max(1..k) = k /\ (1..k) \ {k} = 1..(k - 1) /\ 1..k # {}
        BY <2>4, <3>1, PrefixMax
      <3>4. it[1..k] = AdmitNext(it[1..(k - 1)], Order[k])
        <4> DEFINE S == 1..k
        <4>1. S \in SUBSET (1..Len(Order)) /\ S # {} /\ Max(S) = k /\ S \ {Max(S)} = 1..(k - 1)
          BY <2>2, <3>3
        <4> HIDE DEF S
        <4>2. it[S] = AdmitNext(it[S \ {Max(S)}], Order[Max(S)])
          BY <1>8, <4>1, FoldsAt
        <4> QED
          BY <4>1, <4>2 DEF S
      <3> QED
        BY <1>1, <2>1, <3>1, <3>2, <3>4, AdmitType
    <2> QED
      BY <2>3, <2>4
  <1>10. it[1..n] \in Registries
    BY <1>1, <1>9
  <1> QED
    BY <1>5, <1>10 DEF Registries

LEMMA RegistryInit == Init => RegistryInv
  <1> SUFFICES ASSUME Init PROVE RegistryInv
    OBVIOUS
  <1>1. Jobs
    BY DEF Init, Jobs, Job
  <1>2. CASE store = EmptyStore
    BY <1>1, <1>2 DEF EmptyStore, Tables, Required, RegistryInv, Sound, Unique, Own
  <1>3. CASE store = CapturedStore
    <2>1. store = [t \in Tables |-> store[t]] /\ store["registry"] = FoldLeft(AdmitNext, {}, Order)
      BY <1>3 DEF CapturedStore, EmptyStore, Tables
    <2> QED
      BY <1>1, <2>1, CapturedSound DEF RegistryInv
  <1> QED
    BY <1>2, <1>3 DEF Init

-----------------------------------------------------------------------------
(* Workers. *)

LEMMA QueueTail ==
  ASSUME NEW out, Queue(out)
  PROVE  /\ Head(out) = out[1] /\ 1 \in DOMAIN out
         /\ Len(out) # 1 => Queue(Tail(out))
  <1> DEFINE S == {out[i] : i \in DOMAIN out}
             rest == Tail(out)
  <1>1. out \in Seq(S) /\ out # <<>> /\ Len(out) \in Nat \ {0} /\ DOMAIN out = 1..Len(out)
    BY DEF Queue
  <1> HIDE DEF S
  <1>2. Head(out) = out[1] /\ 1 \in DOMAIN out
    BY <1>1
  <1>3. /\ rest \in Seq(S) /\ Len(rest) = Len(out) - 1
        /\ \A i \in 1..Len(rest) : rest[i] = out[i + 1]
    BY <1>1, HeadTailProperties
  <1> HIDE DEF rest
  <1>4. DOMAIN rest = 1..Len(rest) /\ \A i \in DOMAIN rest : i + 1 \in DOMAIN out /\ rest[i] = out[i + 1]
    BY <1>1, <1>3
  <1>5. rest \in Seq({rest[i] : i \in DOMAIN rest})
    BY <1>3, <1>4
  <1>6. Len(out) # 1 => rest # <<>>
    BY <1>1, <1>3
  <1> QED
    BY <1>2, <1>4, <1>5, <1>6 DEF Queue, rest

LEMMA AdvancedJob ==
  ASSUME NEW j, j # Idle, Job(j), j.at \in {"open", "write"}
  PROVE  Job(Advanced(j))
  <1>1. /\ {"job", "calm", "at", "out", "then"} \subseteq DOMAIN j
        /\ Queue(j.out) /\ j.then \in {"admitted", "end"}
    BY DEF Job
  <1>2. Len(j.out) # 1 => Queue(Tail(j.out))
    BY <1>1, QueueTail
  <1> DEFINE k == Advanced(j)
  <1>3. /\ DOMAIN k = DOMAIN j /\ k.out = Tail(j.out) /\ k.then = j.then
        /\ k.at = IF Len(j.out) = 1 THEN j.then ELSE "open"
    BY <1>1 DEF Advanced
  <1> HIDE DEF k
  <1>4. k.at \notin {"copy", "stub"} /\ (k.at \in {"open", "write"} => Len(j.out) # 1)
    BY <1>1, <1>3
  <1> QED
    BY <1>1, <1>2, <1>3, <1>4 DEF Job, k

\* Another control state, or another value of a field that nothing is said about.
LEMMA MovedJob ==
  ASSUME NEW j, j # Idle, Job(j), NEW at,
         \/ at \notin {"copy", "stub", "open", "write"}
         \/ at \in {"copy", "stub"} /\ j.at \in {"copy", "stub"}
         \/ at \in {"open", "write"} /\ j.at \in {"open", "write"}
  PROVE  Job([j EXCEPT !.at = at])
  <1> DEFINE k == [j EXCEPT !.at = at]
  <1>1. {"job", "calm", "at"} \subseteq DOMAIN j
    BY DEF Job
  <1>2. /\ DOMAIN k = DOMAIN j /\ k.at = at
        /\ k.row = j.row /\ k.rows = j.rows /\ k.out = j.out /\ k.then = j.then
    BY <1>1
  <1> HIDE DEF k
  <1>3. Job(k)
    BY <1>1, <1>2 DEF Job
  <1> QED
    BY <1>3 DEF k

LEMMA SpoiledJob ==
  ASSUME NEW j, j # Idle, Job(j), NEW v
  PROVE  Job([j EXCEPT !.calm = v])
  <1> DEFINE k == [j EXCEPT !.calm = v]
  <1>1. {"job", "calm", "at"} \subseteq DOMAIN j
    BY DEF Job
  <1>2. /\ DOMAIN k = DOMAIN j /\ k.at = j.at
        /\ k.row = j.row /\ k.rows = j.rows /\ k.out = j.out /\ k.then = j.then
    BY <1>1
  <1> HIDE DEF k
  <1>3. Job(k)
    BY <1>1, <1>2 DEF Job
  <1> QED
    BY <1>3 DEF k

LEMMA JobsSet ==
  ASSUME Jobs, NEW x \in Workers, NEW j, Job(j), w' = [w EXCEPT ![x] = j]
  PROVE  Jobs'
  <1>1. w' = [y \in Workers |-> w'[y]] /\ \A y \in Workers : w'[y] = IF y = x THEN j ELSE w[y]
    BY DEF Jobs
  <1> QED
    BY <1>1 DEF Jobs

LEMMA DisturbedJobs ==
  ASSUME Jobs, NEW job
  PROVE  /\ Disturbed(job) = [y \in Workers |-> Disturbed(job)[y]]
         /\ \A y \in Workers : Job(Disturbed(job)[y])
  <1>1. \A y \in Workers : Job(w[y]) /\ (w[y] # Idle => Job([w[y] EXCEPT !.calm = FALSE]))
    BY SpoiledJob DEF Jobs
  <1> QED
    BY <1>1 DEF Disturbed

LEMMA BeginJobs ==
  ASSUME Jobs, NEW x \in Workers, NEW state, state # Idle, Job(state), Begin(x, state)
  PROVE  Jobs' /\ store' = store
  <1> DEFINE other == Disturbed(state.job)
  <1>1. PICK calm : w' = [other EXCEPT ![x] = [state EXCEPT !.calm = calm]]
    BY DEF Begin
  <1>2. other = [y \in Workers |-> other[y]] /\ \A y \in Workers : Job(other[y])
    BY DisturbedJobs
  <1> DEFINE mine == [state EXCEPT !.calm = calm]
  <1>3. Job(mine)
    BY SpoiledJob
  <1> HIDE DEF other, mine
  <1>4. w' = [other EXCEPT ![x] = mine]
    BY <1>1 DEF mine
  <1>5. w' = [y \in Workers |-> w'[y]] /\ \A y \in Workers : w'[y] = IF y = x THEN mine ELSE other[y]
    BY <1>2, <1>4
  <1>6. Jobs'
    BY <1>2, <1>3, <1>5 DEF Jobs
  <1> QED
    BY <1>6 DEF Begin

LEMMA WritingJobs ==
  ASSUME Jobs, NEW x \in Workers, NEW out, NEW then \in {"admitted", "end"}, NEW keep,
         Queue(out), Writing(x, out, then, keep)
  PROVE  Jobs'
  <1> DEFINE j == [job |-> w[x].job, calm |-> w[x].calm, at |-> "open", out |-> out,
                   then |-> then, keep |-> keep]
  <1>1. Job(j)
    BY DEF Job
  <1>2. w' = [w EXCEPT ![x] = j]
    BY DEF Writing
  <1> HIDE DEF j
  <1> QED
    BY <1>1, <1>2, JobsSet

LEMMA OneQueued == ASSUME NEW rows, Sound(rows) PROVE Queue(<<Write("registry", rows)>>)
  BY DEF Queue, Write
LEMMA TwoQueued ==
  ASSUME NEW s \in Tables \ {"registry"}, NEW t \in Tables \ {"registry"}, NEW a, NEW b
  PROVE  Queue(<<Write(s, a), Write(t, b)>>)
  BY DEF Queue, Write
LEMMA ThreeQueued ==
  ASSUME NEW s \in Tables \ {"registry"}, NEW t \in Tables \ {"registry"},
         NEW u \in Tables \ {"registry"}, NEW a, NEW b, NEW c
  PROVE  Queue(<<Write(s, a), Write(t, b), Write(u, c)>>)
  BY DEF Queue, Write

-----------------------------------------------------------------------------
(* The operations. *)

LEMMA CaptureFileStep ==
  ASSUME RegistryInv, NEW x \in Workers, NEW source, NEW answer \in Ladder, CaptureFile(x, source, answer)
  PROVE  RegistryInv'
  <1> DEFINE rows == store["registry"]
             urn == AdmittedUrn(rows, source, answer)
             j == Admitting("capture", TRUE, source, urn, <<>>)
  <1>1. urn # None /\ Begin(x, j)
    BY DEF CaptureFile
  <1>2. Sound(rows \union {Row(source, urn)})
    <2>1. Sound(rows)
      BY DEF RegistryInv
    <2> HIDE DEF rows
    <2> QED
      BY <1>1, <2>1, AdmittedNew
  <1>3. Job(j) /\ j # Idle
    <2>1. /\ j.at \in {"copy", "stub"} /\ j.rows = rows /\ j.row = Row(source, urn)
          /\ {"job", "calm", "at", "row", "rows", "todo"} \subseteq DOMAIN j
      BY DEF Admitting
    <2> QED
      BY <1>2, <2>1 DEF Job, Idle
  <1> HIDE DEF j
  <1>4. Jobs' /\ store' = store
    BY <1>1, <1>3, BeginJobs DEF RegistryInv
  <1> QED
    BY <1>4 DEF RegistryInv

\* What changes a worker and no table.
LEMMA WorkerStep ==
  ASSUME RegistryInv, Jobs', store' = store
  PROVE  RegistryInv'
  BY DEF RegistryInv

LEMMA NextFileStep ==
  ASSUME RegistryInv, NEW x \in Workers, NEW answer \in Ladder, NextFile(x, answer)
  PROVE  RegistryInv'
  <1> DEFINE j == w[x]
             path == Head(j.todo)
             rows == store["registry"]
             urn == AdmittedUrn(rows, Inside(path), answer)
             k == IF path \notin DOMAIN folder \/ ~Admissible(folder[path]) THEN Idle
                  ELSE IF urn = None THEN [j EXCEPT !.todo = Tail(j.todo)]
                  ELSE Admitting(j.job, j.calm, Inside(path), urn, Tail(j.todo))
  <1>1. w' = [w EXCEPT ![x] = k] /\ store' = store /\ j.at = "next"
    BY DEF NextFile
  <1>2. Job(k)
    <2>1. Job(Idle)
      BY DEF Job
    <2>2. Job([j EXCEPT !.todo = Tail(j.todo)])
      <3> DEFINE i == [j EXCEPT !.todo = Tail(j.todo)]
      <3>1. Job(j) /\ j # Idle
        BY <1>1 DEF RegistryInv, Jobs, Idle
      <3>2. {"job", "calm", "at"} \subseteq DOMAIN j
        BY <3>1 DEF Job
      <3>3. i.at = "next" /\ DOMAIN i = DOMAIN j
        BY <1>1, <3>2
      <3> HIDE DEF i
      <3>4. Job(i)
        BY <3>2, <3>3 DEF Job
      <3> QED
        BY <3>4 DEF i
    <2>3. ASSUME urn # None PROVE Job(Admitting(j.job, j.calm, Inside(path), urn, Tail(j.todo)))
      <3> DEFINE i == Admitting(j.job, j.calm, Inside(path), urn, Tail(j.todo))
      <3>1. Sound(rows \union {Row(Inside(path), urn)})
        <4>1. Sound(rows)
          BY DEF RegistryInv
        <4> HIDE DEF rows
        <4> QED
          BY <2>3, <4>1, AdmittedNew
      <3>2. /\ i.at = "stub" /\ i.rows = rows /\ i.row = Row(Inside(path), urn)
            /\ {"job", "calm", "at", "row", "rows", "todo"} \subseteq DOMAIN i
        BY DEF Admitting, Inside, Source
      <3> HIDE DEF i
      <3>3. Job(i)
        BY <3>1, <3>2 DEF Job
      <3> QED
        BY <3>3 DEF i
    <2> QED
      BY <2>1, <2>2, <2>3
  <1> HIDE DEF k
  <1> QED
    BY <1>1, <1>2, JobsSet, WorkerStep DEF RegistryInv

LEMMA WriteStubStep ==
  ASSUME RegistryInv, NEW x \in Workers, WriteStub(x)
  PROVE  RegistryInv'
  <1> DEFINE rows == w[x].rows \union {w[x].row}
             keep == [row |-> w[x].row, todo |-> w[x].todo]
  <1>1. w[x].at = "stub" /\ store' = store
        /\ Writing(x, <<Write("registry", rows)>>, "admitted", keep)
    BY DEF WriteStub
  <1>2. Sound(rows)
    BY <1>1 DEF RegistryInv, Jobs, Job, Idle
  <1>3. Queue(<<Write("registry", rows)>>)
    BY <1>2, OneQueued
  <1> HIDE DEF rows, keep
  <1> QED
    BY <1>1, <1>3, WritingJobs, WorkerStep DEF RegistryInv

LEMMA GotoJobs ==
  ASSUME Jobs, NEW x \in Workers, NEW at, Goto(x, at), w[x] # Idle,
         \/ at \in {"copy", "stub"} /\ w[x].at \in {"copy", "stub"}
         \/ at \in {"open", "write"} /\ w[x].at \in {"open", "write"}
  PROVE  Jobs'
  <1>1. w' = [w EXCEPT ![x] = [w[x] EXCEPT !.at = at]]
    BY DEF Goto
  <1>2. Job([w[x] EXCEPT !.at = at])
    BY MovedJob DEF Jobs
  <1> QED
    BY <1>1, <1>2, JobsSet

\* The registry is truncated, and then has what was queued.
LEMMA TableStep ==
  ASSUME RegistryInv, NEW x \in Workers, TableSkip(x) \/ TableOpen(x) \/ TableWrite(x)
  PROVE  RegistryInv'
  <1> DEFINE j == w[x]
  <1>1. j # Idle /\ Job(j) /\ j.at \in {"open", "write"} /\ Jobs
    BY DEF TableSkip, TableOpen, TableWrite, Idle, RegistryInv, Jobs
  <1>2. Queue(j.out) /\ Written(x) = j.out[1] /\ 1 \in DOMAIN j.out
    BY <1>1, QueueTail DEF Job, Written
  <1>3. Job(Advanced(j))
    BY <1>1, AdvancedJob
  <1>4. CASE TableSkip(x)
    <2>1. w' = [w EXCEPT ![x] = Advanced(j)] /\ store' = store
      BY <1>4 DEF TableSkip
    <2> QED
      BY <1>1, <1>3, <2>1, JobsSet, WorkerStep
  <1>5. CASE TableOpen(x)
    <2>1. Goto(x, "write") /\ store' = [store EXCEPT ![Written(x).table] = {}]
      BY <1>5 DEF TableOpen
    <2>2. Jobs'
      BY <1>1, <2>1, GotoJobs
    <2>3. /\ store' = [t \in Tables |-> store'[t]]
          /\ store'["registry"] \in {{}, store["registry"]}
      BY <2>1 DEF RegistryInv, Tables
    <2>4. Sound({})
      BY DEF Sound, Unique, Own
    <2> QED
      BY <2>2, <2>3, <2>4 DEF RegistryInv
  <1>6. CASE TableWrite(x)
    <2>1. /\ w' = [w EXCEPT ![x] = Advanced(j)]
          /\ store' = [store EXCEPT ![Written(x).table] = Written(x).rows]
      BY <1>6 DEF TableWrite
    <2>2. Jobs'
      BY <1>1, <1>3, <2>1, JobsSet
    <2>3. Written(x).table = "registry" => Sound(Written(x).rows)
      BY <1>2 DEF Queue
    <2>4. /\ store' = [t \in Tables |-> store'[t]]
          /\ \/ store'["registry"] = store["registry"]
             \/ store'["registry"] = Written(x).rows /\ Written(x).table = "registry"
      BY <2>1 DEF RegistryInv, Tables
    <2> QED
      BY <2>2, <2>3, <2>4 DEF RegistryInv
  <1> QED
    BY <1>4, <1>5, <1>6

\* A worker that goes on where it neither holds rows nor writes.
Passing == {"next", "index", "read", "end", "admitted"}

LEMMA PassedJob ==
  ASSUME NEW j, {"job", "calm", "at"} \subseteq DOMAIN j, j.at \in Passing
  PROVE  Job(j)
  BY DEF Job, Passing

LEMMA DoorStep ==
  ASSUME RegistryInv, NEW x \in Workers, Door(x)
  PROVE  RegistryInv'
  <1>1. Jobs /\ Job(w[x])
    BY DEF RegistryInv, Jobs
  <1>2. CASE \/ \E e \in External, answer \in Ladder : CaptureFile(x, Outside(e), answer)
             \/ \E path \in DOMAIN folder, answer \in Ladder : CaptureFile(x, Inside(path), answer)
    BY <1>2, CaptureFileStep
  <1>3. CASE CaptureFolder(x)
    <2> DEFINE j == [job |-> "folder", calm |-> TRUE, at |-> "next", todo |-> Listing, row |-> None]
    <2>1. Job(j) /\ j # Idle /\ Begin(x, j)
      BY <1>3, PassedJob DEF CaptureFolder, Passing, Idle
    <2> HIDE DEF j
    <2> QED
      BY <1>1, <2>1, BeginJobs, WorkerStep
  <1>4. CASE \E answer \in Ladder : NextFile(x, answer)
    BY <1>4, NextFileStep
  <1>5. CASE Copy(x)
    <2>1. Goto(x, "stub") /\ w[x].at = "copy" /\ w[x] # Idle /\ store' = store
      BY <1>5 DEF Copy, Idle
    <2> QED
      BY <1>1, <2>1, GotoJobs, WorkerStep
  <1>6. CASE WriteStub(x)
    BY <1>6, WriteStubStep
  <1>7. CASE Admitted(x)
    <2> DEFINE j == [job |-> w[x].job, calm |-> w[x].calm, at |-> "next",
                     row |-> IF w[x].job = "folder" THEN None ELSE w[x].keep.row,
                     todo |-> w[x].keep.todo]
    <2>1. w' = [w EXCEPT ![x] = j] /\ store' = store
      BY <1>7 DEF Admitted
    <2>2. Job(j)
      BY PassedJob DEF Passing
    <2> HIDE DEF j
    <2> QED
      BY <1>1, <2>1, <2>2, JobsSet, WorkerStep
  <1>8. CASE IndexFolder(x)
    <2> DEFINE j == [job |-> "index", calm |-> TRUE, at |-> "next", todo |-> <<>>, row |-> None]
    <2>1. Job(j) /\ j # Idle /\ Begin(x, j)
      BY <1>8, PassedJob DEF IndexFolder, Passing, Idle
    <2> HIDE DEF j
    <2> QED
      BY <1>1, <2>1, BeginJobs, WorkerStep
  <1>9. CASE IndexBegin(x)
    <2> DEFINE j == [job |-> w[x].job, calm |-> w[x].calm, at |-> "index", row |-> w[x].row,
                     todo |-> Listing, got |-> {}]
    <2>1. w' = [w EXCEPT ![x] = j] /\ store' = store
      BY <1>9 DEF IndexBegin
    <2>2. Job(j)
      BY PassedJob DEF Passing
    <2> HIDE DEF j
    <2> QED
      BY <1>1, <2>1, <2>2, JobsSet, WorkerStep
  <1>10. CASE IndexFile(x)
    <2>1. w[x].at = "index" /\ w[x] # Idle /\ store' = store
      BY <1>10 DEF IndexFile, Idle
    <2>2. PICK todo, got : w' = [w EXCEPT ![x] = [w[x] EXCEPT !.todo = todo, !.got = got]]
      BY <1>10, Zenon DEF IndexFile
    <2> DEFINE j == [w[x] EXCEPT !.todo = todo, !.got = got]
    <2>3. {"job", "calm", "at"} \subseteq DOMAIN w[x]
      BY <1>1, <2>1 DEF Job
    <2>4. DOMAIN j = DOMAIN w[x] /\ j.at = "index"
      BY <2>1, <2>3
    <2>5. Job(j)
      BY <2>3, <2>4, PassedJob DEF Passing
    <2> HIDE DEF j
    <2>6. w' = [w EXCEPT ![x] = j]
      BY <2>2 DEF j
    <2> QED
      BY <1>1, <2>1, <2>5, <2>6, JobsSet, WorkerStep
  <1>11. CASE IndexRows(x)
    <2> DEFINE got == w[x].got
               out == <<Write("claims", ClaimRows(got)), Write("sources", SourceRows(got)),
                        Write("definitions", DefinitionRows(got))>>
    <2>1. Writing(x, out, "end", w[x].row) /\ store' = store
      BY <1>11 DEF IndexRows
    <2>2. Queue(out)
      BY ThreeQueued DEF Tables
    <2> HIDE DEF out
    <2> QED
      BY <1>1, <2>1, <2>2, WritingJobs, WorkerStep
  <1>12. CASE IndexEnd(x)
    <2>1. w' = [w EXCEPT ![x] = Idle] /\ store' = store
      BY <1>12 DEF IndexEnd, Finish
    <2> QED
      BY <1>1, <2>1, JobsSet, WorkerStep DEF Job
  <1> QED
    BY <1>2, <1>3, <1>4, <1>5, <1>6, <1>7, <1>8, <1>9, <1>10, <1>11, <1>12 DEF Door

LEMMA ReadStep ==
  ASSUME RegistryInv, NEW x \in Workers, NEW job, NEW tables, ReadNext(x, job, tables)
  PROVE  RegistryInv'
  <1>1. w[x].at = "read" /\ w[x] # Idle /\ store' = store /\ Jobs /\ Job(w[x])
    BY DEF ReadNext, AboutToRead, Read, Idle, RegistryInv, Jobs
  <1>2. PICK read : \/ w' = [w EXCEPT ![x] = Idle]
                    \/ w' = [w EXCEPT ![x] = [w[x] EXCEPT !.read = read]]
    BY DEF ReadNext, Read
  <1> DEFINE j == [w[x] EXCEPT !.read = read]
  <1>3. {"job", "calm", "at"} \subseteq DOMAIN w[x]
    BY <1>1 DEF Job
  <1>4. DOMAIN j = DOMAIN w[x] /\ j.at = "read"
    BY <1>1, <1>3
  <1>5. Job(j) /\ Job(Idle)
    BY <1>3, <1>4, PassedJob DEF Passing, Job
  <1> HIDE DEF j
  <1>6. w' = [w EXCEPT ![x] = Idle] \/ w' = [w EXCEPT ![x] = j]
    BY <1>2 DEF j
  <1> QED
    BY <1>1, <1>5, <1>6, JobsSet, WorkerStep

LEMMA DeskStep ==
  ASSUME RegistryInv, NEW x \in Workers, Desk(x)
  PROVE  RegistryInv'
  <1>1. Jobs /\ Job(w[x])
    BY DEF RegistryInv, Jobs
  <1>2. ASSUME NEW job, Begin(x, Reading(job)) PROVE RegistryInv'
    <2>1. Job(Reading(job)) /\ Reading(job) # Idle
      BY PassedJob DEF Reading, Passing, Idle
    <2> QED
      BY <1>1, <1>2, <2>1, BeginJobs, WorkerStep
  <1>3. ASSUME NEW least, NEW pick, ConfirmBegin(x, least, pick) PROVE RegistryInv'
    <2> DEFINE j == [job |-> "confirm", calm |-> TRUE, at |-> "read", read |-> <<>>,
                     least |-> least, pick |-> pick]
    <2>1. Job(j) /\ j # Idle /\ Begin(x, j)
      BY <1>3, PassedJob DEF ConfirmBegin, Passing, Idle
    <2> HIDE DEF j
    <2> QED
      BY <1>1, <2>1, BeginJobs, WorkerStep
  <1>4. CASE SuggestRead(x) \/ ConfirmRead(x) \/ MaterializeRead(x)
    BY <1>4, ReadStep DEF SuggestRead, ConfirmRead, MaterializeRead
  <1>5. CASE SuggestWrite(x)
    <2> DEFINE r == w[x].read
               s == Suggest(r[1], r[2], r[3])
               keep == {c \in r[3] : Mentioning(r[1], {c.label, c.id}) # {}}
               out == <<Write("suggested_concepts", s.concepts), Write("suggested_edges", s.edges)>>
    <2>1. Writing(x, out, "end", keep) /\ store' = store
      BY <1>5 DEF SuggestWrite
    <2>2. Queue(out)
      BY TwoQueued DEF Tables
    <2> HIDE DEF out, keep
    <2> QED
      BY <1>1, <2>1, <2>2, WritingJobs, WorkerStep
  <1>6. CASE ConfirmWrite(x)
    <2>1. PICK a, b, keep :
             Writing(x, <<Write("concepts", a), Write("edges", b)>>, "end", keep)
      BY <1>6 DEF ConfirmWrite
    <2>2. Queue(<<Write("concepts", a), Write("edges", b)>>) /\ store' = store
      BY <1>6, TwoQueued DEF ConfirmWrite, Tables
    <2> QED
      BY <1>1, <2>1, <2>2, WritingJobs, WorkerStep
  <1>7. CASE MaterializeWrite(x)
    <2>1. PICK a, b, c :
             Writing(x, <<Write("target_claims", a), Write("target_concepts", b),
                          Write("target_edges", c)>>, "end", None)
      BY <1>7 DEF MaterializeWrite
    <2>2. Queue(<<Write("target_claims", a), Write("target_concepts", b),
                  Write("target_edges", c)>>) /\ store' = store
      BY <1>7, ThreeQueued DEF MaterializeWrite, Tables
    <2> QED
      BY <1>1, <2>1, <2>2, WritingJobs, WorkerStep
  <1>8. CASE SuggestEnd(x) \/ ConfirmEnd(x) \/ MaterializeEnd(x)
    <2>1. w' = [w EXCEPT ![x] = Idle] /\ store' = store
      BY <1>8 DEF SuggestEnd, ConfirmEnd, MaterializeEnd, Finish
    <2> QED
      BY <1>1, <2>1, JobsSet, WorkerStep DEF Job
  <1>9. CASE SuggestBegin(x) \/ MaterializeBegin(x)
    BY <1>2, <1>9 DEF SuggestBegin, MaterializeBegin
  <1> QED
    BY <1>3, <1>4, <1>5, <1>6, <1>7, <1>8, <1>9 DEF Desk

LEMMA EditStep ==
  ASSUME RegistryInv, NEW action, Edit(action), store' = [store EXCEPT !["concepts"] = store'["concepts"]]
  PROVE  RegistryInv'
  <1>1. w' = Disturbed("edit")
    BY DEF Edit
  <1>2. Jobs'
    BY <1>1, DisturbedJobs DEF RegistryInv, Jobs
  <1>3. store' = [t \in Tables |-> store'[t]] /\ store'["registry"] = store["registry"]
    BY DEF RegistryInv, Tables
  <1> QED
    BY <1>2, <1>3 DEF RegistryInv

LEMMA RegistryNext == RegistryInv /\ [Next]_vars => RegistryInv'
  <1> SUFFICES ASSUME RegistryInv, [Next]_vars PROVE RegistryInv'
    OBVIOUS
  <1>1. ASSUME NEW x \in Workers, Work(x) PROVE RegistryInv'
    <2>1. CASE Crash(x)
      <3>1. w' = [w EXCEPT ![x] = Idle] /\ store' = store
        BY <2>1 DEF Crash
      <3> QED
        BY <3>1, JobsSet, WorkerStep DEF RegistryInv, Job
    <2> QED
      BY <1>1, <2>1, DoorStep, DeskStep, TableStep DEF Work
  <1>2. store = [t \in Tables |-> store[t]]
    BY DEF RegistryInv
  <1>3. ASSUME NEW s \in Saves, Edit(SaveFile(s.path, s.doc)) PROVE RegistryInv'
    <2>1. store' = store
      BY <1>3 DEF Edit, SaveFile
    <2> QED
      BY <1>2, <1>3, <2>1, EditStep
  <1>4. ASSUME NEW p \in Paths, Edit(RemoveFile(p)) PROVE RegistryInv'
    <2>1. store' = store
      BY <1>4 DEF Edit, RemoveFile
    <2> QED
      BY <1>2, <1>4, <2>1, EditStep
  <1>5. ASSUME NEW c \in Additions, Edit(AddConcept(c)) PROVE RegistryInv'
    <2>1. store' = [store EXCEPT !["concepts"] = store'["concepts"]]
      BY <1>2, <1>5 DEF Edit, AddConcept, Tables
    <2> QED
      BY <1>5, <2>1, EditStep
  <1>6. CASE UNCHANGED vars
    BY <1>6 DEF vars, RegistryInv, Jobs
  <1> QED
    BY <1>1, <1>3, <1>4, <1>5, <1>6 DEF Next

\* The registry has every digest and every urn once, in a folder that is new or has been
\* captured, however captures overlap, edits come between, or one dies (write.capture_file).
THEOREM RegistryStaysUnique == Spec => []RegistryUnique
  <1>1. Spec => []RegistryInv
    BY RegistryInit, RegistryNext, PTL DEF Spec
  <1>2. RegistryInv => RegistryUnique
    BY DEF RegistryInv, Sound, Unique, RegistryUnique
  <1> QED
    BY <1>1, <1>2, PTL
-----------------------------------------------------------------------------
(* Calm results.  Shape says what a worker is made of at each place. *)

Captures == {"capture", "folder"}
Indexers == {"capture", "folder", "index"}
Desks == {"suggest", "confirm", "materialize"}
Targets == {"target_claims", "target_concepts", "target_edges"}

\* The tables that a job writes.
Owned(job) ==
    CASE job \in Indexers -> {"registry", "claims", "sources", "definitions"}
      [] job = "suggest" -> {"suggested_concepts", "suggested_edges"}
      [] job = "confirm" -> {"concepts", "edges"}
      [] job = "materialize" -> Targets

Plain(s) == s \in Seq({s[i] : i \in DOMAIN s})

\* Tables of a job that are queued, each once.
Out(out, job) ==
    /\ Plain(out) /\ out # <<>>
    /\ \A i \in DOMAIN out :
          /\ out[i].table \in Owned(job)
          /\ out[i].table = "claims" => IsFiniteSet(out[i].rows)
    /\ \A i, k \in DOMAIN out : out[i].table = out[k].table => i = k

\* What is still to be captured: only capture_folder has any.
Todo(todo, job) == todo \in Seq(Paths) /\ (job # "folder" => todo = <<>>)

Reads(got) == IsFiniteSet(got) /\ \A g \in got : g.doc \in Documents

Shape(j) ==
    \/ j = Idle
    \/ /\ {"job", "calm", "at"} \subseteq DOMAIN j
       /\ j.job \in Indexers \union Desks /\ j.calm \in BOOLEAN
       /\ j.at = "copy" => j.job = "capture" /\ j.row.path.tag \in {None, j.row.sha}
       /\ \/ /\ j.at \in {"copy", "stub"} /\ j.job \in Captures
             /\ {"row", "rows", "todo"} \subseteq DOMAIN j /\ Todo(j.todo, j.job)
             /\ j.row.path \in Paths /\ j.row.sha \in Documents \ Unreadable
          \/ /\ j.at \in {"open", "write"}
             /\ {"out", "then", "keep"} \subseteq DOMAIN j /\ Out(j.out, j.job)
             /\ \/ j.then = "end"
                \/ j.then = "admitted" /\ j.job \in Captures /\ Todo(j.keep.todo, j.job)
          \/ j.at = "admitted" /\ j.job \in Captures /\ "keep" \in DOMAIN j
             /\ Todo(j.keep.todo, j.job)
          \/ j.at = "next" /\ j.job \in Indexers /\ {"row", "todo"} \subseteq DOMAIN j
             /\ Todo(j.todo, j.job)
          \/ /\ j.at = "index" /\ j.job \in Indexers
             /\ {"row", "todo", "got"} \subseteq DOMAIN j
             /\ j.todo \in Seq(Paths) /\ Reads(j.got)
          \/ /\ j.at = "read" /\ j.job \in Desks /\ "read" \in DOMAIN j /\ Plain(j.read)
             /\ j.job = "suggest" /\ j.read # <<>> => IsFiniteSet(j.read[1])
             /\ j.job = "confirm" => {"least", "pick"} \subseteq DOMAIN j
          \/ j.at = "end" /\ "keep" \in DOMAIN j

Shapes ==
    /\ w = [x \in Workers |-> w[x]] /\ \A x \in Workers : Shape(w[x])
    /\ store = [t \in Tables |-> store[t]]
    /\ store["claims"] = None \/ IsFiniteSet(store["claims"])
    /\ folder \in [DOMAIN folder -> Documents] /\ DOMAIN folder \subseteq Paths

\* A calm worker has what it works on for itself.
Apart ==
    \A x, y \in Workers :
        x # y /\ w[x] # Idle /\ w[x].calm /\ w[y] # Idle => ~Spoils(w[x].job, w[y].job)

\* Where a worker is, what it has queued once written, and what a table is then.
Phase(j) == IF j.at \in {"open", "write"} THEN j.then ELSE j.at
Queued(j) == IF j.at \in {"open", "write"} THEN {j.out[i] : i \in DOMAIN j.out} ELSE {}
Final(j, t) ==
    IF \E a \in Queued(j) : a.table = t THEN (CHOOSE a \in Queued(j) : a.table = t).rows
    ELSE store[t]

\* materialize.
Grounded(claims, concepts, edges) ==
    /\ \A c \in concepts : \E e \in edges : e.canonical = c.canonical /\ e.row.dst = c.row.id
    /\ \A e \in edges : \E c \in claims : c.canonical = e.canonical /\ c.row.item = e.row.src

Materializing(j) ==
    Phase(j) = "end" =>
        Grounded(Final(j, "target_claims"), Final(j, "target_concepts"), Final(j, "target_edges"))

\* suggest_folder and confirm_folder.
Offered(concepts) == {c.id : c \in {c \in concepts : c.sources >= 1}}

Suggesting(j) == Phase(j) = "end" => Ids(j.keep) \subseteq Offered(Final(j, "suggested_concepts"))

SuggestedStays ==
    suggested # {} =>
        /\ Ids(suggested) \subseteq Offered(store["suggested_concepts"])
        /\ \A x \in Workers : w[x] # Idle /\ w[x].job = "suggest" => w[x].at = "read"

Confirming(j) ==
    /\ j.at = "read" /\ j.read # <<>> => j.read[1] = store["suggested_concepts"]
    /\ Phase(j) = "end" =>
          /\ {e.dst : e \in Final(j, "edges")} \subseteq Ids(Final(j, "concepts"))
          /\ j.keep.least = 1 /\ j.keep.pick = {} =>
                 Ids(suggested) \subseteq Ids(Final(j, "concepts"))

\* capture_file: from the copy to the index.
Here(row) == row.path \in DOMAIN folder /\ folder[row.path] = row.sha /\ row.sha \notin Unreadable

Capturing(j) ==
    /\ j.at = "copy" /\ j.row.path \in DOMAIN folder => folder[j.row.path] = j.row.sha
    /\ j.at = "stub" => Here(j.row)
    /\ Phase(j) = "admitted" => Here(j.keep.row) /\ j.keep.row \in Final(j, "registry")
    /\ j.at \in {"next", "index"} => Here(j.row) /\ j.row \in store["registry"]
    /\ j.at = "index" => j.row.path \in Range(j.todo) \/ \E g \in j.got : g.path = j.row.path
    /\ Phase(j) = "end" =>
          /\ Here(j.keep) /\ j.keep \in Final(j, "registry")
          /\ \E s \in Final(j, "sources") : s.path = j.keep.path

\* capture_folder: what has been decided, then what has been read.
Decides(rows, todo) ==
    \A p \in DOMAIN folder : p \in Range(todo) \/ SameBytes(rows, folder[p])

Covering(j) ==
    /\ j.at = "stub" => Decides(j.rows \union {j.row}, j.todo)
    /\ Phase(j) = "admitted" => Decides(Final(j, "registry"), j.keep.todo)
    /\ j.at = "next" => Decides(store["registry"], j.todo)
    /\ j.at = "index" =>
          /\ Decides(store["registry"], <<>>)
          /\ j.got \subseteq Indexed
          /\ \A p \in DOMAIN folder :
                folder[p] \in Unreadable \/ p \in Range(j.todo) \/ Got(p, folder[p]) \in j.got
    /\ Phase(j) = "end" =>
          /\ Decides(Final(j, "registry"), <<>>)
          /\ Final(j, "claims") = ClaimRows(Indexed)
          /\ Final(j, "sources") = SourceRows(Indexed)
          /\ Final(j, "definitions") = DefinitionRows(Indexed)

Calm(x, job) == w[x] # Idle /\ w[x].calm /\ w[x].job = job
-----------------------------------------------------------------------------
(* Sequences and queues. *)

LEMMA ListedType ==
  ASSUME NEW found \in Seq(Paths), NEW path \in Paths
  PROVE  Listed(found, path) \in Seq(Paths)
  BY DEF Listed

LEMMA AppendRange ==
  ASSUME NEW S, NEW s \in Seq(S), NEW e \in S
  PROVE  Range(Append(s, e)) = Range(s) \union {e}
  <1> DEFINE t == Append(s, e)
  <1>1. t \in Seq(S) /\ Len(t) = Len(s) + 1 /\ t[Len(s) + 1] = e /\ Len(s) \in Nat
        /\ \A i \in 1..Len(s) : t[i] = s[i]
    OBVIOUS
  <1>2. DOMAIN t = 1..Len(t) /\ DOMAIN s = 1..Len(s)
    BY <1>1
  <1> HIDE DEF t
  <1>3. DOMAIN t = DOMAIN s \union {Len(s) + 1}
    BY <1>1, <1>2
  <1>4. Range(t) = Range(s) \union {e}
    BY <1>1, <1>2, <1>3 DEF Range
  <1> QED
    BY <1>4 DEF t

LEMMA TailRange ==
  ASSUME NEW S, NEW s \in Seq(S), s # <<>>
  PROVE  /\ Tail(s) \in Seq(S) /\ Head(s) \in S
         /\ Range(s) = {Head(s)} \union Range(Tail(s))
  <1> DEFINE t == Tail(s)
  <1>1. /\ t \in Seq(S) /\ Len(t) = Len(s) - 1 /\ Head(s) = s[1] /\ Head(s) \in S
        /\ \A i \in 1..Len(t) : t[i] = s[i + 1]
    BY HeadTailProperties
  <1>2. Len(s) \in Nat \ {0} /\ DOMAIN s = 1..Len(s)
    OBVIOUS
  <1>3. DOMAIN t = 1..Len(t)
    BY <1>1
  <1> HIDE DEF t
  <1>4. \A i \in DOMAIN s : i = 1 \/ (i - 1 \in DOMAIN t /\ t[i - 1] = s[i])
    BY <1>1, <1>2, <1>3
  <1>5. \A i \in DOMAIN t : i + 1 \in DOMAIN s /\ t[i] = s[i + 1]
    BY <1>1, <1>2, <1>3
  <1>6. 1 \in DOMAIN s
    BY <1>2
  <1>7. Range(s) = {Head(s)} \union Range(t)
    <2>1. Range(s) \subseteq {Head(s)} \union Range(t)
      BY <1>1, <1>4 DEF Range
    <2>2. {Head(s)} \union Range(t) \subseteq Range(s)
      BY <1>1, <1>5, <1>6 DEF Range
    <2> QED
      BY <2>1, <2>2
  <1> QED
    BY <1>1, <1>7 DEF t

LEMMA EmptyRange == Range(<<>>) = {}
  BY DEF Range

Listings(iter) ==
    iter = [S \in SUBSET (1..Len(Order)) |->
              IF S = {} THEN <<>> ELSE Listed(iter[S \ {Max(S)}], Order[Max(S)])]

LEMMA ListingsAt ==
  ASSUME NEW it, Listings(it), NEW S \in SUBSET (1..Len(Order))
  PROVE  it[S] = IF S = {} THEN <<>> ELSE Listed(it[S \ {Max(S)}], Order[Max(S)])
  <1> DEFINE all == [U \in SUBSET (1..Len(Order)) |->
                       IF U = {} THEN <<>> ELSE Listed(it[U \ {Max(U)}], Order[Max(U)])]
  <1>1. all[S] = IF S = {} THEN <<>> ELSE Listed(it[S \ {Max(S)}], Order[Max(S)])
    OBVIOUS
  <1>2. it = all
    BY DEF Listings
  <1> HIDE DEF all
  <1> QED
    BY <1>1, <1>2

\* A listing is made path by path.
LEMMA ListingRun ==
  \E f : /\ f \in [0..Len(Order) -> Seq(Paths)] /\ f[0] = <<>> /\ f[Len(Order)] = Listing
         /\ \A i \in 1..Len(Order) : f[i] = Listed(f[i - 1], Order[i])
  <1> DEFINE n == Len(Order)
             A == Seq(Paths)
             step == [i \in 1..n |-> [v \in A |-> Listed(v, Order[i])]]
             it == CHOOSE iter : Listings(iter)
  <1>1. n \in Nat /\ DOMAIN Order = 1..n /\ \A i \in 1..n : Order[i] \in Paths
    BY OrderAssumption DEF Paths, Range
  <1>2. <<>> \in A
    OBVIOUS
  <1>3. \A i \in 1..n : [v \in A |-> Listed(v, Order[i])] \in [A -> A]
    BY <1>1, ListedType
  <1>4. step \in [1..n -> [A -> A]] /\ \A i \in 1..n, v \in A : step[i][v] = Listed(v, Order[i])
    BY <1>3
  <1>5. Listing = it[1..n]
    BY <1>1 DEF Listing, FoldLeft, MapThenFoldSet, Listings
  <1> HIDE DEF n, A, step, it
  <1>6. PICK iter : Iterates(iter, n, A, <<>>, step)
    BY <1>1, <1>2, <1>4, FoldExists
  <1>7. Listings(iter)
    <2>1. ASSUME NEW S \in SUBSET (1..n), S # {}
          PROVE  step[Max(S)][iter[S \ {Max(S)}]] = Listed(iter[S \ {Max(S)}], Order[Max(S)])
      <3>1. Max(S) \in 1..n /\ iter[S \ {Max(S)}] \in A
        BY <1>1, <1>6, <2>1, MaxFacts DEF Iterates
      <3> QED
        BY <1>4, <3>1
    <2>2. iter \in [SUBSET (1..n) -> A]
      BY <1>6 DEF Iterates
    <2>3. \A S \in SUBSET (1..n) :
            iter[S] = IF S = {} THEN <<>> ELSE Listed(iter[S \ {Max(S)}], Order[Max(S)])
      BY <1>6, <2>1 DEF Iterates
    <2>4. iter = [S \in SUBSET (1..n) |->
                    IF S = {} THEN <<>> ELSE Listed(iter[S \ {Max(S)}], Order[Max(S)])]
      BY <2>2, <2>3
    <2> QED
      BY <2>4 DEF Listings, n
  <1>8. Listings(it)
    BY <1>7 DEF it
  <1>9. PICK f : Run(f, n, A, <<>>, step, 1..n)
    BY <1>1, <1>2, <1>4, RunExists
  <1>10. it[{}] = <<>>
    <2>1. {} \in SUBSET (1..Len(Order))
      OBVIOUS
    <2> QED
      BY <1>8, <2>1, ListingsAt
  <1>11. ASSUME NEW k \in 1..n, it[1..(k - 1)] \in A
         PROVE  it[1..k] = step[k][it[1..(k - 1)]]
    <2> DEFINE S == 1..k
               below == 1..(k - 1)
    <2>1. Max(S) = k /\ S \ {k} = below /\ S # {} /\ S \in SUBSET (1..Len(Order))
      <3>1. k \in Nat /\ k # 0 /\ \A i \in 1..k : i \in 1..n
        BY <1>1
      <3> QED
        BY <3>1, PrefixMax DEF n
    <2> HIDE DEF S, below
    <2>2. it[S] = IF S = {} THEN <<>> ELSE Listed(it[S \ {Max(S)}], Order[Max(S)])
      BY <1>8, <2>1, ListingsAt
    <2>3. it[S] = Listed(it[below], Order[k])
      BY <2>1, <2>2
    <2> QED
      BY <1>4, <1>11, <2>3 DEF S, below
  <1>12. Steps(it, n, A, <<>>, step)
    BY <1>10, <1>11 DEF Steps
  <1>13. it[1..n] = f[n]
    BY <1>1, <1>2, <1>4, <1>9, <1>12, FoldTracks
  <1>14. \A i \in 1..n : i - 1 \in 0..n
    BY <1>1
  <1>15. f \in [0..n -> A] /\ f[0] = <<>> /\ \A i \in 1..n : f[i] = step[i][f[i - 1]]
    BY <1>9 DEF Run
  <1>16. \A i \in 1..n : f[i] = Listed(f[i - 1], Order[i])
    BY <1>4, <1>14, <1>15
  <1> QED
    BY <1>5, <1>13, <1>15, <1>16 DEF n, A

\* It has the files that are there.
LEMMA ListingFacts == Listing \in Seq(Paths) /\ Range(Listing) = Paths \intersect DOMAIN folder
  <1> DEFINE n == Len(Order)
  <1>1. n \in Nat /\ DOMAIN Order = 1..n /\ \A i \in 1..n : Order[i] \in Paths
    BY OrderAssumption DEF Paths, Range
  <1>2. PICK f : /\ f \in [0..n -> Seq(Paths)] /\ f[0] = <<>> /\ f[n] = Listing
                 /\ \A i \in 1..n : f[i] = Listed(f[i - 1], Order[i])
    BY ListingRun
  <1> DEFINE Met(k) == {Order[i] : i \in 1..k} \intersect DOMAIN folder
             Bad == {k \in Nat : k <= n /\ Range(f[k]) # Met(k)}
  <1> HIDE DEF n
  <1>3. ASSUME Bad # {} PROVE FALSE
    <2>1. PICK k \in Bad : \A j \in Bad : k <= j
      BY <1>3, LeastNumber
    <2>2. k # 0
      <3>1. Met(0) = {}
        OBVIOUS
      <3> QED
        BY <1>2, <2>1, <3>1, EmptyRange
    <2>3. k \in 1..n /\ k - 1 \in Nat /\ k - 1 <= n /\ ~(k <= k - 1) /\ k - 1 \in 0..n
      BY <1>1, <2>1, <2>2
    <2>4. Range(f[k - 1]) = Met(k - 1) /\ f[k - 1] \in Seq(Paths)
      BY <1>2, <2>1, <2>3
    <2>5. Range(f[k]) = Range(f[k - 1]) \union ({Order[k]} \intersect DOMAIN folder)
      <3>1. Order[k] \in Paths /\ f[k] = Listed(f[k - 1], Order[k])
        BY <1>1, <1>2, <2>3
      <3>2. Range(Append(f[k - 1], Order[k])) = Range(f[k - 1]) \union {Order[k]}
        BY <2>4, <3>1, AppendRange
      <3> QED
        BY <3>1, <3>2 DEF Listed
    <2>6. \A i \in 1..k : i = k \/ i \in 1..(k - 1)
      BY <2>3
    <2>7. \A i \in 1..(k - 1) : i \in 1..k
      BY <2>3
    <2>8. k \in 1..k
      BY <2>3
    <2>9. {Order[i] : i \in 1..k} = {Order[i] : i \in 1..(k - 1)} \union {Order[k]}
      BY <2>6, <2>7, <2>8
    <2>10. Met(k) = Met(k - 1) \union ({Order[k]} \intersect DOMAIN folder)
      BY <2>9
    <2> QED
      BY <2>1, <2>4, <2>5, <2>10
  <1>4. n \notin Bad /\ n <= n
    BY <1>1, <1>3
  <1>5. Range(f[n]) = Met(n)
    BY <1>1, <1>4
  <1>6. {Order[i] : i \in 1..n} = Paths
    BY <1>1 DEF Paths, Range
  <1>7. n \in 0..n
    BY <1>1
  <1>8. f[n] \in Seq(Paths)
    BY <1>2, <1>7
  <1> QED
    BY <1>2, <1>5, <1>6, <1>8
-----------------------------------------------------------------------------
(* Queues. *)

LEMMA OutFacts ==
  ASSUME NEW out, NEW job, Out(out, job)
  PROVE  /\ Head(out) = out[1] /\ 1 \in DOMAIN out
         /\ Len(out) = 1 => {out[i] : i \in DOMAIN out} = {out[1]}
         /\ Len(out) # 1 => Out(Tail(out), job)
         /\ Len(out) # 1 => {Tail(out)[i] : i \in DOMAIN Tail(out)} = {out[i] : i \in DOMAIN out} \ {out[1]}
  <1> DEFINE S == {out[i] : i \in DOMAIN out}
             rest == Tail(out)
  <1>1. out \in Seq(S) /\ out # <<>> /\ Len(out) \in Nat \ {0} /\ DOMAIN out = 1..Len(out)
    BY DEF Out, Plain
  <1> HIDE DEF S
  <1>2. Head(out) = out[1] /\ 1 \in DOMAIN out
    BY <1>1
  <1>3. /\ rest \in Seq(S) /\ Len(rest) = Len(out) - 1
        /\ \A i \in 1..Len(rest) : rest[i] = out[i + 1]
    BY <1>1, HeadTailProperties
  <1> HIDE DEF rest
  <1>4. DOMAIN rest = 1..Len(rest) /\ \A i \in DOMAIN rest : i + 1 \in DOMAIN out /\ rest[i] = out[i + 1]
    BY <1>1, <1>3
  <1>5. rest \in Seq({rest[i] : i \in DOMAIN rest})
    BY <1>3, <1>4
  <1>6. Len(out) # 1 => rest # <<>>
    BY <1>1, <1>3
  <1>7. \A i, k \in DOMAIN rest : rest[i].table = rest[k].table => i = k
    <2> SUFFICES ASSUME NEW i \in DOMAIN rest, NEW k \in DOMAIN rest, rest[i].table = rest[k].table
                 PROVE  i = k
      OBVIOUS
    <2>1. i + 1 = k + 1
      BY <1>4 DEF Out
    <2> QED
      BY <1>1, <1>3, <1>4, <2>1
  <1>8. \A i \in DOMAIN rest : /\ rest[i].table \in Owned(job)
                               /\ rest[i].table = "claims" => IsFiniteSet(rest[i].rows)
    BY <1>4 DEF Out
  <1>9. Len(out) # 1 => Out(rest, job)
    BY <1>5, <1>6, <1>7, <1>8 DEF Out, Plain
  <1>10. \A i \in DOMAIN out : i = 1 \/ (i - 1 \in DOMAIN rest /\ rest[i - 1] = out[i])
    BY <1>1, <1>3, <1>4
  <1>11. \A i \in DOMAIN rest : rest[i] # out[1]
    BY <1>1, <1>2, <1>4 DEF Out
  <1>12. {rest[i] : i \in DOMAIN rest} = {out[i] : i \in DOMAIN out} \ {out[1]}
    BY <1>4, <1>10, <1>11
  <1>13. Len(out) = 1 => {out[i] : i \in DOMAIN out} = {out[1]}
    BY <1>1
  <1> QED
    BY <1>2, <1>9, <1>12, <1>13 DEF rest

LEMMA QueuedOnce ==
  ASSUME NEW j, j.at \in {"open", "write"} => Out(j.out, j.job), NEW a \in Queued(j)
  PROVE  Final(j, a.table) = a.rows
  <1>1. \A b \in Queued(j) : b.table = a.table => b = a
    BY DEF Queued, Out
  <1>2. (CHOOSE b \in Queued(j) : b.table = a.table) = a
    BY <1>1
  <1> QED
    BY <1>2 DEF Final

LEMMA NotQueued ==
  ASSUME NEW j, NEW t, \A a \in Queued(j) : a.table # t
  PROVE  Final(j, t) = store[t]
  BY DEF Final

-----------------------------------------------------------------------------
(* What a step does to the workers. *)

LEMMA SetFacts ==
  ASSUME Shapes, NEW x \in Workers, NEW j, w' = [w EXCEPT ![x] = j]
  PROVE  /\ w' = [y \in Workers |-> w'[y]] /\ w'[x] = j
         /\ \A y \in Workers : y # x => w'[y] = w[y]
  BY DEF Shapes

\* Losing or having calm changes nothing else.
LEMMA CalmShape ==
  ASSUME NEW j, j # Idle, Shape(j), NEW b \in BOOLEAN
  PROVE  /\ Shape([j EXCEPT !.calm = b]) /\ [j EXCEPT !.calm = b] # Idle
         /\ [j EXCEPT !.calm = b].job = j.job /\ [j EXCEPT !.calm = b].calm = b
         /\ [j EXCEPT !.calm = b].at = j.at
  <1> DEFINE k == [j EXCEPT !.calm = b]
  <1>1. {"job", "calm", "at"} \subseteq DOMAIN j
    BY DEF Shape
  <1>2. /\ DOMAIN k = DOMAIN j /\ k.calm = b /\ k.job = j.job /\ k.at = j.at
        /\ k.row = j.row /\ k.rows = j.rows /\ k.todo = j.todo /\ k.got = j.got
        /\ k.out = j.out /\ k.then = j.then /\ k.keep = j.keep /\ k.read = j.read
    BY <1>1
  <1> HIDE DEF k
  <1>3. DOMAIN Idle = {"at"}
    BY DEF Idle
  <1>4. k # Idle
    BY <1>1, <1>2, <1>3
  <1>5. Shape(k)
    BY <1>2, <1>4 DEF Shape
  <1> QED
    BY <1>2, <1>4, <1>5 DEF k

LEMMA CalmFields ==
  ASSUME NEW j, j # Idle, Shape(j), NEW b, NEW k, k = [j EXCEPT !.calm = b]
  PROVE  k.row = j.row /\ k.todo = j.todo /\ k.rows = j.rows /\ k.read = j.read
  BY DEF Shape

\* A call that begins.
Begins(x) ==
    /\ w[x] = Idle /\ w'[x] # Idle /\ w'[x].at \in {"copy", "stub", "next", "read"}
    /\ w'[x].at = "read" => w'[x].read = <<>>
    /\ folder' = folder /\ store' = store /\ suggested' = suggested /\ done' = None
    /\ \A y \in Workers : y # x =>
          w'[y] = IF w[y] # Idle /\ Spoils(w'[x].job, w[y].job) THEN [w[y] EXCEPT !.calm = FALSE]
                  ELSE w[y]
    /\ w'[x].calm => \A y \in Workers : y # x => w[y] = Idle \/ ~Spoils(w'[x].job, w[y].job)

\* A step of one that goes on: it changes what its job may change.
Moves(x) ==
    /\ w[x] # Idle
    /\ w'[x] = Idle \/ (w'[x] # Idle /\ w'[x].job = w[x].job /\ w'[x].calm = w[x].calm)
    /\ \A y \in Workers : y # x => w'[y] = w[y]
    /\ \A t \in Tables : t \notin Owned(w[x].job) => store'[t] = store[t]
    /\ w[x].job = "materialize" => folder' = folder /\ suggested' = suggested

Typed ==
    /\ w' = [y \in Workers |-> w'[y]] /\ store' = [t \in Tables |-> store'[t]]
    /\ store'["claims"] = None \/ IsFiniteSet(store'["claims"])
    /\ folder' \in [DOMAIN folder' -> Documents] /\ DOMAIN folder' \subseteq Paths

LEMMA BeginFacts ==
  ASSUME Shapes, NEW x \in Workers, NEW state, state # Idle, Shape(state), Begin(x, state),
         state.at \in {"copy", "stub", "next", "read"}, state.at = "read" => state.read = <<>>
  PROVE  /\ Begins(x) /\ Typed /\ Shape(w'[x])
         /\ w'[x].job = state.job /\ w'[x].at = state.at /\ w'[x].row = state.row
         /\ w'[x].todo = state.todo /\ w'[x].rows = state.rows
  <1> DEFINE other == Disturbed(state.job)
             b == \A y \in Workers : w[y] = Idle \/ ~Spoils(state.job, w[y].job)
             mine == [state EXCEPT !.calm = b]
  <1>1. w' = [other EXCEPT ![x] = mine] /\ w[x] = Idle
    BY DEF Begin
  <1>2. /\ folder' = folder /\ store' = store /\ suggested' = suggested /\ done' = None
    BY DEF Begin
  <1>3. other = [y \in Workers |-> IF w[y] # Idle /\ Spoils(state.job, w[y].job)
                                   THEN [w[y] EXCEPT !.calm = FALSE] ELSE w[y]]
    BY DEF Disturbed
  <1>4. b \in BOOLEAN
    OBVIOUS
  <1>5. Shape(mine) /\ mine # Idle /\ mine.job = state.job /\ mine.calm = b /\ mine.at = state.at
        /\ mine.row = state.row /\ mine.todo = state.todo /\ mine.rows = state.rows
        /\ mine.read = state.read
    <2> HIDE DEF b
    <2>1. Shape(mine) /\ mine # Idle /\ mine.job = state.job /\ mine.calm = b /\ mine.at = state.at
      BY <1>4, CalmShape
    <2>2. /\ mine.row = state.row /\ mine.todo = state.todo /\ mine.rows = state.rows
          /\ mine.read = state.read
      BY CalmFields
    <2> QED
      BY <2>1, <2>2
  <1> HIDE DEF mine, other
  <1>6. w' = [y \in Workers |-> w'[y]] /\ w'[x] = mine
        /\ \A y \in Workers : y # x => w'[y] = IF w[y] # Idle /\ Spoils(state.job, w[y].job)
                                              THEN [w[y] EXCEPT !.calm = FALSE] ELSE w[y]
    BY <1>1, <1>3
  <1>7. Begins(x)
    <2>1. \A y \in Workers : y # x =>
             w'[y] = IF w[y] # Idle /\ Spoils(w'[x].job, w[y].job) THEN [w[y] EXCEPT !.calm = FALSE]
                     ELSE w[y]
      BY <1>5, <1>6
    <2>2. w'[x].calm => \A y \in Workers : y # x => w[y] = Idle \/ ~Spoils(w'[x].job, w[y].job)
      BY <1>5, <1>6
    <2> QED
      BY <1>1, <1>2, <1>5, <1>6, <2>1, <2>2 DEF Begins
  <1>8. Typed
    BY <1>2, <1>6 DEF Typed, Shapes
  <1> QED
    BY <1>5, <1>6, <1>7, <1>8

\* A step that changes one worker, and no table or file.
LEMMA QuietMove ==
  ASSUME Shapes, NEW x \in Workers, w[x] # Idle, NEW j, w' = [w EXCEPT ![x] = j], Shape(j),
         j = Idle \/ (j # Idle /\ j.job = w[x].job /\ j.calm = w[x].calm),
         store' = store, folder' = folder,
         w[x].job = "materialize" => suggested' = suggested
  PROVE  Moves(x) /\ Typed /\ Shape(w'[x]) /\ w'[x] = j
  <1>1. /\ w' = [y \in Workers |-> w'[y]] /\ w'[x] = j
        /\ \A y \in Workers : y # x => w'[y] = w[y]
    BY SetFacts
  <1> QED
    BY <1>1 DEF Moves, Typed, Shapes

LEMMA OwnedFacts ==
  /\ \A job \in Indexers : Owned(job) = {"registry", "claims", "sources", "definitions"}
  /\ Owned("suggest") = {"suggested_concepts", "suggested_edges"}
  /\ Owned("confirm") = {"concepts", "edges"}
  /\ Owned("materialize") = Targets
  BY DEF Owned, Indexers

LEMMA OwnedApart ==
  ASSUME NEW job \in Indexers \union Desks
  PROVE  /\ Owned(job) \subseteq Tables
         /\ job = "materialize" <=> Owned(job) = Targets
         /\ job # "materialize" => Owned(job) \intersect Targets = {}
         /\ "claims" \in Owned(job) <=> job \in Indexers
         /\ "registry" \in Owned(job) <=> job \in Indexers
         /\ "suggested_concepts" \in Owned(job) <=> job = "suggest"
  BY OwnedFacts DEF Indexers, Desks, Targets, Tables

\* Truncating or writing the first table that is queued.
LEMMA TableMove ==
  ASSUME Shapes, NEW x \in Workers, TableSkip(x) \/ TableOpen(x) \/ TableWrite(x)
  PROVE  /\ Moves(x) /\ Typed /\ Shape(w'[x]) /\ w'[x] # Idle
         /\ folder' = folder /\ suggested' = suggested /\ done' = None
         /\ w[x].at \in {"open", "write"} /\ w'[x].at \in {"open", "write", "admitted", "end"}
         /\ Phase(w'[x]) = Phase(w[x]) /\ w'[x].keep = w[x].keep
         /\ \A t \in Tables : Final(w[x], t)' = Final(w[x], t)
  <1> DEFINE j == w[x]
             k == w'[x]
             first == j.out[1]
  <1>1. j # Idle /\ Shape(j) /\ j.at \in {"open", "write"}
    BY DEF TableSkip, TableOpen, TableWrite, Idle, Shapes
  <1>2. /\ {"job", "calm", "at", "out", "then", "keep"} \subseteq DOMAIN j
        /\ Out(j.out, j.job) /\ j.then \in {"admitted", "end"} /\ j.job \in Indexers \union Desks
        /\ j.calm \in BOOLEAN
        /\ j.then = "admitted" => j.job \in Captures /\ Todo(j.keep.todo, j.job)
    BY <1>1 DEF Shape
  <1>3. Written(x) = first /\ 1 \in DOMAIN j.out /\ first.table \in Owned(j.job)
        /\ (first.table = "claims" => IsFiniteSet(first.rows))
    BY <1>2, OutFacts DEF Written, Out
  <1>4. first.table \in Tables /\ first \in Queued(j)
    BY <1>1, <1>2, <1>3, OwnedApart DEF Queued
  <1> HIDE DEF first
  <1>5. folder' = folder /\ suggested' = suggested /\ done' = None
    BY DEF TableSkip, TableOpen, TableWrite
  <1>6. ASSUME NEW out, NEW at, k = [j EXCEPT !.out = out, !.at = at],
               at \in {"open", "write"} => Out(out, j.job), at \in {"open", "write", j.then}
        PROVE  /\ Shape(k) /\ k # Idle /\ k.job = j.job /\ k.calm = j.calm /\ k.keep = j.keep
               /\ k.at = at /\ k.then = j.then /\ k.out = out /\ Phase(k) = Phase(j)
    <2>1. /\ DOMAIN k = DOMAIN j /\ k.job = j.job /\ k.calm = j.calm /\ k.keep = j.keep
          /\ k.at = at /\ k.then = j.then /\ k.out = out
      BY <1>2, <1>6
    <2>2. k # Idle
      BY <1>2, <2>1 DEF Idle
    <2>3. Shape(k)
      BY <1>2, <1>6, <2>1 DEF Shape
    <2>4. Phase(k) = Phase(j)
      BY <1>1, <1>2, <1>6, <2>1 DEF Phase
    <2> QED
      BY <2>1, <2>2, <2>3, <2>4
  \* After the first table.
  <1>7. ASSUME w' = [w EXCEPT ![x] = Advanced(j)]
        PROVE  /\ Shape(k) /\ k # Idle /\ k.job = j.job /\ k.calm = j.calm /\ k.keep = j.keep
               /\ k.at \in {"open", "admitted", "end"} /\ Phase(k) = Phase(j)
               /\ Queued(k) = Queued(j) \ {first}
    <2> DEFINE at == IF Len(j.out) = 1 THEN j.then ELSE "open"
               out == Tail(j.out)
    <2>1. k = Advanced(j)
      BY <1>7, SetFacts
    <2>2. Advanced(j) = [j EXCEPT !.out = out, !.at = at]
      <3>1. Advanced(j) = [j EXCEPT !.out = Tail(j.out), !.at = IF Len(j.out) = 1 THEN j.then ELSE "open"]
        BY <1>2 DEF Advanced
      <3> QED
        BY <3>1
    <2>3. at \in {"open", "write"} => Out(out, j.job)
      BY <1>2, OutFacts
    <2>4. at \in {"open", "write", j.then}
      OBVIOUS
    <2> HIDE DEF at, out
    <2>5. /\ Shape(k) /\ k # Idle /\ k.job = j.job /\ k.calm = j.calm /\ k.keep = j.keep
          /\ k.at = at /\ k.then = j.then /\ k.out = out /\ Phase(k) = Phase(j)
      <3>1. k = [j EXCEPT !.out = out, !.at = at]
        BY <2>1, <2>2, Zenon
      <3> QED
        BY <1>6, <2>3, <2>4, <3>1, Zenon
    <2>6. k.at \in {"open", "admitted", "end"}
      BY <1>2, <2>5 DEF at
    <2>7. Queued(k) = Queued(j) \ {first}
      <3>1. CASE Len(j.out) = 1
        <4>1. k.at = j.then
          BY <2>5, <3>1 DEF at
        <4> QED
          BY <1>1, <1>2, <3>1, <4>1, OutFacts DEF Queued, first
      <3>2. CASE Len(j.out) # 1
        <4>1. k.at = "open" /\ k.out = Tail(j.out)
          BY <2>5, <3>2 DEF at, out
        <4>2. {Tail(j.out)[i] : i \in DOMAIN Tail(j.out)} = {j.out[i] : i \in DOMAIN j.out} \ {j.out[1]}
          BY <1>2, <3>2, OutFacts
        <4> QED
          BY <1>1, <4>1, <4>2 DEF Queued, first
      <3> QED
        BY <3>1, <3>2
    <2> QED
      BY <2>5, <2>6, <2>7
  \* Tables that are queued are what is queued, the others what they are.
  <1>8. ASSUME Queued(k) \in {Queued(j), Queued(j) \ {first}},
               k.at \in {"open", "write"} => Out(k.out, k.job),
               \A t \in Tables : t # first.table => store'[t] = store[t],
               first \notin Queued(k) => store'[first.table] = first.rows
        PROVE  \A t \in Tables : Final(j, t)' = Final(j, t)
    <2> SUFFICES ASSUME NEW t \in Tables PROVE Final(j, t)' = Final(j, t)
      OBVIOUS
    <2>1. \A a, b \in Queued(j) : a.table = b.table => a = b
      BY <1>1, <1>2 DEF Queued, Out
    <2>2. Final(j, t)' = IF \E a \in Queued(k) : a.table = t
                         THEN (CHOOSE a \in Queued(k) : a.table = t).rows ELSE store'[t]
      BY DEF Final, Queued
    <2>3. CASE \E a \in Queued(k) : a.table = t
      <3>1. PICK a \in Queued(k) : a.table = t
        BY <2>3
      <3>2. a \in Queued(j)
        BY <1>8
      <3>3. \A b \in Queued(k) : b.table = t => b = a
        BY <1>8, <2>1, <3>1, <3>2
      <3>4. (CHOOSE b \in Queued(k) : b.table = t) = a
        BY <3>1, <3>3
      <3>5. Final(j, t) = a.rows
        BY <1>2, <3>1, <3>2, QueuedOnce
      <3> QED
        BY <2>2, <2>3, <3>4, <3>5
    <2>4. CASE ~ \E a \in Queued(k) : a.table = t
      <3>1. CASE t = first.table
        <4>1. first \notin Queued(k)
          BY <2>4, <3>1
        <4>2. Final(j, t) = first.rows
          BY <1>2, <1>4, <3>1, QueuedOnce
        <4> QED
          BY <1>8, <2>2, <2>4, <3>1, <4>1, <4>2
      <3>2. CASE t # first.table
        <4>1. \A a \in Queued(j) : a.table # t
          BY <1>8, <2>4, <3>2
        <4> QED
          BY <1>8, <2>2, <2>4, <3>2, <4>1, NotQueued
      <3> QED
        BY <3>1, <3>2
    <2> QED
      BY <2>3, <2>4
  <1> HIDE DEF k
  <1>9. CASE TableSkip(x)
    <2>1. w' = [w EXCEPT ![x] = Advanced(j)] /\ store' = store /\ store[first.table] = first.rows
      BY <1>3, <1>9 DEF TableSkip, Unchanged
    <2>2. /\ w' = [y \in Workers |-> w'[y]]
          /\ \A y \in Workers : y # x => w'[y] = w[y]
      BY <2>1, SetFacts
    <2>3. k.at \in {"open", "write"} => Out(k.out, k.job)
      BY <1>7, <2>1 DEF Shape
    <2>4. \A t \in Tables : Final(j, t)' = Final(j, t)
      BY <1>7, <1>8, <2>1, <2>3
    <2> QED
      BY <1>1, <1>5, <1>7, <2>1, <2>2, <2>4 DEF Moves, Typed, Shapes, k
  <1>10. CASE TableWrite(x)
    <2>1. w' = [w EXCEPT ![x] = Advanced(j)] /\ store' = [store EXCEPT ![first.table] = first.rows]
      BY <1>3, <1>10 DEF TableWrite
    <2>2. /\ w' = [y \in Workers |-> w'[y]]
          /\ \A y \in Workers : y # x => w'[y] = w[y]
      BY <2>1, SetFacts
    <2>3. k.at \in {"open", "write"} => Out(k.out, k.job)
      BY <1>7, <2>1 DEF Shape
    <2>4. /\ store' = [t \in Tables |-> store'[t]] /\ store'[first.table] = first.rows
          /\ \A t \in Tables : t # first.table => store'[t] = store[t]
      BY <1>4, <2>1 DEF Shapes
    <2>5. \A t \in Tables : Final(j, t)' = Final(j, t)
      BY <1>7, <1>8, <2>1, <2>3, <2>4
    <2>6. store'["claims"] = None \/ IsFiniteSet(store'["claims"])
      BY <1>3, <2>4 DEF Shapes, Tables
    <2>7. Typed
      BY <1>5, <2>2, <2>4, <2>6 DEF Typed, Shapes
    <2>8. Moves(x)
      BY <1>1, <1>3, <1>5, <1>7, <2>1, <2>2, <2>4 DEF Moves, k
    <2> QED
      BY <1>1, <1>5, <1>7, <2>1, <2>5, <2>7, <2>8 DEF k
  <1>11. CASE TableOpen(x)
    <2>1. w' = [w EXCEPT ![x] = [j EXCEPT !.at = "write"]] /\ store' = [store EXCEPT ![first.table] = {}]
      BY <1>3, <1>11 DEF TableOpen, Goto
    <2>2. /\ w' = [y \in Workers |-> w'[y]] /\ k = [j EXCEPT !.at = "write"]
          /\ \A y \in Workers : y # x => w'[y] = w[y]
      BY <2>1, SetFacts DEF k
    <2>3. [j EXCEPT !.at = "write"] = [j EXCEPT !.out = j.out, !.at = "write"]
      BY <1>2
    <2>4. /\ Shape(k) /\ k # Idle /\ k.job = j.job /\ k.calm = j.calm /\ k.keep = j.keep
          /\ k.at = "write" /\ k.then = j.then /\ k.out = j.out /\ Phase(k) = Phase(j)
      <3>1. k = [j EXCEPT !.out = j.out, !.at = "write"]
        BY <2>2, <2>3, Zenon
      <3>2. "write" \in {"open", "write", j.then} /\ Out(j.out, j.job)
        BY <1>2
      <3> QED
        BY <1>6, <3>1, <3>2, Zenon
    <2>5. Queued(k) = Queued(j)
      BY <1>1, <2>4 DEF Queued
    <2>6. /\ store' = [t \in Tables |-> store'[t]] /\ store'[first.table] = {}
          /\ \A t \in Tables : t # first.table => store'[t] = store[t]
      BY <1>4, <2>1 DEF Shapes
    <2>7. \A t \in Tables : Final(j, t)' = Final(j, t)
      BY <1>2, <1>4, <1>8, <2>4, <2>5, <2>6
    <2>8. store'["claims"] = None \/ IsFiniteSet(store'["claims"])
      BY <2>6, FS_EmptySet DEF Shapes, Tables
    <2>9. Typed
      BY <1>5, <2>2, <2>6, <2>8 DEF Typed, Shapes
    <2>10. Moves(x)
      BY <1>1, <1>3, <1>5, <2>2, <2>4, <2>6 DEF Moves, k
    <2> QED
      BY <1>1, <1>5, <2>4, <2>7, <2>9, <2>10 DEF k
  <1> QED
    BY <1>9, <1>10, <1>11

-----------------------------------------------------------------------------
(* Every step of a worker is of these kinds. *)

Kind(x) == (Begins(x) \/ Moves(x)) /\ Typed /\ Shape(w'[x])

LEMMA AdmittingShape ==
  ASSUME NEW j, DOMAIN j = {"job", "calm", "at", "todo", "rows", "row"},
         j.job \in Captures, j.calm \in BOOLEAN, j.at \in {"copy", "stub"}, Todo(j.todo, j.job),
         j.row.path \in Paths, j.row.sha \in Documents \ Unreadable,
         j.at = "copy" => j.job = "capture" /\ j.row.path.tag \in {None, j.row.sha}
  PROVE  Shape(j) /\ j # Idle
  <1>1. j # Idle
    BY DEF Idle
  <1> QED
    BY <1>1 DEF Shape, Captures, Indexers

LEMMA AdmittingFields ==
  ASSUME NEW job, NEW calm, NEW source, NEW urn, NEW todo, NEW j,
         j = Admitting(job, calm, source, urn, todo)
  PROVE  /\ DOMAIN j = {"job", "calm", "at", "todo", "rows", "row"} /\ j.job = job /\ j.calm = calm
         /\ j.at = (IF source.inside THEN "stub" ELSE "copy") /\ j.todo = todo
         /\ j.rows = store["registry"] /\ j.row = Row(source, urn)
         /\ j.row.path = Target(source) /\ j.row.sha = source.doc
         /\ j.row.urn = urn /\ j.row.title = Title(source.path)
  BY DEF Admitting, Row

LEMMA OutsideFacts ==
  ASSUME NEW e \in External
  PROVE  /\ Outside(e).doc = e.doc /\ e.doc \in Documents /\ ~Outside(e).inside
         /\ Outside(e).inside \in BOOLEAN
         /\ Target(Outside(e)) \in Paths /\ Target(Outside(e)).tag \in {None, e.doc}
         /\ Target(Outside(e)) \in DOMAIN folder => folder[Target(Outside(e))] = e.doc
                                                   \/ Target(Outside(e)).tag = e.doc
  BY FilesAssumption DEF Outside, Source, Target, Path

LEMMA InsideFacts ==
  ASSUME Shapes, NEW path \in DOMAIN folder
  PROVE  /\ Inside(path).doc = folder[path] /\ folder[path] \in Documents /\ path \in Paths
         /\ Inside(path).inside /\ Inside(path).inside \in BOOLEAN
         /\ Target(Inside(path)) = path /\ Title(Inside(path).path) = Title(path)
  <1>1. folder[path] \in Documents /\ path \in Paths
    BY DEF Shapes
  <1> QED
    BY <1>1 DEF Inside, Source, Target

\* The call that captures a source.
LEMMA CaptureFileKind ==
  ASSUME Shapes, NEW x \in Workers, NEW answer,
         \/ \E e \in External : CaptureFile(x, Outside(e), answer)
         \/ \E path \in DOMAIN folder : CaptureFile(x, Inside(path), answer)
  PROVE  /\ Kind(x) /\ Begins(x) /\ w'[x].job = "capture" /\ w'[x].at \in {"copy", "stub"}
         /\ w'[x].at = "stub" => Here(w'[x].row)
         /\ w'[x].at = "copy" /\ w'[x].row.path \in DOMAIN folder =>
                folder[w'[x].row.path] = w'[x].row.sha \/ w'[x].row.path.tag = w'[x].row.sha
  <1>1. ASSUME NEW source, CaptureFile(x, source, answer), source.doc \in Documents,
               Target(source) \in Paths, source.inside \in BOOLEAN,
               ~source.inside => Target(source).tag \in {None, source.doc}
        PROVE  /\ Kind(x) /\ Begins(x) /\ w'[x].job = "capture"
               /\ w'[x].at = IF source.inside THEN "stub" ELSE "copy"
               /\ w'[x].row.path = Target(source) /\ w'[x].row.sha = source.doc
               /\ source.doc \notin Unreadable
    <2> DEFINE urn == AdmittedUrn(store["registry"], source, answer)
               j == Admitting("capture", TRUE, source, urn, <<>>)
    <2>1. Begin(x, j) /\ source.doc \in Documents \ Unreadable
      BY <1>1 DEF CaptureFile, Admissible
    <2>2. Todo(<<>>, "capture") /\ "capture" \in Captures
      BY DEF Todo, Captures
    <2>3. /\ DOMAIN j = {"job", "calm", "at", "todo", "rows", "row"} /\ j.job = "capture"
          /\ j.calm = TRUE /\ j.at = (IF source.inside THEN "stub" ELSE "copy") /\ j.todo = <<>>
          /\ j.row.path = Target(source) /\ j.row.sha = source.doc
      <3> HIDE DEF urn
      <3> QED
        BY DEF Admitting, Row
    <2> HIDE DEF urn, j
    <2>4. Shape(j) /\ j # Idle /\ j.at \in {"copy", "stub"}
      BY <1>1, <2>1, <2>2, <2>3, AdmittingShape
    <2>5. /\ Begins(x) /\ Typed /\ Shape(w'[x]) /\ w'[x].job = j.job /\ w'[x].at = j.at
          /\ w'[x].row = j.row
      BY <2>1, <2>4, BeginFacts
    <2> QED
      BY <2>1, <2>3, <2>5 DEF Kind
  <1>2. ASSUME NEW e \in External, CaptureFile(x, Outside(e), answer)
        PROVE  /\ Kind(x) /\ Begins(x) /\ w'[x].job = "capture" /\ w'[x].at = "copy"
               /\ w'[x].row.path \in DOMAIN folder =>
                    folder[w'[x].row.path] = w'[x].row.sha \/ w'[x].row.path.tag = w'[x].row.sha
    BY <1>1, <1>2, OutsideFacts
  <1>3. ASSUME NEW path \in DOMAIN folder, CaptureFile(x, Inside(path), answer)
        PROVE  /\ Kind(x) /\ Begins(x) /\ w'[x].job = "capture" /\ w'[x].at = "stub"
               /\ Here(w'[x].row)
    BY <1>1, <1>3, InsideFacts DEF Here
  <1> QED
    BY <1>2, <1>3

LEMMA IndexerBeginKind ==
  ASSUME Shapes, NEW x \in Workers, CaptureFolder(x) \/ IndexFolder(x)
  PROVE  /\ Kind(x) /\ Begins(x)
         /\ w'[x].job \in {"folder", "index"} /\ w'[x].at = "next"
         /\ w'[x].job = "folder" => w'[x].todo = Listing
  <1>1. ASSUME NEW job \in Indexers, NEW todo, Todo(todo, job),
               Begin(x, [job |-> job, calm |-> TRUE, at |-> "next", todo |-> todo, row |-> None])
        PROVE  /\ Kind(x) /\ Begins(x)
               /\ w'[x].job = job /\ w'[x].at = "next" /\ w'[x].todo = todo
    <2> DEFINE j == [job |-> job, calm |-> TRUE, at |-> "next", todo |-> todo, row |-> None]
    <2>1. /\ DOMAIN j = {"job", "calm", "at", "todo", "row"}
          /\ j.job = job /\ j.calm = TRUE /\ j.at = "next" /\ j.todo = todo
      OBVIOUS
    <2>2. Begin(x, j)
      BY <1>1
    <2> HIDE DEF j
    <2>3. j # Idle /\ j.at \in {"copy", "stub", "next", "read"}
      BY <2>1 DEF Idle
    <2>4. Shape(j)
      BY <1>1, <2>1, <2>3 DEF Shape
    <2>5. j.at # "read"
      BY <2>1
    <2>6. /\ Begins(x) /\ Typed /\ Shape(w'[x])
          /\ w'[x].job = j.job /\ w'[x].at = j.at /\ w'[x].todo = j.todo
      BY <2>2, <2>3, <2>4, <2>5, BeginFacts
    <2> QED
      BY <2>1, <2>6 DEF Kind
  <1>2. Todo(Listing, "folder") /\ Todo(<<>>, "index") /\ "folder" \in Indexers /\ "index" \in Indexers
    BY ListingFacts DEF Todo, Indexers
  <1>3. ASSUME CaptureFolder(x)
        PROVE  /\ Kind(x) /\ Begins(x)
               /\ w'[x].job = "folder" /\ w'[x].at = "next" /\ w'[x].todo = Listing
    BY <1>1, <1>2, <1>3 DEF CaptureFolder
  <1>4. ASSUME IndexFolder(x)
        PROVE  Kind(x) /\ Begins(x) /\ w'[x].job = "index" /\ w'[x].at = "next"
    BY <1>1, <1>2, <1>4 DEF IndexFolder
  <1> QED
    BY <1>3, <1>4

LEMMA DeskBeginKind ==
  ASSUME Shapes, NEW x \in Workers,
         \/ SuggestBegin(x) \/ MaterializeBegin(x)
         \/ \E least, pick : ConfirmBegin(x, least, pick)
  PROVE  Kind(x) /\ Begins(x) /\ w'[x].job \in Desks
  <1>1. ASSUME NEW j, Begin(x, j), {"job", "calm", "at", "read"} \subseteq DOMAIN j, j.job \in Desks,
               j.calm = TRUE, j.at = "read", j.read = <<>>,
               j.job = "confirm" => {"least", "pick"} \subseteq DOMAIN j
        PROVE  Kind(x) /\ Begins(x) /\ w'[x].job \in Desks
    <2>1. j # Idle /\ j.at \in {"copy", "stub", "next", "read"}
      BY <1>1 DEF Idle
    <2>2. Plain(<<>>)
      BY DEF Plain
    <2>3. Shape(j)
      BY <1>1, <2>1, <2>2 DEF Shape
    <2> QED
      BY <1>1, <2>1, <2>3, BeginFacts DEF Kind
  <1>2. ASSUME NEW job \in {"suggest", "materialize"}, Begin(x, Reading(job))
        PROVE  Kind(x) /\ Begins(x) /\ w'[x].job \in Desks
    <2>1. LET j == Reading(job) IN
          /\ {"job", "calm", "at", "read"} \subseteq DOMAIN j /\ j.job \in Desks
          /\ j.calm = TRUE /\ j.at = "read" /\ j.read = <<>> /\ j.job # "confirm"
      BY DEF Reading, Desks
    <2> QED
      BY <1>1, <1>2, <2>1
  <1>3. ASSUME NEW least, NEW pick, ConfirmBegin(x, least, pick)
        PROVE  Kind(x) /\ Begins(x) /\ w'[x].job \in Desks
    <2> DEFINE j == [job |-> "confirm", calm |-> TRUE, at |-> "read", read |-> <<>>,
                     least |-> least, pick |-> pick]
    <2>1. /\ {"job", "calm", "at", "read", "least", "pick"} \subseteq DOMAIN j /\ j.job \in Desks
          /\ j.calm = TRUE /\ j.at = "read" /\ j.read = <<>>
      BY DEF Desks
    <2>2. Begin(x, j)
      BY <1>3 DEF ConfirmBegin
    <2> HIDE DEF j
    <2> QED
      BY <1>1, <2>1, <2>2
  <1> QED
    BY <1>2, <1>3 DEF SuggestBegin, MaterializeBegin

LEMMA Busy ==
  ASSUME Shapes, NEW x \in Workers, w[x].at # "idle"
  PROVE  /\ w[x] # Idle /\ Shape(w[x]) /\ {"job", "calm", "at"} \subseteq DOMAIN w[x]
         /\ w[x].job \in Indexers \union Desks /\ w[x].calm \in BOOLEAN
  BY DEF Shapes, Shape, Idle

LEMMA AtNext ==
  ASSUME Shapes, NEW x \in Workers, w[x].at = "next"
  PROVE  /\ w[x].job \in Indexers /\ {"row", "todo"} \subseteq DOMAIN w[x]
         /\ Todo(w[x].todo, w[x].job)
  BY Busy DEF Shape

LEMMA AtIndex ==
  ASSUME Shapes, NEW x \in Workers, w[x].at = "index"
  PROVE  /\ w[x].job \in Indexers /\ {"row", "todo", "got"} \subseteq DOMAIN w[x]
         /\ w[x].todo \in Seq(Paths) /\ Reads(w[x].got)
  BY Busy DEF Shape

LEMMA AtFile ==
  ASSUME Shapes, NEW x \in Workers, w[x].at \in {"copy", "stub"}
  PROVE  /\ w[x].job \in Captures /\ {"row", "rows", "todo"} \subseteq DOMAIN w[x]
         /\ Todo(w[x].todo, w[x].job)
         /\ w[x].row.path \in Paths /\ w[x].row.sha \in Documents \ Unreadable
         /\ w[x].at = "copy" => w[x].job = "capture" /\ w[x].row.path.tag \in {None, w[x].row.sha}
  BY Busy DEF Shape

LEMMA AtAdmitted ==
  ASSUME Shapes, NEW x \in Workers, w[x].at = "admitted"
  PROVE  /\ w[x].job \in Captures /\ "keep" \in DOMAIN w[x] /\ Todo(w[x].keep.todo, w[x].job)
  BY Busy DEF Shape

LEMMA AtRead ==
  ASSUME Shapes, NEW x \in Workers, w[x].at = "read"
  PROVE  /\ w[x].job \in Desks /\ "read" \in DOMAIN w[x] /\ Plain(w[x].read)
         /\ w[x].job = "suggest" /\ w[x].read # <<>> => IsFiniteSet(w[x].read[1])
         /\ w[x].job = "confirm" => {"least", "pick"} \subseteq DOMAIN w[x]
  BY Busy DEF Shape

LEMMA EmptyTodo == \A job : Todo(<<>>, job)
  BY DEF Todo

\* One about to write.
LEMMA WritingKind ==
  ASSUME Shapes, NEW x \in Workers, w[x].at # "idle", NEW out, NEW then, NEW keep,
         Writing(x, out, then, keep), Out(out, w[x].job),
         then = "end" \/ (then = "admitted" /\ w[x].job \in Captures /\ Todo(keep.todo, w[x].job)),
         store' = store, folder' = folder, w[x].job = "materialize" => suggested' = suggested
  PROVE  /\ Kind(x) /\ Moves(x) /\ w'[x].at = "open" /\ w'[x].out = out /\ w'[x].then = then
         /\ w'[x].keep = keep /\ w'[x].job = w[x].job /\ w'[x].calm = w[x].calm /\ w'[x] # Idle
  <1> DEFINE j == [job |-> w[x].job, calm |-> w[x].calm, at |-> "open", out |-> out,
                   then |-> then, keep |-> keep]
  <1>1. w' = [w EXCEPT ![x] = j]
    BY DEF Writing
  <1>2. /\ DOMAIN j = {"job", "calm", "at", "out", "then", "keep"} /\ j.job = w[x].job
        /\ j.calm = w[x].calm /\ j.at = "open" /\ j.out = out /\ j.then = then /\ j.keep = keep
    OBVIOUS
  <1> HIDE DEF j
  <1>3. j # Idle
    BY <1>2 DEF Idle
  <1>4. Shape(j)
    BY <1>2, <1>3, Busy DEF Shape
  <1>5. Moves(x) /\ Typed /\ Shape(w'[x]) /\ w'[x] = j
    BY <1>1, <1>2, <1>3, <1>4, Busy, QuietMove
  <1> QED
    BY <1>2, <1>3, <1>5 DEF Kind

\* What is queued together.
LEMMA OutOne ==
  ASSUME NEW a, NEW job, a.table \in Owned(job), a.table # "claims"
  PROVE  Out(<<a>>, job)
  BY DEF Out, Plain

LEMMA OutTwo ==
  ASSUME NEW a, NEW b, NEW job, a.table \in Owned(job), b.table \in Owned(job),
         a.table # "claims", b.table # "claims", a.table # b.table
  PROVE  Out(<<a, b>>, job) /\ {<<a, b>>[i] : i \in DOMAIN <<a, b>>} = {a, b}
  <1> DEFINE s == <<a, b>>
  <1>1. DOMAIN s = {1, 2} /\ s[1] = a /\ s[2] = b /\ s # <<>> /\ s \in Seq({a, b})
    OBVIOUS
  <1> HIDE DEF s
  <1>2. {s[i] : i \in DOMAIN s} = {a, b}
    BY <1>1
  <1>3. Out(s, job)
    BY <1>1, <1>2 DEF Out, Plain
  <1> QED
    BY <1>2, <1>3 DEF s

LEMMA OutThree ==
  ASSUME NEW a, NEW b, NEW c, NEW job, {a.table, b.table, c.table} \subseteq Owned(job),
         a.table = "claims" => IsFiniteSet(a.rows), b.table # "claims", c.table # "claims",
         a.table # b.table, a.table # c.table, b.table # c.table
  PROVE  Out(<<a, b, c>>, job) /\ {<<a, b, c>>[i] : i \in DOMAIN <<a, b, c>>} = {a, b, c}
  <1> DEFINE s == <<a, b, c>>
  <1>1. DOMAIN s = {1, 2, 3} /\ s[1] = a /\ s[2] = b /\ s[3] = c /\ s # <<>>
        /\ s \in Seq({a, b, c})
    OBVIOUS
  <1> HIDE DEF s
  <1>2. {s[i] : i \in DOMAIN s} = {a, b, c}
    BY <1>1
  <1>3. Out(s, job)
    BY <1>1, <1>2 DEF Out, Plain
  <1> QED
    BY <1>2, <1>3 DEF s

LEMMA WrittenRow == \A t, rows : Write(t, rows).table = t /\ Write(t, rows).rows = rows
  BY DEF Write

LEMMA NextFileKind ==
  ASSUME Shapes, NEW x \in Workers, NEW answer, NextFile(x, answer)
  PROVE  LET path == Head(w[x].todo)
             urn == AdmittedUrn(store["registry"], Inside(path), answer) IN
         /\ Kind(x) /\ Moves(x) /\ w[x].at = "next" /\ w[x].todo # <<>>
         /\ store' = store /\ folder' = folder
         /\ \/ w'[x] = Idle
            \/ /\ w'[x].at = "next" /\ w'[x].todo = Tail(w[x].todo) /\ urn = None
               /\ path \in DOMAIN folder /\ Admissible(folder[path])
            \/ /\ w'[x].at = "stub" /\ w'[x].todo = Tail(w[x].todo) /\ w'[x].rows = store["registry"]
               /\ path \in DOMAIN folder /\ Admissible(folder[path])
               /\ w'[x].row.path = path /\ w'[x].row.sha = folder[path]
  <1> DEFINE j == w[x]
             path == Head(j.todo)
             urn == AdmittedUrn(store["registry"], Inside(path), answer)
             a == Admitting(j.job, j.calm, Inside(path), urn, Tail(j.todo))
             k == IF path \notin DOMAIN folder \/ ~Admissible(folder[path]) THEN Idle
                  ELSE IF urn = None THEN [j EXCEPT !.todo = Tail(j.todo)] ELSE a
  <1>1. /\ j.at = "next" /\ j.todo # <<>> /\ w' = [w EXCEPT ![x] = k]
        /\ folder' = folder /\ store' = store /\ suggested' = suggested
    BY DEF NextFile
  <1>2. /\ j.job = "folder" /\ j.todo \in Seq(Paths) /\ {"row", "todo"} \subseteq DOMAIN j
        /\ j # Idle /\ Shape(j) /\ {"job", "calm", "at"} \subseteq DOMAIN j /\ j.calm \in BOOLEAN
    BY <1>1, AtNext, Busy DEF Todo
  <1>3. Tail(j.todo) \in Seq(Paths)
    BY <1>1, <1>2, TailRange
  <1>4. Todo(Tail(j.todo), "folder")
    BY <1>3 DEF Todo
  <1>5. Shape(Idle)
    BY DEF Shape
  <1>6. LET m == [j EXCEPT !.todo = Tail(j.todo)] IN
        Shape(m) /\ m # Idle /\ m.job = j.job /\ m.calm = j.calm /\ m.at = "next" /\ m.todo = Tail(j.todo)
    <2> DEFINE m == [j EXCEPT !.todo = Tail(j.todo)]
    <2>1. /\ DOMAIN m = DOMAIN j /\ m.job = j.job /\ m.calm = j.calm /\ m.at = "next"
          /\ m.todo = Tail(j.todo)
      BY <1>1, <1>2
    <2> HIDE DEF m
    <2>2. m # Idle
      BY <1>2, <2>1 DEF Idle
    <2>3. Shape(m)
      BY <1>2, <1>4, <2>1, <2>2 DEF Shape, Indexers
    <2> QED
      BY <2>1, <2>2, <2>3 DEF m
  <1>7. ASSUME path \in DOMAIN folder, Admissible(folder[path])
        PROVE  /\ Shape(a) /\ a # Idle /\ a.job = j.job /\ a.calm = j.calm
               /\ a.at = "stub" /\ a.todo = Tail(j.todo) /\ a.rows = store["registry"]
               /\ a.row.path = path /\ a.row.sha = folder[path]
    <2>1. /\ Inside(path).doc \in Documents \ Unreadable /\ Target(Inside(path)) \in Paths
          /\ Inside(path).inside /\ Inside(path).doc = folder[path] /\ Target(Inside(path)) = path
      BY <1>7, InsideFacts DEF Admissible
    <2>2. /\ DOMAIN a = {"job", "calm", "at", "todo", "rows", "row"} /\ a.job = j.job
          /\ a.calm = j.calm /\ a.at = (IF Inside(path).inside THEN "stub" ELSE "copy")
          /\ a.todo = Tail(j.todo) /\ a.rows = store["registry"]
          /\ a.row.path = Target(Inside(path)) /\ a.row.sha = Inside(path).doc
      <3> HIDE DEF urn, j, path
      <3> QED
        BY DEF Admitting, Row
    <2> HIDE DEF a, urn, k, j
    <2>3. Shape(a) /\ a # Idle
      BY <1>2, <1>4, <2>1, <2>2, AdmittingShape DEF Captures
    <2> QED
      BY <2>1, <2>2, <2>3
  <1>8. /\ Shape(k) /\ (k = Idle \/ (k # Idle /\ k.job = j.job /\ k.calm = j.calm))
        /\ \/ k = Idle
           \/ /\ k.at = "next" /\ k.todo = Tail(j.todo) /\ urn = None
              /\ path \in DOMAIN folder /\ Admissible(folder[path])
           \/ /\ k.at = "stub" /\ k.todo = Tail(j.todo) /\ k.rows = store["registry"]
              /\ path \in DOMAIN folder /\ Admissible(folder[path])
              /\ k.row.path = path /\ k.row.sha = folder[path]
    <2> HIDE DEF a, urn
    <2> QED
      BY <1>5, <1>6, <1>7
  <1> HIDE DEF k
  <1>9. Kind(x) /\ Moves(x) /\ w'[x] = k
    BY <1>1, <1>2, <1>8, QuietMove DEF Kind
  <1> QED
    BY <1>1, <1>8, <1>9

\* A step of one that stays at work, without a queue: its shape is to be shown.
LEMMA GoesOn ==
  ASSUME Shapes, NEW x \in Workers, w[x].at # "idle", NEW j, w' = [w EXCEPT ![x] = j],
         {"job", "calm", "at"} \subseteq DOMAIN j, j.job = w[x].job, j.calm = w[x].calm, Shape(j),
         store' = store, folder' = folder, w[x].job = "materialize" => suggested' = suggested
  PROVE  Kind(x) /\ Moves(x) /\ w'[x] = j
  <1>1. w[x] # Idle
    BY Busy
  <1>2. j # Idle
    BY DEF Idle
  <1> QED
    BY <1>1, <1>2, QuietMove DEF Kind

LEMMA EndKind ==
  ASSUME Shapes, NEW x \in Workers, w[x].at # "idle", w' = [w EXCEPT ![x] = Idle],
         store' = store, folder' = folder, w[x].job = "materialize" => suggested' = suggested
  PROVE  Kind(x) /\ Moves(x) /\ w'[x] = Idle
  <1>1. Shape(Idle)
    BY DEF Shape
  <1> QED
    BY <1>1, Busy, QuietMove DEF Kind

LEMMA CopyKind ==
  ASSUME Shapes, NEW x \in Workers, Copy(x)
  PROVE  /\ Kind(x) /\ Moves(x) /\ w[x].at = "copy" /\ w'[x].at = "stub" /\ w'[x].row = w[x].row
         /\ store' = store
         /\ folder' = [p \in DOMAIN folder \union {w[x].row.path} |->
                          IF p \in DOMAIN folder THEN folder[p] ELSE w[x].row.sha]
  <1> DEFINE j == w[x]
             k == [j EXCEPT !.at = "stub"]
  <1>1. /\ j.at = "copy" /\ w' = [w EXCEPT ![x] = k] /\ store' = store
        /\ folder' = [p \in DOMAIN folder \union {j.row.path} |->
                         IF p \in DOMAIN folder THEN folder[p] ELSE j.row.sha]
    BY DEF Copy, Goto
  <1>2. /\ j # Idle /\ j.job = "capture" /\ {"job", "calm", "at", "row", "rows", "todo"} \subseteq DOMAIN j
        /\ Todo(j.todo, j.job) /\ j.row.path \in Paths /\ j.row.sha \in Documents \ Unreadable
        /\ j.calm \in BOOLEAN
    BY <1>1, AtFile, Busy
  <1>3. /\ DOMAIN k = DOMAIN j /\ k.job = j.job /\ k.calm = j.calm /\ k.at = "stub" /\ k.row = j.row
        /\ k.rows = j.rows /\ k.todo = j.todo
    BY <1>2
  <1> HIDE DEF k
  <1>4. k # Idle
    BY <1>2, <1>3 DEF Idle
  <1>5. Shape(k)
    BY <1>2, <1>3, <1>4 DEF Shape, Captures, Indexers
  <1>6. /\ w' = [y \in Workers |-> w'[y]] /\ w'[x] = k
        /\ \A y \in Workers : y # x => w'[y] = w[y]
    BY <1>1, SetFacts
  <1>7. folder' \in [DOMAIN folder' -> Documents] /\ DOMAIN folder' \subseteq Paths
    BY <1>1, <1>2 DEF Shapes
  <1>8. Typed
    BY <1>1, <1>6, <1>7 DEF Typed, Shapes
  <1>9. Moves(x)
    BY <1>1, <1>2, <1>3, <1>4, <1>6 DEF Moves
  <1> QED
    BY <1>1, <1>3, <1>5, <1>6, <1>8, <1>9 DEF Kind

LEMMA StubKind ==
  ASSUME Shapes, NEW x \in Workers, WriteStub(x)
  PROVE  /\ Kind(x) /\ Moves(x) /\ Phase(w'[x]) = "admitted" /\ w'[x].at = "open"
         /\ w[x].at = "stub" /\ store' = store /\ folder' = folder
         /\ w'[x].job = w[x].job /\ w'[x].calm = w[x].calm
         /\ w'[x].keep.row = w[x].row /\ w'[x].keep.todo = w[x].todo
         /\ Queued(w'[x]) = {Write("registry", w[x].rows \union {w[x].row})}
         /\ Out(w'[x].out, w'[x].job)
  <1> DEFINE j == w[x]
             a == Write("registry", j.rows \union {j.row})
             out == <<a>>
             keep == [row |-> j.row, todo |-> j.todo]
  <1>1. /\ j.at = "stub" /\ Writing(x, out, "admitted", keep) /\ store' = store /\ folder' = folder
        /\ suggested' = suggested
    BY DEF WriteStub
  <1>2. j.job \in Captures /\ Todo(j.todo, j.job)
    BY <1>1, AtFile
  <1>3. a.table = "registry"
    BY WrittenRow
  <1>4. "registry" \in Owned(j.job)
    BY <1>2, OwnedFacts DEF Captures, Indexers
  <1>5. keep.row = j.row /\ keep.todo = j.todo
    OBVIOUS
  <1> HIDE DEF a, keep
  <1>6. Out(out, j.job)
    BY <1>3, <1>4, OutOne
  <1>7. {out[i] : i \in DOMAIN out} = {a}
    OBVIOUS
  <1> HIDE DEF out
  <1>8. /\ Kind(x) /\ Moves(x) /\ w'[x].at = "open" /\ w'[x].out = out /\ w'[x].then = "admitted"
        /\ w'[x].keep = keep /\ w'[x].job = j.job /\ w'[x].calm = j.calm
    BY <1>1, <1>2, <1>5, <1>6, WritingKind
  <1>9. Queued(w'[x]) = {a}
    BY <1>7, <1>8 DEF Queued
  <1>10. Phase(w'[x]) = "admitted"
    BY <1>8 DEF Phase
  <1> QED
    BY <1>1, <1>5, <1>6, <1>8, <1>9, <1>10 DEF a

LEMMA AdmittedKind ==
  ASSUME Shapes, NEW x \in Workers, Admitted(x)
  PROVE  /\ Kind(x) /\ Moves(x) /\ w[x].at = "admitted" /\ w'[x].at = "next"
         /\ w'[x].row = (IF w[x].job = "folder" THEN None ELSE w[x].keep.row)
         /\ w'[x].todo = w[x].keep.todo /\ store' = store /\ folder' = folder
  <1> DEFINE j == w[x]
             k == [job |-> j.job, calm |-> j.calm, at |-> "next",
                   row |-> IF j.job = "folder" THEN None ELSE j.keep.row, todo |-> j.keep.todo]
  <1>1. /\ j.at = "admitted" /\ w' = [w EXCEPT ![x] = k] /\ store' = store /\ folder' = folder
        /\ suggested' = suggested
    BY DEF Admitted
  <1>2. j.job \in Captures /\ Todo(j.keep.todo, j.job) /\ j.calm \in BOOLEAN
    BY <1>1, AtAdmitted, Busy
  <1>3. /\ DOMAIN k = {"job", "calm", "at", "row", "todo"} /\ k.job = j.job /\ k.calm = j.calm
        /\ k.at = "next" /\ k.todo = j.keep.todo
        /\ k.row = IF j.job = "folder" THEN None ELSE j.keep.row
    OBVIOUS
  <1> HIDE DEF k
  <1>4. Shape(k)
    BY <1>2, <1>3 DEF Shape, Captures, Indexers
  <1> QED
    BY <1>1, <1>3, <1>4, GoesOn

LEMMA IndexBeginKind ==
  ASSUME Shapes, NEW x \in Workers, IndexBegin(x)
  PROVE  /\ Kind(x) /\ Moves(x) /\ w[x].at = "next" /\ w[x].todo = <<>> /\ w'[x].at = "index"
         /\ w'[x].row = w[x].row /\ w'[x].todo = Listing /\ w'[x].got = {}
         /\ store' = store /\ folder' = folder
  <1> DEFINE j == w[x]
             k == [job |-> j.job, calm |-> j.calm, at |-> "index", row |-> j.row,
                   todo |-> Listing, got |-> {}]
  <1>1. /\ j.at = "next" /\ w' = [w EXCEPT ![x] = k] /\ store' = store /\ folder' = folder
        /\ suggested' = suggested /\ j.todo = <<>>
    BY DEF IndexBegin
  <1>2. j.job \in Indexers /\ j.calm \in BOOLEAN
    BY <1>1, AtNext, Busy
  <1>3. /\ DOMAIN k = {"job", "calm", "at", "row", "todo", "got"} /\ k.job = j.job /\ k.calm = j.calm
        /\ k.at = "index" /\ k.todo = Listing /\ k.got = {} /\ k.row = j.row
    OBVIOUS
  <1> HIDE DEF k
  <1>4. Reads({})
    BY FS_EmptySet DEF Reads
  <1>5. Shape(k)
    BY <1>2, <1>3, <1>4, ListingFacts DEF Shape
  <1> QED
    BY <1>1, <1>3, <1>5, GoesOn

LEMMA IndexFileKind ==
  ASSUME Shapes, NEW x \in Workers, IndexFile(x)
  PROVE  /\ Kind(x) /\ Moves(x) /\ w[x].at = "index" /\ w[x].todo # <<>> /\ w'[x].at = "index"
         /\ w'[x].row = w[x].row /\ w'[x].todo = Tail(w[x].todo)
         /\ w'[x].got = (IF Head(w[x].todo) \in DOMAIN folder /\ folder[Head(w[x].todo)] \notin Unreadable
                         THEN w[x].got \union {Got(Head(w[x].todo), folder[Head(w[x].todo)])}
                         ELSE w[x].got)
         /\ store' = store /\ folder' = folder
  <1> DEFINE j == w[x]
             path == Head(j.todo)
             got == IF path \in DOMAIN folder /\ folder[path] \notin Unreadable
                    THEN j.got \union {Got(path, folder[path])} ELSE j.got
             k == [j EXCEPT !.todo = Tail(j.todo), !.got = got]
  <1>1. /\ j.at = "index" /\ j.todo # <<>> /\ w' = [w EXCEPT ![x] = k] /\ store' = store
        /\ folder' = folder /\ suggested' = suggested
    BY DEF IndexFile
  <1>2. /\ j.job \in Indexers /\ {"row", "todo", "got", "job", "calm", "at"} \subseteq DOMAIN j
        /\ j.todo \in Seq(Paths) /\ Reads(j.got) /\ j.calm \in BOOLEAN
    BY <1>1, AtIndex, Busy
  <1>3. Tail(j.todo) \in Seq(Paths)
    BY <1>1, <1>2, TailRange
  <1>4. Reads(got)
    <2>1. \A p \in DOMAIN folder : Got(p, folder[p]).doc \in Documents
      BY DEF Got, Shapes
    <2>2. \A g : IsFiniteSet(j.got \union {g})
      BY <1>2, FS_AddElement DEF Reads
    <2> QED
      BY <1>2, <2>1, <2>2 DEF Reads
  <1>8. got = IF path \in DOMAIN folder /\ folder[path] \notin Unreadable
              THEN j.got \union {Got(path, folder[path])} ELSE j.got
    OBVIOUS
  <1> HIDE DEF got
  <1>5. /\ DOMAIN k = DOMAIN j /\ k.job = j.job /\ k.calm = j.calm
        /\ k.at = "index" /\ k.todo = Tail(j.todo) /\ k.got = got /\ k.row = j.row
    BY <1>1, <1>2
  <1> HIDE DEF k
  <1>6. Shape(k)
    BY <1>2, <1>3, <1>4, <1>5 DEF Shape
  <1>7. {"job", "calm", "at"} \subseteq DOMAIN k
    BY <1>2, <1>5
  <1>9. Kind(x) /\ Moves(x) /\ w'[x] = k
    BY <1>1, <1>5, <1>6, <1>7, GoesOn
  <1> QED
    BY <1>1, <1>5, <1>8, <1>9

LEMMA FiniteRows ==
  ASSUME NEW got, Reads(got)
  PROVE  IsFiniteSet(ClaimRows(got))
  <1> DEFINE Of(g) == {[item |-> <<g.urn, i>>, urn |-> g.urn, text |-> Claims[g.doc][i], path |-> g.path] :
                          i \in DOMAIN Claims[g.doc]}
             sets == {Of(g) : g \in got}
  <1>1. ASSUME NEW g \in got PROVE IsFiniteSet(Of(g))
    <2> DEFINE S == DOMAIN Claims[g.doc]
               f == [i \in S |-> [item |-> <<g.urn, i>>, urn |-> g.urn, text |-> Claims[g.doc][i],
                                  path |-> g.path]]
    <2>1. Claims[g.doc] \in Seq(Range(Claims[g.doc]))
      BY DocumentAssumption DEF Reads
    <2>2. S = 1..Len(Claims[g.doc]) /\ Len(Claims[g.doc]) \in Nat
      BY <2>1
    <2>3. IsFiniteSet(S)
      BY <2>2, FS_Interval
    <2>4. f \in Surjection(S, Of(g))
      BY DEF Surjection
    <2> HIDE DEF S, f
    <2> QED
      BY <2>3, <2>4, FS_Surjection
  <1>2. IsFiniteSet(sets)
    <2> DEFINE f == [g \in got |-> Of(g)]
    <2>1. f \in Surjection(got, sets)
      BY DEF Surjection
    <2>2. IsFiniteSet(got)
      BY DEF Reads
    <2> HIDE DEF f, sets
    <2> QED
      BY <2>1, <2>2, FS_Surjection
  <1>3. IsFiniteSet(UNION sets)
    <2>1. \A T \in sets : IsFiniteSet(T)
      BY <1>1
    <2> HIDE DEF sets
    <2> QED
      BY <1>2, <2>1, FS_UNION
  <1> QED
    BY <1>3 DEF ClaimRows

LEMMA IndexRowsKind ==
  ASSUME Shapes, NEW x \in Workers, IndexRows(x)
  PROVE  /\ Kind(x) /\ Moves(x) /\ Phase(w'[x]) = "end" /\ w'[x].at = "open"
         /\ w[x].at = "index" /\ w[x].todo = <<>> /\ store' = store /\ folder' = folder
         /\ w'[x].job = w[x].job /\ w'[x].calm = w[x].calm /\ w'[x].keep = w[x].row
         /\ Queued(w'[x]) = {Write("claims", ClaimRows(w[x].got)), Write("sources", SourceRows(w[x].got)),
                             Write("definitions", DefinitionRows(w[x].got))}
         /\ Out(w'[x].out, w'[x].job)
  <1> DEFINE j == w[x]
             a == Write("claims", ClaimRows(j.got))
             b == Write("sources", SourceRows(j.got))
             c == Write("definitions", DefinitionRows(j.got))
             out == <<a, b, c>>
             keep == j.row
  <1>1. /\ j.at = "index" /\ Writing(x, out, "end", keep) /\ store' = store /\ folder' = folder
        /\ suggested' = suggested /\ j.todo = <<>>
    BY DEF IndexRows
  <1>2. j.job \in Indexers /\ Reads(j.got)
    BY <1>1, AtIndex
  <1>3. a.table = "claims" /\ b.table = "sources" /\ c.table = "definitions" /\ IsFiniteSet(a.rows)
    BY <1>2, WrittenRow, FiniteRows
  <1>4. {a.table, b.table, c.table} \subseteq Owned(j.job)
    BY <1>2, <1>3, OwnedFacts
  <1> HIDE DEF a, b, c, keep
  <1>5. Out(out, j.job) /\ {out[i] : i \in DOMAIN out} = {a, b, c}
    BY <1>3, <1>4, OutThree
  <1> HIDE DEF out
  <1>6. /\ Kind(x) /\ Moves(x) /\ w'[x].at = "open" /\ w'[x].out = out /\ w'[x].then = "end"
        /\ w'[x].keep = keep /\ w'[x].job = j.job /\ w'[x].calm = j.calm
    BY <1>1, <1>5, WritingKind
  <1>7. Queued(w'[x]) = {a, b, c}
    BY <1>5, <1>6 DEF Queued
  <1>8. Phase(w'[x]) = "end"
    BY <1>6 DEF Phase
  <1> QED
    BY <1>1, <1>5, <1>6, <1>7, <1>8 DEF a, b, c, keep

LEMMA AppendFacts ==
  ASSUME NEW r, Plain(r), NEW v
  PROVE  LET m == Append(r, v) IN
         /\ Plain(m) /\ m # <<>> /\ Len(m) = Len(r) + 1 /\ Len(r) \in Nat /\ m[Len(r) + 1] = v
         /\ \A i \in 1..Len(r) : m[i] = r[i]
         /\ m[1] = IF r = <<>> THEN v ELSE r[1]
  <1> DEFINE S == {r[i] : i \in DOMAIN r}
             m == Append(r, v)
  <1>1. r \in Seq(S \union {v}) /\ Len(r) \in Nat /\ (r = <<>> <=> Len(r) = 0)
    <2>1. r \in Seq(S)
      BY DEF Plain
    <2> HIDE DEF S
    <2>2. r \in Seq(S \union {v})
      BY <2>1
    <2> QED
      BY <2>2
  <1> HIDE DEF S
  <1>2. /\ m \in Seq(S \union {v}) /\ m # <<>> /\ Len(m) = Len(r) + 1 /\ m[Len(r) + 1] = v
        /\ \A i \in 1..Len(r) : m[i] = r[i]
    BY <1>1
  <1> HIDE DEF m
  <1>3. m \in Seq({m[i] : i \in DOMAIN m})
    <2>1. DOMAIN m = 1..Len(m) /\ Len(m) \in Nat
      BY <1>1, <1>2
    <2>2. \A i \in 1..Len(m) : m[i] \in {m[k] : k \in DOMAIN m}
      BY <2>1
    <2>3. m = [i \in 1..Len(m) |-> m[i]]
      BY <1>2
    <2> HIDE DEF m
    <2> QED
      BY <2>1, <2>2, <2>3
  <1>4. m[1] = IF r = <<>> THEN v ELSE r[1]
    <2>1. r # <<>> => 1 \in 1..Len(r)
      BY <1>1
    <2>2. r = <<>> => Len(r) + 1 = 1
      BY <1>1
    <2> QED
      BY <1>2, <2>1, <2>2
  <1>5. Plain(m)
    BY <1>3 DEF Plain
  <1> QED
    BY <1>1, <1>2, <1>4, <1>5 DEF m

\* A read: the worker gives up, or has one more table.
LEMMA ReadKind ==
  ASSUME Shapes, NEW x \in Workers, NEW job \in Desks, NEW tables, ReadNext(x, job, tables),
         job = "suggest" => tables[1] = "claims", DOMAIN tables \subseteq Int
  PROVE  /\ Kind(x) /\ Moves(x)
         /\ w[x].at = "read" /\ w[x].job = job /\ Plain(w[x].read)
         /\ folder' = folder /\ store' = store /\ suggested' = suggested
         /\ \/ w'[x] = Idle
            \/ /\ w'[x] # Idle /\ w'[x].at = "read" /\ Plain(w'[x].read)
               /\ w'[x].read[1] = IF w[x].read = <<>> THEN Rows(tables[1]) ELSE w[x].read[1]
               /\ w'[x].job = job /\ w'[x].calm = w[x].calm
               /\ w[x].read = <<>> => job = "materialize" \/ store[tables[1]] # None
  <1> DEFINE j == w[x]
             r == j.read
  <1>1. PICK n \in DOMAIN tables : AboutToRead(x, job, n) /\ Read(x, tables[n])
    BY DEF ReadNext
  <1> DEFINE v == Rows(tables[n])
             k == [j EXCEPT !.read = Append(r, v)]
  <1>2. /\ j.at = "read" /\ j.job = job /\ Len(r) = n - 1
        /\ w' = [w EXCEPT ![x] = IF store[tables[n]] = None /\ j.job # "materialize" THEN Idle ELSE k]
        /\ store' = store /\ folder' = folder /\ suggested' = suggested
    BY <1>1 DEF AboutToRead, Read
  <1>3. /\ {"job", "calm", "at", "read"} \subseteq DOMAIN j /\ Plain(r) /\ j.calm \in BOOLEAN
        /\ job = "suggest" /\ r # <<>> => IsFiniteSet(r[1])
        /\ job = "confirm" => {"least", "pick"} \subseteq DOMAIN j
    BY <1>2, AtRead, Busy
  <1>4. CASE store[tables[n]] = None /\ j.job # "materialize"
    <2>1. w' = [w EXCEPT ![x] = Idle] /\ j.at # "idle"
      BY <1>2, <1>4
    <2> QED
      BY <1>2, <1>3, <2>1, EndKind
  <1>5. CASE ~(store[tables[n]] = None /\ j.job # "materialize")
    <2> DEFINE m == Append(r, v)
    <2>1. /\ Plain(m) /\ m # <<>> /\ m[1] = IF r = <<>> THEN v ELSE r[1]
      BY <1>3, AppendFacts
    <2>2. r = <<>> => n = 1
      <3>1. r = <<>> => n - 1 = 0
        BY <1>2
      <3>2. n \in Int
        OBVIOUS
      <3> QED
        BY <3>1, <3>2
    <2>3. job = "suggest" => IsFiniteSet(m[1])
      BY <1>3, <2>1, <2>2, FS_EmptySet DEF Rows, Shapes
    <2>4. /\ DOMAIN k = DOMAIN j /\ k.job = j.job /\ k.calm = j.calm /\ k.at = "read" /\ k.read = m
      BY <1>2, <1>3
    <2>5. r = <<>> => v = Rows(tables[1]) /\ (job = "materialize" \/ store[tables[1]] # None)
      BY <1>2, <1>5, <2>2
    <2> HIDE DEF k, m, v
    <2>6. k # Idle
      BY <1>3, <2>4 DEF Idle
    <2>7. Shape(k)
      BY <1>2, <1>3, <2>1, <2>3, <2>4, <2>6 DEF Shape
    <2>8. w' = [w EXCEPT ![x] = k] /\ j.at # "idle" /\ {"job", "calm", "at"} \subseteq DOMAIN k
      BY <1>2, <1>3, <1>5, <2>4
    <2>9. w'[x] = k
      BY <2>8, SetFacts
    <2>10. Kind(x) /\ Moves(x)
      BY <1>2, <2>4, <2>7, <2>8, GoesOn
    <2> QED
      BY <1>2, <1>3, <2>1, <2>4, <2>5, <2>6, <2>9, <2>10
  <1> QED
    BY <1>4, <1>5

\* What a desk queues, of two tables or three.
LEMMA SuggestWriteKind ==
  ASSUME Shapes, NEW x \in Workers, SuggestWrite(x)
  PROVE  LET r == w[x].read
             s == Suggest(r[1], r[2], r[3]) IN
         /\ Kind(x) /\ Moves(x) /\ Phase(w'[x]) = "end" /\ w'[x].at = "open"
         /\ w'[x].job = w[x].job /\ w'[x].calm = w[x].calm
         /\ w[x].job = "suggest" /\ w[x].at = "read" /\ w[x].read # <<>>
         /\ w'[x].keep = {c \in r[3] : Mentioning(r[1], {c.label, c.id}) # {}}
         /\ Queued(w'[x]) = {Write("suggested_concepts", s.concepts), Write("suggested_edges", s.edges)}
         /\ Out(w'[x].out, w'[x].job)
  <1> DEFINE j == w[x]
             r == j.read
             s == Suggest(r[1], r[2], r[3])
             a == Write("suggested_concepts", s.concepts)
             b == Write("suggested_edges", s.edges)
             out == <<a, b>>
             keep == {c \in r[3] : Mentioning(r[1], {c.label, c.id}) # {}}
  <1>1. /\ j.at = "read" /\ j.job = "suggest" /\ Len(r) = 3
        /\ Writing(x, out, "end", keep) /\ store' = store /\ folder' = folder
    BY DEF SuggestWrite, AboutToRead
  <1>2. a.table = "suggested_concepts" /\ b.table = "suggested_edges"
    BY WrittenRow
  <1>3. {a.table, b.table} \subseteq Owned(j.job)
    BY <1>1, <1>2, OwnedFacts
  <1>4. r # <<>>
    BY <1>1
  <1> HIDE DEF a, b, keep
  <1>5. Out(out, j.job) /\ {out[i] : i \in DOMAIN out} = {a, b}
    BY <1>2, <1>3, OutTwo
  <1> HIDE DEF out
  <1>6. /\ Kind(x) /\ Moves(x) /\ w'[x].at = "open" /\ w'[x].out = out /\ w'[x].then = "end"
        /\ w'[x].keep = keep /\ w'[x].job = j.job /\ w'[x].calm = j.calm
    BY <1>1, <1>5, WritingKind
  <1>7. Queued(w'[x]) = {a, b}
    BY <1>5, <1>6 DEF Queued
  <1>8. Phase(w'[x]) = "end"
    BY <1>6 DEF Phase
  <1> QED
    BY <1>1, <1>4, <1>5, <1>6, <1>7, <1>8 DEF a, b, keep

LEMMA ConfirmWriteKind ==
  ASSUME Shapes, NEW x \in Workers, ConfirmWrite(x)
  PROVE  LET r == w[x].read
             kept == Confirmed(r[1], w[x].least, w[x].pick) IN
         /\ Kind(x) /\ Moves(x) /\ Phase(w'[x]) = "end" /\ w'[x].at = "open"
         /\ w'[x].job = w[x].job /\ w'[x].calm = w[x].calm
         /\ w[x].job = "confirm" /\ w[x].at = "read" /\ w[x].read # <<>>
         /\ w'[x].keep.least = w[x].least /\ w'[x].keep.pick = w[x].pick
         /\ Queued(w'[x]) = {Write("concepts", {[id |-> c.id, label |-> c.label] : c \in kept}),
                             Write("edges", EdgesTo(r[2], {c.id : c \in kept}))}
         /\ Out(w'[x].out, w'[x].job)
  <1> DEFINE j == w[x]
             r == j.read
             kept == Confirmed(r[1], j.least, j.pick)
             a == Write("concepts", {[id |-> c.id, label |-> c.label] : c \in kept})
             b == Write("edges", EdgesTo(r[2], {c.id : c \in kept}))
             out == <<a, b>>
             keep == [least |-> j.least, pick |-> j.pick]
  <1>1. /\ j.at = "read" /\ j.job = "confirm" /\ Len(r) = 2
        /\ Writing(x, out, "end", keep) /\ store' = store /\ folder' = folder
        /\ suggested' = suggested
    BY DEF ConfirmWrite, AboutToRead
  <1>2. a.table = "concepts" /\ b.table = "edges"
    BY WrittenRow
  <1>3. {a.table, b.table} \subseteq Owned(j.job)
    BY <1>1, <1>2, OwnedFacts
  <1>4. r # <<>> /\ keep.least = j.least /\ keep.pick = j.pick
    BY <1>1
  <1> HIDE DEF a, b, keep
  <1>5. Out(out, j.job) /\ {out[i] : i \in DOMAIN out} = {a, b}
    BY <1>2, <1>3, OutTwo
  <1> HIDE DEF out
  <1>6. /\ Kind(x) /\ Moves(x) /\ w'[x].at = "open" /\ w'[x].out = out /\ w'[x].then = "end"
        /\ w'[x].keep = keep /\ w'[x].job = j.job /\ w'[x].calm = j.calm
    BY <1>1, <1>5, WritingKind
  <1>7. Queued(w'[x]) = {a, b}
    BY <1>5, <1>6 DEF Queued
  <1>8. Phase(w'[x]) = "end"
    BY <1>6 DEF Phase
  <1> QED
    BY <1>1, <1>4, <1>5, <1>6, <1>7, <1>8 DEF a, b

\* The claims and the edges a materialisation exports.
ExportedClaims(claims, sources) == Keyed(claims, LAMBDA c : CanonicalOf(sources, c.urn))
ExportedEdges(claims, edges, sources) ==
    Keyed(edges, LAMBDA e : CanonicalOfItem(claims, sources, e.src))

LEMMA MaterializeWriteKind ==
  ASSUME Shapes, NEW x \in Workers, MaterializeWrite(x)
  PROVE  LET r == w[x].read IN
         /\ Kind(x) /\ Moves(x) /\ Phase(w'[x]) = "end" /\ w'[x].at = "open"
         /\ w'[x].job = w[x].job /\ w'[x].calm = w[x].calm /\ w[x].job = "materialize"
         /\ Queued(w'[x]) = {Write("target_claims", ExportedClaims(r[1], r[4])),
                             Write("target_concepts", ConceptKeys(r[2], ExportedEdges(r[1], r[3], r[4]))),
                             Write("target_edges", ExportedEdges(r[1], r[3], r[4]))}
         /\ Out(w'[x].out, w'[x].job)
  <1> DEFINE j == w[x]
             r == j.read
             keyed == ExportedEdges(r[1], r[3], r[4])
             a == Write("target_claims", ExportedClaims(r[1], r[4]))
             b == Write("target_concepts", ConceptKeys(r[2], keyed))
             c == Write("target_edges", keyed)
             out == <<a, b, c>>
             keep == None
  <1>1. /\ j.at = "read" /\ j.job = "materialize"
        /\ Writing(x, out, "end", keep) /\ store' = store /\ folder' = folder
        /\ suggested' = suggested
    BY DEF MaterializeWrite, AboutToRead, ExportedClaims, ExportedEdges
  <1>2. a.table = "target_claims" /\ b.table = "target_concepts" /\ c.table = "target_edges"
    BY WrittenRow
  <1>3. {a.table, b.table, c.table} \subseteq Owned(j.job)
    BY <1>1, <1>2, OwnedFacts DEF Targets
  <1> HIDE DEF a, b, c, keep
  <1>4. Out(out, j.job) /\ {out[i] : i \in DOMAIN out} = {a, b, c}
    BY <1>2, <1>3, OutThree
  <1> HIDE DEF out
  <1>5. /\ Kind(x) /\ Moves(x) /\ w'[x].at = "open" /\ w'[x].out = out /\ w'[x].then = "end"
        /\ w'[x].keep = keep /\ w'[x].job = j.job /\ w'[x].calm = j.calm
    BY <1>1, <1>4, WritingKind
  <1>6. Queued(w'[x]) = {a, b, c}
    BY <1>4, <1>5 DEF Queued
  <1>7. Phase(w'[x]) = "end"
    BY <1>5 DEF Phase
  <1> QED
    BY <1>1, <1>4, <1>5, <1>6, <1>7 DEF a, b, c

Ends(x) == IndexEnd(x) \/ SuggestEnd(x) \/ ConfirmEnd(x) \/ MaterializeEnd(x)

LEMMA EndsKind ==
  ASSUME Shapes, NEW x \in Workers, Ends(x)
  PROVE  /\ Kind(x) /\ Moves(x) /\ w'[x] = Idle /\ done' = w[x]
         /\ w[x].at = "end" /\ store' = store /\ folder' = folder
         /\ suggested' = IF w[x].job = "suggest" THEN IF w[x].calm THEN w[x].keep ELSE {} ELSE suggested
  <1>1. /\ w[x].at = "end" /\ w' = [w EXCEPT ![x] = Idle] /\ store' = store /\ folder' = folder
        /\ done' = w[x]
        /\ suggested' = IF w[x].job = "suggest" THEN IF w[x].calm THEN w[x].keep ELSE {} ELSE suggested
    BY DEF Ends, IndexEnd, SuggestEnd, ConfirmEnd, MaterializeEnd, Finish
  <1>2. w[x].at # "idle" /\ (w[x].job = "materialize" => suggested' = suggested)
    BY <1>1
  <1> QED
    BY <1>1, <1>2, EndKind

LEMMA CrashKind ==
  ASSUME Shapes, NEW x \in Workers, Crash(x)
  PROVE  Kind(x) /\ Moves(x) /\ w'[x] = Idle
  <1>1. /\ w' = [w EXCEPT ![x] = Idle] /\ store' = store /\ folder' = folder
        /\ suggested' = suggested /\ w[x] # Idle
    BY DEF Crash
  <1>2. Shape(Idle)
    BY DEF Shape
  <1> QED
    BY <1>1, <1>2, QuietMove DEF Kind

LEMMA TableKind ==
  ASSUME Shapes, NEW x \in Workers, TableSkip(x) \/ TableOpen(x) \/ TableWrite(x)
  PROVE  Kind(x) /\ Moves(x)
  BY TableMove DEF Kind

LEMMA ReadsKind ==
  ASSUME Shapes, NEW x \in Workers, SuggestRead(x) \/ ConfirmRead(x) \/ MaterializeRead(x)
  PROVE  Kind(x) /\ Moves(x)
  <1>1. CASE SuggestRead(x)
    <2> DEFINE tables == <<"claims", "definitions", "concepts">>
               job == "suggest"
    <2>1. DOMAIN tables \subseteq Int /\ tables[1] = "claims" /\ job \in Desks
      BY DEF Desks
    <2>2. ReadNext(x, job, tables)
      BY <1>1 DEF SuggestRead
    <2> HIDE DEF tables, job
    <2> QED
      BY <2>1, <2>2, ReadKind
  <1>2. CASE ConfirmRead(x)
    <2> DEFINE tables == <<"suggested_concepts", "suggested_edges">>
               job == "confirm"
    <2>1. DOMAIN tables \subseteq Int /\ job \in Desks /\ job # "suggest"
      BY DEF Desks
    <2>2. ReadNext(x, job, tables)
      BY <1>2 DEF ConfirmRead
    <2> HIDE DEF tables, job
    <2> QED
      BY <2>1, <2>2, ReadKind
  <1>3. CASE MaterializeRead(x)
    <2> DEFINE tables == <<"claims", "concepts", "edges", "sources">>
               job == "materialize"
    <2>1. DOMAIN tables \subseteq Int /\ job \in Desks /\ job # "suggest"
      BY DEF Desks
    <2>2. ReadNext(x, job, tables)
      BY <1>3 DEF MaterializeRead
    <2> HIDE DEF tables, job
    <2> QED
      BY <2>1, <2>2, ReadKind
  <1> QED
    BY <1>1, <1>2, <1>3

\* Of the steps of a worker the calls begin, and all others move.
LEMMA WorkKind ==
  ASSUME Shapes, NEW x \in Workers, Work(x)
  PROVE  Kind(x)
  <1>1. CASE Door(x)
    BY <1>1, CaptureFileKind, IndexerBeginKind, NextFileKind, CopyKind, StubKind, AdmittedKind,
       IndexBeginKind, IndexFileKind, IndexRowsKind, EndsKind DEF Door, Ends
  <1>2. CASE Desk(x)
    BY <1>2, DeskBeginKind, ReadsKind, SuggestWriteKind, ConfirmWriteKind, MaterializeWriteKind,
       EndsKind DEF Desk, Ends
  <1> QED
    BY <1>1, <1>2, TableKind, CrashKind DEF Work

-----------------------------------------------------------------------------
(* The user and the curator, and what a worker keeps while others step. *)

\* An edit disturbs everybody but a materialisation.
LEMMA EditFacts ==
  ASSUME Shapes,
         \/ \E s \in Saves : Edit(SaveFile(s.path, s.doc))
         \/ \E p \in Paths : Edit(RemoveFile(p))
         \/ \E c \in Additions : Edit(AddConcept(c))
  PROVE  /\ Typed /\ done' = None /\ suggested' = suggested
         /\ \A t \in Tables : t # "concepts" => store'[t] = store[t]
         /\ \A x \in Workers :
               /\ Shape(w'[x]) /\ (w'[x] # Idle <=> w[x] # Idle)
               /\ w'[x] # Idle => /\ w'[x].job = w[x].job /\ w'[x].at = w[x].at
                                  /\ w'[x].calm => w'[x] = w[x] /\ w[x].job = "materialize"
  <1>1. w' = Disturbed("edit") /\ done' = None /\ suggested' = suggested
    BY DEF Edit
  <1>2. /\ w' = [y \in Workers |-> w'[y]]
        /\ \A y \in Workers : w'[y] = IF w[y] # Idle /\ Spoils("edit", w[y].job)
                                     THEN [w[y] EXCEPT !.calm = FALSE] ELSE w[y]
    BY <1>1 DEF Disturbed
  <1>3. \A job : Spoils("edit", job) <=> job # "materialize"
    BY DEF Spoils
  <1>4. ASSUME NEW x \in Workers
        PROVE  /\ Shape(w'[x]) /\ (w'[x] # Idle <=> w[x] # Idle)
               /\ w'[x] # Idle => /\ w'[x].job = w[x].job /\ w'[x].at = w[x].at
                                  /\ w'[x].calm => w'[x] = w[x] /\ w[x].job = "materialize"
    <2>1. CASE w[x] # Idle /\ w[x].job # "materialize"
      <3>1. w'[x] = [w[x] EXCEPT !.calm = FALSE] /\ Shape(w[x])
        BY <1>2, <1>3, <2>1 DEF Shapes
      <3>2. FALSE \in BOOLEAN
        OBVIOUS
      <3> QED
        BY <2>1, <3>1, <3>2, CalmShape
    <2>2. CASE ~(w[x] # Idle /\ w[x].job # "materialize")
      <3>1. w'[x] = w[x] /\ Shape(w[x])
        BY <1>2, <1>3, <2>2 DEF Shapes
      <3> QED
        BY <2>2, <3>1
    <2> QED
      BY <2>1, <2>2
  <1>5. /\ store' = [t \in Tables |-> store'[t]]
        /\ \A t \in Tables : t # "concepts" => store'[t] = store[t]
        /\ folder' \in [DOMAIN folder' -> Documents] /\ DOMAIN folder' \subseteq Paths
    <2>1. ASSUME NEW s \in Saves, Edit(SaveFile(s.path, s.doc))
          PROVE  store' = store /\ folder' \in [DOMAIN folder' -> Documents] /\ DOMAIN folder' \subseteq Paths
      <3>1. s.path \in Paths /\ s.doc \in Documents
        BY FilesAssumption
      <3>2. /\ store' = store
            /\ folder' = [p \in DOMAIN folder \union {s.path} |-> IF p = s.path THEN s.doc ELSE folder[p]]
        BY <2>1 DEF Edit, SaveFile
      <3> QED
        BY <3>1, <3>2 DEF Shapes
    <2>2. ASSUME NEW p \in Paths, Edit(RemoveFile(p))
          PROVE  store' = store /\ folder' \in [DOMAIN folder' -> Documents] /\ DOMAIN folder' \subseteq Paths
      <3>1. store' = store /\ folder' = [q \in DOMAIN folder \ {p} |-> folder[q]]
        BY <2>2 DEF Edit, RemoveFile
      <3> QED
        BY <3>1 DEF Shapes
    <2>3. ASSUME NEW c \in Additions, Edit(AddConcept(c))
          PROVE  /\ store' = [t \in Tables |-> store'[t]] /\ folder' = folder
                 /\ \A t \in Tables : t # "concepts" => store'[t] = store[t]
      <3>1. /\ store' = [store EXCEPT !["concepts"] = store["concepts"] \union {c}]
            /\ folder' = folder
        BY <2>3 DEF Edit, AddConcept
      <3> QED
        BY <3>1 DEF Shapes
    <2> QED
      BY <2>1, <2>2, <2>3 DEF Shapes
  <1>6. store'["claims"] = None \/ IsFiniteSet(store'["claims"])
    BY <1>5 DEF Shapes, Tables
  <1> QED
    BY <1>1, <1>2, <1>4, <1>5, <1>6 DEF Typed

\* One that does not step is what it was, or has lost its calm.
LEMMA OtherKept ==
  ASSUME Shapes, NEW x \in Workers, NEW y \in Workers, x # y, Kind(y)
  PROVE  /\ Shape(w'[x]) /\ (w'[x] # Idle <=> w[x] # Idle)
         /\ w'[x] # Idle => w'[x].job = w[x].job /\ w'[x].at = w[x].at /\ (w'[x].calm => w'[x] = w[x])
  <1>1. CASE Begins(y) /\ w[x] # Idle /\ Spoils(w'[y].job, w[x].job)
    <2>1. w'[x] = [w[x] EXCEPT !.calm = FALSE] /\ Shape(w[x]) /\ FALSE \in BOOLEAN
      BY <1>1 DEF Begins, Shapes
    <2> QED
      BY <1>1, <2>1, CalmShape
  <1>2. CASE Moves(y) \/ ~(w[x] # Idle /\ Spoils(w'[y].job, w[x].job))
    <2>1. w'[x] = w[x] /\ Shape(w[x])
      BY <1>2 DEF Kind, Begins, Moves, Shapes
    <2> QED
      BY <2>1
  <1> QED
    BY <1>1, <1>2 DEF Kind

\* A calm worker finds what it works on as it left it.
LEMMA Foreign ==
  ASSUME Shapes, Apart, NEW x \in Workers, NEW y \in Workers, x # y, Kind(y),
         w'[x] # Idle, w'[x].calm
  PROVE  /\ w[x] # Idle /\ w'[x] = w[x]
         /\ w[x].job # "materialize" => /\ folder' = folder /\ suggested' = suggested
                                        /\ \A t \in Tables \ Targets : store'[t] = store[t]
         /\ w[x].job = "materialize" => \A t \in Targets : store'[t] = store[t]
  <1>1. w[x] # Idle /\ w'[x] = w[x]
    BY OtherKept
  <1>2. CASE Begins(y)
    BY <1>1, <1>2 DEF Begins
  <1>3. CASE Moves(y)
    <2>1. w[y] # Idle /\ ~Spoils(w[x].job, w[y].job)
      BY <1>1, <1>3 DEF Moves, Apart
    <2>2. w[y].job \in Indexers \union Desks
      BY <2>1 DEF Shapes, Shape
    <2>3. CASE w[y].job = "materialize"
      BY <1>1, <1>3, <2>1, <2>3, OwnedFacts DEF Moves, Spoils
    <2>4. CASE w[y].job # "materialize"
      <3>1. Owned(w[y].job) \intersect Targets = {} /\ Targets \subseteq Tables
        BY <2>2, <2>4, OwnedApart DEF Targets, Tables
      <3> QED
        BY <1>1, <1>3, <2>1, <2>4, <3>1 DEF Moves, Spoils
    <2> QED
      BY <2>3, <2>4
  <1> QED
    BY <1>2, <1>3 DEF Kind

LEMMA StillFacts ==
  ASSUME UNCHANGED vars
  PROVE  w' = w /\ store' = store /\ folder' = folder /\ suggested' = suggested /\ done' = done
  BY DEF vars

LEMMA IndexedReads ==
  ASSUME folder \in [DOMAIN folder -> Documents], DOMAIN folder \subseteq Paths
  PROVE  Reads(Indexed)
  <1> DEFINE S == {p \in DOMAIN folder : folder[p] \notin Unreadable}
             f == [p \in S |-> Got(p, folder[p])]
  <1>1. IsFiniteSet(Paths)
    <2> DEFINE n == Len(Order)
               g == [i \in 1..n |-> Order[i]]
    <2>1. n \in Nat /\ DOMAIN Order = 1..n
      BY OrderAssumption
    <2>2. g \in Surjection(1..n, Paths)
      BY <2>1 DEF Surjection, Paths, Range
    <2>3. IsFiniteSet(1..n)
      BY <2>1, FS_Interval
    <2> HIDE DEF g, n
    <2> QED
      BY <2>2, <2>3, FS_Surjection
  <1>2. IsFiniteSet(S)
    <2>1. S \subseteq Paths
      OBVIOUS
    <2> HIDE DEF S
    <2> QED
      BY <1>1, <2>1, FS_Subset
  <1>3. f \in Surjection(S, Indexed)
    BY DEF Surjection, Indexed
  <1>4. IsFiniteSet(Indexed)
    <2> HIDE DEF f, S
    <2> QED
      BY <1>2, <1>3, FS_Surjection
  <1>5. \A g \in Indexed : g.doc \in Documents
    BY DEF Indexed, Got
  <1> QED
    BY <1>4, <1>5 DEF Reads

LEMMA ShapesInit == Init => Shapes /\ Apart
  <1> SUFFICES ASSUME Init PROVE Shapes /\ Apart
    OBVIOUS
  <1>1. folder \in [DOMAIN folder -> Documents] /\ DOMAIN folder \subseteq Paths
    BY FilesAssumption DEF Init
  <1>2. w = [x \in Workers |-> w[x]] /\ \A x \in Workers : w[x] = Idle
    BY DEF Init
  <1>3. IsFiniteSet(ClaimRows(Indexed))
    BY <1>1, IndexedReads, FiniteRows
  <1>4. /\ store = [t \in Tables |-> store[t]]
        /\ store["claims"] = None \/ IsFiniteSet(store["claims"])
    <2>1. EmptyStore = [t \in Tables |-> EmptyStore[t]] /\ EmptyStore["claims"] = None
      BY DEF EmptyStore, Tables, Required
    <2>2. /\ CapturedStore = [t \in Tables |-> CapturedStore[t]]
          /\ CapturedStore["claims"] = ClaimRows(Indexed)
      BY DEF EmptyStore, CapturedStore, Tables
    <2> QED
      BY <1>3, <2>1, <2>2 DEF Init
  <1> QED
    BY <1>1, <1>2, <1>4 DEF Shapes, Shape, Apart

LEMMA ShapesNext == Shapes /\ Apart /\ [Next]_vars => Shapes' /\ Apart'
  <1> SUFFICES ASSUME Shapes, Apart, [Next]_vars PROVE Shapes' /\ Apart'
    OBVIOUS
  <1>1. ASSUME NEW z \in Workers, Work(z) PROVE Shapes' /\ Apart'
    <2>1. Kind(z)
      BY <1>1, WorkKind
    <2>2. Shapes'
      BY <2>1, OtherKept DEF Shapes, Kind, Typed
    <2>3. ASSUME NEW x \in Workers, NEW y \in Workers, x # y, w'[x] # Idle, w'[x].calm, w'[y] # Idle
          PROVE  ~Spoils(w'[x].job, w'[y].job)
      <3>1. CASE x # z /\ y # z
        BY <2>1, <2>3, <3>1, OtherKept DEF Apart
      <3>2. CASE z = x
        <4>1. w[y] # Idle /\ w'[y].job = w[y].job
          BY <2>1, <2>3, <3>2, OtherKept
        <4> QED
          BY <2>1, <2>3, <3>2, <4>1 DEF Apart, Kind, Begins, Moves
      <3>3. CASE z = y
        <4>1. w[x] # Idle /\ w'[x] = w[x]
          BY <2>1, <2>3, <3>3, OtherKept
        <4>2. CASE Moves(y)
          BY <2>3, <4>1, <4>2 DEF Moves, Apart
        <4>3. CASE Begins(y) /\ Spoils(w'[y].job, w[x].job)
          <5>1. w'[x] = [w[x] EXCEPT !.calm = FALSE] /\ Shape(w[x]) /\ FALSE \in BOOLEAN
            BY <2>3, <4>1, <4>3 DEF Begins, Shapes
          <5> QED
            BY <2>3, <4>1, <5>1, CalmShape
        <4>4. CASE ~Spoils(w'[y].job, w[x].job)
          BY <4>1, <4>4 DEF Spoils
        <4> QED
          BY <2>1, <3>3, <4>2, <4>3, <4>4 DEF Kind
      <3> QED
        BY <3>1, <3>2, <3>3
    <2> QED
      BY <2>2, <2>3 DEF Apart
  <1>2. ASSUME \/ \E s \in Saves : Edit(SaveFile(s.path, s.doc))
               \/ \E p \in Paths : Edit(RemoveFile(p))
               \/ \E c \in Additions : Edit(AddConcept(c))
        PROVE  Shapes' /\ Apart'
    <2>1. Shapes'
      BY <1>2, EditFacts DEF Shapes, Typed
    <2>2. Apart'
      BY <1>2, EditFacts DEF Apart
    <2> QED
      BY <2>1, <2>2
  <1>3. CASE UNCHANGED vars
    BY <1>3, StillFacts DEF Shapes, Apart
  <1> QED
    BY <1>1, <1>2, <1>3 DEF Next

-----------------------------------------------------------------------------
(* What is common to the four results. *)

LEMMA WorkSteps ==
  ASSUME Shapes, NEW x \in Workers, Work(x), w[x] # Idle
  PROVE  \/ TableSkip(x) \/ TableOpen(x) \/ TableWrite(x)
         \/ Crash(x) \/ Ends(x)
         \/ w[x].job = "folder" /\ \E answer \in Ladder : NextFile(x, answer)
         \/ w[x].job = "capture" /\ Copy(x)
         \/ w[x].job \in Captures /\ (WriteStub(x) \/ Admitted(x))
         \/ w[x].job \in Indexers /\ (IndexBegin(x) \/ IndexFile(x) \/ IndexRows(x))
         \/ w[x].job = "suggest" /\ (SuggestRead(x) \/ SuggestWrite(x))
         \/ w[x].job = "confirm" /\ (ConfirmRead(x) \/ ConfirmWrite(x))
         \/ w[x].job = "materialize" /\ (MaterializeRead(x) \/ MaterializeWrite(x))
  <1>1. ASSUME NEW source, NEW answer, CaptureFile(x, source, answer) PROVE FALSE
    <2>1. Begin(x, Admitting("capture", TRUE, source,
                             AdmittedUrn(store["registry"], source, answer), <<>>))
      BY <1>1 DEF CaptureFile
    <2>2. w[x] = Idle
      BY <2>1 DEF Begin
    <2> QED
      BY <2>2
  <1>2. /\ ~CaptureFolder(x) /\ ~IndexFolder(x) /\ ~SuggestBegin(x) /\ ~MaterializeBegin(x)
        /\ \A least, pick : ~ConfirmBegin(x, least, pick)
    BY DEF CaptureFolder, IndexFolder, SuggestBegin, MaterializeBegin, ConfirmBegin, Begin
  <1>3. ASSUME NEW answer, NextFile(x, answer) PROVE w[x].job = "folder"
    <2>1. w[x].at = "next" /\ w[x].todo # <<>>
      BY <1>3 DEF NextFile
    <2> QED
      BY <2>1, AtNext DEF Todo
  <1>4. Copy(x) => w[x].job = "capture"
    BY AtFile DEF Copy
  <1>5. WriteStub(x) \/ Admitted(x) => w[x].job \in Captures
    BY AtFile, AtAdmitted DEF WriteStub, Admitted
  <1>6. IndexBegin(x) \/ IndexFile(x) \/ IndexRows(x) => w[x].job \in Indexers
    BY AtNext, AtIndex DEF IndexBegin, IndexFile, IndexRows
  <1>7. /\ SuggestRead(x) \/ SuggestWrite(x) => w[x].job = "suggest"
        /\ ConfirmRead(x) \/ ConfirmWrite(x) => w[x].job = "confirm"
        /\ MaterializeRead(x) \/ MaterializeWrite(x) => w[x].job = "materialize"
    BY DEF SuggestRead, ConfirmRead, MaterializeRead, ReadNext, AboutToRead, SuggestWrite,
           ConfirmWrite, MaterializeWrite
  <1> QED
    BY <1>1, <1>2, <1>3, <1>4, <1>5, <1>6, <1>7 DEF Work, Door, Desk, Ends

LEMMA IdleBegins ==
  ASSUME Shapes, NEW x \in Workers, Work(x), w[x] = Idle
  PROVE  Begins(x)
  BY WorkKind DEF Kind, Moves

\* Only an end leaves a result.
LEMMA DoneByEnd ==
  ASSUME Shapes, NEW x \in Workers, Work(x), done' # None
  PROVE  Ends(x)
  <1>1. CASE w[x] = Idle
    BY <1>1, IdleBegins DEF Begins
  <1>2. CASE w[x] # Idle
    <2>1. ASSUME SuggestRead(x) \/ ConfirmRead(x) \/ MaterializeRead(x) PROVE done' = None
      BY <2>1 DEF SuggestRead, ConfirmRead, MaterializeRead, ReadNext, Read
    <2>2. ASSUME TableSkip(x) \/ TableOpen(x) \/ TableWrite(x) \/ Crash(x) PROVE done' = None
      BY <2>2 DEF TableSkip, TableOpen, TableWrite, Crash
    <2>3. ASSUME NEW answer, NextFile(x, answer) PROVE done' = None
      BY <2>3 DEF NextFile
    <2>4. ASSUME \/ Copy(x) \/ WriteStub(x) \/ Admitted(x) \/ IndexBegin(x) \/ IndexFile(x)
                 \/ IndexRows(x)
          PROVE  done' = None
      BY <2>4 DEF Copy, WriteStub, Admitted, IndexBegin, IndexFile, IndexRows
    <2>5. ASSUME SuggestWrite(x) \/ ConfirmWrite(x) \/ MaterializeWrite(x) PROVE done' = None
      BY <2>5 DEF SuggestWrite, ConfirmWrite, MaterializeWrite
    <2> QED
      BY <1>2, <2>1, <2>2, <2>3, <2>4, <2>5, WorkSteps
  <1> QED
    BY <1>1, <1>2

\* At the end everything is written.
LEMMA FinalAtEnd ==
  ASSUME NEW j, j.at = "end"
  PROVE  Phase(j) = "end" /\ \A t : Final(j, t) = store[t]
  BY DEF Phase, Final, Queued

\* One that is calm after its own step was so before.
LEMMA CalmBefore ==
  ASSUME NEW x \in Workers, Moves(x), w'[x] # Idle
  PROVE  w[x] # Idle /\ w'[x].job = w[x].job /\ w'[x].calm = w[x].calm
  BY DEF Moves

-----------------------------------------------------------------------------
(* materialize *)

Materials == \A x \in Workers : Calm(x, "materialize") => Materializing(w[x])

\* What is exported together stands by itself, whatever has been read.
LEMMA ExportGrounded ==
  ASSUME NEW claims, NEW concepts, NEW edges, NEW sources, NEW keyed,
         keyed = ExportedEdges(claims, edges, sources)
  PROVE  Grounded(ExportedClaims(claims, sources), ConceptKeys(concepts, keyed), keyed)
  <1> DEFINE exported == ExportedClaims(claims, sources)
  <1>1. ASSUME NEW e \in keyed
        PROVE  \E c \in exported : c.canonical = e.canonical /\ c.row.item = e.row.src
    <2>1. /\ e.canonical = CanonicalOfItem(claims, sources, e.row.src) /\ e.canonical # None
      BY DEF ExportedEdges, Keyed
    <2>2. \E c \in claims : c.item = e.row.src
      BY <2>1 DEF CanonicalOfItem
    <2> DEFINE c == CHOOSE c \in claims : c.item = e.row.src
    <2>3. c \in claims /\ c.item = e.row.src
      BY <2>2
    <2>4. e.canonical = CanonicalOf(sources, c.urn)
      BY <2>1, <2>2 DEF CanonicalOfItem
    <2> HIDE DEF c
    <2>5. [canonical |-> CanonicalOf(sources, c.urn), row |-> c] \in exported
      BY <2>1, <2>3, <2>4 DEF ExportedClaims, Keyed
    <2> QED
      BY <2>3, <2>4, <2>5
  <1>2. ASSUME NEW c \in ConceptKeys(concepts, keyed)
        PROVE  \E e \in keyed : e.canonical = c.canonical /\ e.row.dst = c.row.id
    <2>1. PICK k \in concepts :
             c \in {[canonical |-> e.canonical, row |-> k] : e \in {e \in keyed : e.row.dst = k.id}}
      BY <1>2 DEF ConceptKeys
    <2>2. PICK e \in keyed : e.row.dst = k.id /\ c = [canonical |-> e.canonical, row |-> k]
      BY <2>1
    <2> QED
      BY <2>2
  <1> QED
    BY <1>1, <1>2 DEF Grounded

LEMMA GroundedLater ==
  ASSUME NEW x \in Workers, Calm(x, "materialize") => Materializing(w[x]),
         w'[x] # Idle => w[x] # Idle /\ w'[x].job = w[x].job /\ (w'[x].calm => w[x].calm),
         Phase(w'[x]) = "end" => Phase(w[x]) = "end",
         w'[x] # Idle /\ w'[x].calm /\ w'[x].job = "materialize" =>
             \A t \in Targets : Final(w[x], t)' = Final(w[x], t)
  PROVE  Calm(x, "materialize")' => Materializing(w[x])'
  <1> SUFFICES ASSUME Calm(x, "materialize")', Phase(w'[x]) = "end" PROVE Materializing(w[x])'
    BY DEF Materializing
  <1>1. Materializing(w[x]) /\ Phase(w[x]) = "end"
    BY DEF Calm
  <1>2. \A t \in Targets : Final(w[x], t)' = Final(w[x], t)
    BY DEF Calm
  <1>3. Grounded(Final(w[x], "target_claims"), Final(w[x], "target_concepts"), Final(w[x], "target_edges"))'
    BY <1>1, <1>2 DEF Materializing, Grounded, Targets
  <1> QED
    BY <1>3 DEF Materializing

LEMMA SameFinal ==
  ASSUME NEW x, w'[x] = w[x], NEW t, store'[t] = store[t]
  PROVE  Final(w[x], t)' = Final(w[x], t)
  BY DEF Final, Queued

\* What is queued and what has been written of three or fewer tables.
LEMMA FinalQueued ==
  ASSUME NEW x, w'[x].at \in {"open", "write"}, Out(w'[x].out, w'[x].job), NEW a \in Queued(w'[x])
  PROVE  Final(w[x], a.table)' = a.rows
  <1>1. \A b \in Queued(w'[x]) : b.table = a.table => b = a
    BY DEF Queued, Out
  <1>2. (CHOOSE b \in Queued(w'[x]) : b.table = a.table) = a
    BY <1>1
  <1> QED
    BY <1>2 DEF Final, Queued

LEMMA BeginPhase ==
  ASSUME NEW x, Begins(x)
  PROVE  Phase(w'[x]) \notin {"end", "admitted"}
  BY DEF Begins, Phase

LEMMA MaterialsWork ==
  ASSUME Shapes, Apart, Materials, NEW z \in Workers, Work(z), NEW x \in Workers
  PROVE  Calm(x, "materialize")' => Materializing(w[x])'
  <1> SUFFICES ASSUME Calm(x, "materialize")' PROVE Materializing(w[x])'
    OBVIOUS
  <1>1. w'[x] # Idle /\ w'[x].calm /\ w'[x].job = "materialize" /\ Kind(z)
    BY WorkKind DEF Calm
  <1>2. CASE x # z
    <2>1. w[x] # Idle /\ w'[x] = w[x] /\ \A t \in Targets : store'[t] = store[t]
      BY <1>1, <1>2, Foreign
    <2> QED
      BY <1>1, <2>1, SameFinal, GroundedLater DEF Materials
  <1>3. CASE x = z /\ w[x] = Idle
    <2>1. Begins(x)
      BY <1>3, IdleBegins
    <2> QED
      BY <2>1, BeginPhase DEF Materializing
  <1>4. CASE x = z /\ w[x] # Idle
    <2>1. Moves(x)
      BY <1>1, <1>4 DEF Kind, Begins
    <2>2. w[x].job = "materialize" /\ w[x].calm
      BY <1>1, <2>1, CalmBefore
    <2>3. CASE TableSkip(x) \/ TableOpen(x) \/ TableWrite(x)
      <3>1. Phase(w'[x]) = Phase(w[x]) /\ \A t \in Tables : Final(w[x], t)' = Final(w[x], t)
        BY <2>3, TableMove
      <3>2. \A t \in Targets : Final(w[x], t)' = Final(w[x], t)
        BY <3>1 DEF Targets, Tables
      <3> QED
        BY <1>1, <1>4, <2>2, <3>1, <3>2, GroundedLater DEF Materials
    <2>4. CASE Crash(x) \/ Ends(x)
      BY <1>1, <2>4, CrashKind, EndsKind
    <2>5. CASE MaterializeRead(x)
      <3> DEFINE tables == <<"claims", "concepts", "edges", "sources">>
                 job == "materialize"
      <3>1. DOMAIN tables \subseteq Int /\ job \in Desks /\ job # "suggest"
        BY DEF Desks
      <3>2. ReadNext(x, job, tables)
        BY <2>5 DEF MaterializeRead
      <3> HIDE DEF tables, job
      <3>3. w'[x].at = "read"
        BY <1>1, <3>1, <3>2, ReadKind
      <3> QED
        BY <3>3 DEF Materializing, Phase
    <2>6. CASE MaterializeWrite(x)
      <3> DEFINE r == w[x].read
                 keyed == ExportedEdges(r[1], r[3], r[4])
                 a == Write("target_claims", ExportedClaims(r[1], r[4]))
                 b == Write("target_concepts", ConceptKeys(r[2], keyed))
                 c == Write("target_edges", keyed)
      <3>1. /\ w'[x].at \in {"open", "write"} /\ Out(w'[x].out, w'[x].job)
            /\ Queued(w'[x]) = {a, b, c}
        BY <2>6, MaterializeWriteKind
      <3>2. Grounded(a.rows, b.rows, c.rows)
        <4> DEFINE claims == r[1]
                   concepts == r[2]
                   sources == r[4]
                   edges == r[3]
        <4>1. keyed = ExportedEdges(claims, edges, sources)
          OBVIOUS
        <4>2. /\ a.rows = ExportedClaims(claims, sources)
              /\ b.rows = ConceptKeys(concepts, keyed) /\ c.rows = keyed
          BY WrittenRow
        <4> HIDE DEF claims, concepts, sources, edges, keyed, a, b, c
        <4>3. Grounded(ExportedClaims(claims, sources), ConceptKeys(concepts, keyed), keyed)
          BY <4>1, ExportGrounded
        <4> QED
          BY <4>2, <4>3
      <3>3. a.table = "target_claims" /\ b.table = "target_concepts" /\ c.table = "target_edges"
        BY WrittenRow
      <3> HIDE DEF a, b, c
      <3>4. /\ Final(w[x], "target_claims")' = a.rows /\ Final(w[x], "target_concepts")' = b.rows
            /\ Final(w[x], "target_edges")' = c.rows
        BY <3>1, <3>3, FinalQueued
      <3>5. Grounded(Final(w[x], "target_claims"), Final(w[x], "target_concepts"), Final(w[x], "target_edges"))'
        BY <3>2, <3>4 DEF Grounded
      <3> QED
        BY <3>5 DEF Materializing
    <2> QED
      BY <1>4, <2>2, <2>3, <2>4, <2>5, <2>6, WorkSteps DEF Captures, Indexers
  <1> QED
    BY <1>2, <1>3, <1>4

MaterialInv == Shapes /\ Apart /\ Materials /\ TargetGrounded

LEMMA MaterialInit == Init => MaterialInv
  <1> SUFFICES ASSUME Init PROVE MaterialInv
    OBVIOUS
  <1>1. Materials /\ TargetGrounded
    BY DEF Init, Materials, Calm, TargetGrounded
  <1> QED
    BY <1>1, ShapesInit DEF MaterialInv

LEMMA MaterialNext == MaterialInv /\ [Next]_vars => MaterialInv'
  <1> SUFFICES ASSUME MaterialInv, [Next]_vars PROVE MaterialInv'
    OBVIOUS
  <1>1. Shapes' /\ Apart'
    BY ShapesNext DEF MaterialInv
  <1>2. ASSUME NEW z \in Workers, Work(z) PROVE Materials' /\ TargetGrounded'
    <2>1. Materials'
      BY <1>2, MaterialsWork DEF Materials, MaterialInv
    <2>2. CASE done' = None
      BY <2>1, <2>2 DEF TargetGrounded
    <2>3. CASE Ends(z)
      <3>1. done' = w[z] /\ store' = store /\ w[z].at = "end"
        BY <2>3, EndsKind DEF MaterialInv
      <3>2. CASE Calm(z, "materialize")
        <4>1. Materializing(w[z])
          BY <1>2, <3>2 DEF MaterialInv, Materials
        <4>2. Grounded(store["target_claims"], store["target_concepts"], store["target_edges"])
          BY <3>1, <4>1, FinalAtEnd DEF Materializing
        <4> QED
          BY <2>1, <3>1, <4>2 DEF TargetGrounded, Grounded
      <3>3. CASE ~Calm(z, "materialize")
        <4>1. w[z] # Idle
          BY <3>1 DEF Idle
        <4> QED
          BY <2>1, <3>1, <3>3, <4>1 DEF TargetGrounded, Calm
      <3> QED
        BY <3>2, <3>3
    <2> QED
      BY <1>2, <2>2, <2>3, DoneByEnd DEF MaterialInv
  <1>3. ASSUME \/ \E s \in Saves : Edit(SaveFile(s.path, s.doc))
               \/ \E p \in Paths : Edit(RemoveFile(p))
               \/ \E c \in Additions : Edit(AddConcept(c))
        PROVE  Materials' /\ TargetGrounded'
    <2>1. /\ done' = None /\ \A t \in Tables : t # "concepts" => store'[t] = store[t]
          /\ \A x \in Workers : /\ w'[x] # Idle <=> w[x] # Idle
                                /\ w'[x] # Idle /\ w'[x].calm => w'[x] = w[x]
      BY <1>3, EditFacts DEF MaterialInv
    <2>2. \A t \in Targets : store'[t] = store[t]
      BY <2>1 DEF Targets, Tables
    <2>3. ASSUME NEW x \in Workers PROVE Calm(x, "materialize")' => Materializing(w[x])'
      <3> SUFFICES ASSUME Calm(x, "materialize")' PROVE Materializing(w[x])'
        OBVIOUS
      <3>1. w'[x] = w[x] /\ w[x] # Idle
        BY <2>1 DEF Calm
      <3> QED
        BY <2>2, <3>1, SameFinal, GroundedLater DEF Materials, MaterialInv
    <2> QED
      BY <2>1, <2>3 DEF Materials, TargetGrounded
  <1>4. ASSUME UNCHANGED vars PROVE Materials' /\ TargetGrounded'
    <2>1. w' = w /\ store' = store /\ done' = done
      BY <1>4, StillFacts
    <2>2. ASSUME NEW x \in Workers PROVE Calm(x, "materialize")' => Materializing(w[x])'
      BY <2>1, SameFinal, GroundedLater DEF Materials, MaterialInv
    <2> QED
      BY <2>1, <2>2 DEF Materials, TargetGrounded, MaterialInv
  <1> QED
    BY <1>1, <1>2, <1>3, <1>4 DEF Next, MaterialInv

\* What a calm materialisation exports stands by itself: every concept under a canonical urn is
\* grounded there by an edge, and the claim of every edge is exported under the same urn,
\* whatever the tables held when it read them and whoever else works on the folder
\* (materialize.materialize).
THEOREM ExportsStandAlone == Spec => []TargetGrounded
  <1>1. MaterialInv => TargetGrounded
    BY DEF MaterialInv
  <1> QED
    BY <1>1, MaterialInit, MaterialNext, PTL DEF Spec

-----------------------------------------------------------------------------
(* suggest_folder and confirm_folder *)

\* A suggestion offers every concept it has read and found mentioned.
LEMMA SuggestOffers ==
  ASSUME NEW claims, IsFiniteSet(claims), NEW definitions, NEW concepts,
         NEW c \in concepts, Mentioning(claims, {c.label, c.id}) # {}
  PROVE  c.id \in Offered(Suggest(claims, definitions, concepts).concepts)
  <1> DEFINE seeds == Seeds(claims, definitions, concepts)
             Of(id) == Mentioning(claims, Labels(claims, definitions, concepts, id))
             grounds == [id \in seeds |-> Of(id)]
             mentioned == {id \in DOMAIN grounds : grounds[id] # {}}
             Made(id) == [id |-> id, label |-> SeedLabel(claims, definitions, concepts, id),
                          sources |-> Cardinality(Urns(grounds[id]))]
             made == {Made(id) : id \in mentioned}
  <1>1. Suggest(claims, definitions, concepts).concepts = made
    BY DEF Suggest
  <1>2. c.id \in seeds
    BY DEF Seeds
  <1>3. {c.label, c.id} \subseteq Labels(claims, definitions, concepts, c.id)
    <2> DEFINE same == {k \in concepts : k.id = c.id}
    <2>1. c \in same
      OBVIOUS
    <2>2. {c.label, c.id} \subseteq UNION {{k.label, k.id} : k \in same}
      BY <2>1
    <2> QED
      BY <2>2 DEF Labels
  <1>4. Of(c.id) # {} /\ Of(c.id) \subseteq claims
    BY <1>3 DEF Mentioning
  <1>5. Cardinality(Urns(Of(c.id))) >= 1
    <2> DEFINE S == Of(c.id)
               T == Urns(S)
               f == [k \in S |-> k.urn]
    <2>1. S \subseteq claims /\ S # {}
      BY <1>4
    <2>2. f \in Surjection(S, T) /\ (S # {} => T # {})
      BY DEF Surjection, Urns
    <2> HIDE DEF S, f, T
    <2>3. IsFiniteSet(T)
      BY <2>1, <2>2, FS_Subset, FS_Surjection
    <2>4. Cardinality(T) \in Nat /\ Cardinality(T) # 0
      BY <2>1, <2>2, <2>3, FS_CardinalityType, FS_EmptySet
    <2>5. Cardinality(T) >= 1
      BY <2>4
    <2> QED
      BY <2>5 DEF T, S
  <1> HIDE DEF Of, seeds
  <1>6. c.id \in mentioned /\ grounds[c.id] = Of(c.id)
    BY <1>2, <1>4
  <1>7. Made(c.id) \in made /\ Made(c.id).id = c.id /\ Made(c.id).sources >= 1
    BY <1>5, <1>6
  <1> HIDE DEF made, Made
  <1> QED
    BY <1>1, <1>7 DEF Offered

LEMMA ConfirmKeeps ==
  ASSUME NEW concepts, NEW edges, NEW least, NEW pick, NEW kept, kept = Confirmed(concepts, least, pick),
         NEW made, made = {[id |-> c.id, label |-> c.label] : c \in kept}
  PROVE  /\ {e.dst : e \in EdgesTo(edges, {c.id : c \in kept})} \subseteq Ids(made)
         /\ least = 1 /\ pick = {} => Offered(concepts) \subseteq Ids(made)
  <1>1. Ids(made) = {c.id : c \in kept}
    <2>1. ASSUME NEW c \in kept PROVE \E m \in made : m.id = c.id
      <3>1. [id |-> c.id, label |-> c.label] \in made
        OBVIOUS
      <3> QED
        BY <3>1
    <2>2. ASSUME NEW m \in made PROVE \E c \in kept : m.id = c.id
      OBVIOUS
    <2> QED
      BY <2>1, <2>2 DEF Ids
  <1>2. least = 1 /\ pick = {} => kept = {c \in concepts : c.sources >= 1}
    BY DEF Confirmed
  <1>3. {e.dst : e \in EdgesTo(edges, {c.id : c \in kept})} \subseteq {c.id : c \in kept}
    BY DEF EdgesTo
  <1> QED
    BY <1>1, <1>2, <1>3 DEF Offered

Suggestions == \A x \in Workers : Calm(x, "suggest") => Suggesting(w[x])
Confirmations == \A x \in Workers : Calm(x, "confirm") => Confirming(w[x])

LEMMA SuggestionsWork ==
  ASSUME Shapes, Apart, Suggestions, NEW z \in Workers, Work(z), NEW x \in Workers
  PROVE  Calm(x, "suggest")' => Suggesting(w[x])'
  <1> SUFFICES ASSUME Calm(x, "suggest")', Phase(w'[x]) = "end" PROVE Suggesting(w[x])'
    BY DEF Suggesting
  <1>1. w'[x] # Idle /\ w'[x].calm /\ w'[x].job = "suggest" /\ Kind(z)
        /\ "suggested_concepts" \in Tables \ Targets
    BY WorkKind DEF Calm, Tables, Targets
  <1>2. ASSUME Calm(x, "suggest"), Phase(w[x]) = "end", w'[x].keep = w[x].keep,
               Final(w[x], "suggested_concepts")' = Final(w[x], "suggested_concepts")
        PROVE  Suggesting(w[x])'
    <2>1. Ids(w[x].keep) \subseteq Offered(Final(w[x], "suggested_concepts"))
      BY <1>2 DEF Suggestions, Suggesting
    <2> QED
      BY <1>2, <2>1 DEF Suggesting, Ids, Offered
  <1>3. CASE x # z
    <2>1. w[x] # Idle /\ w'[x] = w[x] /\ store'["suggested_concepts"] = store["suggested_concepts"]
      BY <1>1, <1>3, Foreign
    <2>2. Calm(x, "suggest") /\ Phase(w[x]) = "end"
      BY <1>1, <2>1 DEF Calm
    <2> QED
      BY <1>2, <2>1, <2>2, SameFinal
  <1>4. CASE x = z /\ w[x] = Idle
    BY <1>4, IdleBegins, BeginPhase
  <1>5. CASE x = z /\ w[x] # Idle
    <2>1. Moves(x)
      BY <1>1, <1>5 DEF Kind, Begins
    <2>2. Calm(x, "suggest")
      BY <1>1, <1>5, <2>1, CalmBefore DEF Calm
    <2>3. CASE TableSkip(x) \/ TableOpen(x) \/ TableWrite(x)
      <3>1. /\ Phase(w'[x]) = Phase(w[x]) /\ w'[x].keep = w[x].keep
            /\ Final(w[x], "suggested_concepts")' = Final(w[x], "suggested_concepts")
        BY <1>1, <2>3, TableMove
      <3> QED
        BY <1>2, <2>2, <3>1
    <2>4. CASE Crash(x) \/ Ends(x)
      BY <1>1, <2>4, CrashKind, EndsKind
    <2>5. CASE SuggestRead(x)
      <3> DEFINE tables == <<"claims", "definitions", "concepts">>
                 job == "suggest"
      <3>1. DOMAIN tables \subseteq Int /\ job \in Desks /\ tables[1] = "claims"
        BY DEF Desks
      <3>2. ReadNext(x, job, tables)
        BY <2>5 DEF SuggestRead
      <3> HIDE DEF tables, job
      <3>3. w'[x].at = "read"
        BY <1>1, <3>1, <3>2, ReadKind
      <3> QED
        BY <3>3 DEF Phase
    <2>6. CASE SuggestWrite(x)
      <3> DEFINE r == w[x].read
                 s == Suggest(r[1], r[2], r[3])
                 a == Write("suggested_concepts", s.concepts)
                 keep == {c \in r[3] : Mentioning(r[1], {c.label, c.id}) # {}}
      <3>1. /\ w[x].job = "suggest" /\ w[x].at = "read" /\ r # <<>>
            /\ w'[x].at \in {"open", "write"} /\ Out(w'[x].out, w'[x].job)
            /\ w'[x].keep = keep /\ a \in Queued(w'[x])
        BY <2>6, SuggestWriteKind
      <3>2. IsFiniteSet(r[1])
        BY <3>1, AtRead
      <3>3. Ids(keep) \subseteq Offered(s.concepts)
        <4> SUFFICES ASSUME NEW c \in keep PROVE c.id \in Offered(s.concepts)
          BY DEF Ids
        <4> DEFINE claims == r[1]
                   definitions == r[2]
                   concepts == r[3]
        <4>1. c \in concepts /\ Mentioning(claims, {c.label, c.id}) # {} /\ IsFiniteSet(claims)
          BY <3>2
        <4> HIDE DEF claims, definitions, concepts
        <4>2. c.id \in Offered(Suggest(claims, definitions, concepts).concepts)
          BY <4>1, SuggestOffers
        <4> QED
          BY <4>2 DEF claims, definitions, concepts
      <3>4. a.table = "suggested_concepts" /\ a.rows = s.concepts
        BY WrittenRow
      <3> HIDE DEF a, s, keep
      <3>5. Final(w[x], "suggested_concepts")' = s.concepts
        BY <3>1, <3>4, FinalQueued
      <3> QED
        BY <3>1, <3>3, <3>5 DEF Suggesting, Ids, Offered
    <2> QED
      BY <1>5, <2>2, <2>3, <2>4, <2>5, <2>6, WorkSteps DEF Captures, Indexers, Calm
  <1> QED
    BY <1>3, <1>4, <1>5

\* What the last whole suggestion was made from remains on offer until the next one.
LEMMA StaysWork ==
  ASSUME Shapes, Apart, Suggestions, SuggestedStays, NEW z \in Workers, Work(z)
  PROVE  SuggestedStays'
  <1>1. Kind(z) /\ "suggested_concepts" \in Tables
    BY WorkKind DEF Tables
  <1>2. ASSUME suggested' = suggested,
               w[z] # Idle /\ w[z].job = "suggest" /\ w[z].at = "read" /\ w'[z] # Idle =>
                   w'[z].at = "read" /\ w'[z].job = "suggest"
        PROVE  SuggestedStays'
    <2> SUFFICES ASSUME suggested # {} PROVE SuggestedStays'
      BY <1>2 DEF SuggestedStays
    <2>1. store'["suggested_concepts"] = store["suggested_concepts"]
      <3>1. CASE Begins(z)
        BY <3>1 DEF Begins
      <3>2. CASE Moves(z) /\ w[z].job # "suggest"
        <4>1. w[z] # Idle /\ w[z].job \in Indexers \union Desks
          BY <3>2 DEF Moves, Shapes, Shape
        <4> QED
          BY <1>1, <3>2, <4>1, OwnedApart DEF Moves
      <3>3. CASE Moves(z) /\ w[z].job = "suggest"
        <4>1. w[z].at = "read" /\ w[z] # Idle
          BY <3>3 DEF SuggestedStays, Moves
        <4>2. Work(z) => \/ Crash(z) \/ Ends(z) \/ SuggestRead(z) \/ SuggestWrite(z)
                         \/ TableSkip(z) \/ TableOpen(z) \/ TableWrite(z)
          BY <3>3, <4>1, WorkSteps DEF Captures, Indexers
        <4>3. ~TableSkip(z) /\ ~TableOpen(z) /\ ~TableWrite(z)
          BY <4>1 DEF TableSkip, TableOpen, TableWrite
        <4>4. SuggestRead(z) => store' = store
          BY DEF SuggestRead, ReadNext, Read
        <4>5. SuggestWrite(z) => store' = store
          BY DEF SuggestWrite
        <4>6. Crash(z) => store' = store
          BY DEF Crash
        <4>7. Ends(z) => store' = store
          BY EndsKind
        <4> QED
          BY <4>2, <4>3, <4>4, <4>5, <4>6, <4>7
      <3> QED
        BY <1>1, <3>1, <3>2, <3>3 DEF Kind
    <2>2. ASSUME NEW x \in Workers, w'[x] # Idle, w'[x].job = "suggest"
          PROVE  w'[x].at = "read"
      <3>1. CASE x # z
        BY <1>1, <2>2, <3>1, OtherKept DEF SuggestedStays
      <3>2. CASE x = z /\ Begins(x)
        BY <1>1, <2>2, <3>2 DEF Kind, Begins, Shape, Captures, Indexers
      <3>3. CASE x = z /\ Moves(x)
        BY <1>2, <2>2, <3>3 DEF Moves, SuggestedStays
      <3> QED
        BY <1>1, <3>1, <3>2, <3>3 DEF Kind
    <2> QED
      BY <1>2, <2>1, <2>2 DEF SuggestedStays, Ids, Offered
  <1>3. CASE w[z] = Idle
    BY <1>2, <1>3, IdleBegins DEF Begins
  <1>4. CASE w[z] # Idle
    <2>1. CASE SuggestWrite(z)
      <3>1. suggested' = {}
        BY <2>1 DEF SuggestWrite
      <3> QED
        BY <3>1 DEF SuggestedStays
    <2>2. CASE SuggestRead(z)
      <3> DEFINE tables == <<"claims", "definitions", "concepts">>
                 job == "suggest"
      <3>1. DOMAIN tables \subseteq Int /\ job \in Desks /\ tables[1] = "claims"
        BY DEF Desks
      <3>2. ReadNext(z, job, tables)
        BY <2>2 DEF SuggestRead
      <3>3. job = "suggest"
        OBVIOUS
      <3> HIDE DEF tables, job
      <3>4. suggested' = suggested /\ (w'[z] = Idle \/ (w'[z].at = "read" /\ w'[z].job = "suggest"))
        BY <3>1, <3>2, <3>3, ReadKind
      <3> QED
        BY <1>2, <3>4
    <2>3. CASE Ends(z)
      <3>1. /\ w'[z] = Idle /\ store' = store /\ w[z].at = "end"
            /\ suggested' = IF w[z].job = "suggest" THEN IF w[z].calm THEN w[z].keep ELSE {} ELSE suggested
        BY <2>3, EndsKind
      <3>2. CASE w[z].job # "suggest"
        BY <1>2, <3>1, <3>2
      <3>3. CASE w[z].job = "suggest" /\ ~w[z].calm
        BY <3>1, <3>3 DEF SuggestedStays
      <3>4. CASE w[z].job = "suggest" /\ w[z].calm
        <4>1. suggested' = w[z].keep
          BY <3>1, <3>4
        <4>2. Ids(w[z].keep) \subseteq Offered(store["suggested_concepts"])
          <5>1. Suggesting(w[z])
            BY <1>4, <3>4 DEF Suggestions, Calm
          <5> QED
            BY <3>1, <5>1, FinalAtEnd DEF Suggesting
        <4>3. ASSUME NEW x \in Workers, w'[x] # Idle, w'[x].job = "suggest" PROVE FALSE
          <5>1. x # z
            BY <3>1, <4>3
          <5>2. w[x] # Idle /\ w[x].job = "suggest"
            BY <1>1, <4>3, <5>1, OtherKept
          <5> QED
            BY <1>4, <3>4, <5>1, <5>2 DEF Apart, Spoils
        <4> QED
          BY <3>1, <4>1, <4>2, <4>3 DEF SuggestedStays, Ids, Offered
      <3> QED
        BY <3>2, <3>3, <3>4
    <2>4. CASE TableSkip(z) \/ TableOpen(z) \/ TableWrite(z)
      <3>1. suggested' = suggested /\ w[z].at # "read"
        BY <2>4, TableMove
      <3> QED
        BY <1>2, <3>1
    <2>5. CASE Crash(z)
      <3>1. suggested' = suggested /\ w'[z] = Idle
        BY <2>5, CrashKind DEF Crash
      <3> QED
        BY <1>2, <3>1
    <2>6. ASSUME w[z].job # "suggest", suggested' = suggested PROVE SuggestedStays'
      BY <1>2, <2>6
    <2>7. ASSUME NEW answer, NextFile(z, answer) PROVE suggested' = suggested
      BY <2>7 DEF NextFile
    <2>8. ASSUME Copy(z) \/ WriteStub(z) \/ Admitted(z) \/ IndexBegin(z) \/ IndexFile(z) \/ IndexRows(z)
          PROVE  suggested' = suggested
      BY <2>8 DEF Copy, WriteStub, Admitted, IndexBegin, IndexFile, IndexRows
    <2>9. ASSUME ConfirmRead(z) \/ MaterializeRead(z) \/ ConfirmWrite(z) \/ MaterializeWrite(z)
          PROVE  suggested' = suggested
      BY <2>9 DEF ConfirmRead, MaterializeRead, ReadNext, Read, ConfirmWrite, MaterializeWrite
    <2> QED
      BY <1>4, <2>1, <2>2, <2>3, <2>4, <2>5, <2>6, <2>7, <2>8, <2>9, WorkSteps DEF Captures, Indexers
  <1> QED
    BY <1>3, <1>4

LEMMA ConfirmedLater ==
  ASSUME NEW x \in Workers, Confirmations, Calm(x, "confirm"), w'[x].at # "read",
         suggested' = suggested,
         Phase(w'[x]) = "end" =>
             /\ Phase(w[x]) = "end" /\ w'[x].keep = w[x].keep
             /\ \A t \in {"edges", "concepts"} : Final(w[x], t)' = Final(w[x], t)
  PROVE  Confirming(w[x])'
  <1>1. Phase(w'[x]) = "end" =>
          /\ {e.dst : e \in Final(w[x], "edges")} \subseteq Ids(Final(w[x], "concepts"))
          /\ w[x].keep.least = 1 /\ w[x].keep.pick = {} =>
                 Ids(suggested) \subseteq Ids(Final(w[x], "concepts"))
    BY DEF Confirmations, Confirming
  <1> QED
    BY <1>1 DEF Confirming, Ids

LEMMA ConfirmationsWork ==
  ASSUME Shapes, Apart, SuggestedStays, Confirmations, NEW z \in Workers, Work(z), NEW x \in Workers
  PROVE  Calm(x, "confirm")' => Confirming(w[x])'
  <1> SUFFICES ASSUME Calm(x, "confirm")' PROVE Confirming(w[x])'
    OBVIOUS
  <1>1. w'[x] # Idle /\ w'[x].calm /\ w'[x].job = "confirm" /\ Kind(z)
        /\ {"suggested_concepts", "concepts", "edges"} \subseteq Tables \ Targets
    BY WorkKind DEF Calm, Tables, Targets
  <1>2. CASE x # z
    <2>1. w[x] # Idle /\ w'[x] = w[x] /\ \A t \in Tables \ Targets : store'[t] = store[t]
      BY <1>1, <1>2, Foreign
    <2>2. suggested' = suggested
      BY <1>1, <1>2, <2>1, Foreign
    <2>3. Confirming(w[x])
      BY <1>1, <2>1 DEF Confirmations, Calm
    <2>4. /\ Final(w[x], "concepts")' = Final(w[x], "concepts")
          /\ Final(w[x], "edges")' = Final(w[x], "edges")
      BY <1>1, <2>1, SameFinal
    <2> QED
      BY <1>1, <2>1, <2>2, <2>3, <2>4 DEF Confirming, Ids
  <1>3. CASE x = z /\ w[x] = Idle
    <2>1. Begins(x)
      BY <1>3, IdleBegins
    <2> QED
      BY <2>1, BeginPhase DEF Confirming, Begins
  <1>4. CASE x = z /\ w[x] # Idle
    <2>1. Moves(x)
      BY <1>1, <1>4 DEF Kind, Begins
    <2>2. Calm(x, "confirm")
      BY <1>1, <1>4, <2>1, CalmBefore DEF Calm
    <2>3. CASE TableSkip(x) \/ TableOpen(x) \/ TableWrite(x)
      <3>1. /\ Phase(w'[x]) = Phase(w[x]) /\ w'[x].keep = w[x].keep /\ suggested' = suggested
            /\ \A t \in {"edges", "concepts"} : Final(w[x], t)' = Final(w[x], t)
            /\ w'[x].at # "read"
        BY <1>1, <2>3, TableMove
      <3> QED
        BY <2>2, <3>1, ConfirmedLater
    <2>4. CASE Crash(x) \/ Ends(x)
      BY <1>1, <2>4, CrashKind, EndsKind
    <2>5. CASE ConfirmRead(x)
      <3> DEFINE tables == <<"suggested_concepts", "suggested_edges">>
                 job == "confirm"
      <3>1. DOMAIN tables \subseteq Int /\ job \in Desks /\ tables[1] = "suggested_concepts"
            /\ job # "suggest" /\ job # "materialize"
        BY DEF Desks
      <3>2. ReadNext(x, job, tables)
        BY <2>5 DEF ConfirmRead
      <3> HIDE DEF tables, job
      <3>3. /\ w'[x].at = "read" /\ store' = store /\ w[x].at = "read"
            /\ w'[x].read[1] = IF w[x].read = <<>> THEN Rows(tables[1]) ELSE w[x].read[1]
            /\ w[x].read = <<>> => store[tables[1]] # None
        BY <1>1, <3>1, <3>2, ReadKind
      <3>4. w[x].read # <<>> => w[x].read[1] = store["suggested_concepts"]
        BY <2>2, <3>3 DEF Confirmations, Confirming
      <3>5. w'[x].read[1] = store'["suggested_concepts"]
        BY <3>1, <3>3, <3>4 DEF Rows
      <3> QED
        BY <3>3, <3>5 DEF Confirming, Phase
    <2>6. CASE ConfirmWrite(x)
      <3> DEFINE r == w[x].read
                 least == w[x].least
                 pick == w[x].pick
                 concepts == r[1]
                 edges == r[2]
                 kept == Confirmed(concepts, least, pick)
                 made == {[id |-> c.id, label |-> c.label] : c \in kept}
                 ids == {c.id : c \in kept}
                 a == Write("concepts", made)
                 b == Write("edges", EdgesTo(edges, ids))
      <3>1. /\ w[x].job = "confirm" /\ w[x].at = "read" /\ r # <<>>
            /\ w'[x].at = "open" /\ Out(w'[x].out, w'[x].job)
            /\ w'[x].keep.least = least /\ w'[x].keep.pick = pick
            /\ a \in Queued(w'[x]) /\ b \in Queued(w'[x])
        BY <2>6, ConfirmWriteKind
      <3>2. suggested' = suggested
        BY <2>6 DEF ConfirmWrite
      <3>3. concepts = store["suggested_concepts"]
        BY <2>2, <3>1 DEF Confirmations, Confirming
      <3>4. a.table = "concepts" /\ a.rows = made /\ b.table = "edges" /\ b.rows = EdgesTo(edges, ids)
        BY WrittenRow
      <3>5. /\ {e.dst : e \in EdgesTo(edges, ids)} \subseteq Ids(made)
            /\ least = 1 /\ pick = {} => Offered(concepts) \subseteq Ids(made)
        <4>1. kept = Confirmed(concepts, least, pick) /\ made = {[id |-> c.id, label |-> c.label] : c \in kept}
          OBVIOUS
        <4> HIDE DEF concepts, edges, least, pick, kept, made
        <4>2. /\ {e.dst : e \in EdgesTo(edges, {c.id : c \in kept})} \subseteq Ids(made)
              /\ least = 1 /\ pick = {} => Offered(concepts) \subseteq Ids(made)
          BY <4>1, ConfirmKeeps
        <4> QED
          BY <4>2 DEF ids
      <3> HIDE DEF a, b, made, ids, kept, concepts, edges, least, pick
      <3>6. Final(w[x], "concepts")' = made /\ Final(w[x], "edges")' = EdgesTo(edges, ids)
        BY <3>1, <3>4, FinalQueued
      <3>7. least = 1 /\ pick = {} => Ids(suggested) \subseteq Ids(made)
        <4>1. CASE suggested = {}
          BY <4>1 DEF Ids
        <4>2. CASE suggested # {}
          BY <3>3, <3>5, <4>2 DEF SuggestedStays
        <4> QED
          BY <4>1, <4>2
      <3> QED
        BY <3>1, <3>2, <3>5, <3>6, <3>7 DEF Confirming, Ids
    <2> QED
      BY <1>4, <2>2, <2>3, <2>4, <2>5, <2>6, WorkSteps DEF Captures, Indexers, Calm
  <1> QED
    BY <1>2, <1>3, <1>4

CurationInv ==
    /\ Shapes /\ Apart /\ SuggestedStays /\ Suggestions /\ Confirmations
    /\ ConfirmedStay

LEMMA CurationInit == Init => CurationInv
  <1> SUFFICES ASSUME Init PROVE CurationInv
    OBVIOUS
  <1>1. SuggestedStays /\ Suggestions /\ Confirmations /\ ConfirmedStay
    BY DEF Init, SuggestedStays, Suggestions, Confirmations, Calm, ConfirmedStay
  <1> QED
    BY <1>1, ShapesInit DEF CurationInv

LEMMA CurationNext == CurationInv /\ [Next]_vars => CurationInv'
  <1> SUFFICES ASSUME CurationInv, [Next]_vars PROVE CurationInv'
    OBVIOUS
  <1> USE DEF CurationInv
  <1>1. Shapes' /\ Apart'
    BY ShapesNext
  <1>2. ASSUME NEW z \in Workers, Work(z)
        PROVE  SuggestedStays' /\ Suggestions' /\ Confirmations' /\ ConfirmedStay'
    <2>1. SuggestedStays'
      BY <1>2, StaysWork
    <2>2. Suggestions'
      BY <1>2, SuggestionsWork DEF Suggestions
    <2>3. Confirmations'
      BY <1>2, ConfirmationsWork DEF Confirmations
    <2>4. ConfirmedStay'
      <3>1. CASE done' = None
        BY <3>1 DEF ConfirmedStay
      <3>2. CASE Ends(z) /\ ~Calm(z, "confirm")
        <4>1. done' = w[z] /\ w[z].at = "end"
          BY <3>2, EndsKind
        <4>2. w[z] # Idle
          BY <4>1 DEF Idle
        <4> QED
          BY <3>2, <4>1, <4>2 DEF ConfirmedStay, Calm
      <3>3. CASE Ends(z) /\ Calm(z, "confirm")
        <4>1. done' = w[z] /\ w[z].at = "end" /\ store' = store /\ suggested' = suggested
          BY <3>3, EndsKind DEF Calm
        <4>2. /\ {e.dst : e \in store["edges"]} \subseteq Ids(store["concepts"])
              /\ w[z].keep.least = 1 /\ w[z].keep.pick = {} =>
                     Ids(suggested) \subseteq Ids(store["concepts"])
          <5>1. Confirming(w[z])
            BY <1>2, <3>3 DEF Confirmations
          <5> QED
            BY <4>1, <5>1, FinalAtEnd DEF Confirming
        <4> QED
          BY <4>1, <4>2 DEF ConfirmedStay, Ids
      <3> QED
        BY <1>2, <3>1, <3>2, <3>3, DoneByEnd
    <2> QED
      BY <2>1, <2>2, <2>3, <2>4
  <1>3. ASSUME \/ \E s \in Saves : Edit(SaveFile(s.path, s.doc))
               \/ \E p \in Paths : Edit(RemoveFile(p))
               \/ \E c \in Additions : Edit(AddConcept(c))
        PROVE  SuggestedStays' /\ Suggestions' /\ Confirmations' /\ ConfirmedStay'
    <2>1. /\ done' = None /\ suggested' = suggested
          /\ store'["suggested_concepts"] = store["suggested_concepts"]
          /\ \A x \in Workers : /\ w'[x] # Idle <=> w[x] # Idle
                                /\ w'[x] # Idle => /\ w'[x].job = w[x].job /\ w'[x].at = w[x].at
                                                   /\ w'[x].calm => w'[x].job = "materialize"
      BY <1>3, EditFacts DEF Tables
    <2>2. SuggestedStays'
      BY <2>1 DEF SuggestedStays, Ids, Offered
    <2>3. Suggestions' /\ Confirmations' /\ ConfirmedStay'
      BY <2>1 DEF Suggestions, Confirmations, ConfirmedStay, Calm
    <2> QED
      BY <2>2, <2>3
  <1>4. ASSUME UNCHANGED vars
        PROVE  SuggestedStays' /\ Suggestions' /\ Confirmations' /\ ConfirmedStay'
    <2>1. w' = w /\ store' = store /\ done' = done /\ suggested' = suggested
      BY <1>4, StillFacts
    <2>2. SuggestedStays' /\ ConfirmedStay'
      BY <2>1 DEF SuggestedStays, ConfirmedStay, Ids, Offered
    <2>3. Suggestions'
      BY <2>1 DEF Suggestions, Suggesting, Calm, Phase, Final, Queued, Ids, Offered
    <2>4. Confirmations'
      <3>1. ASSUME NEW x \in Workers, Calm(x, "confirm") PROVE Confirming(w[x])'
        <4>1. Confirming(w[x])
          BY <3>1 DEF Confirmations
        <4>2. /\ Final(w[x], "concepts")' = Final(w[x], "concepts")
              /\ Final(w[x], "edges")' = Final(w[x], "edges")
          BY <2>1, SameFinal
        <4> QED
          BY <2>1, <4>1, <4>2 DEF Confirming, Ids
      <3> QED
        BY <2>1, <3>1 DEF Confirmations, Calm
    <2> QED
      BY <2>2, <2>3, <2>4
  <1> QED
    BY <1>1, <1>2, <1>3, <1>4 DEF Next

\* A calm confirmation of all suggestions loses no concept that the last calm suggestion has read
\* and found mentioned, and every edge it writes leads to a concept it writes, whatever else is
\* captured, indexed and exported meanwhile (curate.suggest, curate.confirm_folder).
THEOREM ConfirmationsKeep == Spec => []ConfirmedStay
  <1>1. CurationInv => ConfirmedStay
    BY DEF CurationInv
  <1> QED
    BY <1>1, CurationInit, CurationNext, PTL DEF Spec

-----------------------------------------------------------------------------
(* capture_file *)

\* What a file is named by a digest for, it has: only the write door names files so.
DigestNames ==
    /\ \A f \in InitialFolders : \A p \in DOMAIN f : p.tag # None => f[p] = p.tag
    /\ \A s \in Saves : s.path.tag # None => s.doc = s.path.tag

TagsTrue == \A p \in DOMAIN folder : p.tag # None => folder[p] = p.tag

Admissions == \A x \in Workers : Calm(x, "capture") => Capturing(w[x])

\* The calls there are.
LEMMA BeginsWhat ==
  ASSUME Shapes, NEW x \in Workers, Work(x), w[x] = Idle
  PROVE  \/ /\ w'[x].job = "capture" /\ w'[x].at \in {"copy", "stub"}
            /\ w'[x].at = "stub" => Here(w'[x].row)
            /\ w'[x].at = "copy" /\ w'[x].row.path \in DOMAIN folder =>
                   folder[w'[x].row.path] = w'[x].row.sha \/ w'[x].row.path.tag = w'[x].row.sha
         \/ /\ w'[x].job \in {"folder", "index"} /\ w'[x].at = "next"
            /\ w'[x].job = "folder" => w'[x].todo = Listing
         \/ w'[x].job \in Desks
  <1>1. ~Moves(x)
    BY DEF Moves
  <1>2. CASE Door(x)
    <2>1. \/ \E e \in External, answer \in Ladder : CaptureFile(x, Outside(e), answer)
          \/ \E path \in DOMAIN folder, answer \in Ladder : CaptureFile(x, Inside(path), answer)
          \/ CaptureFolder(x) \/ IndexFolder(x)
      BY <1>1, <1>2, NextFileKind, CopyKind, StubKind, AdmittedKind, IndexBeginKind, IndexFileKind,
         IndexRowsKind, EndsKind DEF Door, Ends
    <2> QED
      BY <2>1, CaptureFileKind, IndexerBeginKind
  <1>3. CASE Desk(x)
    BY <1>1, <1>3, DeskBeginKind, ReadsKind, SuggestWriteKind, ConfirmWriteKind, MaterializeWriteKind,
       EndsKind DEF Desk, Ends
  <1> QED
    BY <1>1, <1>2, <1>3, TableKind, CrashKind DEF Work

\* Of the steps of a worker only the copy changes the folder.
LEMMA FolderByCopy ==
  ASSUME Shapes, NEW x \in Workers, Work(x)
  PROVE  folder' = folder \/ Copy(x)
  <1>1. CASE w[x] = Idle
    BY <1>1, IdleBegins DEF Begins
  <1>2. CASE w[x] # Idle
    <2>1. ASSUME SuggestRead(x) \/ ConfirmRead(x) \/ MaterializeRead(x) PROVE folder' = folder
      BY <2>1 DEF SuggestRead, ConfirmRead, MaterializeRead, ReadNext, Read
    <2>2. ASSUME TableSkip(x) \/ TableOpen(x) \/ TableWrite(x) \/ Crash(x) PROVE folder' = folder
      BY <2>2 DEF TableSkip, TableOpen, TableWrite, Crash
    <2>3. ASSUME SuggestWrite(x) \/ ConfirmWrite(x) \/ MaterializeWrite(x) PROVE folder' = folder
      BY <2>3 DEF SuggestWrite, ConfirmWrite, MaterializeWrite
    <2> QED
      BY <1>2, <2>1, <2>2, <2>3, WorkSteps, NextFileKind, StubKind, AdmittedKind, IndexBeginKind,
         IndexFileKind, IndexRowsKind, EndsKind
  <1> QED
    BY <1>1, <1>2

LEMMA TagsInit == ASSUME DigestNames PROVE Init => TagsTrue
  BY DEF DigestNames, Init, TagsTrue

LEMMA TagsNext == ASSUME DigestNames, Shapes, TagsTrue, [Next]_vars PROVE TagsTrue'
  <1>1. ASSUME NEW x \in Workers, Copy(x) PROVE TagsTrue'
    <2>1. /\ w[x].row.path.tag \in {None, w[x].row.sha}
          /\ folder' = [p \in DOMAIN folder \union {w[x].row.path} |->
                           IF p \in DOMAIN folder THEN folder[p] ELSE w[x].row.sha]
      BY <1>1, CopyKind, AtFile
    <2> QED
      BY <2>1 DEF TagsTrue
  <1>2. ASSUME folder' = folder PROVE TagsTrue'
    BY <1>2 DEF TagsTrue
  <1>3. ASSUME NEW s \in Saves, Edit(SaveFile(s.path, s.doc)) PROVE TagsTrue'
    <2>1. folder' = [p \in DOMAIN folder \union {s.path} |-> IF p = s.path THEN s.doc ELSE folder[p]]
      BY <1>3 DEF Edit, SaveFile
    <2> QED
      BY <2>1 DEF DigestNames, TagsTrue
  <1>4. ASSUME NEW p \in Paths, Edit(RemoveFile(p)) PROVE TagsTrue'
    <2>1. folder' = [q \in DOMAIN folder \ {p} |-> folder[q]]
      BY <1>4 DEF Edit, RemoveFile
    <2> QED
      BY <2>1 DEF TagsTrue
  <1>5. ASSUME NEW c \in Additions, Edit(AddConcept(c)) PROVE folder' = folder
    BY <1>5 DEF Edit, AddConcept
  <1> QED
    BY <1>1, <1>2, <1>3, <1>4, <1>5, FolderByCopy, StillFacts DEF Next

\* One whose files and tables are as they were.
LEMMA CapturingStill ==
  ASSUME NEW x, Capturing(w[x]), w'[x] = w[x], folder' = folder,
         \A t \in {"registry", "sources"} : store'[t] = store[t]
  PROVE  Capturing(w[x])'
  <1>1. \A t \in {"registry", "sources"} : Final(w[x], t)' = Final(w[x], t)
    BY SameFinal
  <1>2. Here(w[x].row)' = Here(w[x].row) /\ Here(w[x].keep)' = Here(w[x].keep)
        /\ Here(w[x].keep.row)' = Here(w[x].keep.row)
    BY DEF Here
  <1> QED
    BY <1>1, <1>2 DEF Capturing, Phase

\* One that writes its tables.
LEMMA CapturingLater ==
  ASSUME NEW x, Capturing(w[x]), folder' = folder, w'[x].at \notin {"copy", "stub", "next", "index"},
         Phase(w'[x]) = Phase(w[x]), w'[x].keep = w[x].keep,
         \A t \in {"registry", "sources"} : Final(w[x], t)' = Final(w[x], t)
  PROVE  Capturing(w[x])'
  <1>1. Here(w[x].keep)' = Here(w[x].keep) /\ Here(w[x].keep.row)' = Here(w[x].keep.row)
    BY DEF Here
  <1> QED
    BY <1>1 DEF Capturing, Phase

LEMMA AdmissionsWork ==
  ASSUME Shapes, Apart, TagsTrue, Admissions, NEW z \in Workers, Work(z), NEW x \in Workers
  PROVE  Calm(x, "capture")' => Capturing(w[x])'
  <1> SUFFICES ASSUME Calm(x, "capture")' PROVE Capturing(w[x])'
    OBVIOUS
  <1>1. w'[x] # Idle /\ w'[x].calm /\ w'[x].job = "capture" /\ Kind(z)
        /\ {"registry", "sources"} \subseteq Tables \ Targets
    BY WorkKind DEF Calm, Tables, Targets
  <1>2. CASE x # z
    <2>1. w[x] # Idle /\ w'[x] = w[x]
      BY <1>1, <1>2, Foreign
    <2>2. folder' = folder /\ \A t \in Tables \ Targets : store'[t] = store[t]
      BY <1>1, <1>2, <2>1, Foreign
    <2>3. Capturing(w[x])
      BY <1>1, <2>1 DEF Admissions, Calm
    <2> QED
      BY <1>1, <2>1, <2>2, <2>3, CapturingStill
  <1>3. CASE x = z /\ w[x] = Idle
    <2>1. /\ w'[x].at \in {"copy", "stub"} /\ folder' = folder
          /\ w'[x].at = "stub" => Here(w'[x].row)
          /\ w'[x].at = "copy" /\ w'[x].row.path \in DOMAIN folder =>
                folder[w'[x].row.path] = w'[x].row.sha \/ w'[x].row.path.tag = w'[x].row.sha
      BY <1>1, <1>3, BeginsWhat, IdleBegins DEF Begins, Desks
    <2>2. w'[x].row.sha # None
      BY <1>1, <1>3, <2>1, NoneAssumption DEF Kind, Shape
    <2>3. w'[x].at = "copy" /\ w'[x].row.path \in DOMAIN folder => folder[w'[x].row.path] = w'[x].row.sha
      BY <2>1, <2>2 DEF TagsTrue
    <2> QED
      BY <2>1, <2>3 DEF Capturing, Here, Phase
  <1>4. CASE x = z /\ w[x] # Idle
    <2>1. Moves(x)
      BY <1>1, <1>4 DEF Kind, Begins
    <2>2. Calm(x, "capture") /\ Capturing(w[x])
      BY <1>1, <1>4, <2>1, CalmBefore DEF Calm, Admissions
    <2>3. CASE TableSkip(x) \/ TableOpen(x) \/ TableWrite(x)
      <3>1. /\ Phase(w'[x]) = Phase(w[x]) /\ w'[x].keep = w[x].keep /\ folder' = folder
            /\ \A t \in {"registry", "sources"} : Final(w[x], t)' = Final(w[x], t)
            /\ w'[x].at \notin {"copy", "stub", "next", "index"}
        BY <1>1, <2>3, TableMove
      <3> QED
        BY <2>2, <3>1, CapturingLater
    <2>4. CASE Crash(x) \/ Ends(x)
      BY <1>1, <2>4, CrashKind, EndsKind
    <2>5. CASE Copy(x)
      <3>1. /\ w[x].at = "copy" /\ w'[x].at = "stub" /\ w'[x].row = w[x].row
            /\ folder' = [p \in DOMAIN folder \union {w[x].row.path} |->
                             IF p \in DOMAIN folder THEN folder[p] ELSE w[x].row.sha]
        BY <2>5, CopyKind
      <3>2. w[x].row.sha \notin Unreadable
        BY <3>1, AtFile
      <3>3. Here(w[x].row)'
        BY <2>2, <3>1, <3>2 DEF Capturing, Here
      <3> QED
        BY <3>1, <3>3 DEF Capturing, Phase
    <2>6. CASE WriteStub(x)
      <3> DEFINE a == Write("registry", w[x].rows \union {w[x].row})
      <3>1. /\ w'[x].at = "open" /\ Phase(w'[x]) = "admitted" /\ w'[x].keep.row = w[x].row
            /\ w[x].at = "stub" /\ folder' = folder
            /\ a \in Queued(w'[x]) /\ Out(w'[x].out, w'[x].job)
        BY <2>6, StubKind
      <3>2. a.table = "registry" /\ w[x].row \in a.rows
        BY WrittenRow
      <3> HIDE DEF a
      <3>3. w[x].row \in Final(w[x], "registry")'
        BY <3>1, <3>2, FinalQueued
      <3>4. Here(w[x].row)
        BY <2>2, <3>1 DEF Capturing
      <3>5. Here(w[x].keep.row)' /\ w'[x].keep.row \in Final(w[x], "registry")'
        BY <3>1, <3>3, <3>4 DEF Here
      <3> QED
        BY <3>1, <3>5 DEF Capturing
    <2>7. CASE Admitted(x)
      <3>1. /\ w[x].at = "admitted" /\ w'[x].at = "next" /\ w'[x].row = w[x].keep.row
            /\ store' = store /\ folder' = folder
        BY <2>2, <2>7, AdmittedKind DEF Calm
      <3>2. Here(w[x].keep.row) /\ w[x].keep.row \in store["registry"]
        BY <2>2, <3>1 DEF Capturing, Phase, Final, Queued
      <3> QED
        BY <3>1, <3>2 DEF Capturing, Phase, Here
    <2>8. CASE IndexBegin(x)
      <3>1. /\ w[x].at = "next" /\ w'[x].at = "index" /\ w'[x].row = w[x].row /\ w'[x].todo = Listing
            /\ store' = store /\ folder' = folder
        BY <2>8, IndexBeginKind
      <3>2. Here(w[x].row) /\ w[x].row \in store["registry"]
        BY <2>2, <3>1 DEF Capturing
      <3>3. w[x].row.path \in Range(Listing)
        BY <3>2, ListingFacts DEF Here, Shapes
      <3> QED
        BY <3>1, <3>2, <3>3 DEF Capturing, Phase, Here
    <2>9. CASE IndexFile(x)
      <3> DEFINE path == Head(w[x].todo)
      <3>1. /\ w[x].at = "index" /\ w[x].todo # <<>> /\ w'[x].at = "index"
            /\ w'[x].row = w[x].row /\ w'[x].todo = Tail(w[x].todo)
            /\ w'[x].got = IF path \in DOMAIN folder /\ folder[path] \notin Unreadable
                           THEN w[x].got \union {Got(path, folder[path])} ELSE w[x].got
            /\ store' = store /\ folder' = folder
        BY <2>9, IndexFileKind
      <3>2. Here(w[x].row) /\ w[x].row \in store["registry"]
        BY <2>2, <3>1 DEF Capturing
      <3>3. Range(w[x].todo) = {path} \union Range(Tail(w[x].todo))
        BY <3>1, AtIndex, TailRange
      <3>4. Got(path, folder[path]).path = path
        BY DEF Got
      <3>5. w[x].row.path \in Range(w'[x].todo) \/ \E g \in w'[x].got : g.path = w[x].row.path
        <4>1. w[x].row.path \in Range(w[x].todo) \/ \E g \in w[x].got : g.path = w[x].row.path
          BY <2>2, <3>1 DEF Capturing
        <4> HIDE DEF path
        <4>2. w[x].got \subseteq w'[x].got
          BY <3>1
        <4>3. w[x].row.path = path => Got(path, folder[path]) \in w'[x].got
          BY <3>1, <3>2 DEF Here
        <4> QED
          BY <3>1, <3>3, <3>4, <4>1, <4>2, <4>3
      <3> QED
        BY <3>1, <3>2, <3>5 DEF Capturing, Phase, Here
    <2>10. CASE IndexRows(x)
      <3> DEFINE a == Write("sources", SourceRows(w[x].got))
      <3>1. /\ Phase(w'[x]) = "end" /\ w'[x].at = "open" /\ w[x].at = "index" /\ w[x].todo = <<>>
            /\ store' = store /\ folder' = folder /\ w'[x].keep = w[x].row
            /\ a \in Queued(w'[x]) /\ Out(w'[x].out, w'[x].job)
        BY <2>10, IndexRowsKind
      <3>2. \A b \in Queued(w'[x]) : b.table # "registry"
        BY <2>10, IndexRowsKind, WrittenRow
      <3>3. a.table = "sources" /\ a.rows = SourceRows(w[x].got)
        BY WrittenRow
      <3>4. Here(w[x].row) /\ w[x].row \in store["registry"]
        BY <2>2, <3>1 DEF Capturing
      <3>5. \E s \in a.rows : s.path = w[x].row.path
        <4>1. PICK g \in w[x].got : g.path = w[x].row.path
          BY <2>2, <3>1, EmptyRange DEF Capturing
        <4>2. [urn |-> g.urn, path |-> g.path, canonical |-> g.canonical] \in SourceRows(w[x].got)
          BY DEF SourceRows
        <4> HIDE DEF a
        <4> QED
          BY <3>3, <4>1, <4>2
      <3> HIDE DEF a
      <3>6. Final(w[x], "sources")' = a.rows
        BY <3>1, <3>3, FinalQueued
      <3>7. Final(w[x], "registry")' = store["registry"]
        BY <3>1, <3>2 DEF Final, Queued
      <3>8. /\ Here(w[x].keep)' /\ w'[x].keep \in Final(w[x], "registry")'
            /\ \E s \in Final(w[x], "sources")' : s.path = w'[x].keep.path
        BY <3>1, <3>4, <3>5, <3>6, <3>7 DEF Here
      <3> QED
        BY <3>1, <3>8 DEF Capturing
    <2> QED
      BY <1>4, <2>2, <2>3, <2>4, <2>5, <2>6, <2>7, <2>8, <2>9, <2>10, WorkSteps DEF Captures, Indexers, Calm
  <1> QED
    BY <1>2, <1>3, <1>4

AdmittedInv == Shapes /\ Apart /\ TagsTrue /\ Admissions /\ AdmittedKept

LEMMA AdmittedInit == ASSUME DigestNames PROVE Init => AdmittedInv
  <1> SUFFICES ASSUME Init PROVE AdmittedInv
    OBVIOUS
  <1>1. Admissions /\ AdmittedKept
    BY DEF Init, Admissions, Calm, AdmittedKept
  <1> QED
    BY <1>1, ShapesInit, TagsInit DEF AdmittedInv

LEMMA AdmittedNext == ASSUME DigestNames PROVE AdmittedInv /\ [Next]_vars => AdmittedInv'
  <1> SUFFICES ASSUME AdmittedInv, [Next]_vars PROVE AdmittedInv'
    OBVIOUS
  <1> USE DEF AdmittedInv
  <1>1. Shapes' /\ Apart' /\ TagsTrue'
    BY ShapesNext, TagsNext
  <1>2. ASSUME NEW z \in Workers, Work(z) PROVE Admissions' /\ AdmittedKept'
    <2>1. Admissions'
      BY <1>2, AdmissionsWork DEF Admissions
    <2>2. CASE done' = None
      BY <2>1, <2>2 DEF AdmittedKept
    <2>3. CASE Ends(z) /\ ~Calm(z, "capture")
      <3>1. done' = w[z] /\ w[z].at = "end"
        BY <2>3, EndsKind
      <3>2. w[z] # Idle
        BY <3>1 DEF Idle
      <3> QED
        BY <2>1, <2>3, <3>1, <3>2 DEF AdmittedKept, Calm
    <2>4. CASE Ends(z) /\ Calm(z, "capture")
      <3>1. done' = w[z] /\ w[z].at = "end" /\ store' = store /\ folder' = folder
        BY <2>4, EndsKind
      <3>2. Capturing(w[z])
        BY <1>2, <2>4 DEF Admissions
      <3>3. Kept(w[z].keep)
        BY <3>1, <3>2, FinalAtEnd DEF Capturing, Kept, Here
      <3> QED
        BY <2>1, <3>1, <3>3 DEF AdmittedKept, Kept
    <2> QED
      BY <1>2, <2>2, <2>3, <2>4, DoneByEnd
  <1>3. ASSUME \/ \E s \in Saves : Edit(SaveFile(s.path, s.doc))
               \/ \E p \in Paths : Edit(RemoveFile(p))
               \/ \E c \in Additions : Edit(AddConcept(c))
        PROVE  Admissions' /\ AdmittedKept'
    <2>1. /\ done' = None
          /\ \A x \in Workers : /\ w'[x] # Idle => w'[x].job = w[x].job
                                /\ w'[x] # Idle /\ w'[x].calm => w[x].job = "materialize"
      BY <1>3, EditFacts
    <2> QED
      BY <2>1 DEF Admissions, AdmittedKept, Calm
  <1>4. ASSUME UNCHANGED vars PROVE Admissions' /\ AdmittedKept'
    <2>1. w' = w /\ store' = store /\ folder' = folder /\ done' = done
      BY <1>4, StillFacts
    <2>2. Admissions'
      <3>1. ASSUME NEW x \in Workers, Calm(x, "capture") PROVE Capturing(w[x])'
        BY <2>1, <3>1, CapturingStill DEF Admissions
      <3> QED
        BY <2>1, <3>1 DEF Admissions, Calm
    <2>3. AdmittedKept'
      BY <2>1 DEF AdmittedKept, Kept
    <2> QED
      BY <2>2, <2>3
  <1> QED
    BY <1>1, <1>2, <1>3, <1>4 DEF Next

\* What a calm capture has admitted is registered, lies in the folder with the bytes it was
\* admitted for, and was indexed there, whoever curates or exports meanwhile, if files that are
\* named by a digest have it (write.capture_file).
THEOREM AdmissionsKept == ASSUME DigestNames PROVE Spec => []AdmittedKept
  <1>1. Init => AdmittedInv
    BY AdmittedInit
  <1>2. AdmittedInv /\ [Next]_vars => AdmittedInv'
    BY AdmittedNext
  <1>3. AdmittedInv => AdmittedKept
    BY DEF AdmittedInv
  <1> QED
    BY <1>1, <1>2, <1>3, PTL DEF Spec

-----------------------------------------------------------------------------
(* capture_folder *)

Coverings == \A x \in Workers : Calm(x, "folder") => Covering(w[x])

\* A file that is not admitted has its bytes in the registry.
LEMMA DecidedBytes ==
  ASSUME FallbacksOwn, Shapes, NEW rows, Sound(rows), NEW path \in DOMAIN folder,
         NEW answer, AdmittedUrn(rows, Inside(path), answer) = None
  PROVE  SameBytes(rows, folder[path])
  <1>1. /\ Inside(path).doc = folder[path] /\ folder[path] \in Documents /\ path \in Paths
        /\ Inside(path).path = path
    BY InsideFacts DEF Inside, Source
  <1>2. Minted(path, folder[path]) # None /\ Fallback(folder[path]) # None
    BY <1>1, NoneAssumption DEF Minted
  <1>3. CaptureUrn(Inside(path), answer) # None
    BY <1>1, <1>2 DEF CaptureUrn
  <1>4. \A r \in rows : r.urn = Fallback(folder[path]) => r.sha = folder[path]
    BY <1>1 DEF Sound, Own
  <1> QED
    BY <1>1, <1>2, <1>3, <1>4 DEF AdmittedUrn, SameBytes

LEMMA DecidesStill ==
  ASSUME folder' = folder
  PROVE  /\ \A rows, todo : Decides(rows, todo)' <=> Decides(rows, todo)
         /\ Indexed' = Indexed
  BY DEF Decides, SameBytes, Indexed

\* One that writes its tables.
LEMMA CoveringLater ==
  ASSUME NEW x, Covering(w[x]), folder' = folder, w'[x].at \notin {"stub", "next", "index"},
         Phase(w'[x]) = Phase(w[x]), w'[x].keep = w[x].keep,
         \A t \in {"registry", "claims", "sources", "definitions"} : Final(w[x], t)' = Final(w[x], t)
  PROVE  Covering(w[x])'
  <1>1. Indexed' = Indexed
    BY DecidesStill
  <1>2. Phase(w[x]) = "admitted" => Decides(Final(w[x], "registry"), w[x].keep.todo)'
    BY DEF Covering, Decides, SameBytes
  <1>3. Phase(w[x]) = "end" => Decides(Final(w[x], "registry"), <<>>)'
    BY DEF Covering, Decides, SameBytes
  <1>4. Phase(w[x]) = "end" =>
           /\ (Final(w[x], "claims") = ClaimRows(Indexed))'
           /\ (Final(w[x], "sources") = SourceRows(Indexed))'
           /\ (Final(w[x], "definitions") = DefinitionRows(Indexed))'
    BY <1>1 DEF Covering, ClaimRows, SourceRows, DefinitionRows
  <1> QED
    BY <1>2, <1>3, <1>4 DEF Covering, Phase

LEMMA CoveringStill ==
  ASSUME NEW x, Covering(w[x]), w'[x] = w[x], folder' = folder,
         \A t \in {"registry", "claims", "sources", "definitions"} : store'[t] = store[t]
  PROVE  Covering(w[x])'
  <1>1. /\ Final(w[x], "registry")' = Final(w[x], "registry")
        /\ Final(w[x], "claims")' = Final(w[x], "claims")
        /\ Final(w[x], "sources")' = Final(w[x], "sources")
        /\ Final(w[x], "definitions")' = Final(w[x], "definitions")
    BY SameFinal
  <1>2. Indexed' = Indexed
    BY DecidesStill
  <1>3. /\ Phase(w[x]) = "end" => Decides(Final(w[x], "registry"), <<>>)'
        /\ Phase(w[x]) = "admitted" => Decides(Final(w[x], "registry"), w[x].keep.todo)'
        /\ w[x].at = "stub" => Decides(w[x].rows \union {w[x].row}, w[x].todo)'
        /\ w[x].at = "next" => Decides(store["registry"], w[x].todo)'
        /\ w[x].at = "index" => Decides(store["registry"], <<>>)'
    BY <1>1 DEF Covering, Decides, SameBytes
  <1>4. Phase(w[x]) = "end" =>
           /\ (Final(w[x], "claims") = ClaimRows(Indexed))'
           /\ (Final(w[x], "sources") = SourceRows(Indexed))'
           /\ (Final(w[x], "definitions") = DefinitionRows(Indexed))'
    BY <1>1, <1>2 DEF Covering, ClaimRows, SourceRows, DefinitionRows
  <1> QED
    BY <1>2, <1>3, <1>4 DEF Covering, Phase

LEMMA CoveringsWork ==
  ASSUME FallbacksOwn, Shapes, Apart, Sound(store["registry"]), Coverings,
         NEW z \in Workers, Work(z), NEW x \in Workers
  PROVE  Calm(x, "folder")' => Covering(w[x])'
  <1> SUFFICES ASSUME Calm(x, "folder")' PROVE Covering(w[x])'
    OBVIOUS
  <1>1. w'[x] # Idle /\ w'[x].calm /\ w'[x].job = "folder" /\ Kind(z)
        /\ {"registry", "claims", "sources", "definitions"} \subseteq Tables \ Targets
    BY WorkKind DEF Calm, Tables, Targets
  <1>2. CASE x # z
    <2>1. w[x] # Idle /\ w'[x] = w[x]
      BY <1>1, <1>2, Foreign
    <2>2. folder' = folder /\ \A t \in Tables \ Targets : store'[t] = store[t]
      BY <1>1, <1>2, <2>1, Foreign
    <2>3. Covering(w[x])
      BY <1>1, <2>1 DEF Coverings, Calm
    <2> QED
      BY <1>1, <2>1, <2>2, <2>3, CoveringStill
  <1>3. CASE x = z /\ w[x] = Idle
    <2>1. /\ w'[x].at = "next" /\ w'[x].todo = Listing /\ folder' = folder
      BY <1>1, <1>3, BeginsWhat, IdleBegins DEF Begins, Desks
    <2>2. Decides(store["registry"], w[x].todo)'
      BY <2>1, ListingFacts DEF Decides, Shapes
    <2> QED
      BY <2>1, <2>2 DEF Covering, Phase
  <1>4. CASE x = z /\ w[x] # Idle
    <2>1. Moves(x)
      BY <1>1, <1>4 DEF Kind, Begins
    <2>2. Calm(x, "folder") /\ Covering(w[x])
      BY <1>1, <1>4, <2>1, CalmBefore DEF Calm, Coverings
    <2>3. CASE TableSkip(x) \/ TableOpen(x) \/ TableWrite(x)
      <3>1. /\ Phase(w'[x]) = Phase(w[x]) /\ w'[x].keep = w[x].keep /\ folder' = folder
            /\ \A t \in {"registry", "claims", "sources", "definitions"} :
                  Final(w[x], t)' = Final(w[x], t)
            /\ w'[x].at \notin {"stub", "next", "index"}
        BY <1>1, <2>3, TableMove
      <3> QED
        BY <2>2, <3>1, CoveringLater
    <2>4. CASE Crash(x) \/ Ends(x)
      BY <1>1, <2>4, CrashKind, EndsKind
    <2>5. ASSUME NEW answer \in Ladder, NextFile(x, answer) PROVE Covering(w[x])'
      <3> DEFINE path == Head(w[x].todo)
                 urn == AdmittedUrn(store["registry"], Inside(path), answer)
                 rest == Tail(w[x].todo)
      <3>1. /\ w[x].at = "next" /\ w[x].todo # <<>> /\ store' = store /\ folder' = folder
            /\ path \in DOMAIN folder
            /\ \/ w'[x].at = "next" /\ w'[x].todo = rest /\ urn = None
               \/ /\ w'[x].at = "stub" /\ w'[x].todo = rest /\ w'[x].rows = store["registry"]
                  /\ w'[x].row.sha = folder[path]
        BY <1>1, <2>5, NextFileKind
      <3>2. Range(w[x].todo) = {path} \union Range(rest)
        BY <3>1, AtNext, TailRange DEF Todo
      <3>3. \A p \in DOMAIN folder : p = path \/ p \in Range(rest) \/ SameBytes(store["registry"], folder[p])
        BY <2>2, <3>1, <3>2 DEF Covering, Decides
      <3>4. urn = None => SameBytes(store["registry"], folder[path])
        BY <3>1, DecidedBytes
      <3> HIDE DEF path, urn, rest
      <3>5. CASE w'[x].at = "next"
        <4>1. Decides(store["registry"], rest)
          BY <3>1, <3>3, <3>4, <3>5 DEF Decides
        <4>2. Decides(store["registry"], w[x].todo)'
          BY <3>1, <3>5, <4>1 DEF Decides, SameBytes
        <4> QED
          BY <3>5, <4>2 DEF Covering, Phase
      <3>6. CASE w'[x].at = "stub"
        <4>1. Decides(w'[x].rows \union {w'[x].row}, rest)
          BY <3>1, <3>3, <3>6 DEF Decides, SameBytes
        <4>2. Decides(w[x].rows \union {w[x].row}, w[x].todo)'
          BY <3>1, <3>6, <4>1 DEF Decides, SameBytes
        <4> QED
          BY <3>6, <4>2 DEF Covering, Phase
      <3> QED
        BY <3>1, <3>5, <3>6
    <2>6. CASE WriteStub(x)
      <3> DEFINE a == Write("registry", w[x].rows \union {w[x].row})
      <3>1. /\ w'[x].at = "open" /\ Phase(w'[x]) = "admitted" /\ w'[x].keep.todo = w[x].todo
            /\ w[x].at = "stub" /\ folder' = folder
            /\ a \in Queued(w'[x]) /\ Out(w'[x].out, w'[x].job)
        BY <2>6, StubKind
      <3>2. a.table = "registry" /\ Decides(a.rows, w[x].todo)
        BY <2>2, <3>1, WrittenRow DEF Covering
      <3> HIDE DEF a
      <3>3. Final(w[x], "registry")' = a.rows
        BY <3>1, <3>2, FinalQueued
      <3>4. Decides(Final(w[x], "registry"), w[x].keep.todo)'
        BY <3>1, <3>2, <3>3 DEF Decides, SameBytes
      <3> QED
        BY <3>1, <3>4 DEF Covering
    <2>7. CASE Admitted(x)
      <3>1. /\ w[x].at = "admitted" /\ w'[x].at = "next" /\ w'[x].todo = w[x].keep.todo
            /\ store' = store /\ folder' = folder
        BY <2>7, AdmittedKind
      <3>2. Decides(store["registry"], w[x].keep.todo)
        BY <2>2, <3>1 DEF Covering, Phase, Final, Queued
      <3>3. Decides(store["registry"], w[x].todo)'
        BY <3>1, <3>2 DEF Decides, SameBytes
      <3> QED
        BY <3>1, <3>3 DEF Covering, Phase
    <2>8. CASE IndexBegin(x)
      <3>1. /\ w[x].at = "next" /\ w[x].todo = <<>> /\ w'[x].at = "index" /\ w'[x].todo = Listing
            /\ w'[x].got = {} /\ store' = store /\ folder' = folder
        BY <2>8, IndexBeginKind
      <3>2. Decides(store["registry"], <<>>)
        BY <2>2, <3>1 DEF Covering
      <3>3. Decides(store["registry"], <<>>)'
        BY <3>1, <3>2 DEF Decides, SameBytes
      <3>4. \A p \in DOMAIN folder : p \in Range(Listing)
        BY ListingFacts DEF Shapes
      <3> QED
        BY <3>1, <3>3, <3>4 DEF Covering, Phase
    <2>9. CASE IndexFile(x)
      <3> DEFINE path == Head(w[x].todo)
                 rest == Tail(w[x].todo)
      <3>1. /\ w[x].at = "index" /\ w[x].todo # <<>> /\ w'[x].at = "index" /\ w'[x].todo = rest
            /\ w'[x].got = IF path \in DOMAIN folder /\ folder[path] \notin Unreadable
                           THEN w[x].got \union {Got(path, folder[path])} ELSE w[x].got
            /\ store' = store /\ folder' = folder
        BY <2>9, IndexFileKind
      <3>2. Range(w[x].todo) = {path} \union Range(rest)
        BY <3>1, AtIndex, TailRange
      <3>3. /\ Decides(store["registry"], <<>>) /\ w[x].got \subseteq Indexed
            /\ \A p \in DOMAIN folder :
                  folder[p] \in Unreadable \/ p \in Range(w[x].todo) \/ Got(p, folder[p]) \in w[x].got
        BY <2>2, <3>1 DEF Covering
      <3> HIDE DEF path, rest
      <3>4. w'[x].got \subseteq Indexed
        BY <3>1, <3>3 DEF Indexed
      <3>5. \A p \in DOMAIN folder :
                folder[p] \in Unreadable \/ p \in Range(rest) \/ Got(p, folder[p]) \in w'[x].got
        BY <3>1, <3>2, <3>3
      <3>6. Decides(store["registry"], <<>>)' /\ Indexed' = Indexed
        BY <3>1, <3>3, DecidesStill DEF Decides, SameBytes
      <3> QED
        BY <3>1, <3>4, <3>5, <3>6 DEF Covering, Phase
    <2>10. CASE IndexRows(x)
      <3> DEFINE got == w[x].got
                 a == Write("claims", ClaimRows(got))
                 b == Write("sources", SourceRows(got))
                 c == Write("definitions", DefinitionRows(got))
      <3>1. /\ Phase(w'[x]) = "end" /\ w'[x].at = "open" /\ w[x].at = "index" /\ w[x].todo = <<>>
            /\ store' = store /\ folder' = folder
            /\ Queued(w'[x]) = {a, b, c} /\ Out(w'[x].out, w'[x].job)
        BY <2>10, IndexRowsKind
      <3>2. /\ a.table = "claims" /\ b.table = "sources" /\ c.table = "definitions"
            /\ a.rows = ClaimRows(got) /\ b.rows = SourceRows(got) /\ c.rows = DefinitionRows(got)
        BY WrittenRow
      <3>3. /\ Decides(store["registry"], <<>>) /\ got \subseteq Indexed
            /\ \A p \in DOMAIN folder : folder[p] \in Unreadable \/ Got(p, folder[p]) \in got
        BY <2>2, <3>1, EmptyRange DEF Covering
      <3>4. got = Indexed
        <4> HIDE DEF got
        <4> QED
          BY <3>3 DEF Indexed
      <3>5. Indexed' = Indexed /\ Decides(store["registry"], <<>>)'
        BY <3>1, <3>3, DecidesStill DEF Decides, SameBytes
      <3> HIDE DEF a, b, c, got
      <3>6. /\ Final(w[x], "claims")' = a.rows /\ Final(w[x], "sources")' = b.rows
            /\ Final(w[x], "definitions")' = c.rows
        BY <3>1, <3>2, FinalQueued
      <3>7. Final(w[x], "registry")' = store["registry"]
        BY <3>1, <3>2 DEF Final, Queued
      <3>8. /\ (Final(w[x], "claims") = ClaimRows(Indexed))'
            /\ (Final(w[x], "sources") = SourceRows(Indexed))'
            /\ (Final(w[x], "definitions") = DefinitionRows(Indexed))'
        BY <3>2, <3>4, <3>5, <3>6 DEF ClaimRows, SourceRows, DefinitionRows
      <3>9. Decides(Final(w[x], "registry"), <<>>)'
        BY <3>1, <3>5, <3>7 DEF Decides, SameBytes
      <3> QED
        BY <3>1, <3>8, <3>9 DEF Covering
    <2> QED
      BY <1>4, <2>2, <2>3, <2>4, <2>5, <2>6, <2>7, <2>8, <2>9, <2>10, WorkSteps DEF Captures, Indexers, Calm
  <1> QED
    BY <1>2, <1>3, <1>4

CoverInv == RegistryInv /\ Shapes /\ Apart /\ Coverings /\ FolderCovered

LEMMA CoverInit == ASSUME FallbacksOwn PROVE Init => CoverInv
  <1> SUFFICES ASSUME Init PROVE CoverInv
    OBVIOUS
  <1>1. Coverings /\ FolderCovered
    BY DEF Init, Coverings, Calm, FolderCovered
  <1> QED
    BY <1>1, ShapesInit, RegistryInit DEF CoverInv

LEMMA CoverNext == ASSUME FallbacksOwn PROVE CoverInv /\ [Next]_vars => CoverInv'
  <1> SUFFICES ASSUME CoverInv, [Next]_vars PROVE CoverInv'
    OBVIOUS
  <1> USE DEF CoverInv
  <1>1. RegistryInv' /\ Shapes' /\ Apart'
    BY ShapesNext, RegistryNext
  <1>2. ASSUME NEW z \in Workers, Work(z) PROVE Coverings' /\ FolderCovered'
    <2>1. Coverings'
      BY <1>2, CoveringsWork DEF Coverings, RegistryInv
    <2>2. CASE done' = None
      BY <2>1, <2>2 DEF FolderCovered
    <2>3. CASE Ends(z) /\ ~Calm(z, "folder")
      <3>1. done' = w[z] /\ w[z].at = "end"
        BY <2>3, EndsKind
      <3>2. w[z] # Idle
        BY <3>1 DEF Idle
      <3> QED
        BY <2>1, <2>3, <3>1, <3>2 DEF FolderCovered, Calm
    <2>4. CASE Ends(z) /\ Calm(z, "folder")
      <3>1. done' = w[z] /\ w[z].at = "end" /\ store' = store /\ folder' = folder
        BY <2>4, EndsKind
      <3>2. Covering(w[z])
        BY <1>2, <2>4 DEF Coverings
      <3>3. /\ Decides(store["registry"], <<>>) /\ IndexCurrent
        BY <3>1, <3>2, FinalAtEnd DEF Covering, IndexCurrent
      <3>4. \A p \in DOMAIN folder : SameBytes(store["registry"], folder[p])
        BY <3>3, EmptyRange DEF Decides
      <3>5. IndexCurrent'
        BY <3>1, <3>3 DEF IndexCurrent, Indexed, ClaimRows, SourceRows, DefinitionRows
      <3> QED
        BY <2>1, <3>1, <3>4, <3>5 DEF FolderCovered, SameBytes
    <2> QED
      BY <1>2, <2>2, <2>3, <2>4, DoneByEnd
  <1>3. ASSUME \/ \E s \in Saves : Edit(SaveFile(s.path, s.doc))
               \/ \E p \in Paths : Edit(RemoveFile(p))
               \/ \E c \in Additions : Edit(AddConcept(c))
        PROVE  Coverings' /\ FolderCovered'
    <2>1. /\ done' = None
          /\ \A x \in Workers : /\ w'[x] # Idle => w'[x].job = w[x].job
                                /\ w'[x] # Idle /\ w'[x].calm => w[x].job = "materialize"
      BY <1>3, EditFacts
    <2> QED
      BY <2>1 DEF Coverings, FolderCovered, Calm
  <1>4. ASSUME UNCHANGED vars PROVE Coverings' /\ FolderCovered'
    <2>1. w' = w /\ store' = store /\ folder' = folder /\ done' = done
      BY <1>4, StillFacts
    <2>2. Coverings'
      <3>1. ASSUME NEW x \in Workers, Calm(x, "folder") PROVE Covering(w[x])'
        BY <2>1, <3>1, CoveringStill DEF Coverings
      <3> QED
        BY <2>1, <3>1 DEF Coverings, Calm
    <2>3. FolderCovered'
      BY <2>1 DEF FolderCovered, SameBytes, IndexCurrent, Indexed, ClaimRows, SourceRows, DefinitionRows
    <2> QED
      BY <2>2, <2>3
  <1> QED
    BY <1>1, <1>2, <1>3, <1>4 DEF Next

\* After a calm run over the folder every file in it has its bytes registered, and the index
\* holds what an index of these files reads and nothing else, whoever curates or exports
\* meanwhile, if nobody but the write door gives a urn of its own fallback form
\* (write.capture_folder, index.index_folder).
THEOREM FolderIsCovered == ASSUME FallbacksOwn PROVE Spec => []FolderCovered
  <1>1. Init => CoverInv
    BY CoverInit
  <1>2. CoverInv /\ [Next]_vars => CoverInv'
    BY CoverNext
  <1>3. CoverInv => FolderCovered
    BY DEF CoverInv
  <1> QED
    BY <1>1, <1>2, <1>3, PTL DEF Spec
=============================================================================
