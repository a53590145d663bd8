--------------------------- MODULE EventLogProofs ---------------------------
(***************************************************************************)
(* The event log never forks: proofs about EventLog for any number of      *)
(* writers, readers, objects, payloads, lines and faults.                  *)
(***************************************************************************)
EXTENDS EventLog, FoldTheorems, SequenceTheorems

Quiet(w) == pc[w] \in {"open", "writing"}
InFlight(w) == pc[w] \in {"midline", "lastbyte"}

(***************************************************************************)
(* The inductive invariant.  HistoryValid alone is not inductive: that the *)
(* next line fits needs what the handle remembers, which needs the lock.   *)
(***************************************************************************)
LockInv == \A w \in Writers : Holding(w) <=> lock = w

LinesInv ==
    \A n \in 1..Len(lines) :
        (\A i \in 1..n : lines[i] # Torn) => Extends(lines, n - 1, lines[n])

TailInv ==
    Whole(lines) /\ tail # << >> /\ tail[1] # Torn =>
        Extends(lines, Len(lines), tail[1])

HolderInv ==
    \A w \in Writers :
        /\ Quiet(w) /\ Whole(Contents) =>
              events[w] = lines \/ (tail # << >> /\ events[w] = Contents)
        /\ InFlight(w) /\ ~glued /\ Whole(lines) => events[w] = lines

PendingInv ==
    \A w \in Writers :
        /\ pc[w] \in {"writing", "midline", "lastbyte"} =>
              /\ pending[w] \in Event
              /\ Extends(events[w], Len(events[w]), pending[w])
        /\ pc[w] = "midline" => tail = <<Torn>>
        /\ pc[w] = "lastbyte" => tail = IF glued THEN <<Torn>> ELSE <<pending[w]>>

IInv == TypeOK /\ LockInv /\ LinesInv /\ TailInv /\ HolderInv /\ PendingInv

----------------------------------------------------------------------------
(* Facts about records and sequences.                                      *)

\* A torn piece is no event: its position is 0.
LEMMA TornNoEvent == Torn \notin Event /\ Torn \in Line /\ Event \subseteq Line
  BY DEF Torn, Event, Line

\* Reading a prefix does not see what was appended after it.
LEMMA ExtendsStable ==
  ASSUME NEW S, NEW s \in Seq(S), NEW t \in Seq(S), NEW n \in 0..Len(s), NEW e,
         Len(s) <= Len(t), \A i \in 1..Len(s) : t[i] = s[i]
  PROVE  Extends(t, n, e) <=> Extends(s, n, e)
  <1>1. \A i \in 1..n : t[i] = s[i]
    OBVIOUS
  <1>2. ASSUME NEW i \in 1..n
        PROVE  (\A j \in (i+1)..n : t[j].object # e.object)
                 <=> (\A j \in (i+1)..n : s[j].object # e.object)
    <2>1. \A j \in (i+1)..n : t[j] = s[j]
      BY <1>1
    <2> QED
      BY <2>1
  <1>3. LatestIn(t, n, e.object, e.prior) <=> LatestIn(s, n, e.object, e.prior)
    <2>1. (\A i \in 1..n : t[i].object # e.object) <=> (\A i \in 1..n : s[i].object # e.object)
      BY <1>1
    <2>2. \A i \in 1..n : /\ t[i].object = e.object <=> s[i].object = e.object
                          /\ t[i].new = e.prior <=> s[i].new = e.prior
      BY <1>1
    <2> QED
      BY <1>2, <2>1, <2>2 DEF LatestIn
  <1> QED
    BY <1>3 DEF Extends

LEMMA OneOrNone ==
  ASSUME NEW S, NEW t \in Seq(S), Len(t) <= 1, t # << >>
  PROVE  Len(t) = 1
  <1>1. Len(t) \in Nat \ {0}
    BY EmptySeq
  <1> QED
    BY <1>1

\* The bytes a reader gets, line by line.
LEMMA ContentsFacts ==
  ASSUME TypeOK
  PROVE  /\ Contents \in Seq(Line)
         /\ Len(Contents) = Len(lines) + Len(tail)
         /\ \A i \in 1..Len(lines) : Contents[i] = lines[i]
         /\ tail # << >> => Len(tail) = 1 /\ Contents[Len(lines) + 1] = tail[1]
  <1> USE DEF TypeOK, Contents
  <1>1. lines \in Seq(Line) /\ tail \in Seq(Line) /\ (tail # << >> => Len(tail) = 1)
    BY OneOrNone
  <1>2. /\ Contents \in Seq(Line)
        /\ Len(Contents) = Len(lines) + Len(tail)
        /\ \A i \in 1..(Len(lines) + Len(tail)) :
              Contents[i] = IF i <= Len(lines) THEN lines[i] ELSE tail[i - Len(lines)]
    BY <1>1, ConcatProperties
  <1> QED
    BY <1>1, <1>2

\* What validates holds no torn piece, and so only events.
LEMMA ValidContents ==
  ASSUME TypeOK, Valid(Contents)
  PROVE  Whole(Contents) /\ Contents \in Seq(Event) /\ Whole(lines)
  <1>1. \A i \in 1..Len(Contents) : Contents[i].seq = i
    BY ContentsFacts DEF Valid, Extends
  <1>2. Whole(Contents)
    BY <1>1, ContentsFacts DEF Whole, Torn
  <1>3. Contents \in Seq(Event)
    BY <1>2, ContentsFacts DEF Whole, Line
  <1>4. Whole(lines)
    BY <1>2, ContentsFacts DEF Whole, TypeOK
  <1> QED
    BY <1>2, <1>3, <1>4

\* Whole(Contents) spelled out.
LEMMA WholeContents ==
  ASSUME TypeOK
  PROVE  Whole(Contents) <=> Whole(lines) /\ (tail # << >> => tail[1] # Torn)
  <1>1. CASE tail = << >>
    <2>1. Contents = lines
      BY <1>1, ConcatEmptySeq DEF TypeOK, Contents
    <2> QED
      BY <1>1, <2>1
  <1>2. CASE tail # << >>
    <2>1. Len(lines) \in Nat
      BY DEF TypeOK
    <2>2. /\ Len(Contents) = Len(lines) + 1
          /\ \A i \in 1..Len(lines) : Contents[i] = lines[i]
          /\ Contents[Len(lines) + 1] = tail[1]
      BY <1>2, ContentsFacts
    <2>3. \A i \in 1..(Len(lines) + 1) : i \in 1..Len(lines) \/ i = Len(lines) + 1
      BY <2>1
    <2> QED
      BY <1>2, <2>1, <2>2, <2>3 DEF Whole
  <1> QED
    BY <1>1, <1>2

----------------------------------------------------------------------------
(* Type correctness.                                                       *)

LEMMA TypeInit == Init => TypeOK
  <1> SUFFICES ASSUME Init PROVE TypeOK
    OBVIOUS
  <1> USE DEF Init
  <1>1. lines \in Seq(Line) /\ tail \in Seq(Line) /\ Len(tail) <= 1
    BY EmptySeq
  <1>2. glued \in BOOLEAN /\ lock \in Writers \union {NoOne} /\ acked \subseteq Event
    OBVIOUS
  <1>3. events \in [Writers -> Seq(Event)] /\ fed \in [Readers -> Seq(Event)]
    BY EmptySeq
  <1>4. todo \in [Writers -> 0..MaxBatch] /\ faults \in 0..MaxFaults
    BY BoundAssumption
  <1>5. pending \in [Writers -> Line]
    BY TornNoEvent
  <1> QED
    BY <1>1, <1>2, <1>3, <1>4, <1>5 DEF TypeOK

LEMMA TypeStep ==
  ASSUME TypeOK, PendingInv, [Next]_vars
  PROVE  TypeOK'
  <1> USE BoundAssumption, TornNoEvent DEF TypeOK, disk
  <1>1. ASSUME NEW w \in Writers, Request(w) PROVE TypeOK'
    BY <1>1 DEF Request
  <1>2. ASSUME NEW w \in Writers, Acquire(w) PROVE TypeOK'
    BY <1>2 DEF Acquire
  <1>3. ASSUME NEW w \in Writers, Load(w) PROVE TypeOK'
    BY <1>3, ValidContents DEF Load
  <1>4. ASSUME NEW w \in Writers, LoadFail(w) PROVE TypeOK'
    BY <1>4 DEF LoadFail
  <1>5. ASSUME NEW w \in Writers, AppendBegin(w) PROVE TypeOK'
    <2> USE <1>5 DEF AppendBegin
    <2>1. pending' \in [Writers -> Line]
      <3>1. PICK o \in Objects, p \in Payloads, d \in Digest :
              pending' = [pending EXCEPT ![w] =
                [seq |-> Len(events[w]) + 1, object |-> o, prior |-> d, new |-> p]]
        OBVIOUS
      <3>2. Len(events[w]) + 1 \in Nat \ {0}
        OBVIOUS
      <3> QED
        BY <3>1, <3>2 DEF Event, Line
    <2>2. todo' \in [Writers -> 0..MaxBatch]
      OBVIOUS
    <2> QED
      BY <2>1, <2>2
  <1>6. ASSUME NEW w \in Writers, WriteSome(w) PROVE TypeOK'
    BY <1>6 DEF WriteSome
  <1>7. ASSUME NEW w \in Writers, WriteRest(w) PROVE TypeOK'
    BY <1>7 DEF WriteRest
  <1>8. ASSUME NEW w \in Writers, AppendEnd(w) PROVE TypeOK'
    <2> USE <1>8 DEF AppendEnd
    <2>1. pending[w] \in Event /\ tail # << >>
      <3>1. pending[w] \in Event /\ (tail = <<Torn>> \/ tail = <<pending[w]>>)
        BY DEF PendingInv
      <3>2. <<Torn>> # << >> /\ <<pending[w]>> # << >>
        OBVIOUS
      <3> QED
        BY <3>1, <3>2
    <2>2. tail[1] \in Line
      BY <2>1, ContentsFacts, ElementOfSeq
    <2>3. lines' \in Seq(Line) /\ tail' \in Seq(Line) /\ Len(tail') <= 1
      BY <2>2, EmptySeq
    <2>4. events' \in [Writers -> Seq(Event)] /\ acked' \subseteq Event
      BY <2>1
    <2>5. pending' \in [Writers -> Line]
      OBVIOUS
    <2> QED
      BY <2>3, <2>4, <2>5
  <1>9. ASSUME NEW w \in Writers, Close(w) PROVE TypeOK'
    BY <1>9 DEF Close
  <1>10. ASSUME NEW w \in Writers, AppendError(w) PROVE TypeOK'
    <2> USE <1>10 DEF AppendError
    <2>1. faults' \in 0..MaxFaults
      OBVIOUS
    <2>2. pending' \in [Writers -> Line]
      OBVIOUS
    <2> QED
      BY <2>1, <2>2
  <1>11. ASSUME NEW w \in Writers, Crash(w) PROVE TypeOK'
    <2> USE <1>11 DEF Crash
    <2>1. faults' \in 0..MaxFaults
      OBVIOUS
    <2>2. glued' \in BOOLEAN
      OBVIOUS
    <2>3. lock' \in Writers \union {NoOne}
      OBVIOUS
    <2>4. pending' \in [Writers -> Line] /\ todo' \in [Writers -> 0..MaxBatch]
      OBVIOUS
    <2>5. events' \in [Writers -> Seq(Event)]
      BY EmptySeq
    <2> QED
      BY <2>1, <2>2, <2>3, <2>4, <2>5
  <1>12. ASSUME NEW r \in Readers, ChangesSince(r) PROVE TypeOK'
    <2>1. Contents \in Seq(Event)
      BY <1>12, ValidContents DEF ChangesSince
    <2>2. fed' \in [Readers -> Seq(Event)]
      BY <1>12, <2>1 DEF ChangesSince
    <2> QED
      BY <1>12, <2>2 DEF ChangesSince
  <1>13. CASE UNCHANGED vars
    BY <1>13 DEF vars
  <1> QED
    BY <1>1, <1>2, <1>3, <1>4, <1>5, <1>6, <1>7, <1>8, <1>9, <1>10, <1>11, <1>12,
       <1>13 DEF Next, Session

----------------------------------------------------------------------------
(* The lock.                                                               *)

LEMMA LockStep ==
  ASSUME TypeOK, LockInv, [Next]_vars
  PROVE  LockInv'
  <1> USE WriterAssumption DEF TypeOK, LockInv, Holding, disk
  <1>1. ASSUME NEW w \in Writers, Request(w) PROVE LockInv'
    BY <1>1 DEF Request
  <1>2. ASSUME NEW w \in Writers, Acquire(w) PROVE LockInv'
    BY <1>2 DEF Acquire
  <1>3. ASSUME NEW w \in Writers, Load(w) PROVE LockInv'
    BY <1>3 DEF Load
  <1>4. ASSUME NEW w \in Writers, LoadFail(w) PROVE LockInv'
    BY <1>4 DEF LoadFail
  <1>5. ASSUME NEW w \in Writers, AppendBegin(w) PROVE LockInv'
    BY <1>5 DEF AppendBegin
  <1>6. ASSUME NEW w \in Writers, WriteSome(w) PROVE LockInv'
    BY <1>6 DEF WriteSome
  <1>7. ASSUME NEW w \in Writers, WriteRest(w) PROVE LockInv'
    BY <1>7 DEF WriteRest
  <1>8. ASSUME NEW w \in Writers, AppendEnd(w) PROVE LockInv'
    BY <1>8 DEF AppendEnd
  <1>9. ASSUME NEW w \in Writers, Close(w) PROVE LockInv'
    BY <1>9 DEF Close
  <1>10. ASSUME NEW w \in Writers, AppendError(w) PROVE LockInv'
    BY <1>10 DEF AppendError
  <1>11. ASSUME NEW w \in Writers, Crash(w) PROVE LockInv'
    BY <1>11 DEF Crash
  <1>12. ASSUME NEW r \in Readers, ChangesSince(r) PROVE LockInv'
    BY <1>12 DEF ChangesSince
  <1>13. CASE UNCHANGED vars
    BY <1>13 DEF vars
  <1> QED
    BY <1>1, <1>2, <1>3, <1>4, <1>5, <1>6, <1>7, <1>8, <1>9, <1>10, <1>11, <1>12,
       <1>13 DEF Next, Session

\* Nobody but the lock's holder is appending.
LEMMA Alone ==
  ASSUME LockInv, NEW w \in Writers, Holding(w), NEW v \in Writers, v # w
  PROVE  ~Quiet(v) /\ ~InFlight(v) /\ pc[v] \notin {"writing", "midline", "lastbyte"}
  BY DEF LockInv, Holding, Quiet, InFlight

----------------------------------------------------------------------------
(* The file.                                                               *)

LEMMA AppendedLine ==
  ASSUME TypeOK, LinesInv, TailInv, tail # << >>
  PROVE  LET grown == Append(lines, tail[1])
         IN  \A n \in 1..Len(grown) :
                (\A i \in 1..n : grown[i] # Torn) => Extends(grown, n - 1, grown[n])
  <1> DEFINE grown == Append(lines, tail[1])
  <1>1. lines \in Seq(Line) /\ tail[1] \in Line
    BY ContentsFacts, ElementOfSeq DEF TypeOK
  <1>2. /\ grown \in Seq(Line) /\ Len(grown) = Len(lines) + 1 /\ Len(lines) \in Nat
        /\ \A i \in 1..Len(lines) : grown[i] = lines[i]
        /\ grown[Len(lines) + 1] = tail[1]
    BY <1>1
  <1> HIDE DEF grown
  <1>3. \A n \in 0..Len(lines) : \A e : Extends(grown, n, e) <=> Extends(lines, n, e)
    BY <1>1, <1>2, ExtendsStable
  <1>4. SUFFICES ASSUME NEW n \in 1..Len(grown), \A i \in 1..n : grown[i] # Torn
                 PROVE  Extends(grown, n - 1, grown[n])
    BY DEF grown
  <1>5. CASE n \in 1..Len(lines)
    <2>1. \A i \in 1..n : lines[i] # Torn
      BY <1>2, <1>4, <1>5
    <2>2. Extends(lines, n - 1, lines[n])
      BY <2>1, <1>5 DEF LinesInv
    <2> QED
      BY <2>2, <1>2, <1>3, <1>5
  <1>6. CASE n = Len(lines) + 1
    <2>1. Whole(lines) /\ tail[1] # Torn
      BY <1>2, <1>4, <1>6 DEF Whole
    <2>2. Extends(lines, Len(lines), tail[1])
      BY <2>1 DEF TailInv
    <2> QED
      BY <2>2, <1>2, <1>3, <1>6
  <1> QED
    BY <1>2, <1>5, <1>6

LEMMA LinesStep ==
  ASSUME TypeOK, LinesInv, TailInv, PendingInv, [Next]_vars
  PROVE  LinesInv'
  <1>1. ASSUME NEW w \in Writers, AppendEnd(w) PROVE LinesInv'
    <2>1. tail # << >> /\ lines' = Append(lines, tail[1])
      BY <1>1, EmptySeq DEF AppendEnd, PendingInv
    <2> QED
      BY <2>1, AppendedLine DEF LinesInv
  <1>2. CASE UNCHANGED lines
    BY <1>2 DEF LinesInv
  <1> QED
    BY <1>1, <1>2 DEF Next, Session, vars, disk, Request, Acquire, Load, LoadFail,
       AppendBegin, WriteSome, WriteRest, Close, AppendError, Crash, ChangesSince

LEMMA TailStep ==
  ASSUME TypeOK, TailInv, HolderInv, PendingInv, [Next]_vars
  PROVE  TailInv'
  <1>1. ASSUME NEW w \in Writers, WriteSome(w) PROVE TailInv'
    BY <1>1 DEF WriteSome, TailInv
  <1>2. ASSUME NEW w \in Writers, WriteRest(w) PROVE TailInv'
    <2>1. CASE glued
      BY <1>2, <2>1 DEF WriteRest, TailInv
    <2>2. CASE ~glued /\ Whole(lines)
      <3>1. events[w] = lines
        BY <1>2, <2>2 DEF HolderInv, InFlight, WriteRest
      <3>2. Extends(lines, Len(lines), pending[w])
        BY <1>2, <3>1 DEF PendingInv, WriteRest
      <3>3. lines' = lines /\ tail' = <<pending[w]>>
        BY <1>2, <2>2 DEF WriteRest
      <3> QED
        BY <3>2, <3>3 DEF TailInv
    <2>3. CASE ~Whole(lines)
      BY <1>2, <2>3 DEF WriteRest, TailInv
    <2> QED
      BY <2>1, <2>2, <2>3
  <1>3. ASSUME NEW w \in Writers, AppendEnd(w) PROVE TailInv'
    BY <1>3 DEF AppendEnd, TailInv
  <1>4. CASE UNCHANGED <<lines, tail>>
    BY <1>4 DEF TailInv
  <1> QED
    BY <1>1, <1>2, <1>3, <1>4 DEF Next, Session, vars, disk, Request, Acquire, Load,
       LoadFail, AppendBegin, Close, AppendError, Crash, ChangesSince

----------------------------------------------------------------------------
(* The handle.                                                             *)

LEMMA HolderStep ==
  ASSUME TypeOK, LockInv, HolderInv, PendingInv, [Next]_vars
  PROVE  HolderInv'
  <1> USE DEF Quiet, InFlight
  <1>1. ASSUME NEW w \in Writers, Load(w) PROVE HolderInv'
    <2>1. /\ lines' = lines /\ tail' = tail /\ Contents' = Contents /\ glued' = glued
          /\ \A v \in Writers : v # w => pc'[v] = pc[v] /\ events'[v] = events[v]
          /\ pc'[w] = "open" /\ events'[w] = Contents
      BY <1>1 DEF Load, disk, Contents, TypeOK
    <2>2. tail = << >> => Contents = lines
      BY ConcatEmptySeq DEF TypeOK, Contents
    <2> QED
      BY <2>1, <2>2 DEF HolderInv, Whole
  <1>2. ASSUME NEW w \in Writers, WriteSome(w) PROVE HolderInv'
    <2>1. Holding(w) /\ Quiet(w)
      BY <1>2 DEF WriteSome, Holding
    <2>2. /\ lines' = lines /\ events' = events /\ glued' = (tail # << >>)
          /\ \A v \in Writers : v # w => pc'[v] = pc[v]
          /\ pc'[w] = "midline"
      BY <1>2 DEF WriteSome, TypeOK
    <2>3. ~glued' /\ Whole(lines) => events[w] = lines
      BY <2>1, <2>2, WholeContents DEF HolderInv
    <2> QED
      BY <2>1, <2>2, <2>3, Alone DEF HolderInv, Whole
  <1>3. ASSUME NEW w \in Writers, WriteRest(w) PROVE HolderInv'
    <2>1. Holding(w) /\ InFlight(w)
      BY <1>3 DEF WriteRest, Holding
    <2>2. /\ lines' = lines /\ events' = events /\ glued' = glued
          /\ \A v \in Writers : v # w => pc'[v] = pc[v]
          /\ pc'[w] = "lastbyte"
      BY <1>3 DEF WriteRest, TypeOK
    <2> QED
      BY <2>1, <2>2, Alone DEF HolderInv, Whole
  <1>4. ASSUME NEW w \in Writers, AppendEnd(w) PROVE HolderInv'
    <2>1. Holding(w) /\ InFlight(w) /\ pc[w] = "lastbyte"
      BY <1>4 DEF AppendEnd, Holding
    <2>2. tail = (IF glued THEN <<Torn>> ELSE <<pending[w]>>)
      BY <2>1 DEF PendingInv
    <2>3. /\ lines' = Append(lines, tail[1]) /\ tail' = << >>
          /\ \A v \in Writers : v # w => pc'[v] = pc[v]
          /\ pc'[w] = "open" /\ events'[w] = Append(events[w], pending[w])
      BY <1>4 DEF AppendEnd, TypeOK
    <2>4. ASSUME Whole(lines') PROVE events'[w] = lines'
      <3>1. Whole(lines) /\ tail[1] # Torn
        <4>1. lines \in Seq(Line) /\ tail[1] \in Line
          BY <2>2, ContentsFacts, ElementOfSeq, EmptySeq DEF TypeOK
        <4> QED
          BY <2>3, <2>4, <4>1 DEF Whole
      <3>2. ~glued
        BY <2>2, <3>1
      <3>3. events[w] = lines /\ tail[1] = pending[w]
        BY <2>1, <2>2, <3>1, <3>2 DEF HolderInv
      <3> QED
        BY <2>3, <3>3
    <2>5. \A v \in Writers : v # w => ~Quiet(v)' /\ ~InFlight(v)'
      BY <2>1, <2>3, Alone
    <2>6. Contents' = lines'
      <3>1. lines' \in Seq(Line)
        BY <2>2, <2>3, ContentsFacts, ElementOfSeq, EmptySeq DEF TypeOK
      <3> QED
        BY <2>3, <3>1, ConcatEmptySeq DEF Contents
    <2> QED
      BY <2>3, <2>4, <2>5, <2>6 DEF HolderInv, Whole
  <1>5. ASSUME NEW w \in Writers, AppendError(w) PROVE HolderInv'
    <2>1. Holding(w)
      BY <1>5 DEF AppendError, Holding
    <2>2. /\ lines' = lines /\ tail' = tail /\ events' = events /\ Contents' = Contents
          /\ \A v \in Writers : v # w => pc'[v] = pc[v]
          /\ pc'[w] = "open"
      BY <1>5 DEF AppendError, TypeOK, Contents
    <2>3. Whole(Contents) =>
            events[w] = lines \/ (tail # << >> /\ events[w] = Contents)
      <3>1. CASE pc[w] = "writing"
        BY <3>1 DEF HolderInv
      <3>2. CASE pc[w] \in {"midline", "lastbyte"}
        <4>1. tail = <<Torn>> \/ (~glued /\ tail = <<pending[w]>>)
              \/ (~glued /\ tail = <<Torn>>)
          BY <3>2 DEF PendingInv
        <4>2. tail = <<Torn>> => ~Whole(Contents)
          BY WholeContents
        <4> QED
          BY <3>2, <4>1, <4>2, WholeContents DEF HolderInv
      <3> QED
        BY <1>5, <3>1, <3>2 DEF AppendError
    <2> QED
      BY <2>1, <2>2, <2>3, Alone DEF HolderInv, Whole
  <1>6. ASSUME NEW w \in Writers, Crash(w) PROVE HolderInv'
    <2>1. /\ lines' = lines /\ tail' = tail /\ Contents' = Contents
          /\ \A v \in Writers : v # w => pc'[v] = pc[v] /\ events'[v] = events[v]
          /\ pc'[w] = "idle"
      BY <1>6 DEF Crash, TypeOK, Contents
    <2>2. CASE Holding(w)
      BY <2>1, <2>2, Alone DEF HolderInv, Whole
    <2>3. CASE ~Holding(w)
      <3>1. glued' = glued
        BY <1>6, <2>3 DEF Crash
      <3> QED
        BY <2>1, <3>1 DEF HolderInv, Whole
    <2> QED
      BY <2>2, <2>3
  <1>7. ASSUME NEW w \in Writers,
               \/ Request(w) \/ Acquire(w) \/ LoadFail(w) \/ AppendBegin(w) \/ Close(w)
        PROVE  HolderInv'
    <2>1. /\ lines' = lines /\ tail' = tail /\ Contents' = Contents /\ glued' = glued
          /\ \A v \in Writers : v # w => pc'[v] = pc[v] /\ events'[v] = events[v]
          /\ \/ pc[w] = "open" /\ pc'[w] = "writing" /\ events'[w] = events[w]
             \/ pc'[w] \in {"idle", "waiting", "loading"}
      BY <1>7 DEF Request, Acquire, LoadFail, AppendBegin, Close, disk, Contents, TypeOK
    <2> QED
      BY <2>1 DEF HolderInv, Whole
  <1>8. CASE UNCHANGED <<disk, pc, events>>
    BY <1>8 DEF disk, HolderInv, Contents, Whole
  <1> QED
    BY <1>1, <1>2, <1>3, <1>4, <1>5, <1>6, <1>7, <1>8
    DEF Next, Session, vars, disk, ChangesSince

LEMMA PendingStep ==
  ASSUME TypeOK, LockInv, PendingInv, [Next]_vars
  PROVE  PendingInv'
  <1>1. ASSUME NEW w \in Writers, AppendBegin(w) PROVE PendingInv'
    <2>1. PICK o \in Objects, p \in Payloads, d \in Digest :
            /\ LatestIn(events[w], Len(events[w]), o, d)
            /\ pending' = [pending EXCEPT ![w] =
                [seq |-> Len(events[w]) + 1, object |-> o, prior |-> d, new |-> p]]
      BY <1>1 DEF AppendBegin
    <2>2. pending'[w] = [seq |-> Len(events[w]) + 1, object |-> o, prior |-> d, new |-> p]
      BY <2>1 DEF TypeOK
    <2>3. Len(events[w]) + 1 \in Nat \ {0}
      BY DEF TypeOK
    <2>4. pending'[w] \in Event
      BY <2>2, <2>3 DEF Event
    <2>5. Extends(events[w], Len(events[w]), pending'[w])
      BY <2>1, <2>2 DEF Extends
    <2>6. /\ events' = events /\ tail' = tail /\ glued' = glued
          /\ \A v \in Writers : v # w => pc'[v] = pc[v] /\ pending'[v] = pending[v]
          /\ pc'[w] = "writing"
      BY <1>1 DEF AppendBegin, disk, TypeOK
    <2> QED
      BY <2>4, <2>5, <2>6 DEF PendingInv
  <1>2. ASSUME NEW w \in Writers, WriteSome(w) \/ WriteRest(w) PROVE PendingInv'
    <2>1. Holding(w) /\ pc[w] \in {"writing", "midline"}
      BY <1>2 DEF WriteSome, WriteRest, Holding
    <2>2. /\ events' = events /\ pending' = pending
          /\ \A v \in Writers : v # w => pc'[v] = pc[v]
          /\ \/ pc'[w] = "midline" /\ tail' = <<Torn>>
             \/ /\ pc'[w] = "lastbyte" /\ glued' = glued
                /\ tail' = IF glued THEN <<Torn>> ELSE <<pending[w]>>
      BY <1>2 DEF WriteSome, WriteRest, TypeOK
    <2> QED
      BY <2>1, <2>2, Alone DEF PendingInv
  <1>3. ASSUME NEW w \in Writers, Holding(w), pc'[w] \in {"idle", "open"},
               \A v \in Writers : v # w => pc'[v] = pc[v]
        PROVE  PendingInv'
    BY <1>3, Alone DEF PendingInv
  <1>4. ASSUME NEW w \in Writers, AppendEnd(w) \/ AppendError(w) \/ Close(w) \/ LoadFail(w)
                                  \/ Load(w)
        PROVE  PendingInv'
    <2>1. /\ Holding(w) /\ pc'[w] \in {"idle", "open"}
          /\ \A v \in Writers : v # w => pc'[v] = pc[v]
      BY <1>4 DEF AppendEnd, AppendError, Close, LoadFail, Load, Holding, TypeOK
    <2> QED
      BY <2>1, <1>3
  <1>5. ASSUME NEW w \in Writers, Crash(w) PROVE PendingInv'
    <2>1. /\ tail' = tail /\ pc'[w] = "idle"
          /\ \A v \in Writers : v # w => /\ pc'[v] = pc[v] /\ events'[v] = events[v]
                                         /\ pending'[v] = pending[v]
          /\ ~Holding(w) => glued' = glued
      BY <1>5 DEF Crash, TypeOK
    <2>2. CASE Holding(w)
      BY <2>1, <2>2, <1>3
    <2>3. CASE ~Holding(w)
      BY <2>1, <2>3 DEF PendingInv
    <2> QED
      BY <2>2, <2>3
  <1>6. ASSUME NEW w \in Writers, Request(w) \/ Acquire(w) PROVE PendingInv'
    <2>1. /\ tail' = tail /\ glued' = glued /\ events' = events /\ pending' = pending
          /\ \A v \in Writers : v # w => pc'[v] = pc[v]
          /\ pc'[w] \in {"waiting", "loading"}
      BY <1>6 DEF Request, Acquire, disk, TypeOK
    <2> QED
      BY <2>1 DEF PendingInv
  <1>7. CASE UNCHANGED <<disk, pc, events, pending>>
    BY <1>7 DEF disk, PendingInv
  <1> QED
    BY <1>1, <1>2, <1>4, <1>5, <1>6, <1>7 DEF Next, Session, vars, disk, ChangesSince

----------------------------------------------------------------------------
(* The theorems.                                                           *)

LEMMA InitIInv == Init => IInv
  <1> SUFFICES ASSUME Init PROVE IInv
    OBVIOUS
  <1>1. TypeOK
    BY TypeInit
  <1>2. LockInv
    BY WriterAssumption DEF Init, LockInv, Holding
  <1>3. LinesInv /\ TailInv
    <2>1. Len(lines) = 0 /\ tail = << >>
      BY DEF Init
    <2> QED
      BY <2>1 DEF LinesInv, TailInv
  <1>4. HolderInv /\ PendingInv
    BY DEF Init, HolderInv, PendingInv, Quiet, InFlight
  <1> QED
    BY <1>1, <1>2, <1>3, <1>4 DEF IInv

LEMMA StepIInv == IInv /\ [Next]_vars => IInv'
  BY TypeStep, LockStep, LinesStep, TailStep, HolderStep, PendingStep DEF IInv

(***************************************************************************)
(* The invariant holds of every behaviour of the log.                      *)
(***************************************************************************)
THEOREM Inductive == Spec => []IInv
  BY InitIInv, StepIInv, PTL DEF Spec

(***************************************************************************)
(* Variables keep their types: in particular the position of an event, the *)
(* handle's memory and the one unterminated line stay what the code takes  *)
(* them for.                                                               *)
(***************************************************************************)
THEOREM TypeCorrect == Spec => []TypeOK
  <1>1. IInv => TypeOK
    BY DEF IInv
  <1> QED
    BY <1>1, Inductive, PTL

(***************************************************************************)
(* The journal is one digest chain up to its first torn line, for any      *)
(* number of writers: sessions serialise, they never fork the stream.      *)
(***************************************************************************)
THEOREM ChainNeverForks == Spec => []HistoryValid
  <1>1. ASSUME IInv PROVE HistoryValid
    <2> USE <1>1 DEF IInv
    <2>1. SUFFICES ASSUME NEW n \in 1..Len(Contents), \A i \in 1..n : Contents[i] # Torn
                   PROVE  Extends(Contents, n - 1, Contents[n])
      BY DEF HistoryValid
    <2>2. /\ lines \in Seq(Line) /\ Contents \in Seq(Line) /\ Len(lines) \in Nat
          /\ Len(lines) <= Len(Contents)
          /\ \A i \in 1..Len(lines) : Contents[i] = lines[i]
      BY ContentsFacts DEF TypeOK
    <2>3. \A m \in 0..Len(lines) : \A e :
              Extends(Contents, m, e) <=> Extends(lines, m, e)
      BY <2>2, ExtendsStable
    <2>4. CASE n \in 1..Len(lines)
      <3>1. \A i \in 1..n : lines[i] # Torn
        BY <2>1, <2>2, <2>4
      <3> QED
        BY <3>1, <2>2, <2>3, <2>4 DEF LinesInv
    <2>5. CASE n > Len(lines)
      <3>1. tail # << >> /\ n = Len(lines) + 1
        <4>1. tail = << >> => Len(Contents) = Len(lines)
          BY ContentsFacts
        <4>2. tail # << >> => Len(Contents) = Len(lines) + 1
          BY ContentsFacts
        <4> QED
          BY <2>1, <2>2, <2>5, <4>1, <4>2
      <3>2. Contents[n] = tail[1] /\ tail[1] # Torn
        BY <2>1, <3>1, ContentsFacts
      <3>3. Whole(lines)
        BY <2>1, <2>2, <3>1 DEF Whole
      <3>4. Extends(lines, Len(lines), tail[1])
        BY <3>1, <3>2, <3>3 DEF TailInv
      <3> QED
        BY <2>2, <2>3, <3>1, <3>2, <3>4
    <2> QED
      BY <2>1, <2>2, <2>4, <2>5
  <1> QED
    BY <1>1, Inductive, PTL

LEMMA PrefixOfItself ==
  ASSUME NEW S, NEW s \in Seq(S) PROVE IsPrefix(s, s)
  BY DEF IsPrefix

LEMMA PrefixOfConcat ==
  ASSUME NEW S, NEW s \in Seq(S), NEW t \in Seq(S) PROVE IsPrefix(s, s \o t)
  <1>1. /\ s \o t \in Seq(S) /\ Len(s) <= Len(s \o t) /\ Len(s) \in Nat
        /\ \A i \in 1..Len(s) : (s \o t)[i] = s[i]
    BY ConcatProperties
  <1>2. SubSeq(s, 1, Len(s)) = SubSeq(s \o t, 1, Len(s))
    BY <1>1
  <1> QED
    BY <1>1, <1>2 DEF IsPrefix

(***************************************************************************)
(* A handle that may append holds the lock and knows the whole file.       *)
(***************************************************************************)
THEOREM ViewNeverStale == Spec => []HolderCurrent
  <1>1. ASSUME IInv PROVE HolderCurrent
    <2> USE <1>1 DEF IInv
    <2>1. SUFFICES ASSUME NEW w \in Writers, pc[w] \in {"open", "writing"}, Whole(Contents)
                   PROVE  /\ lock = w
                          /\ IsPrefix(lines, events[w])
                          /\ IsPrefix(events[w], Contents)
      BY DEF HolderCurrent
    <2>2. lock = w
      BY <2>1 DEF LockInv, Holding
    <2>3. lines \in Seq(Line) /\ tail \in Seq(Line) /\ Contents \in Seq(Line)
      BY ContentsFacts DEF TypeOK
    <2>4. events[w] = lines \/ events[w] = Contents
      BY <2>1 DEF HolderInv, Quiet
    <2>5. IsPrefix(lines, lines) /\ IsPrefix(Contents, Contents)
      BY <2>3, PrefixOfItself
    <2>6. IsPrefix(lines, Contents)
      BY <2>3, PrefixOfConcat DEF Contents
    <2> QED
      BY <2>2, <2>4, <2>5, <2>6
  <1> QED
    BY <1>1, Inductive, PTL

----------------------------------------------------------------------------
(* What append answered, and what the feeds have handed out.               *)

\* An acknowledged event is among the complete lines, at its own position.
AckedInv == Whole(lines) => \A e \in acked : e.seq \in 1..Len(lines) /\ lines[e.seq] = e

\* The unterminated line is a torn piece and will stay one.
Doomed == tail = <<Torn>> /\ (glued \/ \A w \in Writers : ~InFlight(w))

\* A feed may be one event ahead of the complete lines: a reader takes a line that
\* lacks only its newline.  Then that line is completed as it is, or never.
FeedInv ==
    Whole(lines) => \A r \in Readers :
        \/ /\ Len(fed[r]) <= Len(lines)
           /\ \A i \in 1..Len(fed[r]) : fed[r][i] = lines[i]
        \/ /\ Len(fed[r]) = Len(lines) + 1 /\ tail # << >>
           /\ \A i \in 1..Len(lines) : fed[r][i] = lines[i]
           /\ fed[r][Len(lines) + 1] = tail[1] \/ Doomed

LEMMA AckedStep ==
  ASSUME IInv, AckedInv, [Next]_vars
  PROVE  AckedInv'
  <1>1. ASSUME NEW w \in Writers, AppendEnd(w) PROVE AckedInv'
    <2> SUFFICES ASSUME Whole(lines'), NEW e \in acked'
                 PROVE  e.seq \in 1..Len(lines') /\ lines'[e.seq] = e
      BY DEF AckedInv, Whole
    <2>1. /\ lines' = Append(lines, tail[1]) /\ acked' = acked \union {pending[w]}
          /\ pc[w] = "lastbyte"
      BY <1>1 DEF AppendEnd
    <2>2. tail = (IF glued THEN <<Torn>> ELSE <<pending[w]>>) /\ tail # << >>
      BY <2>1 DEF IInv, PendingInv
    <2>3. lines \in Seq(Line) /\ tail[1] \in Line
      BY <2>2, ContentsFacts, ElementOfSeq DEF IInv, TypeOK
    <2>4. /\ Len(lines') = Len(lines) + 1 /\ Len(lines) \in Nat
          /\ \A i \in 1..Len(lines) : lines'[i] = lines[i]
          /\ lines'[Len(lines) + 1] = tail[1]
      BY <2>1, <2>3
    <2>5. Whole(lines) /\ tail[1] # Torn
      BY <2>4 DEF Whole
    <2>6. CASE e \in acked
      BY <2>4, <2>5, <2>6 DEF AckedInv
    <2>7. CASE e = pending[w]
      <3>1. ~glued /\ tail[1] = pending[w]
        BY <2>2, <2>5
      <3>2. events[w] = lines
        BY <2>1, <2>5, <3>1 DEF IInv, HolderInv, InFlight
      <3>3. e.seq = Len(lines) + 1
        BY <2>1, <2>7, <3>2 DEF IInv, PendingInv, Extends
      <3> QED
        BY <2>4, <2>7, <3>1, <3>3
    <2> QED
      BY <2>1, <2>6, <2>7
  <1>2. CASE UNCHANGED <<lines, acked>>
    BY <1>2 DEF AckedInv, Whole
  <1> QED
    BY <1>1, <1>2 DEF Next, Session, vars, disk, Request, Acquire, Load, LoadFail,
       AppendBegin, WriteSome, WriteRest, Close, AppendError, Crash, ChangesSince

\* A prefix and what follows it make the whole.
LEMMA PrefixAndRest ==
  ASSUME NEW S, NEW s \in Seq(S), NEW t \in Seq(S), Len(s) <= Len(t),
         \A i \in 1..Len(s) : s[i] = t[i]
  PROVE  s \o SubSeq(t, Len(s) + 1, Len(t)) = t
  <1> DEFINE rest == SubSeq(t, Len(s) + 1, Len(t))
  <1>1. Len(s) \in Nat /\ Len(t) \in Nat
    OBVIOUS
  <1>2. \A i \in (Len(s) + 1)..Len(t) : t[i] \in S
    BY <1>1
  <1>3. /\ rest \in Seq(S) /\ Len(rest) = Len(t) - Len(s)
        /\ \A i \in 1..Len(rest) : rest[i] = t[Len(s) + i]
    BY <1>1, <1>2, SubSeqProperties
  <1> HIDE DEF rest
  <1>4. /\ s \o rest \in Seq(S) /\ Len(s \o rest) = Len(s) + Len(rest)
        /\ \A i \in 1..(Len(s) + Len(rest)) : (s \o rest)[i] =
              IF i <= Len(s) THEN s[i] ELSE rest[i - Len(s)]
    BY <1>3, ConcatProperties
  <1>5. Len(s \o rest) = Len(t)
    BY <1>1, <1>3, <1>4
  <1>6. ASSUME NEW i \in 1..Len(t) PROVE (s \o rest)[i] = t[i]
    <2>1. i \in 1..(Len(s) + Len(rest))
      BY <1>1, <1>3
    <2>2. CASE i <= Len(s)
      BY <1>1, <1>4, <2>1, <2>2
    <2>3. CASE ~(i <= Len(s))
      <3>1. i - Len(s) \in 1..Len(rest) /\ Len(s) + (i - Len(s)) = i
        BY <1>1, <1>3, <2>3
      <3>2. (s \o rest)[i] = rest[i - Len(s)]
        BY <1>4, <2>1, <2>3
      <3> QED
        BY <1>3, <3>1, <3>2
    <2> QED
      BY <2>2, <2>3
  <1>7. s \o rest = t
    BY <1>4, <1>5, <1>6, SeqEqual
  <1> QED
    BY <1>7 DEF rest

\* What a lock-free reader takes from a journal that validates.
LEMMA FedAll ==
  ASSUME IInv, FeedInv, NEW r \in Readers, ChangesSince(r)
  PROVE  fed' = [fed EXCEPT ![r] = Contents]
  <1> USE DEF IInv
  <1>1. Whole(lines) /\ Whole(Contents) /\ Contents \in Seq(Event)
    BY ValidContents DEF ChangesSince
  <1>2. fed[r] \in Seq(Event) /\ Len(fed[r]) <= Len(Contents)
    BY DEF TypeOK, ChangesSince
  <1>3. \A i \in 1..Len(fed[r]) : fed[r][i] = Contents[i]
    <2>1. ~Doomed
      BY <1>1, WholeContents DEF Doomed
    <2>2. Len(lines) \in Nat
      BY DEF TypeOK
    <2> QED
      BY <1>1, <1>2, <2>1, <2>2, ContentsFacts DEF FeedInv
  <1>4. fed[r] \o SubSeq(Contents, Len(fed[r]) + 1, Len(Contents)) = Contents
    BY <1>1, <1>2, <1>3, PrefixAndRest
  <1> QED
    BY <1>2, <1>4 DEF ChangesSince, TypeOK

LEMMA FeedStep ==
  ASSUME IInv, IInv', FeedInv, [Next]_vars
  PROVE  FeedInv'
  <1> USE DEF IInv
  <1> DEFINE Ahead(r) == /\ Len(fed[r]) = Len(lines) + 1 /\ tail # << >>
                         /\ \A i \in 1..Len(lines) : fed[r][i] = lines[i]
                         /\ fed[r][Len(lines) + 1] = tail[1] \/ Doomed
             Behind(r) == /\ Len(fed[r]) <= Len(lines)
                          /\ \A i \in 1..Len(fed[r]) : fed[r][i] = lines[i]
  <1>1. ASSUME NEW w \in Writers, AppendEnd(w) PROVE FeedInv'
    <2> SUFFICES ASSUME Whole(lines'), NEW r \in Readers PROVE Behind(r)'
      BY DEF FeedInv, Whole
    <2>1. /\ lines' = Append(lines, tail[1]) /\ fed' = fed /\ pc[w] = "lastbyte"
      BY <1>1 DEF AppendEnd
    <2>2. tail = (IF glued THEN <<Torn>> ELSE <<pending[w]>>) /\ tail # << >>
      BY <2>1 DEF PendingInv
    <2>3. lines \in Seq(Line) /\ tail[1] \in Line /\ fed[r] \in Seq(Event)
      BY <2>2, ContentsFacts, ElementOfSeq DEF TypeOK
    <2>4. /\ Len(lines') = Len(lines) + 1 /\ Len(lines) \in Nat /\ Len(fed[r]) \in Nat
          /\ \A i \in 1..Len(lines) : lines'[i] = lines[i]
          /\ lines'[Len(lines) + 1] = tail[1]
      BY <2>1, <2>3
    <2>5. Whole(lines) /\ tail[1] # Torn
      BY <2>4 DEF Whole
    <2>6. ~Doomed
      BY <2>5 DEF Doomed
    <2>7. Behind(r) \/ Ahead(r)
      BY <2>5 DEF FeedInv
    <2> QED
      BY <2>1, <2>4, <2>6, <2>7
  <1>2. ASSUME NEW r \in Readers, ChangesSince(r) PROVE FeedInv'
    <2> SUFFICES ASSUME Whole(lines), NEW q \in Readers PROVE Ahead(q)' \/ Behind(q)'
      BY <1>2 DEF FeedInv, Whole, ChangesSince, disk
    <2>1. lines' = lines /\ tail' = tail /\ fed' = [fed EXCEPT ![r] = Contents]
          /\ Doomed' = Doomed
      BY <1>2, FedAll DEF ChangesSince, disk, Doomed, InFlight
    <2>2. CASE q = r
      <3>1. fed'[q] = Contents
        BY <2>1, <2>2 DEF TypeOK
      <3>2. Len(lines) \in Nat
        BY DEF TypeOK
      <3>3. CASE tail = << >>
        <4>1. Len(Contents) = Len(lines)
          BY <3>3, <3>2, ContentsFacts
        <4> QED
          BY <2>1, <3>1, <3>2, <4>1, ContentsFacts
      <3>4. CASE tail # << >>
        <4>1. Len(Contents) = Len(lines) + 1
          BY <3>4, <3>2, ContentsFacts
        <4> QED
          BY <2>1, <3>1, <3>2, <3>4, <4>1, ContentsFacts
      <3> QED
        BY <3>3, <3>4
    <2>3. CASE q # r
      <3>1. fed'[q] = fed[q]
        BY <2>1, <2>3 DEF TypeOK
      <3> QED
        BY <2>1, <3>1 DEF FeedInv
    <2> QED
      BY <2>2, <2>3
  <1>3. ASSUME UNCHANGED <<lines, fed>>, tail # << >> => tail' # << >>,
               Whole(lines) /\ tail # << >> /\ Doomed => Doomed',
               Whole(lines) /\ tail # << >> => tail' = tail \/ Doomed' \/ tail = <<Torn>>
        PROVE  FeedInv'
    <2> SUFFICES ASSUME Whole(lines), NEW r \in Readers PROVE Ahead(r)' \/ Behind(r)'
      BY <1>3 DEF FeedInv, Whole
    <2>1. CASE Behind(r)
      BY <1>3, <2>1
    <2>2. CASE Ahead(r)
      <3>1. fed[r][Len(lines) + 1] # Torn
        BY <2>2, TornNoEvent DEF TypeOK
      <3> QED
        BY <1>3, <2>2, <3>1
    <2> QED
      BY <2>1, <2>2 DEF FeedInv
  <1>4. ASSUME NEW w \in Writers, WriteSome(w) PROVE FeedInv'
    <2>1. UNCHANGED <<lines, fed>> /\ tail' = <<Torn>> /\ (tail # << >> => glued')
      BY <1>4 DEF WriteSome
    <2>2. tail' # << >>
      BY <2>1
    <2> QED
      BY <1>3, <2>1, <2>2 DEF Doomed
  <1>5. ASSUME NEW w \in Writers, WriteRest(w) PROVE FeedInv'
    <2>1. /\ UNCHANGED <<lines, fed, glued>>
          /\ tail' = IF glued THEN <<Torn>> ELSE <<pending[w]>>
          /\ pc[w] = "midline"
      BY <1>5 DEF WriteRest
    <2>2. tail' # << >> /\ tail = <<Torn>>
      BY <2>1 DEF PendingInv
    <2>3. Doomed => Doomed'
      BY <2>1 DEF Doomed, InFlight
    <2> QED
      BY <1>3, <2>1, <2>2, <2>3
  <1>6. ASSUME NEW w \in Writers, UNCHANGED <<lines, tail, fed>>,
               \A v \in Writers : InFlight(v)' => InFlight(v),
               glued' = glued \/ \A v \in Writers : ~InFlight(v)'
        PROVE  FeedInv'
    BY <1>3, <1>6 DEF Doomed
  <1>7. ASSUME NEW w \in Writers, AppendError(w) \/ Crash(w) PROVE FeedInv'
    <2>1. /\ UNCHANGED <<lines, tail, fed>>
          /\ pc'[w] \in {"idle", "open"} /\ \A v \in Writers : v # w => pc'[v] = pc[v]
          /\ Holding(w) \/ glued' = glued
      BY <1>7 DEF AppendError, Crash, Holding, TypeOK
    <2>2. Holding(w) => \A v \in Writers : ~InFlight(v)'
      BY <2>1, Alone DEF InFlight
    <2> QED
      BY <1>6, <2>1, <2>2 DEF InFlight
  <1>8. ASSUME NEW w \in Writers,
               \/ Request(w) \/ Acquire(w) \/ Load(w) \/ LoadFail(w) \/ AppendBegin(w)
               \/ Close(w)
        PROVE  FeedInv'
    <2>1. /\ UNCHANGED <<lines, tail, glued, fed>>
          /\ pc'[w] \notin {"midline", "lastbyte"}
          /\ \A v \in Writers : v # w => pc'[v] = pc[v]
      BY <1>8 DEF Request, Acquire, Load, LoadFail, AppendBegin, Close, disk, TypeOK
    <2> QED
      BY <1>6, <2>1 DEF InFlight
  <1>9. CASE UNCHANGED vars
    BY <1>9, <1>3 DEF vars, Doomed, InFlight
  <1> QED
    BY <1>1, <1>2, <1>4, <1>5, <1>7, <1>8, <1>9 DEF Next, Session

LEMMA IsPrefixPointwise ==
  ASSUME NEW S, NEW s \in Seq(S), NEW t \in Seq(S), Len(s) <= Len(t),
         \A i \in 1..Len(s) : s[i] = t[i]
  PROVE  IsPrefix(s, t)
  <1>1. Len(s) \in Nat /\ Len(t) \in Nat
    OBVIOUS
  <1>2. /\ SubSeq(t, 1, Len(s)) \in Seq(S) /\ Len(SubSeq(t, 1, Len(s))) = Len(s)
        /\ \A i \in 1..Len(s) : SubSeq(t, 1, Len(s))[i] = t[i]
    BY <1>1, SubSeqProperties
  <1>3. s = SubSeq(t, 1, Len(s))
    BY <1>2, SeqEqual
  <1> QED
    BY <1>1, <1>3 DEF IsPrefix

LEMMA HistoryInit == Init => IInv /\ AckedInv /\ FeedInv
  <1> SUFFICES ASSUME Init PROVE AckedInv /\ FeedInv
    BY InitIInv
  <1>1. AckedInv
    BY DEF Init, AckedInv
  <1>2. Len(lines) = 0 /\ \A r \in Readers : Len(fed[r]) = 0
    BY DEF Init
  <1> QED
    BY <1>1, <1>2 DEF FeedInv

LEMMA HistoryStep == IInv /\ AckedInv /\ FeedInv /\ [Next]_vars => (IInv /\ AckedInv /\ FeedInv)'
  BY StepIInv, AckedStep, FeedStep

(***************************************************************************)
(* An event that append returned is read back at its own position for as   *)
(* long as the file is undamaged: nobody overwrites, reorders or drops it. *)
(***************************************************************************)
THEOREM AcknowledgedStays == Spec => []AckedReadable
  <1>1. ASSUME IInv, AckedInv, Whole(Contents), NEW e \in acked
        PROVE  e.seq <= Len(Contents) /\ Contents[e.seq] = e
    <2> USE <1>1 DEF IInv
    <2>1. Whole(lines)
      BY WholeContents
    <2>2. e.seq \in 1..Len(lines) /\ lines[e.seq] = e
      BY <2>1 DEF AckedInv
    <2>3. Len(lines) \in Nat /\ Len(tail) \in Nat
      BY DEF TypeOK
    <2> QED
      BY <2>2, <2>3, ContentsFacts
  <1>2. IInv /\ AckedInv => AckedReadable
    BY <1>1 DEF AckedReadable
  <1> QED
    BY <1>2, HistoryInit, HistoryStep, PTL DEF Spec

(***************************************************************************)
(* A consumer that polls with its watermark has consumed a prefix of what  *)
(* a full read returns, without repetition, gap or fork, although it takes *)
(* no lock and may meet a line that lacks its newline.                     *)
(***************************************************************************)
THEOREM FeedsAreHistory == Spec => []FeedIsHistory
  <1>1. ASSUME IInv, FeedInv, Valid(Contents), NEW r \in Readers
        PROVE  IsPrefix(fed[r], Contents)
    <2> USE <1>1 DEF IInv
    <2>1. Whole(lines) /\ Whole(Contents) /\ Contents \in Seq(Event)
      BY ValidContents
    <2>2. ~Doomed
      BY <2>1, WholeContents DEF Doomed
    <2>3. fed[r] \in Seq(Event) /\ Len(lines) \in Nat /\ Len(tail) \in Nat
      BY DEF TypeOK
    <2>4. Len(fed[r]) <= Len(Contents)
      BY <2>1, <2>2, <2>3, ContentsFacts DEF FeedInv
    <2>5. \A i \in 1..Len(fed[r]) : fed[r][i] = Contents[i]
      BY <2>1, <2>2, <2>3, ContentsFacts DEF FeedInv
    <2> QED
      BY <2>1, <2>3, <2>4, <2>5, IsPrefixPointwise
  <1>2. IInv /\ FeedInv => FeedIsHistory
    BY <1>1 DEF FeedIsHistory
  <1> QED
    BY <1>2, HistoryInit, HistoryStep, PTL DEF Spec

(***************************************************************************)
(* A damaged journal fails closed: without an open session nothing is ever *)
(* written to it again, whoever asks for the lock.                         *)
(***************************************************************************)
THEOREM DamageStays == Spec => FailClosed
  <1>1. ASSUME TypeOK, [Next]_vars, Damaged
        PROVE  Damaged' /\ UNCHANGED <<lines, tail>>
    <2>1. ~Valid(Contents) /\ \A w \in Writers : pc[w] \in {"idle", "waiting", "loading"}
      BY <1>1, ValidContents DEF Damaged
    <2>2. ASSUME NEW w \in Writers, Request(w) \/ Acquire(w) \/ LoadFail(w) \/ Crash(w)
          PROVE  /\ UNCHANGED <<lines, tail>> /\ pc'[w] \in {"idle", "waiting", "loading"}
                 /\ \A v \in Writers : v # w => pc'[v] = pc[v]
      BY <1>1, <2>2 DEF Request, Acquire, LoadFail, Crash, disk, TypeOK
    <2>3. ASSUME NEW w \in Writers,
                 \/ Load(w) \/ AppendBegin(w) \/ WriteSome(w) \/ WriteRest(w)
                 \/ AppendEnd(w) \/ Close(w) \/ AppendError(w)
          PROVE  FALSE
      BY <2>1, <2>3 DEF Load, AppendBegin, WriteSome, WriteRest, AppendEnd, Close, AppendError
    <2>4. (\E r \in Readers : ChangesSince(r)) => FALSE
      BY <2>1 DEF ChangesSince
    <2>5. /\ UNCHANGED <<lines, tail>>
          /\ \A w \in Writers : pc'[w] \in {"idle", "waiting", "loading"}
      <3>1. CASE UNCHANGED vars
        BY <2>1, <3>1 DEF vars, disk
      <3>2. CASE Next
        BY <2>1, <2>2, <2>3, <2>4, <3>2 DEF Next, Session
      <3> QED
        BY <1>1, <3>1, <3>2
    <2> QED
      BY <1>1, <2>5 DEF Damaged, Whole, Contents
  <1>2. TypeOK /\ [Next]_vars => [Damaged => Damaged' /\ UNCHANGED <<lines, tail>>]_vars
    BY <1>1
  <1> QED
    BY <1>2, TypeCorrect, PTL DEF Spec, FailClosed

----------------------------------------------------------------------------
(* The log implements the journal.                                         *)

\* A log has exactly one sound length: the first torn line ends it.
LEMMA SoundExists ==
  ASSUME NEW log \in Seq(Line)
  PROVE  \E n \in 0..Len(log) : IsSound(log, n)
  <1> DEFINE T == {i \in Nat : i \in 1..Len(log) /\ log[i] = Torn}
  <1>1. CASE T = {}
    <2>1. Len(log) \in 0..Len(log) /\ \A i \in 1..Len(log) : log[i] # Torn
      BY <1>1
    <2> QED
      BY <2>1 DEF IsSound
  <1>2. CASE T # {}
    <2>1. PICK m \in T : \A i \in T : m <= i
      BY <1>2, LeastNumber
    <2>2. /\ m \in 1..Len(log) /\ m - 1 \in 0..Len(log) /\ (m - 1) + 1 = m
          /\ log[m] = Torn
      OBVIOUS
    <2>3. \A i \in 1..(m - 1) : i \notin T /\ i \in 1..Len(log)
      BY <2>1, <2>2
    <2>4. IsSound(log, m - 1)
      BY <2>2, <2>3 DEF IsSound
    <2> QED
      BY <2>2, <2>4
  <1> QED
    BY <1>1, <1>2

LEMMA SoundUnique ==
  ASSUME NEW log \in Seq(Line), NEW n \in 0..Len(log), IsSound(log, n),
         NEW m \in 0..Len(log), IsSound(log, m)
  PROVE  n = m
  <1>1. Len(log) \in Nat
    OBVIOUS
  <1>2. ASSUME NEW i \in 0..Len(log), NEW j \in 0..Len(log), IsSound(log, i),
               IsSound(log, j), i < j
        PROVE  FALSE
    <2>1. i + 1 \in 1..j /\ i < Len(log)
      BY <1>1, <1>2
    <2> QED
      BY <1>2, <2>1 DEF IsSound
  <1> QED
    BY <1>1, <1>2

LEMMA SoundChoice ==
  ASSUME NEW log \in Seq(Line), NEW n \in 0..Len(log), IsSound(log, n)
  PROVE  (CHOOSE m \in 0..Len(log) : IsSound(log, m)) = n
  <1> DEFINE k == CHOOSE m \in 0..Len(log) : IsSound(log, m)
  <1>1. k \in 0..Len(log) /\ IsSound(log, k)
    OBVIOUS
  <1> QED
    BY <1>1, SoundUnique

\* A whole event that completes a sound log is recorded in the journal.
LEMMA Recorded ==
  ASSUME IInv, IInv', NEW w \in Writers, AppendEnd(w), Whole(lines), tail[1] # Torn
  PROVE  Journal!Next
  <1> USE DEF IInv
  <1>1. lines' = Append(lines, tail[1]) /\ pc[w] = "lastbyte"
    BY DEF AppendEnd
  <1>2. tail = (IF glued THEN <<Torn>> ELSE <<pending[w]>>) /\ tail # << >>
    BY <1>1 DEF PendingInv
  <1>3. tail[1] = pending[w] /\ pending[w] \in Event
    BY <1>1, <1>2 DEF PendingInv
  <1>4. lines \in Seq(Line) /\ Len(lines) \in Nat /\ lines' \in Seq(Line)
    BY DEF TypeOK
  <1>5. Extends(lines, Len(lines), tail[1])
    BY <1>2 DEF TailInv
  <1>6. /\ Len(lines') = Len(lines) + 1 /\ lines'[Len(lines) + 1] = tail[1]
        /\ \A i \in 1..Len(lines) : lines'[i] = lines[i]
    BY <1>1, <1>3, <1>4 DEF Line
  <1>7. SoundLen = Len(lines)
    <2>1. IsSound(lines, Len(lines))
      BY DEF IsSound, Whole
    <2> QED
      BY <1>4, <2>1, SoundChoice DEF SoundLen
  <1>8. SoundLen' = Len(lines')
    <2>1. IsSound(lines', Len(lines'))
      BY <1>4, <1>6 DEF IsSound, Whole
    <2>2. (CHOOSE m \in 0..Len(lines') : IsSound(lines', m)) = Len(lines')
      BY <1>4, <2>1, SoundChoice
    <2> QED
      BY <2>2 DEF SoundLen, IsSound
  <1>9. SubSeq(lines, 1, SoundLen) = lines /\ SubSeq(lines', 1, SoundLen') = lines'
    BY <1>4, <1>7, <1>8, SubSeqFull
  <1>10. tail[1] = [seq |-> Len(lines) + 1, object |-> tail[1].object,
                    prior |-> tail[1].prior, new |-> tail[1].new]
    BY <1>3, <1>5 DEF Event, Extends
  <1>11. tail[1].object \in Objects /\ tail[1].prior \in Digest /\ tail[1].new \in Payloads
    BY <1>3 DEF Event
  <1>12. Journal!Record(tail[1].object, tail[1].prior, tail[1].new)
    <2>1. Journal!Extends(lines, Len(lines), tail[1])
      BY <1>5 DEF Journal!Extends, Extends, Journal!LatestIn, LatestIn
    <2> QED
      BY <1>1, <1>9, <1>10, <2>1 DEF Journal!Record
  <1> QED
    BY <1>11, <1>12 DEF Journal!Next, Journal!Digest, Digest

\* Any other step leaves the journal as it is.
LEMMA NotRecorded ==
  ASSUME IInv, IInv', lines' = lines \/ \E x \in Line :
            lines' = Append(lines, x) /\ (x = Torn \/ ~Whole(lines))
  PROVE  SubSeq(lines, 1, SoundLen)' = SubSeq(lines, 1, SoundLen)
  <1>1. lines \in Seq(Line) /\ lines' \in Seq(Line) /\ Len(lines) \in Nat
    BY DEF IInv, TypeOK
  <1>2. CASE lines' = lines
    BY <1>2 DEF SoundLen, IsSound
  <1>3. CASE \E x \in Line : lines' = Append(lines, x) /\ (x = Torn \/ ~Whole(lines))
    <2>1. PICK x \in Line : lines' = Append(lines, x) /\ (x = Torn \/ ~Whole(lines))
      BY <1>3
    <2>2. PICK n \in 0..Len(lines) : IsSound(lines, n)
      BY <1>1, SoundExists
    <2>3. /\ Len(lines') = Len(lines) + 1 /\ lines'[Len(lines) + 1] = x
          /\ \A i \in 1..Len(lines) : lines'[i] = lines[i]
      BY <1>1, <2>1
    <2>4. n \in 0..Len(lines') /\ IsSound(lines', n)
      BY <1>1, <2>1, <2>2, <2>3 DEF IsSound, Whole
    <2>5. SoundLen = n
      BY <1>1, <2>2, SoundChoice DEF SoundLen
    <2>6. SoundLen' = n
      <3>1. (CHOOSE m \in 0..Len(lines') : IsSound(lines', m)) = n
        BY <1>1, <2>4, SoundChoice
      <3> QED
        BY <3>1 DEF SoundLen, IsSound
    <2>7. \A i \in 1..n : lines[i] \in Line /\ lines'[i] \in Line /\ lines'[i] = lines[i]
      BY <1>1, <2>3
    <2>8. SubSeq(lines', 1, n) = SubSeq(lines, 1, n)
      BY <2>7
    <2> QED
      BY <2>5, <2>6, <2>8
  <1> QED
    BY <1>2, <1>3

(***************************************************************************)
(* For any number of writers, readers and faults the log implements the    *)
(* journal: its sound lines grow by one whole event that fits, or not.     *)
(***************************************************************************)
THEOREM LogImplementsJournal == Spec => ImplementsJournal
  <1>1. Init => Journal!Init
    <2>1. SUFFICES ASSUME Init PROVE SubSeq(lines, 1, SoundLen) = << >>
      BY DEF Journal!Init
    <2>2. lines \in Seq(Line) /\ Len(lines) = 0 /\ lines = << >>
      BY <2>1 DEF Init
    <2>3. SoundLen \in 0..Len(lines)
      BY <2>2, SoundExists DEF SoundLen
    <2>4. SoundLen = 0
      BY <2>2, <2>3
    <2> QED
      BY <2>4, SubSeqEmpty
  <1>2. ASSUME IInv, IInv', [Next]_vars
        PROVE  [Journal!Next]_(SubSeq(lines, 1, SoundLen))
    <2>1. ASSUME NEW w \in Writers, AppendEnd(w)
          PROVE  [Journal!Next]_(SubSeq(lines, 1, SoundLen))
      <3>1. CASE Whole(lines) /\ tail[1] # Torn
        BY <1>2, <2>1, <3>1, Recorded
      <3>2. CASE ~(Whole(lines) /\ tail[1] # Torn)
        <4>1. lines' = Append(lines, tail[1]) /\ tail # << >>
          BY <1>2, <2>1, EmptySeq DEF AppendEnd, IInv, PendingInv
        <4>2. tail[1] \in Line
          BY <1>2, <4>1, ContentsFacts, ElementOfSeq DEF IInv, TypeOK
        <4> QED
          BY <1>2, <3>2, <4>1, <4>2, NotRecorded
      <3> QED
        BY <3>1, <3>2
    <2>2. CASE UNCHANGED lines
      BY <1>2, <2>2, NotRecorded
    <2> QED
      BY <1>2, <2>1, <2>2 DEF Next, Session, vars, disk, Request, Acquire, Load, LoadFail,
         AppendBegin, WriteSome, WriteRest, Close, AppendError, Crash, ChangesSince
  <1> QED
    BY <1>1, <1>2, Inductive, PTL DEF Spec, ImplementsJournal, Journal!Spec
=============================================================================
