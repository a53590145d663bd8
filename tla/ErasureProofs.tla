--------------------------- MODULE ErasureProofs ----------------------------
(***************************************************************************)
(* For any number of erasers, nodes and sources, and any bounds: concepts  *)
(* and nodes of transactions are lost by their purges only, the filters    *)
(* say what the log says, what was erased is not shown, what flows down    *)
(* was shared, and the claim tables are what a replay gives.               *)
(*                                                                         *)
(* Four invariants carry this.  PurgeInv: whatever is missing in what a    *)
(* process holds in memory was purged (Remembered), whatever it takes out  *)
(* is being purged (Announced), and the log, which only grows, says so for *)
(* ever.  FilterInv: what a writer is about to write covers its own event, *)
(* so the highest position ever written covers all that returned.          *)
(* ReaderInv: between its two looks the reader holds nothing that is       *)
(* barred, and an erasure that has returned stands for all it must hide.   *)
(* ClaimsInv: unless two met in the claim tables, whoever rewrites them    *)
(* has read what they hold, and the log says nothing of what it takes out. *)
(*                                                                         *)
(* What a fold over the log gives is found event by event: ErasingAppend,  *)
(* SharingAppend and ProjectingAppend, from FoldTheorems.                  *)
(***************************************************************************)
EXTENDS Erasure, FoldTheorems, SequenceTheorems

PlaceNames == {"claims", "concepts", "sinks"}
States == {"idle", "append", "strip", "write", "fold", "open", "close"}
Kinds == ErasureEvents \union DistributionEvents \union {"none"}
Operations == [type : Kinds, target : Targets \union {NoSource}, at : Nat]

Passes == {NoPass} \union [at : {"write", "append"}, source : Sources, mem : SUBSET Claims]

Purged(n) == \E i \in DOMAIN log : log[i].type = "purged" /\ log[i].target \in {n, Owner[n]}

Typed ==
    /\ log \in Seq(Event)
    /\ content \in [claims : SUBSET Claims, concepts : SUBSET Concepts, sinks : SUBSET Sinks]
    /\ pc \in [Erasers -> States]
    /\ op \in [Erasers -> Operations]
    /\ left \in [Erasers -> Seq(PlaceNames)]
    /\ mem \in [Erasers -> SUBSET Nodes]
    /\ pass \in Passes

Announced ==
    \A e \in Erasers :
        /\ pc[e] \in {"append", "strip", "write"} => op[e].target \in Targets
        /\ pc[e] \in {"strip", "write"} =>
              \E i \in DOMAIN log : log[i].type = "purged" /\ log[i].target = op[e].target

Remembered ==
    \A e \in Erasers : pc[e] = "write" =>
        /\ left[e] # << >>
        /\ Head(left[e]) = "claims" => mem[e] \subseteq Claims
        /\ Head(left[e]) = "concepts" =>
              mem[e] \subseteq Concepts /\ \A n \in Concepts \ mem[e] : Purged(n)
        /\ Head(left[e]) = "sinks" =>
              mem[e] \subseteq Sinks /\ \A n \in Sinks \ mem[e] : Purged(n)

PurgeInv == Typed /\ Announced /\ Remembered /\ OnlyPurgesRemove

----------------------------------------------------------------------------

\* A finite set can be listed.
LEMMA Listed ==
  ASSUME NEW S, IsFiniteSet(S)
  PROVE  SetToSeq(S) \in Seq(S)
  <1>1. PICK f : f \in Bijection(1..Cardinality(S), S)
    BY FS_CardinalityType DEF ExistsBijection
  <1>2. f \in [1..Cardinality(S) -> S] /\ IsInjective(f)
    BY <1>1 DEF Bijection, Injection
  <1>3. SetToSeq(S) \in [1..Cardinality(S) -> S]
    BY <1>2 DEF SetToSeq
  <1> QED
    BY <1>3, FS_CardinalityType

\* The log only grows, so what was purged was purged for ever.
LEMMA LogGrows ==
  ASSUME log \in Seq(Event), log' = log \/ \E x \in Event : log' = Append(log, x)
  PROVE  /\ log' \in Seq(Event)
         /\ \A i \in DOMAIN log : i \in DOMAIN log' /\ log'[i] = log[i]
         /\ \A n : Purged(n) => Purged(n)'
  <1>1. log' \in Seq(Event) /\ \A i \in DOMAIN log : i \in DOMAIN log' /\ log'[i] = log[i]
    <2>1. CASE log' = log
      BY <2>1
    <2>2. CASE \E x \in Event : log' = Append(log, x)
      BY <2>2
    <2> QED
      BY <2>1, <2>2
  <1> QED
    BY <1>1 DEF Purged

\* A store that was indexed and has lost nothing.
THEOREM PurgeInit == Init => PurgeInv
  <1> SUFFICES ASSUME Init PROVE PurgeInv
    OBVIOUS
  <1> USE DEF Init
  <1>1. log \in Seq(Event)
    <2>1. SourceOrder \in Seq(Sources)
      BY Listed, FiniteAssumption DEF SourceOrder
    <2>2. \A u \in Sources : [type |-> "upserted", target |-> u] \in Event
      BY DEF Event, SourceEvents
    <2> QED
      BY <2>1, <2>2
  <1>2. Typed
    <2>1. << >> \in Seq(PlaceNames)
      OBVIOUS
    <2>2. Idle \in Operations
      BY DEF Idle, Operations, Kinds
    <2>3. content \in [claims : SUBSET Claims, concepts : SUBSET Concepts, sinks : SUBSET Sinks]
      OBVIOUS
    <2>4. pc \in [Erasers -> States]
      BY DEF States
    <2>5. op \in [Erasers -> Operations]
      BY <2>2
    <2>6. left \in [Erasers -> Seq(PlaceNames)]
      BY <2>1
    <2>7. mem \in [Erasers -> SUBSET Nodes]
      OBVIOUS
    <2>8. pass \in Passes
      BY DEF Passes
    <2> QED
      BY <1>1, <2>3, <2>4, <2>5, <2>6, <2>7, <2>8 DEF Typed
  <1>3. Announced /\ Remembered /\ OnlyPurgesRemove
    BY DEF Announced, Remembered, OnlyPurgesRemove
  <1> QED
    BY <1>2, <1>3 DEF PurgeInv

----------------------------------------------------------------------------

\* What a step that leaves the tables alone must do to keep the invariant: nothing.
LEMMA TablesUntouched ==
  ASSUME PurgeInv, Typed', Announced', UNCHANGED content,
         log' = log \/ \E x \in Event : log' = Append(log, x),
         \A e \in Erasers : pc'[e] = "write" =>
            pc[e] = "write" /\ left'[e] = left[e] /\ mem'[e] = mem[e]
  PROVE  PurgeInv'
  <1>1. \A n : Purged(n) => Purged(n)'
    BY LogGrows DEF PurgeInv, Typed
  <1>2. Remembered'
    BY <1>1 DEF PurgeInv, Remembered
  <1>3. OnlyPurgesRemove'
    BY <1>1 DEF PurgeInv, OnlyPurgesRemove, Purged
  <1> QED
    BY <1>2, <1>3 DEF PurgeInv

\* What the steps of a purge that change a table have in common.
LEMMA StrippedKeeps ==
  ASSUME PurgeInv, NEW e \in Erasers, pc[e] = "write", Stripped(e),
         content' \in [claims : SUBSET Claims, concepts : SUBSET Concepts, sinks : SUBSET Sinks],
         \A n \in (Concepts \ content'.concepts) \union (Sinks \ content'.sinks) : Purged(n)
  PROVE  PurgeInv'
  <1> USE DEF PurgeInv, Stripped, history
  <1>1. Typed'
    <2>1. left[e] \in Seq(PlaceNames) /\ left[e] # << >>
      BY DEF Typed, Remembered
    <2>2. left' \in [Erasers -> Seq(PlaceNames)]
      BY <2>1 DEF Typed
    <2>3. pc' \in [Erasers -> States]
      BY DEF Typed, States
    <2>4. mem' \in [Erasers -> SUBSET Nodes]
      BY DEF Typed
    <2> QED
      BY <2>2, <2>3, <2>4 DEF Typed
  <1>2. Announced'
    BY DEF Announced, Typed
  <1>3. Remembered'
    <2>1. ASSUME NEW x \in Erasers, pc'[x] = "write"
          PROVE  x # e /\ pc[x] = "write" /\ left'[x] = left[x] /\ mem'[x] = mem[x]
      BY <2>1 DEF Typed
    <2> QED
      BY <2>1 DEF Remembered, Purged
  <1>4. OnlyPurgesRemove'
    BY DEF OnlyPurgesRemove, Purged
  <1> QED
    BY <1>1, <1>2, <1>3, <1>4

----------------------------------------------------------------------------
(* The steps, one by one.                                                  *)

\* restore looks at the tombstone file.
LEMMA CheckStep ==
  ASSUME PurgeInv, NEW e \in Erasers, NEW t \in Targets, Check(e, t)
  PROVE  PurgeInv'
  <1> USE DEF PurgeInv, Check, history
  <1>1. op' \in [Erasers -> Operations]
    BY DEF Typed, Idle, Operations, Kinds, ErasureEvents
  <1>2. Typed'
    BY <1>1 DEF Typed, States
  <1>3. Announced'
    BY DEF Announced, Typed, Idle, Operations
  <1> QED
    BY <1>2, <1>3, TablesUntouched DEF Typed

\* The event of an operation.
LEMMA RecordStep ==
  ASSUME PurgeInv, NEW e \in Erasers, NEW t \in Targets,
         NEW type \in ErasureEvents \union DistributionEvents, Record(e, type, t)
  PROVE  PurgeInv'
  <1> USE DEF PurgeInv, Record
  <1> DEFINE x == [type |-> type, target |-> t]
  <1>1. x \in Event /\ log' = Append(log, x)
    BY DEF Event
  <1>2. /\ log' \in Seq(Event)
        /\ \A i \in DOMAIN log : i \in DOMAIN log' /\ log'[i] = log[i]
    BY <1>1, LogGrows DEF Typed
  <1>3. Len(log) + 1 \in DOMAIN log' /\ log'[Len(log) + 1] = x
    BY <1>1 DEF Typed
  <1>4. Typed'
    <2>1. op' \in [Erasers -> Operations]
      BY DEF Typed, Operations, Kinds
    <2>2. Places(type, t) \in Seq(PlaceNames)
      <3>1. /\ << >> \in Seq(PlaceNames) /\ <<"claims">> \in Seq(PlaceNames)
            /\ <<"concepts">> \in Seq(PlaceNames) /\ <<"sinks">> \in Seq(PlaceNames)
        BY DEF PlaceNames
      <3>2. <<"claims", "sinks">> \in Seq(PlaceNames)
        BY DEF PlaceNames
      <3> QED
        BY <3>1, <3>2 DEF Places
    <2>3. left' \in [Erasers -> Seq(PlaceNames)]
      BY <2>2 DEF Typed
    <2>4. pc' \in [Erasers -> States]
      BY DEF Typed, States
    <2> QED
      BY <1>2, <2>1, <2>3, <2>4 DEF Typed
  <1>5. Announced'
    <2>1. ASSUME NEW y \in Erasers, y # e
          PROVE  pc'[y] = pc[y] /\ op'[y] = op[y]
      BY <2>1 DEF Typed
    <2>2. pc'[e] = (IF type = "purged" THEN "strip" ELSE "fold") /\ op'[e].target = t
      BY DEF Typed
    <2>3. pc'[e] = "strip" => x.type = "purged" /\ x.target = op'[e].target
      BY <2>2
    <2> QED
      BY <1>2, <1>3, <2>1, <2>2, <2>3 DEF Announced
  <1>6. \A y \in Erasers : pc'[y] = "write" =>
           pc[y] = "write" /\ left'[y] = left[y] /\ mem'[y] = mem[y]
    BY DEF Typed
  <1> QED
    BY <1>1, <1>4, <1>5, <1>6, TablesUntouched

\* A table is read: nothing is missing from it that was not purged.
LEMMA StripReadStep ==
  ASSUME PurgeInv, NEW e \in Erasers, StripRead(e)
  PROVE  PurgeInv'
  <1> USE DEF PurgeInv, StripRead, history
  <1>1. Head(left[e]) \in PlaceNames /\ left'[e] = left[e] /\ left[e] # << >>
    BY DEF Typed
  <1>2. /\ Head(left[e]) = "claims" => content[Head(left[e])] = content.claims
        /\ Head(left[e]) = "concepts" => content[Head(left[e])] = content.concepts
        /\ Head(left[e]) = "sinks" => content[Head(left[e])] = content.sinks
    OBVIOUS
  <1>3. content[Head(left[e])] \in SUBSET Nodes
    BY <1>1, <1>2 DEF Typed, PlaceNames, Nodes
  <1>4. Typed'
    <2>1. mem' \in [Erasers -> SUBSET Nodes]
      BY <1>3 DEF Typed
    <2>2. pc' \in [Erasers -> States]
      BY DEF Typed, States
    <2> QED
      BY <2>1, <2>2 DEF Typed
  <1>5. Announced'
    BY DEF Announced, Typed
  <1>6. mem'[e] = content[Head(left[e])]
    BY DEF Typed
  <1>7. \A y \in Erasers \ {e} : pc'[y] = pc[y] /\ mem'[y] = mem[y]
    BY DEF Typed
  <1>8. Remembered'
    <2> SUFFICES ASSUME NEW y \in Erasers, pc'[y] = "write"
                 PROVE  /\ left[y] # << >>
                        /\ Head(left[y]) = "claims" => mem'[y] \subseteq Claims
                        /\ Head(left[y]) = "concepts" =>
                              mem'[y] \subseteq Concepts /\ \A n \in Concepts \ mem'[y] : Purged(n)
                        /\ Head(left[y]) = "sinks" =>
                              mem'[y] \subseteq Sinks /\ \A n \in Sinks \ mem'[y] : Purged(n)
      BY DEF Remembered, Purged
    <2>1. CASE y # e
      BY <1>7, <2>1 DEF Remembered
    <2>2. CASE y = e
      BY <1>1, <1>2, <1>6, <2>2 DEF Typed, OnlyPurgesRemove, Purged
    <2> QED
      BY <2>1, <2>2
  <1>9. OnlyPurgesRemove'
    BY DEF OnlyPurgesRemove
  <1> QED
    BY <1>4, <1>5, <1>8, <1>9

\* What a purge takes out of what it has read is being purged.
LEMMA GonePurged ==
  ASSUME PurgeInv, NEW e \in Erasers, pc[e] = "write"
  PROVE  \A n \in Gone(e) : Purged(n)
  <1> QED
    BY DEF PurgeInv, Announced, Gone, NodesOf, Purged

\* Nothing of it has to go.
LEMMA StripNothingStep ==
  ASSUME PurgeInv, NEW e \in Erasers, StripNothing(e)
  PROVE  PurgeInv'
  <1> QED
    BY StrippedKeeps DEF StripNothing, PurgeInv, Typed, OnlyPurgesRemove, Purged

\* It is written back.
LEMMA StripTableStep ==
  ASSUME PurgeInv, NEW e \in Erasers, StripTable(e)
  PROVE  PurgeInv'
  <1> USE DEF PurgeInv, StripTable, Stripping
  <1>1. pc[e] = "write"
    OBVIOUS
  <1>2. CASE Head(left[e]) = "claims"
    <2>1. content' = [content EXCEPT !.claims = mem[e] \ Gone(e)] /\ mem[e] \subseteq Claims
      BY <1>2 DEF Remembered
    <2> QED
      BY <1>1, <2>1, StrippedKeeps DEF Typed, OnlyPurgesRemove, Purged
  <1>3. CASE Head(left[e]) = "concepts"
    <2>1. /\ content' = [content EXCEPT !.concepts = mem[e] \ Gone(e)] /\ mem[e] \subseteq Concepts
          /\ \A n \in Concepts \ mem[e] : Purged(n)
      BY <1>3 DEF Remembered
    <2>2. content' \in [claims : SUBSET Claims, concepts : SUBSET Concepts, sinks : SUBSET Sinks]
      BY <2>1 DEF Typed
    <2>3. \A n \in Concepts \ content'.concepts : Purged(n)
      BY <1>1, <2>1, GonePurged DEF Typed
    <2>4. \A n \in Sinks \ content'.sinks : Purged(n)
      BY <2>1 DEF Typed, OnlyPurgesRemove, Purged
    <2> QED
      BY <1>1, <2>2, <2>3, <2>4, StrippedKeeps
  <1> QED
    BY <1>2, <1>3

\* The transaction of the purged node's source, before and after.
LEMMA TransactionStep ==
  ASSUME PurgeInv, NEW e \in Erasers, Stripping(e, "sinks"), Stripped(e),
         content' = [content EXCEPT !.sinks =
            (@ \ Transaction(@, SourceOf(op[e].target))) \union Kept(e)]
  PROVE  PurgeInv'
  <1> USE DEF PurgeInv, Stripping
  <1> DEFINE u == SourceOf(op[e].target)
  <1>1. pc[e] = "write" /\ mem[e] \subseteq Sinks /\ \A n \in Sinks \ mem[e] : Purged(n)
    BY DEF Remembered
  <1>2. content'.sinks = (content.sinks \ Transaction(content.sinks, u)) \union Kept(e)
    BY DEF Typed
  <1>3. Kept(e) \subseteq Sinks
    BY DEF Kept, Transaction
  <1>4. content' \in [claims : SUBSET Claims, concepts : SUBSET Concepts, sinks : SUBSET Sinks]
    BY <1>3 DEF Typed
  <1>5. \A n \in Concepts \ content'.concepts : Purged(n)
    BY DEF Typed, OnlyPurgesRemove, Purged
  <1>6. ASSUME NEW n \in Sinks \ content'.sinks
        PROVE  Purged(n)
    <2>1. CASE n \notin content.sinks
      BY <2>1 DEF OnlyPurgesRemove, Purged
    <2>2. CASE n \in content.sinks
      <3>1. n \in Transaction(content.sinks, u) /\ n \notin Kept(e)
        BY <1>2, <1>6, <2>2
      <3>2. n \notin mem[e] \/ n \in Gone(e)
        BY <3>1 DEF Kept, Transaction
      <3> QED
        BY <1>1, <3>2, GonePurged
    <2> QED
      BY <2>1, <2>2
  <1> QED
    BY <1>1, <1>4, <1>5, <1>6, StrippedKeeps

\* A transaction without nodes.
LEMMA UnlinkStep ==
  ASSUME PurgeInv, NEW e \in Erasers, Unlink(e)
  PROVE  PurgeInv'
  <1>1. content' = [content EXCEPT !.sinks =
            (@ \ Transaction(@, SourceOf(op[e].target))) \union Kept(e)]
    BY DEF Unlink
  <1> QED
    BY <1>1, TransactionStep DEF Unlink

\* Steps that touch neither the log nor the tables nor what is in memory.
LEMMA QuietStep ==
  ASSUME PurgeInv, NEW e \in Erasers,
         \/ Quit(e) /\ UNCHANGED <<log, content, pass>>
         \/ \E s \in {"fold", "open", "close"} :
               pc' = [pc EXCEPT ![e] = s] /\ UNCHANGED <<log, content, op, left, mem, pass>>
  PROVE  PurgeInv'
  <1> USE DEF PurgeInv
  <1>1. CASE Quit(e) /\ UNCHANGED <<log, content, pass>>
    <2> USE <1>1 DEF Quit
    <2>1. << >> \in Seq(PlaceNames) /\ Idle \in Operations
      BY DEF Idle, Operations, Kinds
    <2>2. pc' \in [Erasers -> States]
      BY DEF Typed, States
    <2>3. left' \in [Erasers -> Seq(PlaceNames)] /\ op' \in [Erasers -> Operations]
      BY <2>1 DEF Typed
    <2>4. mem' \in [Erasers -> SUBSET Nodes]
      BY DEF Typed
    <2>5. Typed'
      BY <2>2, <2>3, <2>4 DEF Typed
    <2>6. Announced'
      BY DEF Announced, Typed
    <2>7. \A y \in Erasers : pc'[y] = "write" =>
             pc[y] = "write" /\ left'[y] = left[y] /\ mem'[y] = mem[y]
      BY DEF Typed
    <2> QED
      BY <2>5, <2>6, <2>7, TablesUntouched
  <1>2. CASE \E s \in {"fold", "open", "close"} :
               pc' = [pc EXCEPT ![e] = s] /\ UNCHANGED <<log, content, op, left, mem, pass>>
    <2>1. pc' \in [Erasers -> States]
      BY <1>2 DEF Typed, States
    <2>2. Typed'
      BY <1>2, <2>1 DEF Typed
    <2>3. Announced'
      BY <1>2 DEF Announced, Typed
    <2>4. \A y \in Erasers : pc'[y] = "write" =>
             pc[y] = "write" /\ left'[y] = left[y] /\ mem'[y] = mem[y]
      BY <1>2 DEF Typed
    <2> QED
      BY <1>2, <2>2, <2>3, <2>4, TablesUntouched
  <1> QED
    BY <1>1, <1>2

\* Passes and producers change what no purge can lose.
LEMMA OutsideStep ==
  ASSUME PurgeInv, UNCHANGED work,
         log' = log \/ \E x \in Event : log' = Append(log, x),
         content' \in [claims : SUBSET Claims, concepts : SUBSET Concepts, sinks : SUBSET Sinks],
         content.concepts \subseteq content'.concepts, content.sinks \subseteq content'.sinks,
         pass' \in Passes
  PROVE  PurgeInv'
  <1> USE DEF PurgeInv, work
  <1>1. /\ log' \in Seq(Event)
        /\ \A i \in DOMAIN log : i \in DOMAIN log' /\ log'[i] = log[i]
        /\ \A n : Purged(n) => Purged(n)'
    BY LogGrows DEF Typed
  <1>2. Typed'
    BY <1>1 DEF Typed
  <1>3. Announced'
    BY <1>1 DEF Announced
  <1>4. Remembered'
    BY <1>1 DEF Remembered
  <1>5. OnlyPurgesRemove'
    <2>1. \A n \in (Concepts \ content'.concepts) \union (Sinks \ content'.sinks) : Purged(n)
      BY DEF OnlyPurgesRemove, Purged
    <2> QED
      BY <1>1, <2>1 DEF OnlyPurgesRemove, Purged
  <1> QED
    BY <1>2, <1>3, <1>4, <1>5

\* The passes and the producers.
LEMMA PassStep ==
  ASSUME PurgeInv, NEW u \in Sources, PassBegin(u) \/ Produce(u) \/ PassWrite \/ PassAppend
  PROVE  PurgeInv'
  <1>1. CASE PassBegin(u)
    <2>1. \A k \in SourceEvents : [type |-> k, target |-> u] \in Event
      BY DEF Event
    <2>2. \E x \in Event : log' = Append(log, x)
      BY <1>1, <2>1 DEF PassBegin, SourceEvents
    <2>3. pass' \in Passes
      BY <1>1 DEF PassBegin, PurgeInv, Typed, Passes
    <2> QED
      BY <1>1, <2>2, <2>3, OutsideStep DEF PassBegin, PurgeInv, Typed
  <1>2. CASE Produce(u)
    <2>1. content.sinks \union Transaction(Sinks, u) \subseteq Sinks
      BY DEF PurgeInv, Typed, Transaction
    <2> QED
      BY <1>2, <2>1, OutsideStep DEF Produce, PurgeInv, Typed
  <1>3. CASE PassWrite
    <2>4. pass \in [at : {"write", "append"}, source : Sources, mem : SUBSET Claims]
      BY <1>3 DEF PassWrite, PurgeInv, Typed, Passes, NoPass
    <2>1. [type |-> "upserted", target |-> pass.source] \in Event
      BY <2>4 DEF Event, SourceEvents
    <2>2. log' = log \/ \E x \in Event : log' = Append(log, x)
      BY <1>3, <2>1 DEF PassWrite
    <2>3. pass' \in Passes
      BY <1>3, <2>4 DEF PassWrite, Passes
    <2> QED
      BY <1>3, <2>2, <2>3, <2>4, OutsideStep DEF PassWrite, PurgeInv, Typed
  <1>4. CASE PassAppend
    <2>1. pass' \in Passes
      BY <1>4 DEF PassAppend, Passes
    <2>2. content.claims \union ClaimsOf(pass.source) \subseteq Claims
      BY DEF PurgeInv, Typed, ClaimsOf
    <2> QED
      BY <1>4, <2>1, <2>2, OutsideStep DEF PassAppend, PurgeInv, Typed
  <1> QED
    BY <1>1, <1>2, <1>3, <1>4

\* Every step keeps the invariant.
THEOREM PurgeNext == PurgeInv /\ [Next]_vars => PurgeInv'
  <1> SUFFICES ASSUME PurgeInv, [Next]_vars PROVE PurgeInv'
    OBVIOUS
  <1>1. CASE UNCHANGED vars
    <2>1. UNCHANGED <<work, log, content, pass>>
      BY <1>1 DEF vars, work
    <2> QED
      BY <2>1, OutsideStep DEF PurgeInv, Typed
  <1>2. ASSUME NEW e \in Erasers, NEW t \in Targets, Check(e, t)
        PROVE  PurgeInv'
    BY <1>2, CheckStep
  <1>3. ASSUME NEW e \in Erasers, NEW t \in Targets,
               NEW type \in {"deleted", "purged", "published", "unpublished"}, Begin(e, type, t)
        PROVE  PurgeInv'
    BY <1>3, RecordStep DEF Begin, ErasureEvents, DistributionEvents
  <1>4. ASSUME NEW e \in Erasers, Restore(e)
        PROVE  PurgeInv'
    <2>1. op[e].target \in Targets
      BY <1>4 DEF Restore, PurgeInv, Announced
    <2> QED
      BY <1>4, <2>1, RecordStep DEF Restore, ErasureEvents
  <1>5. ASSUME NEW e \in Erasers,
               StripRead(e) \/ StripNothing(e) \/ StripTable(e) \/ Reseal(e) \/ Unlink(e)
        PROVE  PurgeInv'
    <2>1. Reseal(e) => PurgeInv'
      BY TransactionStep DEF Reseal
    <2> QED
      BY <1>5, <2>1, StripReadStep, StripNothingStep, StripTableStep, UnlinkStep
  <1>6. ASSUME NEW e \in Erasers,
               \/ UnlinkRaises(e) \/ StripDone(e) \/ FoldRead(e) \/ WriteOpen(e)
               \/ WriteDone(e) \/ Crash(e)
        PROVE  PurgeInv'
    <2>1. CASE UnlinkRaises(e) \/ WriteDone(e) \/ Crash(e)
      BY <2>1, QuietStep DEF UnlinkRaises, WriteDone, Crash
    <2>2. CASE StripDone(e) \/ FoldRead(e) \/ WriteOpen(e)
      BY <2>2, QuietStep DEF StripDone, FoldRead, WriteOpen
    <2> QED
      BY <1>6, <2>1, <2>2
  <1>7. ASSUME NEW u \in Sources, PassBegin(u) \/ Produce(u)
        PROVE  PurgeInv'
    BY <1>7, PassStep
  <1>8. ASSUME PassWrite \/ PassAppend
        PROVE  PurgeInv'
    <2>1. PICK u \in Sources : TRUE
      BY <1>8 DEF PassWrite, PassAppend, PurgeInv, Typed, Passes, NoPass
    <2> QED
      BY <1>8, <2>1, PassStep
  <1>9. ASSUME ReadDocs \/ ReadTombstones
        PROVE  PurgeInv'
    <2>1. UNCHANGED <<work, log, content, pass>>
      BY <1>9 DEF ReadDocs, ReadTombstones
    <2> QED
      BY <2>1, OutsideStep DEF PurgeInv, Typed
  <1> QED
    BY <1>1, <1>2, <1>3, <1>4, <1>5, <1>6, <1>7, <1>8, <1>9 DEF Next

\* Concepts and nodes of transactions are lost by their purges only (_strip_concept,
\* _rewrite_sink_transaction), whoever else rewrites what they are kept in.
THEOREM NothingElseLost == Spec => []OnlyPurgesRemove
  <1>1. PurgeInv => OnlyPurgesRemove
    BY DEF PurgeInv
  <1> QED
    BY <1>1, PurgeInit, PurgeNext, PTL DEF Spec
----------------------------------------------------------------------------
(* What the folds of the log are after one event more.                     *)

TombSets == [deleted : SUBSET Targets, purged : SUBSET Targets]

LEMMA EraseType ==
  NothingErased \in TombSets /\ \A s \in TombSets, e \in Event : Erase(s, e) \in TombSets
  BY DEF NothingErased, TombSets, Erase, Event, Targets

LEMMA ShareType ==
  {} \in SUBSET Targets /\ \A s \in SUBSET Targets, e \in Event : Share(s, e) \in SUBSET Targets
  BY DEF Share, Event, Targets

LEMMA ProjectType ==
  {} \in SUBSET Claims /\ \A s \in SUBSET Claims, e \in Event : Project(s, e) \in SUBSET Claims
  BY DEF Project, ClaimsOf

ErasingSteps(s) == [i \in 1..Len(s) |-> [v \in TombSets |-> Erase(v, s[i])]]

Erasings(s, it) ==
    it = [S \in SUBSET (1..Len(s)) |->
            IF S = {} THEN NothingErased ELSE Erase(it[S \ {Max(S)}], s[Max(S)])]

LEMMA ErasingAt ==
  ASSUME NEW s, NEW it, Erasings(s, it), NEW S \in SUBSET (1..Len(s))
  PROVE  it[S] = IF S = {} THEN NothingErased ELSE Erase(it[S \ {Max(S)}], s[Max(S)])
  <1> DEFINE all == [U \in SUBSET (1..Len(s)) |->
                       IF U = {} THEN NothingErased ELSE Erase(it[U \ {Max(U)}], s[Max(U)])]
  <1>1. all[S] = IF S = {} THEN NothingErased ELSE Erase(it[S \ {Max(S)}], s[Max(S)])
    OBVIOUS
  <1>2. it = all
    BY DEF Erasings
  <1> HIDE DEF all
  <1> QED
    BY <1>1, <1>2

LEMMA ErasingRun ==
  ASSUME NEW s \in Seq(Event)
  PROVE  \E f : Run(f, Len(s), TombSets, NothingErased, ErasingSteps(s), 1..Len(s)) /\ f[Len(s)] = Tombstones(s)
  <1> DEFINE n == Len(s)
             step == ErasingSteps(s)
             it == CHOOSE iter : Erasings(s, iter)
  <1>1. n \in Nat /\ DOMAIN s = 1..n /\ \A i \in 1..n : s[i] \in Event
    OBVIOUS
  <1>2. step \in [1..n -> [TombSets -> TombSets]] /\ \A i \in 1..n, v \in TombSets : step[i][v] = Erase(v, s[i])
    <2>1. \A i \in 1..n : [v \in TombSets |-> Erase(v, s[i])] \in [TombSets -> TombSets]
      BY <1>1, EraseType
    <2> QED
      BY <2>1 DEF ErasingSteps
  <1>3. NothingErased \in TombSets
    BY EraseType
  <1>4. Tombstones(s) = it[1..n]
    BY <1>1 DEF Tombstones, FoldLeft, MapThenFoldSet, Erasings
  <1> HIDE DEF n, step, it
  <1>5. PICK iter : Iterates(iter, n, TombSets, NothingErased, step)
    BY <1>1, <1>2, <1>3, FoldExists
  <1>6. Erasings(s, iter)
    <2>1. ASSUME NEW S \in SUBSET (1..n), S # {}
          PROVE  step[Max(S)][iter[S \ {Max(S)}]] = Erase(iter[S \ {Max(S)}], s[Max(S)])
      <3>1. Max(S) \in 1..n /\ iter[S \ {Max(S)}] \in TombSets
        BY <1>1, <1>5, <2>1, MaxFacts DEF Iterates
      <3> QED
        BY <1>2, <3>1
    <2>2. iter \in [SUBSET (1..n) -> TombSets]
      BY <1>5 DEF Iterates
    <2>3. \A S \in SUBSET (1..n) :
            iter[S] = IF S = {} THEN NothingErased ELSE Erase(iter[S \ {Max(S)}], s[Max(S)])
      BY <1>5, <2>1 DEF Iterates
    <2>4. iter = [S \in SUBSET (1..n) |->
                    IF S = {} THEN NothingErased ELSE Erase(iter[S \ {Max(S)}], s[Max(S)])]
      BY <2>2, <2>3
    <2> QED
      BY <2>4 DEF Erasings, n
  <1>7. Erasings(s, it)
    BY <1>6 DEF it
  <1>8. PICK f : Run(f, n, TombSets, NothingErased, step, 1..n)
    BY <1>1, <1>2, <1>3, RunExists
  <1>9. it[{}] = NothingErased
    <2>1. {} \in SUBSET (1..Len(s))
      OBVIOUS
    <2> QED
      BY <1>7, <2>1, ErasingAt
  <1>10. ASSUME NEW k \in 1..n, it[1..(k - 1)] \in TombSets
         PROVE  it[1..k] = step[k][it[1..(k - 1)]]
    <2> DEFINE S == 1..k
               below == 1..(k - 1)
    <2>1. Max(S) = k /\ S \ {k} = below /\ S # {} /\ S \in SUBSET (1..Len(s))
      <3>1. k \in Nat /\ k # 0 /\ \A i \in 1..k : i \in 1..n
        BY <1>1
      <3> QED
        BY <3>1, PrefixMax DEF n
    <2> HIDE DEF S, below
    <2>2. it[S] = IF S = {} THEN NothingErased ELSE Erase(it[S \ {Max(S)}], s[Max(S)])
      BY <1>7, <2>1, ErasingAt
    <2>3. it[S] = Erase(it[below], s[k])
      BY <2>1, <2>2
    <2> QED
      BY <1>2, <1>10, <2>3 DEF S, below
  <1>11. Steps(it, n, TombSets, NothingErased, step)
    BY <1>9, <1>10 DEF Steps
  <1>12. it[1..n] = f[n]
    BY <1>1, <1>2, <1>3, <1>8, <1>11, FoldTracks
  <1> QED
    BY <1>4, <1>8, <1>12 DEF n, step

LEMMA ErasingNothing == Tombstones(<< >>) = NothingErased
  <1>1. << >> \in Seq(Event) /\ Len(<< >>) = 0
    OBVIOUS
  <1>2. PICK h : Run(h, 0, TombSets, NothingErased, ErasingSteps(<< >>), 1..0) /\ h[0] = Tombstones(<< >>)
    BY <1>1, ErasingRun
  <1> QED
    BY <1>2 DEF Run

\* The tombstones.
LEMMA ErasingAppend ==
  ASSUME NEW s \in Seq(Event), NEW e \in Event
  PROVE  Tombstones(s) \in TombSets /\ Tombstones(Append(s, e)) = Erase(Tombstones(s), e)
  <1> DEFINE n == Len(s)
             t == Append(s, e)
  <1>1. n \in Nat /\ t \in Seq(Event) /\ Len(t) = n + 1 /\ t[n + 1] = e
        /\ \A i \in 1..n : t[i] = s[i]
    OBVIOUS
  <1>2. PICK f : Run(f, n, TombSets, NothingErased, ErasingSteps(s), 1..n) /\ f[n] = Tombstones(s)
    BY ErasingRun
  <1> HIDE DEF n, t
  <1>3. PICK g : Run(g, n + 1, TombSets, NothingErased, ErasingSteps(t), 1..(n + 1)) /\ g[n + 1] = Tombstones(t)
    <2>1. \E g : Run(g, Len(t), TombSets, NothingErased, ErasingSteps(t), 1..Len(t)) /\ g[Len(t)] = Tombstones(t)
      BY <1>1, ErasingRun
    <2> QED
      BY <1>1, <2>1
  <1>4. \A i \in 1..n : i \in 1..(n + 1) /\ ErasingSteps(t)[i] = ErasingSteps(s)[i]
    <2>1. \A i \in 1..n : i \in 1..(n + 1)
      BY <1>1
    <2> QED
      BY <1>1, <2>1 DEF ErasingSteps, n
  <1>5. g[n + 1] = ErasingSteps(t)[n + 1][f[n]] /\ f[n] \in TombSets
    BY <1>1, <1>2, <1>3, <1>4, RunGrows
  <1>6. ErasingSteps(t)[n + 1][f[n]] = Erase(f[n], e)
    <2>1. n + 1 \in 1..Len(t)
      BY <1>1
    <2> QED
      BY <1>1, <1>5, <2>1 DEF ErasingSteps
  <1> QED
    BY <1>2, <1>3, <1>5, <1>6 DEF t

SharingSteps(s) == [i \in 1..Len(s) |-> [v \in SUBSET Targets |-> Share(v, s[i])]]

Sharings(s, it) ==
    it = [S \in SUBSET (1..Len(s)) |->
            IF S = {} THEN {} ELSE Share(it[S \ {Max(S)}], s[Max(S)])]

LEMMA SharingAt ==
  ASSUME NEW s, NEW it, Sharings(s, it), NEW S \in SUBSET (1..Len(s))
  PROVE  it[S] = IF S = {} THEN {} ELSE Share(it[S \ {Max(S)}], s[Max(S)])
  <1> DEFINE all == [U \in SUBSET (1..Len(s)) |->
                       IF U = {} THEN {} ELSE Share(it[U \ {Max(U)}], s[Max(U)])]
  <1>1. all[S] = IF S = {} THEN {} ELSE Share(it[S \ {Max(S)}], s[Max(S)])
    OBVIOUS
  <1>2. it = all
    BY DEF Sharings
  <1> HIDE DEF all
  <1> QED
    BY <1>1, <1>2

LEMMA SharingRun ==
  ASSUME NEW s \in Seq(Event)
  PROVE  \E f : Run(f, Len(s), SUBSET Targets, {}, SharingSteps(s), 1..Len(s)) /\ f[Len(s)] = Distribution(s)
  <1> DEFINE n == Len(s)
             step == SharingSteps(s)
             it == CHOOSE iter : Sharings(s, iter)
  <1>1. n \in Nat /\ DOMAIN s = 1..n /\ \A i \in 1..n : s[i] \in Event
    OBVIOUS
  <1>2. step \in [1..n -> [SUBSET Targets -> SUBSET Targets]] /\ \A i \in 1..n, v \in SUBSET Targets : step[i][v] = Share(v, s[i])
    <2>1. \A i \in 1..n : [v \in SUBSET Targets |-> Share(v, s[i])] \in [SUBSET Targets -> SUBSET Targets]
      BY <1>1, ShareType
    <2> QED
      BY <2>1 DEF SharingSteps
  <1>3. {} \in SUBSET Targets
    BY ShareType
  <1>4. Distribution(s) = it[1..n]
    BY <1>1 DEF Distribution, FoldLeft, MapThenFoldSet, Sharings
  <1> HIDE DEF n, step, it
  <1>5. PICK iter : Iterates(iter, n, SUBSET Targets, {}, step)
    BY <1>1, <1>2, <1>3, FoldExists
  <1>6. Sharings(s, iter)
    <2>1. ASSUME NEW S \in SUBSET (1..n), S # {}
          PROVE  step[Max(S)][iter[S \ {Max(S)}]] = Share(iter[S \ {Max(S)}], s[Max(S)])
      <3>1. Max(S) \in 1..n /\ iter[S \ {Max(S)}] \in SUBSET Targets
        BY <1>1, <1>5, <2>1, MaxFacts DEF Iterates
      <3> QED
        BY <1>2, <3>1
    <2>2. iter \in [SUBSET (1..n) -> SUBSET Targets]
      BY <1>5 DEF Iterates
    <2>3. \A S \in SUBSET (1..n) :
            iter[S] = IF S = {} THEN {} ELSE Share(iter[S \ {Max(S)}], s[Max(S)])
      BY <1>5, <2>1 DEF Iterates
    <2>4. iter = [S \in SUBSET (1..n) |->
                    IF S = {} THEN {} ELSE Share(iter[S \ {Max(S)}], s[Max(S)])]
      BY <2>2, <2>3
    <2> QED
      BY <2>4 DEF Sharings, n
  <1>7. Sharings(s, it)
    BY <1>6 DEF it
  <1>8. PICK f : Run(f, n, SUBSET Targets, {}, step, 1..n)
    BY <1>1, <1>2, <1>3, RunExists
  <1>9. it[{}] = {}
    <2>1. {} \in SUBSET (1..Len(s))
      OBVIOUS
    <2> QED
      BY <1>7, <2>1, SharingAt
  <1>10. ASSUME NEW k \in 1..n, it[1..(k - 1)] \in SUBSET Targets
         PROVE  it[1..k] = step[k][it[1..(k - 1)]]
    <2> DEFINE S == 1..k
               below == 1..(k - 1)
    <2>1. Max(S) = k /\ S \ {k} = below /\ S # {} /\ S \in SUBSET (1..Len(s))
      <3>1. k \in Nat /\ k # 0 /\ \A i \in 1..k : i \in 1..n
        BY <1>1
      <3> QED
        BY <3>1, PrefixMax DEF n
    <2> HIDE DEF S, below
    <2>2. it[S] = IF S = {} THEN {} ELSE Share(it[S \ {Max(S)}], s[Max(S)])
      BY <1>7, <2>1, SharingAt
    <2>3. it[S] = Share(it[below], s[k])
      BY <2>1, <2>2
    <2> QED
      BY <1>2, <1>10, <2>3 DEF S, below
  <1>11. Steps(it, n, SUBSET Targets, {}, step)
    BY <1>9, <1>10 DEF Steps
  <1>12. it[1..n] = f[n]
    <2> DEFINE A == SUBSET Targets
               base == {}
    <2>1. /\ n \in Nat /\ base \in A /\ step \in [1..n -> [A -> A]]
          /\ Run(f, n, A, base, step, 1..n) /\ Steps(it, n, A, base, step)
      BY <1>1, <1>2, <1>8, <1>11
    <2> HIDE DEF A, base
    <2> QED
      BY <2>1, FoldTracks
  <1> QED
    BY <1>4, <1>8, <1>12 DEF n, step

LEMMA SharingType ==
  ASSUME NEW s \in Seq(Event)
  PROVE  Distribution(s) \in SUBSET Targets
  <1>1. Len(s) \in Nat /\ Len(s) \in 0..Len(s)
    OBVIOUS
  <1> QED
    BY <1>1, SharingRun DEF Run

LEMMA SharingNothing == Distribution(<< >>) = {}
  <1>1. << >> \in Seq(Event) /\ Len(<< >>) = 0
    OBVIOUS
  <1>2. PICK h : Run(h, 0, SUBSET Targets, {}, SharingSteps(<< >>), 1..0) /\ h[0] = Distribution(<< >>)
    BY <1>1, SharingRun
  <1> QED
    BY <1>2 DEF Run

\* What flows down.
LEMMA SharingAppend ==
  ASSUME NEW s \in Seq(Event), NEW e \in Event
  PROVE  Distribution(s) \in SUBSET Targets /\ Distribution(Append(s, e)) = Share(Distribution(s), e)
  <1> DEFINE n == Len(s)
             t == Append(s, e)
  <1>1. n \in Nat /\ t \in Seq(Event) /\ Len(t) = n + 1 /\ t[n + 1] = e
        /\ \A i \in 1..n : t[i] = s[i]
    OBVIOUS
  <1>2. PICK f : Run(f, n, SUBSET Targets, {}, SharingSteps(s), 1..n) /\ f[n] = Distribution(s)
    BY SharingRun
  <1> HIDE DEF n, t
  <1>3. PICK g : Run(g, n + 1, SUBSET Targets, {}, SharingSteps(t), 1..(n + 1)) /\ g[n + 1] = Distribution(t)
    <2>1. \E g : Run(g, Len(t), SUBSET Targets, {}, SharingSteps(t), 1..Len(t)) /\ g[Len(t)] = Distribution(t)
      BY <1>1, SharingRun
    <2> QED
      BY <1>1, <2>1
  <1>4. \A i \in 1..n : i \in 1..(n + 1) /\ SharingSteps(t)[i] = SharingSteps(s)[i]
    <2>1. \A i \in 1..n : i \in 1..(n + 1)
      BY <1>1
    <2> QED
      BY <1>1, <2>1 DEF SharingSteps, n
  <1>5. g[n + 1] = SharingSteps(t)[n + 1][f[n]] /\ f[n] \in SUBSET Targets
    BY <1>1, <1>2, <1>3, <1>4, RunGrows
  <1>6. SharingSteps(t)[n + 1][f[n]] = Share(f[n], e)
    <2>1. n + 1 \in 1..Len(t)
      BY <1>1
    <2> QED
      BY <1>1, <1>5, <2>1 DEF SharingSteps
  <1> QED
    BY <1>2, <1>3, <1>5, <1>6 DEF t

ProjectingSteps(s) == [i \in 1..Len(s) |-> [v \in SUBSET Claims |-> Project(v, s[i])]]

Projectings(s, it) ==
    it = [S \in SUBSET (1..Len(s)) |->
            IF S = {} THEN {} ELSE Project(it[S \ {Max(S)}], s[Max(S)])]

LEMMA ProjectingAt ==
  ASSUME NEW s, NEW it, Projectings(s, it), NEW S \in SUBSET (1..Len(s))
  PROVE  it[S] = IF S = {} THEN {} ELSE Project(it[S \ {Max(S)}], s[Max(S)])
  <1> DEFINE all == [U \in SUBSET (1..Len(s)) |->
                       IF U = {} THEN {} ELSE Project(it[U \ {Max(U)}], s[Max(U)])]
  <1>1. all[S] = IF S = {} THEN {} ELSE Project(it[S \ {Max(S)}], s[Max(S)])
    OBVIOUS
  <1>2. it = all
    BY DEF Projectings
  <1> HIDE DEF all
  <1> QED
    BY <1>1, <1>2

LEMMA ProjectingRun ==
  ASSUME NEW s \in Seq(Event)
  PROVE  \E f : Run(f, Len(s), SUBSET Claims, {}, ProjectingSteps(s), 1..Len(s)) /\ f[Len(s)] = Projected(s)
  <1> DEFINE n == Len(s)
             step == ProjectingSteps(s)
             it == CHOOSE iter : Projectings(s, iter)
  <1>1. n \in Nat /\ DOMAIN s = 1..n /\ \A i \in 1..n : s[i] \in Event
    OBVIOUS
  <1>2. step \in [1..n -> [SUBSET Claims -> SUBSET Claims]] /\ \A i \in 1..n, v \in SUBSET Claims : step[i][v] = Project(v, s[i])
    <2>1. \A i \in 1..n : [v \in SUBSET Claims |-> Project(v, s[i])] \in [SUBSET Claims -> SUBSET Claims]
      BY <1>1, ProjectType
    <2> QED
      BY <2>1 DEF ProjectingSteps
  <1>3. {} \in SUBSET Claims
    BY ProjectType
  <1>4. Projected(s) = it[1..n]
    BY <1>1 DEF Projected, FoldLeft, MapThenFoldSet, Projectings
  <1> HIDE DEF n, step, it
  <1>5. PICK iter : Iterates(iter, n, SUBSET Claims, {}, step)
    BY <1>1, <1>2, <1>3, FoldExists
  <1>6. Projectings(s, iter)
    <2>1. ASSUME NEW S \in SUBSET (1..n), S # {}
          PROVE  step[Max(S)][iter[S \ {Max(S)}]] = Project(iter[S \ {Max(S)}], s[Max(S)])
      <3>1. Max(S) \in 1..n /\ iter[S \ {Max(S)}] \in SUBSET Claims
        BY <1>1, <1>5, <2>1, MaxFacts DEF Iterates
      <3> QED
        BY <1>2, <3>1
    <2>2. iter \in [SUBSET (1..n) -> SUBSET Claims]
      BY <1>5 DEF Iterates
    <2>3. \A S \in SUBSET (1..n) :
            iter[S] = IF S = {} THEN {} ELSE Project(iter[S \ {Max(S)}], s[Max(S)])
      BY <1>5, <2>1 DEF Iterates
    <2>4. iter = [S \in SUBSET (1..n) |->
                    IF S = {} THEN {} ELSE Project(iter[S \ {Max(S)}], s[Max(S)])]
      BY <2>2, <2>3
    <2> QED
      BY <2>4 DEF Projectings, n
  <1>7. Projectings(s, it)
    BY <1>6 DEF it
  <1>8. PICK f : Run(f, n, SUBSET Claims, {}, step, 1..n)
    BY <1>1, <1>2, <1>3, RunExists
  <1>9. it[{}] = {}
    <2>1. {} \in SUBSET (1..Len(s))
      OBVIOUS
    <2> QED
      BY <1>7, <2>1, ProjectingAt
  <1>10. ASSUME NEW k \in 1..n, it[1..(k - 1)] \in SUBSET Claims
         PROVE  it[1..k] = step[k][it[1..(k - 1)]]
    <2> DEFINE S == 1..k
               below == 1..(k - 1)
    <2>1. Max(S) = k /\ S \ {k} = below /\ S # {} /\ S \in SUBSET (1..Len(s))
      <3>1. k \in Nat /\ k # 0 /\ \A i \in 1..k : i \in 1..n
        BY <1>1
      <3> QED
        BY <3>1, PrefixMax DEF n
    <2> HIDE DEF S, below
    <2>2. it[S] = IF S = {} THEN {} ELSE Project(it[S \ {Max(S)}], s[Max(S)])
      BY <1>7, <2>1, ProjectingAt
    <2>3. it[S] = Project(it[below], s[k])
      BY <2>1, <2>2
    <2> QED
      BY <1>2, <1>10, <2>3 DEF S, below
  <1>11. Steps(it, n, SUBSET Claims, {}, step)
    BY <1>9, <1>10 DEF Steps
  <1>12. it[1..n] = f[n]
    <2> DEFINE A == SUBSET Claims
               base == {}
    <2>1. /\ n \in Nat /\ base \in A /\ step \in [1..n -> [A -> A]]
          /\ Run(f, n, A, base, step, 1..n) /\ Steps(it, n, A, base, step)
      BY <1>1, <1>2, <1>8, <1>11
    <2> HIDE DEF A, base
    <2> QED
      BY <2>1, FoldTracks
  <1> QED
    BY <1>4, <1>8, <1>12 DEF n, step

LEMMA ProjectingType ==
  ASSUME NEW s \in Seq(Event)
  PROVE  Projected(s) \in SUBSET Claims
  <1>1. Len(s) \in Nat /\ Len(s) \in 0..Len(s)
    OBVIOUS
  <1> QED
    BY <1>1, ProjectingRun DEF Run

LEMMA ProjectingNothing == Projected(<< >>) = {}
  <1>1. << >> \in Seq(Event) /\ Len(<< >>) = 0
    OBVIOUS
  <1>2. PICK h : Run(h, 0, SUBSET Claims, {}, ProjectingSteps(<< >>), 1..0) /\ h[0] = Projected(<< >>)
    BY <1>1, ProjectingRun
  <1> QED
    BY <1>2 DEF Run

\* The claims.
LEMMA ProjectingAppend ==
  ASSUME NEW s \in Seq(Event), NEW e \in Event
  PROVE  Projected(s) \in SUBSET Claims /\ Projected(Append(s, e)) = Project(Projected(s), e)
  <1> DEFINE n == Len(s)
             t == Append(s, e)
  <1>1. n \in Nat /\ t \in Seq(Event) /\ Len(t) = n + 1 /\ t[n + 1] = e
        /\ \A i \in 1..n : t[i] = s[i]
    OBVIOUS
  <1>2. PICK f : Run(f, n, SUBSET Claims, {}, ProjectingSteps(s), 1..n) /\ f[n] = Projected(s)
    BY ProjectingRun
  <1> HIDE DEF n, t
  <1>3. PICK g : Run(g, n + 1, SUBSET Claims, {}, ProjectingSteps(t), 1..(n + 1)) /\ g[n + 1] = Projected(t)
    <2>1. \E g : Run(g, Len(t), SUBSET Claims, {}, ProjectingSteps(t), 1..Len(t)) /\ g[Len(t)] = Projected(t)
      BY <1>1, ProjectingRun
    <2> QED
      BY <1>1, <2>1
  <1>4. \A i \in 1..n : i \in 1..(n + 1) /\ ProjectingSteps(t)[i] = ProjectingSteps(s)[i]
    <2>1. \A i \in 1..n : i \in 1..(n + 1)
      BY <1>1
    <2> QED
      BY <1>1, <2>1 DEF ProjectingSteps, n
  <1>5. g[n + 1] = ProjectingSteps(t)[n + 1][f[n]] /\ f[n] \in SUBSET Claims
    BY <1>1, <1>2, <1>3, <1>4, RunGrows
  <1>6. ProjectingSteps(t)[n + 1][f[n]] = Project(f[n], e)
    <2>1. n + 1 \in 1..Len(t)
      BY <1>1
    <2> QED
      BY <1>1, <1>5, <2>1 DEF ProjectingSteps
  <1> QED
    BY <1>2, <1>3, <1>5, <1>6 DEF t
----------------------------------------------------------------------------
(* The filters say what the last operation about a target asked for.       *)

Says(s, k, types, t, type) ==
    \E i \in 1..k : /\ s[i].target = t /\ s[i].type = type
                    /\ \A j \in (i+1)..k : ~(s[j].target = t /\ s[j].type \in types)

LEMMA PrefixGrows ==
  ASSUME NEW s \in Seq(Event), NEW k \in Nat, k + 1 <= Len(s)
  PROVE  /\ SubSeq(s, 1, k) \in Seq(Event) /\ s[k + 1] \in Event
         /\ SubSeq(s, 1, k + 1) = Append(SubSeq(s, 1, k), s[k + 1])
  <1>1. Len(s) \in Nat /\ k + 1 \in 1..Len(s)
    OBVIOUS
  <1>2. /\ SubSeq(s, 1, k) = [i \in 1..k |-> s[i]]
        /\ SubSeq(s, 1, k + 1) = [i \in 1..(k + 1) |-> s[i]]
    BY DEF SubSeq
  <1>3. \A i \in 1..(k + 1) : i \in 1..Len(s) /\ s[i] \in Event
    BY <1>1
  <1>4. \A i \in 1..k : i \in 1..(k + 1)
    OBVIOUS
  <1>5. SubSeq(s, 1, k) \in Seq(Event) /\ Len(SubSeq(s, 1, k)) = k
    BY <1>2, <1>3, <1>4
  <1> QED
    BY <1>1, <1>2, <1>3, <1>4, <1>5

LEMMA PrefixEmpty ==
  ASSUME NEW s
  PROVE  SubSeq(s, 1, 0) = << >>
  BY DEF SubSeq

LEMMA SaysNext ==
  ASSUME NEW s \in Seq(Event), NEW k \in Nat, k + 1 <= Len(s), NEW types, NEW t,
         NEW type \in types
  PROVE  Says(s, k + 1, types, t, type) <=>
            IF s[k + 1].target = t /\ s[k + 1].type \in types THEN s[k + 1].type = type
            ELSE Says(s, k, types, t, type)
  <1> DEFINE about(i) == s[i].target = t /\ s[i].type \in types
  <1>1. k + 1 \in 1..(k + 1) /\ \A j \in ((k + 1) + 1)..(k + 1) : FALSE
    OBVIOUS
  <1>2. \A i \in 1..(k + 1) : i = k + 1 \/ (i \in 1..k /\ k + 1 \in (i+1)..(k + 1))
    OBVIOUS
  <1>3. CASE about(k + 1)
    <2>1. s[k + 1].type = type => Says(s, k + 1, types, t, type)
      BY <1>1, <1>3 DEF Says
    <2>2. Says(s, k + 1, types, t, type) => s[k + 1].type = type
      BY <1>2, <1>3 DEF Says
    <2> QED
      BY <1>3, <2>1, <2>2
  <1>4. CASE ~about(k + 1)
    <2>1. ASSUME Says(s, k + 1, types, t, type) PROVE Says(s, k, types, t, type)
      <3>1. PICK i \in 1..(k + 1) : /\ s[i].target = t /\ s[i].type = type
                                    /\ \A j \in (i+1)..(k + 1) : ~about(j)
        BY <2>1 DEF Says
      <3>2. i \in 1..k /\ \A j \in (i+1)..k : j \in (i+1)..(k + 1)
        BY <1>2, <1>4, <3>1
      <3> QED
        BY <3>1, <3>2 DEF Says
    <2>2. ASSUME Says(s, k, types, t, type) PROVE Says(s, k + 1, types, t, type)
      <3>1. PICK i \in 1..k : /\ s[i].target = t /\ s[i].type = type
                              /\ \A j \in (i+1)..k : ~about(j)
        BY <2>2 DEF Says
      <3>2. i \in 1..(k + 1) /\ \A j \in (i+1)..(k + 1) : j = k + 1 \/ j \in (i+1)..k
        OBVIOUS
      <3> QED
        BY <1>4, <3>1, <3>2 DEF Says
    <2> QED
      BY <1>4, <2>1, <2>2
  <1> QED
    BY <1>3, <1>4

\* The same, one back.
LEMMA SaysAt ==
  ASSUME NEW s \in Seq(Event), NEW n \in Nat, n - 1 \in Nat, n <= Len(s), NEW types, NEW t,
         NEW type \in types
  PROVE  Says(s, n, types, t, type) <=>
            IF s[n].target = t /\ s[n].type \in types THEN s[n].type = type
            ELSE Says(s, n - 1, types, t, type)
  <1>1. PICK k \in Nat : k = n - 1
    OBVIOUS
  <1>2. n = k + 1 /\ k + 1 <= Len(s)
    BY <1>1
  <1>3. Says(s, k + 1, types, t, type) <=>
            IF s[k + 1].target = t /\ s[k + 1].type \in types THEN s[k + 1].type = type
            ELSE Says(s, k, types, t, type)
    BY <1>2, SaysNext
  <1> QED
    BY <1>1, <1>2, <1>3

LEMMA EraseFacts ==
  ASSUME NEW v \in TombSets, NEW e \in Event, NEW t
  PROVE  /\ t \in Erase(v, e).deleted <=>
              IF e.target = t /\ e.type \in ErasureEvents THEN e.type = "deleted"
              ELSE t \in v.deleted
         /\ t \in Erase(v, e).purged <=>
              IF e.target = t /\ e.type \in {"deleted", "purged"} THEN e.type = "purged"
              ELSE t \in v.purged
  BY DEF Erase, ErasureEvents, TombSets

LEMMA ShareFacts ==
  ASSUME NEW v, NEW e \in Event, NEW t
  PROVE  t \in Share(v, e) <=>
              IF e.target = t /\ e.type \in DistributionEvents THEN e.type = "published"
              ELSE t \in v
  BY DEF Share, DistributionEvents

LEMMA TombstonesSay ==
  ASSUME NEW s \in Seq(Event), NEW t, NEW k \in 0..Len(s)
  PROVE  /\ t \in Tombstones(SubSeq(s, 1, k)).deleted <=> Says(s, k, ErasureEvents, t, "deleted")
         /\ t \in Tombstones(SubSeq(s, 1, k)).purged <=>
              Says(s, k, {"deleted", "purged"}, t, "purged")
  <1> DEFINE T(n) == Tombstones(SubSeq(s, 1, n))
             Right(n) == /\ t \in T(n).deleted <=> Says(s, n, ErasureEvents, t, "deleted")
                         /\ t \in T(n).purged <=> Says(s, n, {"deleted", "purged"}, t, "purged")
             Bad == {n \in Nat : n <= Len(s) /\ ~Right(n)}
  <1>1. ASSUME Bad # {} PROVE FALSE
    <2>1. PICK n \in Bad : \A j \in Bad : n <= j
      BY <1>1, LeastNumber
    <2>2. n # 0
      <3>1. T(0) = NothingErased
        BY PrefixEmpty, ErasingNothing
      <3>2. \A types, type : ~Says(s, 0, types, t, type)
        BY DEF Says
      <3> QED
        BY <2>1, <3>1, <3>2 DEF NothingErased
    <2>3. n - 1 \in Nat /\ (n - 1) + 1 = n /\ n <= Len(s) /\ ~(n <= n - 1) /\ n - 1 <= Len(s)
      BY <2>2
    <2>4. Right(n - 1)
      BY <2>1, <2>3
    <2>5. /\ SubSeq(s, 1, n - 1) \in Seq(Event) /\ s[n] \in Event
          /\ SubSeq(s, 1, n) = Append(SubSeq(s, 1, n - 1), s[n])
      BY <2>3, PrefixGrows
    <2>6. T(n - 1) \in TombSets /\ T(n) = Erase(T(n - 1), s[n])
      BY <2>5, ErasingAppend
    <2>7. /\ t \in T(n).deleted <=>
              IF s[n].target = t /\ s[n].type \in ErasureEvents THEN s[n].type = "deleted"
              ELSE t \in T(n - 1).deleted
          /\ t \in T(n).purged <=>
              IF s[n].target = t /\ s[n].type \in {"deleted", "purged"} THEN s[n].type = "purged"
              ELSE t \in T(n - 1).purged
      BY <2>5, <2>6, EraseFacts
    <2>8. Says(s, n, ErasureEvents, t, "deleted") <=>
              IF s[n].target = t /\ s[n].type \in ErasureEvents THEN s[n].type = "deleted"
              ELSE Says(s, n - 1, ErasureEvents, t, "deleted")
      <3>1. "deleted" \in ErasureEvents
        BY DEF ErasureEvents
      <3> QED
        BY <2>3, <3>1, SaysAt
    <2>9. Says(s, n, {"deleted", "purged"}, t, "purged") <=>
              IF s[n].target = t /\ s[n].type \in {"deleted", "purged"} THEN s[n].type = "purged"
              ELSE Says(s, n - 1, {"deleted", "purged"}, t, "purged")
      <3> DEFINE types == {"deleted", "purged"}
      <3>1. "purged" \in types
        OBVIOUS
      <3> HIDE DEF types
      <3>2. Says(s, n, types, t, "purged") <=>
              IF s[n].target = t /\ s[n].type \in types THEN s[n].type = "purged"
              ELSE Says(s, n - 1, types, t, "purged")
        BY <2>3, <3>1, SaysAt
      <3> QED
        BY <3>2 DEF types
    <2> QED
      BY <2>1, <2>4, <2>7, <2>8, <2>9
  <1>2. k \notin Bad /\ k \in Nat /\ k <= Len(s)
    BY <1>1
  <1> QED
    BY <1>2

LEMMA DistributionSays ==
  ASSUME NEW s \in Seq(Event), NEW t, NEW k \in 0..Len(s)
  PROVE  t \in Distribution(SubSeq(s, 1, k)) <=> Says(s, k, DistributionEvents, t, "published")
  <1> DEFINE D(n) == Distribution(SubSeq(s, 1, n))
             Bad == {n \in Nat : n <= Len(s) /\
                       ~(t \in D(n) <=> Says(s, n, DistributionEvents, t, "published"))}
  <1>1. ASSUME Bad # {} PROVE FALSE
    <2>1. PICK n \in Bad : \A j \in Bad : n <= j
      BY <1>1, LeastNumber
    <2>2. n # 0
      <3>1. D(0) = {}
        BY PrefixEmpty, SharingNothing
      <3>2. \A types, type : ~Says(s, 0, types, t, type)
        BY DEF Says
      <3> QED
        BY <2>1, <3>1, <3>2
    <2>3. n - 1 \in Nat /\ (n - 1) + 1 = n /\ n <= Len(s) /\ ~(n <= n - 1) /\ n - 1 <= Len(s)
      BY <2>2
    <2>4. t \in D(n - 1) <=> Says(s, n - 1, DistributionEvents, t, "published")
      BY <2>1, <2>3
    <2>5. /\ SubSeq(s, 1, n - 1) \in Seq(Event) /\ s[n] \in Event
          /\ SubSeq(s, 1, n) = Append(SubSeq(s, 1, n - 1), s[n])
      BY <2>3, PrefixGrows
    <2>6. D(n) = Share(D(n - 1), s[n])
      BY <2>5, SharingAppend
    <2>7. t \in D(n) <=>
              IF s[n].target = t /\ s[n].type \in DistributionEvents THEN s[n].type = "published"
              ELSE t \in D(n - 1)
      BY <2>5, <2>6, ShareFacts
    <2>8. Says(s, n, DistributionEvents, t, "published") <=>
              IF s[n].target = t /\ s[n].type \in DistributionEvents THEN s[n].type = "published"
              ELSE Says(s, n - 1, DistributionEvents, t, "published")
      <3>1. "published" \in DistributionEvents
        BY DEF DistributionEvents
      <3> QED
        BY <2>3, <3>1, SaysAt
    <2> QED
      BY <2>1, <2>4, <2>7, <2>8
  <1>2. k \notin Bad /\ k \in Nat /\ k <= Len(s)
    BY <1>1
  <1> QED
    BY <1>2

\* What has been erased and not restored since is in the tombstones.
LEMMA StillErased ==
  ASSUME NEW s \in Seq(Event), NEW t, NEW i \in 1..Len(s), s[i].target = t,
         s[i].type \in {"deleted", "purged"},
         \A j \in (i+1)..Len(s) : ~(s[j].target = t /\ s[j].type = "restored"),
         NEW k \in i..Len(s)
  PROVE  LET T == Tombstones(SubSeq(s, 1, k)) IN t \in T.deleted \union T.purged
  <1> DEFINE T(n) == Tombstones(SubSeq(s, 1, n))
             Bad == {n \in Nat : i <= n /\ n <= Len(s) /\ t \notin T(n).deleted \union T(n).purged}
  <1>1. ASSUME Bad # {} PROVE FALSE
    <2>1. PICK n \in Bad : \A j \in Bad : n <= j
      BY <1>1, LeastNumber
    <2>2. /\ n - 1 \in Nat /\ (n - 1) + 1 = n /\ n <= Len(s) /\ ~(n <= n - 1)
          /\ n = i \/ (i <= n - 1 /\ n \in (i+1)..Len(s))
      OBVIOUS
    <2>3. /\ SubSeq(s, 1, n - 1) \in Seq(Event) /\ s[n] \in Event
          /\ SubSeq(s, 1, n) = Append(SubSeq(s, 1, n - 1), s[n])
      BY <2>2, PrefixGrows
    <2>4. T(n - 1) \in TombSets /\ T(n) = Erase(T(n - 1), s[n])
      BY <2>3, ErasingAppend
    <2>5. /\ t \in T(n).deleted <=>
              IF s[n].target = t /\ s[n].type \in ErasureEvents THEN s[n].type = "deleted"
              ELSE t \in T(n - 1).deleted
          /\ t \in T(n).purged <=>
              IF s[n].target = t /\ s[n].type \in {"deleted", "purged"} THEN s[n].type = "purged"
              ELSE t \in T(n - 1).purged
      BY <2>3, <2>4, EraseFacts
    <2>6. n # i => t \in T(n - 1).deleted \union T(n - 1).purged
      BY <2>1, <2>2
    <2>7. n # i => ~(s[n].target = t /\ s[n].type = "restored")
      BY <2>2
    <2> HIDE DEF T
    <2> QED
      BY <2>1, <2>5, <2>6, <2>7 DEF ErasureEvents
  <1>2. k \notin Bad /\ k \in Nat /\ i <= k /\ k <= Len(s)
    BY <1>1
  <1> QED
    BY <1>2

\* Nothing is said of a target by what comes after its last event.
LEMMA SaysRest ==
  ASSUME NEW s \in Seq(Event), NEW k \in 0..Len(s), NEW types, NEW type \in types, NEW t,
         \A j \in (k+1)..Len(s) : ~(s[j].target = t /\ s[j].type \in types)
  PROVE  Says(s, k, types, t, type) <=> Says(s, Len(s), types, t, type)
  <1> DEFINE about(i) == s[i].target = t /\ s[i].type \in types
  <1>0. Len(s) \in Nat /\ k \in Nat /\ k <= Len(s)
    OBVIOUS
  <1>1. ASSUME Says(s, k, types, t, type) PROVE Says(s, Len(s), types, t, type)
    <2>1. PICK i \in 1..k : s[i].target = t /\ s[i].type = type /\ \A j \in (i+1)..k : ~about(j)
      BY <1>1 DEF Says
    <2>2. i \in 1..Len(s) /\ \A j \in (i+1)..Len(s) : j \in (i+1)..k \/ j \in (k+1)..Len(s)
      BY <1>0
    <2> QED
      BY <2>1, <2>2 DEF Says
  <1>2. ASSUME Says(s, Len(s), types, t, type) PROVE Says(s, k, types, t, type)
    <2>1. PICK i \in 1..Len(s) :
             s[i].target = t /\ s[i].type = type /\ \A j \in (i+1)..Len(s) : ~about(j)
      BY <1>2 DEF Says
    <2>2. i \in 1..k
      BY <1>0, <2>1
    <2>3. \A j \in (i+1)..k : j \in (i+1)..Len(s)
      BY <1>0
    <2> QED
      BY <2>1, <2>2, <2>3 DEF Says
  <1> QED
    BY <1>1, <1>2

LEMMA LastSays ==
  ASSUME log \in Seq(Event), NEW types, "none" \notin types, NEW type \in types, NEW t
  PROVE  LastAbout(types, t) = type <=> Says(log, Len(log), types, t, type)
  <1> DEFINE about == {i \in DOMAIN log : log[i].type \in types /\ log[i].target = t}
             m == Max(about)
  <1>1. Len(log) \in Nat /\ DOMAIN log = 1..Len(log)
    OBVIOUS
  <1>2. LastAbout(types, t) = IF about = {} THEN "none" ELSE log[m].type
    BY DEF LastAbout
  <1>3. CASE about = {}
    <2>1. ~Says(log, Len(log), types, t, type)
      BY <1>1, <1>3 DEF Says
    <2> QED
      BY <1>2, <1>3, <2>1
  <1>4. CASE about # {}
    <2>1. m \in about /\ \A i \in about : i <= m
      BY <1>1, <1>4, MaxFacts
    <2> HIDE DEF m
    <2>2. \A j \in (m+1)..Len(log) : j \notin about /\ j \in DOMAIN log
      BY <1>1, <2>1
    <2>3. log[m].type = type => Says(log, Len(log), types, t, type)
      BY <1>1, <2>1, <2>2 DEF Says
    <2>4. ASSUME Says(log, Len(log), types, t, type) PROVE log[m].type = type
      <3>1. PICK i \in 1..Len(log) :
               /\ log[i].target = t /\ log[i].type = type
               /\ \A j \in (i+1)..Len(log) : ~(log[j].target = t /\ log[j].type \in types)
        BY <2>4 DEF Says
      <3>2. i <= m /\ m \notin (i+1)..Len(log)
        BY <1>1, <2>1, <3>1
      <3>3. i = m
        BY <1>1, <2>1, <3>2
      <3> QED
        BY <3>1, <3>3
    <2> QED
      BY <1>2, <1>4, <2>3, <2>4
  <1> QED
    BY <1>3, <1>4

----------------------------------------------------------------------------
(* The filter files, and those who write them.                             *)

Filtering == ErasureEvents \union DistributionEvents
Active(e) == pc[e] \in {"strip", "write", "fold", "open", "close"}

\* The operation is in the log, and what its process has read covers it.
Standing(e) ==
    /\ Active(e) =>
          /\ op[e].at \in DOMAIN log /\ op[e].type \in Filtering
          /\ log[op[e].at] = [type |-> op[e].type, target |-> op[e].target]
    /\ pc[e] \in {"open", "close"} =>
          seen[e] \in Nat /\ op[e].at <= seen[e] /\ seen[e] <= Len(log)

\* The file has once covered the operation.
Covered(i) ==
    /\ i \in DOMAIN log /\ log[i].type \in Filtering
    /\ i <= best[FilterOf(log[i].type)]

Bounded ==
    /\ seen \in [Erasers -> Nat]
    /\ filter \in [Filters -> Int] /\ best \in [Filters -> Nat]
    /\ \A f \in Filters : -1 <= filter[f] /\ filter[f] <= Len(log) /\ best[f] <= Len(log)

FilterInv ==
    /\ Bounded
    /\ \A e \in Erasers : Standing(e)
    /\ \A i \in returned : Covered(i)
    /\ owed \subseteq DOMAIN log

LEMMA FilterOfFacts == \A type \in Filtering : FilterOf(type) \in Filters
  BY DEF Filtering, FilterOf, Filters

Grows(s, t) == t = s \/ \E x \in Event : t = Append(s, x)

LEMMA Grown ==
  ASSUME log \in Seq(Event), Grows(log, log')
  PROVE  /\ Len(log) \in Nat /\ Len(log') \in Nat /\ Len(log) <= Len(log')
         /\ DOMAIN log = 1..Len(log) /\ DOMAIN log' = 1..Len(log')
         /\ \A i \in 1..Len(log) : i \in 1..Len(log') /\ log'[i] = log[i]
  <1>1. log' \in Seq(Event) /\ \A i \in DOMAIN log : i \in DOMAIN log' /\ log'[i] = log[i]
    BY LogGrows DEF Grows
  <1>2. Len(log) <= Len(log')
    <2>1. CASE log' = log
      BY <2>1
    <2>2. CASE \E x \in Event : log' = Append(log, x)
      BY <2>2
    <2> QED
      BY <2>1, <2>2 DEF Grows
  <1> QED
    BY <1>1, <1>2

\* What a step has to do to keep the invariant.
LEMMA FilterFrame ==
  ASSUME PurgeInv, FilterInv, Grows(log, log'),
         seen' \in [Erasers -> Nat], filter' \in [Filters -> Int], best' \in [Filters -> Nat],
         \A f \in Filters : /\ -1 <= filter'[f] /\ filter'[f] <= Len(log')
                            /\ best[f] <= best'[f] /\ best'[f] <= Len(log'),
         \A e \in Erasers : \/ Standing(e)'
                            \/ pc'[e] = pc[e] /\ op'[e] = op[e] /\ seen'[e] = seen[e],
         \A i \in returned' : i \in returned \/ Covered(i)',
         owed' \subseteq DOMAIN log'
  PROVE  FilterInv'
  <1>1. /\ Len(log) \in Nat /\ Len(log') \in Nat /\ Len(log) <= Len(log')
        /\ DOMAIN log = 1..Len(log) /\ DOMAIN log' = 1..Len(log')
        /\ \A i \in 1..Len(log) : i \in 1..Len(log') /\ log'[i] = log[i]
    BY Grown DEF PurgeInv, Typed
  <1>2. Bounded'
    BY DEF Bounded
  <1>3. ASSUME NEW e \in Erasers PROVE Standing(e)'
    <2>1. CASE pc'[e] = pc[e] /\ op'[e] = op[e] /\ seen'[e] = seen[e]
      <3>1. Standing(e) /\ op[e].at \in Nat
        BY DEF FilterInv, PurgeInv, Typed, Operations
      <3>2. Active(e)' => Active(e)
        BY <2>1 DEF Active
      <3>3. Active(e)' => /\ op'[e].at \in DOMAIN log' /\ op'[e].type \in Filtering
                          /\ log'[op'[e].at] = [type |-> op'[e].type, target |-> op'[e].target]
        BY <1>1, <2>1, <3>1, <3>2 DEF Standing
      <3>4. pc'[e] \in {"open", "close"} =>
               seen'[e] \in Nat /\ op'[e].at <= seen'[e] /\ seen'[e] <= Len(log')
        BY <1>1, <2>1, <3>1 DEF Standing
      <3> QED
        BY <3>3, <3>4 DEF Standing
    <2> QED
      BY <2>1
  <1>4. ASSUME NEW i \in returned' PROVE Covered(i)'
    <2>1. CASE i \in returned
      <3>1. Covered(i) /\ i \in 1..Len(log) /\ log'[i] = log[i]
        BY <1>1, <2>1 DEF FilterInv, Covered
      <3>2. best[FilterOf(log[i].type)] <= best'[FilterOf(log[i].type)]
            /\ best[FilterOf(log[i].type)] \in Nat /\ best'[FilterOf(log[i].type)] \in Nat
        BY <3>1, FilterOfFacts DEF Covered, FilterInv, Bounded
      <3> QED
        BY <1>1, <3>1, <3>2 DEF Covered
    <2> QED
      BY <2>1
  <1> QED
    BY <1>2, <1>3, <1>4 DEF FilterInv

LEMMA LastOfFacts ==
  ASSUME log \in Seq(Event), NEW f
  PROVE  /\ LastOf(f) \in Nat /\ LastOf(f) <= Len(log)
         /\ \A i \in DOMAIN log : FilterOf(log[i].type) = f => i <= LastOf(f)
  <1> DEFINE S == {0} \union {i \in DOMAIN log : FilterOf(log[i].type) = f}
  <1>1. Len(log) \in Nat /\ DOMAIN log = 1..Len(log)
    OBVIOUS
  <1>2. S \in SUBSET Nat /\ S \subseteq 0..Len(log) /\ S # {}
    BY <1>1
  <1>3. IsFiniteSet(S)
    <2>1. IsFiniteSet(0..Len(log))
      BY <1>1, FS_Interval
    <2> QED
      BY <1>2, <2>1, FS_Subset
  <1>4. \A i \in DOMAIN log : FilterOf(log[i].type) = f => i \in S
    OBVIOUS
  <1>5. LastOf(f) = Max(S)
    BY DEF LastOf
  <1> HIDE DEF S
  <1>6. PICK m \in S : \A i \in S : i <= m
    BY <1>2, <1>3, HighestNumber
  <1>7. \A i \in S : m >= i
    BY <1>2, <1>6
  <1>8. Max(S) \in S /\ \A i \in S : Max(S) >= i
    BY <1>7 DEF Max
  <1>9. Max(S) \in Nat /\ Max(S) <= Len(log)
    <2>1. Max(S) \in 0..Len(log)
      BY <1>2, <1>8
    <2> HIDE DEF S
    <2> QED
      BY <1>1, <2>1
  <1>10. \A i \in S : i <= Max(S)
    BY <1>2, <1>8, <1>9
  <1> QED
    BY <1>4, <1>5, <1>9, <1>10

LEMMA FilterRecord ==
  ASSUME PurgeInv, FilterInv, NEW e \in Erasers, NEW t \in Targets,
         NEW type \in Filtering, Record(e, type, t)
  PROVE  FilterInv'
  <1> DEFINE x == [type |-> type, target |-> t]
             n == Len(log) + 1
  <1>1. x \in Event /\ log' = Append(log, x) /\ log \in Seq(Event)
    BY DEF Event, Filtering, Record, PurgeInv, Typed
  <1>2. Grows(log, log')
    BY <1>1 DEF Grows
  <1>3. n \in Nat /\ n \in DOMAIN log' /\ log'[n] = x /\ DOMAIN log = 1..Len(log)
        /\ \A i \in DOMAIN log : i \in DOMAIN log'
    BY <1>1
  <1>4. /\ op'[e] = [type |-> type, target |-> t, at |-> n]
        /\ pc'[e] = IF type = "purged" THEN "strip" ELSE "fold"
        /\ \A y \in Erasers : y # e => pc'[y] = pc[y] /\ op'[y] = op[y]
    <2>1. /\ op' = [op EXCEPT ![e] = [type |-> type, target |-> t, at |-> n]]
          /\ pc' = [pc EXCEPT ![e] = IF type = "purged" THEN "strip" ELSE "fold"]
      BY DEF Record
    <2> HIDE DEF n
    <2>2. op \in [Erasers -> Operations] /\ pc \in [Erasers -> States]
      BY DEF PurgeInv, Typed
    <2>3. op'[e] = [type |-> type, target |-> t, at |-> n]
      BY <2>1, <2>2
    <2>4. pc'[e] = IF type = "purged" THEN "strip" ELSE "fold"
      BY <2>1, <2>2
    <2>5. \A y \in Erasers : y # e => pc'[y] = pc[y] /\ op'[y] = op[y]
      BY <2>1, <2>2
    <2> QED
      BY <2>3, <2>4, <2>5
  <1> HIDE DEF n
  <1>5. Standing(e)'
    <2>1. op'[e].at = n /\ op'[e].type = type /\ op'[e].target = t
          /\ pc'[e] \notin {"open", "close"}
      <3>1. pc'[e] \notin {"open", "close"}
        BY <1>4
      <3>2. op'[e] = [type |-> type, target |-> t, at |-> n]
        BY <1>4
      <3> QED
        BY <3>1, <3>2
    <2>2. log'[op'[e].at] = [type |-> op'[e].type, target |-> op'[e].target]
      BY <1>3, <2>1
    <2> QED
      BY <1>3, <2>1, <2>2 DEF Standing
  <1>6. owed' \subseteq DOMAIN log' /\ UNCHANGED <<filter, seen, best, returned>>
    BY <1>3 DEF Record, FilterInv
  <1>7. \A f \in Filters : /\ -1 <= filter'[f] /\ filter'[f] <= Len(log')
                           /\ best[f] <= best'[f] /\ best'[f] <= Len(log')
    <2>1. Len(log) \in Nat /\ Len(log') \in Nat /\ Len(log) <= Len(log')
      BY <1>1, <1>2, Grown
    <2> QED
      BY <1>6, <2>1 DEF FilterInv, Bounded
  <1>8. /\ seen' \in [Erasers -> Nat] /\ filter' \in [Filters -> Int]
        /\ best' \in [Filters -> Nat] /\ \A i \in returned' : i \in returned
    BY <1>6 DEF FilterInv, Bounded
  <1>9. \A y \in Erasers : Standing(y)' \/ (pc'[y] = pc[y] /\ op'[y] = op[y] /\ seen'[y] = seen[y])
    BY <1>4, <1>5, <1>6
  <1> QED
    BY <1>2, <1>6, <1>7, <1>8, <1>9, FilterFrame

\* Steps that neither append nor touch a filter file.
LEMMA FilterQuiet ==
  ASSUME PurgeInv, FilterInv, log' = log, UNCHANGED <<filter, best, returned>>,
         seen' \in [Erasers -> Nat],
         owed' \subseteq owed,
         \A e \in Erasers : \/ Standing(e)'
                            \/ pc'[e] = pc[e] /\ op'[e] = op[e] /\ seen'[e] = seen[e]
  PROVE  FilterInv'
  <1>1. Grows(log, log')
    BY DEF Grows
  <1>2. \A f \in Filters : /\ -1 <= filter'[f] /\ filter'[f] <= Len(log')
                           /\ best[f] <= best'[f] /\ best'[f] <= Len(log')
    BY DEF FilterInv, Bounded
  <1>3. owed' \subseteq DOMAIN log'
    BY DEF FilterInv
  <1> QED
    BY <1>1, <1>2, <1>3, FilterFrame DEF FilterInv, Bounded

\* Passes append, and leave the rest alone.
LEMMA FilterPass ==
  ASSUME PurgeInv, FilterInv, NEW u \in Sources, PassBegin(u) \/ PassWrite \/ PassAppend
  PROVE  FilterInv'
  <1>1. log \in Seq(Event)
    BY DEF PurgeInv, Typed
  <1>2. Grows(log, log')
    <2>1. CASE PassBegin(u)
      <3>1. \A k \in SourceEvents : [type |-> k, target |-> u] \in Event
        BY DEF Event
      <3> QED
        BY <2>1, <3>1 DEF PassBegin, SourceEvents, Grows
    <2>2. CASE PassWrite
      <3>1. pass \in [at : {"write", "append"}, source : Sources, mem : SUBSET Claims]
        BY <2>2 DEF PassWrite, PurgeInv, Typed, Passes, NoPass
      <3>2. [type |-> "upserted", target |-> pass.source] \in Event
        BY <3>1 DEF Event, SourceEvents
      <3> QED
        BY <2>2, <3>2 DEF PassWrite, Grows
    <2>3. CASE PassAppend
      BY <2>3 DEF PassAppend, Grows
    <2> QED
      BY <2>1, <2>2, <2>3
  <1>3. UNCHANGED <<work, filter, best, returned, owed>>
    BY DEF PassBegin, PassWrite, PassAppend, history
  <1>4. /\ Len(log) \in Nat /\ Len(log') \in Nat /\ Len(log) <= Len(log')
        /\ \A i \in DOMAIN log : i \in DOMAIN log'
    BY <1>1, <1>2, Grown
  <1>5. \A f \in Filters : /\ -1 <= filter'[f] /\ filter'[f] <= Len(log')
                           /\ best[f] <= best'[f] /\ best'[f] <= Len(log')
    BY <1>3, <1>4 DEF FilterInv, Bounded
  <1>6. owed' \subseteq DOMAIN log'
    BY <1>3, <1>4 DEF FilterInv
  <1> QED
    BY <1>2, <1>3, <1>5, <1>6, FilterFrame DEF FilterInv, Bounded, work

LEMMA FilterWritten ==
  ASSUME PurgeInv, FilterInv, NEW e \in Erasers, WriteOpen(e) \/ WriteDone(e)
  PROVE  FilterInv'
  <1> DEFINE f == FilterOf(op[e].type)
  <1>1. Grows(log, log') /\ log' = log /\ log \in Seq(Event) /\ Len(log) \in Nat
    BY DEF WriteOpen, WriteDone, Grows, PurgeInv, Typed
  <1>2. pc[e] \in {"open", "close"} /\ Active(e) /\ Standing(e)
    BY DEF WriteOpen, WriteDone, Active, FilterInv
  <1>3. /\ op[e].at \in DOMAIN log /\ op[e].type \in Filtering
        /\ log[op[e].at].type = op[e].type
        /\ seen[e] \in Nat /\ op[e].at <= seen[e] /\ seen[e] <= Len(log)
    BY <1>2 DEF Standing
  <1>4. f \in Filters
    BY <1>3, FilterOfFacts
  <1>5. op[e].at \in Nat
    BY <1>3
  <1>6. CASE WriteOpen(e)
    <2>1. filter' = [filter EXCEPT ![f] = -1] /\ UNCHANGED <<op, seen, best, returned, owed>>
      BY <1>6 DEF WriteOpen, Broken, history
    <2>2. /\ filter' \in [Filters -> Int]
          /\ \A g \in Filters : /\ -1 <= filter'[g] /\ filter'[g] <= Len(log')
                                /\ best[g] <= best'[g] /\ best'[g] <= Len(log')
      BY <1>1, <1>4, <2>1 DEF FilterInv, Bounded
    <2>3. \A y \in Erasers : Standing(y)' \/ (pc'[y] = pc[y] /\ op'[y] = op[y] /\ seen'[y] = seen[y])
      <3>1. Standing(e)'
        BY <1>1, <1>2, <2>1 DEF Standing, Active
      <3>2. \A y \in Erasers : y # e => pc'[y] = pc[y]
        BY <1>6 DEF WriteOpen, PurgeInv, Typed
      <3> QED
        BY <2>1, <3>1, <3>2
    <2> QED
      BY <1>1, <2>1, <2>2, <2>3, FilterFrame DEF FilterInv, Bounded
  <1>7. CASE WriteDone(e)
    <2>1. /\ \E n \in {seen[e]} \union (IF filter[f] = Broken THEN {} ELSE {Broken}) :
                filter' = [filter EXCEPT ![f] = n]
          /\ best' = [best EXCEPT ![f] = IF seen[e] > @ THEN seen[e] ELSE @]
          /\ returned' = returned \union {op[e].at} /\ Quit(e) /\ owed' = owed
      BY <1>7 DEF WriteDone
    <2>2. PICK n : n \in {seen[e], -1} /\ filter' = [filter EXCEPT ![f] = n]
      BY <2>1 DEF Broken
    <2>3. n \in Int /\ -1 <= n /\ n <= Len(log)
      BY <1>1, <1>3, <2>2
    <2>4. filter' \in [Filters -> Int] /\ \A g \in Filters : -1 <= filter'[g] /\ filter'[g] <= Len(log')
      BY <1>1, <1>4, <2>2, <2>3 DEF FilterInv, Bounded
    <2>5. /\ best' \in [Filters -> Nat] /\ seen[e] <= best'[f]
          /\ \A g \in Filters : best[g] <= best'[g] /\ best'[g] <= Len(log')
      BY <1>1, <1>3, <1>4, <2>1 DEF FilterInv, Bounded
    <2>6. ASSUME NEW i, i = op[e].at PROVE Covered(i)'
      <3>2. i \in DOMAIN log' /\ log'[i].type \in Filtering /\ FilterOf(log'[i].type) = f
            /\ i <= best'[f]
        BY <1>1, <1>3, <1>4, <1>5, <2>5, <2>6
      <3> QED
        BY <3>2 DEF Covered
    <2>7. \A y \in Erasers : Standing(y)' \/ (pc'[y] = pc[y] /\ op'[y] = op[y] /\ seen'[y] = seen[y])
      <3>1. pc'[e] = "idle" /\ \A y \in Erasers : y # e => pc'[y] = pc[y]
        BY <2>1 DEF Quit, PurgeInv, Typed
      <3>2. Standing(e)'
        BY <3>1 DEF Standing, Active
      <3>3. \A y \in Erasers : y # e => op'[y] = op[y] /\ seen'[y] = seen[y]
        BY <2>1 DEF Quit, PurgeInv, Typed, FilterInv, Bounded
      <3> QED
        BY <3>1, <3>2, <3>3
    <2>8. \A i \in returned' : i \in returned \/ Covered(i)'
      BY <2>1, <2>6
    <2>9. seen' \in [Erasers -> Nat] /\ owed' \subseteq DOMAIN log'
      BY <1>1, <2>1 DEF Quit, FilterInv, Bounded
    <2> QED
      BY <1>1, <2>4, <2>5, <2>7, <2>8, <2>9, FilterFrame
  <1> QED
    BY <1>6, <1>7

\* One process moves on, with the operation it has.
LEMMA FilterMoves ==
  ASSUME PurgeInv, FilterInv, NEW e \in Erasers, Active(e),
         NEW s \in {"strip", "write", "fold", "open"}, pc' = [pc EXCEPT ![e] = s],
         UNCHANGED <<log, op, filter, best, returned>>, owed' \subseteq owed,
         seen' \in [Erasers -> Nat], \A y \in Erasers : y # e => seen'[y] = seen[y],
         s = "open" => op[e].at <= seen'[e] /\ seen'[e] <= Len(log)
  PROVE  FilterInv'
  <1>1. pc'[e] = s /\ \A y \in Erasers : y # e => pc'[y] = pc[y]
    BY DEF PurgeInv, Typed
  <1>2. Standing(e) /\ seen'[e] \in Nat
    BY DEF FilterInv
  <1>3. Standing(e)'
    BY <1>1, <1>2 DEF Standing
  <1> QED
    BY <1>1, <1>3, FilterQuiet

LEMMA FilterQuits ==
  ASSUME PurgeInv, FilterInv, NEW e \in Erasers, Quit(e),
         UNCHANGED <<log, filter, best, returned, owed>>
  PROVE  FilterInv'
  <1>1. /\ pc' = [pc EXCEPT ![e] = "idle"] /\ op' = [op EXCEPT ![e] = Idle]
        /\ seen' = [seen EXCEPT ![e] = 0]
    BY DEF Quit
  <1>2. /\ op \in [Erasers -> Operations] /\ pc \in [Erasers -> States]
        /\ seen \in [Erasers -> Nat]
    BY DEF PurgeInv, Typed, FilterInv, Bounded
  <1>3. /\ pc'[e] = "idle" /\ seen' \in [Erasers -> Nat]
        /\ \A y \in Erasers : y # e => pc'[y] = pc[y] /\ op'[y] = op[y] /\ seen'[y] = seen[y]
    BY <1>1, <1>2
  <1>4. Standing(e)'
    BY <1>3 DEF Standing, Active
  <1> QED
    BY <1>3, <1>4, FilterQuiet

LEMMA FilterNext == PurgeInv /\ FilterInv /\ [Next]_vars => FilterInv'
  <1> SUFFICES ASSUME PurgeInv, FilterInv, [Next]_vars PROVE FilterInv'
    OBVIOUS
  <1> USE DEF history
  <1>0. /\ op \in [Erasers -> Operations] /\ pc \in [Erasers -> States]
        /\ seen \in [Erasers -> Nat] /\ log \in Seq(Event)
    BY DEF PurgeInv, Typed, FilterInv, Bounded
  <1>1. CASE UNCHANGED <<log, filter, best, returned, owed, pc, op, seen>>
    BY <1>0, <1>1, FilterQuiet
  <1>2. ASSUME NEW e \in Erasers, NEW t \in Targets, Check(e, t)
        PROVE  FilterInv'
    <2>1. /\ pc'[e] = "append" /\ \A y \in Erasers : y # e => pc'[y] = pc[y] /\ op'[y] = op[y]
      BY <1>0, <1>2 DEF Check
    <2>2. Standing(e)'
      BY <2>1 DEF Standing, Active
    <2>3. UNCHANGED <<log, filter, best, returned, owed, seen>>
      BY <1>2 DEF Check
    <2> QED
      BY <1>0, <2>1, <2>2, <2>3, FilterQuiet
  <1>3. ASSUME NEW e \in Erasers, NEW t \in Targets,
               NEW type \in {"deleted", "purged", "published", "unpublished"}, Begin(e, type, t)
        PROVE  FilterInv'
    BY <1>3, FilterRecord DEF Begin, Filtering, ErasureEvents, DistributionEvents
  <1>4. ASSUME NEW e \in Erasers, Restore(e)
        PROVE  FilterInv'
    <2>1. op[e].target \in Targets
      BY <1>4 DEF Restore, PurgeInv, Announced
    <2> QED
      BY <1>4, <2>1, FilterRecord DEF Restore, Filtering, ErasureEvents
  <1>5. ASSUME NEW e \in Erasers,
               StripRead(e) \/ StripNothing(e) \/ StripTable(e) \/ Reseal(e) \/ Unlink(e)
        PROVE  FilterInv'
    <2>1. CASE StripRead(e)
      <3>1. Active(e) /\ pc' = [pc EXCEPT ![e] = "write"]
            /\ UNCHANGED <<log, op, filter, best, returned, owed, seen>>
        BY <2>1 DEF StripRead, Active
      <3> QED
        BY <1>0, <3>1, FilterMoves
    <2>2. CASE StripNothing(e) \/ StripTable(e) \/ Reseal(e) \/ Unlink(e)
      <3>1. Active(e) /\ Stripped(e)
        BY <2>2 DEF StripNothing, StripTable, Reseal, Unlink, Stripping, Active
      <3>2. pc' = [pc EXCEPT ![e] = "strip"]
            /\ UNCHANGED <<log, op, filter, best, returned, owed, seen>>
        BY <3>1 DEF Stripped
      <3> QED
        BY <1>0, <3>1, <3>2, FilterMoves
    <2> QED
      BY <1>5, <2>1, <2>2
  <1>6. ASSUME NEW e \in Erasers,
               \/ UnlinkRaises(e) \/ StripDone(e) \/ FoldRead(e) \/ WriteOpen(e)
               \/ WriteDone(e) \/ Crash(e)
        PROVE  FilterInv'
    <2>1. CASE UnlinkRaises(e) \/ Crash(e)
      BY <2>1, FilterQuits DEF UnlinkRaises, Crash
    <2>2. CASE StripDone(e)
      <3>1. Active(e) /\ pc' = [pc EXCEPT ![e] = "fold"] /\ owed' \subseteq owed
            /\ UNCHANGED <<log, op, filter, best, returned, seen>>
        BY <2>2 DEF StripDone, Active
      <3> QED
        BY <1>0, <3>1, FilterMoves
    <2>3. CASE FoldRead(e)
      <3> DEFINE last == LastOf(FilterOf(op[e].type))
      <3>1. Active(e) /\ pc' = [pc EXCEPT ![e] = "open"] /\ seen' = [seen EXCEPT ![e] = last]
            /\ UNCHANGED <<log, op, filter, best, returned, owed>>
        BY <2>3 DEF FoldRead, Active
      <3>2. op[e].at \in DOMAIN log /\ log[op[e].at].type = op[e].type
        <4>1. /\ op[e].at \in DOMAIN log
              /\ log[op[e].at] = [type |-> op[e].type, target |-> op[e].target]
          BY <3>1 DEF FilterInv, Standing
        <4> QED
          BY <4>1
      <3>3. last \in Nat /\ last <= Len(log) /\ op[e].at <= last
        BY <1>0, <3>2, LastOfFacts
      <3> HIDE DEF last
      <3>4. seen' \in [Erasers -> Nat] /\ seen'[e] = last /\ \A y \in Erasers : y # e => seen'[y] = seen[y]
        BY <1>0, <3>1, <3>3
      <3> QED
        BY <3>1, <3>3, <3>4, FilterMoves
    <2>4. CASE WriteOpen(e) \/ WriteDone(e)
      BY <2>4, FilterWritten
    <2> QED
      BY <1>6, <2>1, <2>2, <2>3, <2>4
  <1>7. ASSUME NEW u \in Sources, PassBegin(u) \/ Produce(u)
        PROVE  FilterInv'
    <2>1. Produce(u) => FilterInv'
      BY <1>1 DEF Produce, work
    <2> QED
      BY <1>7, <2>1, FilterPass
  <1>8. ASSUME PassWrite \/ PassAppend
        PROVE  FilterInv'
    <2>1. PICK u \in Sources : TRUE
      BY <1>8 DEF PassWrite, PassAppend, PurgeInv, Typed, Passes, NoPass
    <2> QED
      BY <1>8, <2>1, FilterPass
  <1>9. ASSUME ReadDocs \/ ReadTombstones
        PROVE  FilterInv'
    BY <1>1, <1>9 DEF ReadDocs, ReadTombstones, work
  <1>10. CASE UNCHANGED vars
    BY <1>1, <1>10 DEF vars
  <1> QED
    BY <1>2, <1>3, <1>4, <1>5, <1>6, <1>7, <1>8, <1>9, <1>10 DEF Next

LEMMA FilterInit == Init => FilterInv
  BY DEF Init, FilterInv, Bounded, Standing, Active, Filters

\* The part of the log that a file covers which is neither half written nor an older one.
LEMMA ReliableCovers ==
  ASSUME PurgeInv, FilterInv, NEW f \in Filters, f \notin Unreliable
  PROVE  /\ filter[f] \in 0..Len(log) /\ Loaded(f) = SubSeq(log, 1, filter[f])
         /\ \A i \in returned : FilterOf(log[i].type) = f => i \in 1..filter[f]
  <1>1. /\ filter[f] \in Int /\ best[f] \in Nat /\ best[f] <= filter[f]
        /\ filter[f] <= Len(log) /\ Len(log) \in Nat
    BY DEF FilterInv, Bounded, Unreliable, PurgeInv, Typed
  <1>2. Loaded(f) = SubSeq(log, 1, filter[f])
    BY <1>1 DEF Loaded, Broken
  <1>3. ASSUME NEW i \in returned, FilterOf(log[i].type) = f PROVE i \in 1..filter[f]
    <2>1. i \in 1..Len(log) /\ i <= best[f]
      BY <1>3 DEF FilterInv, Covered, PurgeInv, Typed
    <2> QED
      BY <1>1, <2>1
  <1> QED
    BY <1>1, <1>2, <1>3

LEMMA FiltersRight == PurgeInv /\ FilterInv => FiltersCurrent
  <1> SUFFICES ASSUME PurgeInv, FilterInv, NEW t \in Targets
      PROVE  /\ "erasure" \notin Unreliable /\ Settled(ErasureEvents, t) =>
                /\ t \in LoadTombstones.deleted <=> LastAbout(ErasureEvents, t) = "deleted"
                /\ t \in LoadTombstones.purged <=> LastAbout({"deleted", "purged"}, t) = "purged"
             /\ "distribution" \notin Unreliable /\ Settled(DistributionEvents, t) =>
                (t \in LoadDistribution <=> LastAbout(DistributionEvents, t) = "published")
    BY DEF FiltersCurrent
  <1>1. log \in Seq(Event) /\ Len(log) \in Nat /\ DOMAIN log = 1..Len(log)
    BY DEF PurgeInv, Typed
  <1>2. ASSUME NEW f \in Filters, f \notin Unreliable, NEW types, Settled(types, t),
               \A type \in types : FilterOf(type) = f
        PROVE  \A j \in (filter[f] + 1)..Len(log) : ~(log[j].target = t /\ log[j].type \in types)
    <2>1. filter[f] \in 0..Len(log)
          /\ \A i \in returned : FilterOf(log[i].type) = f => i \in 1..filter[f]
      BY <1>2, ReliableCovers
    <2>2. SUFFICES ASSUME NEW j \in (filter[f] + 1)..Len(log), log[j].target = t,
                          log[j].type \in types
                   PROVE  FALSE
      OBVIOUS
    <2>3. j \in DOMAIN log /\ j \notin 1..filter[f]
      BY <1>1, <2>1
    <2>4. j \in returned
      BY <1>2, <2>2, <2>3 DEF Settled
    <2> QED
      BY <1>2, <2>1, <2>2, <2>3, <2>4
  <1>3. ASSUME "erasure" \notin Unreliable, Settled(ErasureEvents, t)
        PROVE  /\ t \in LoadTombstones.deleted <=> LastAbout(ErasureEvents, t) = "deleted"
               /\ t \in LoadTombstones.purged <=> LastAbout({"deleted", "purged"}, t) = "purged"
    <2> DEFINE k == filter["erasure"]
    <2>1. "erasure" \in Filters /\ \A type \in ErasureEvents : FilterOf(type) = "erasure"
      BY DEF Filters, FilterOf, DistributionEvents, ErasureEvents
    <2>2. k \in 0..Len(log) /\ LoadTombstones = Tombstones(SubSeq(log, 1, k))
      BY <1>3, <2>1, ReliableCovers DEF LoadTombstones
    <2>3. \A j \in (k + 1)..Len(log) : ~(log[j].target = t /\ log[j].type \in ErasureEvents)
      BY <1>2, <1>3, <2>1
    <2> HIDE DEF k
    <2>4. \A j \in (k + 1)..Len(log) : ~(log[j].target = t /\ log[j].type \in {"deleted", "purged"})
      BY <2>3 DEF ErasureEvents
    <2>5. /\ t \in LoadTombstones.deleted <=> Says(log, k, ErasureEvents, t, "deleted")
          /\ t \in LoadTombstones.purged <=> Says(log, k, {"deleted", "purged"}, t, "purged")
      BY <1>1, <2>2, TombstonesSay
    <2>6. "deleted" \in ErasureEvents /\ "none" \notin ErasureEvents
      BY DEF ErasureEvents
    <2>7. /\ Says(log, k, ErasureEvents, t, "deleted")
                <=> Says(log, Len(log), ErasureEvents, t, "deleted")
          /\ Says(log, k, {"deleted", "purged"}, t, "purged")
                <=> Says(log, Len(log), {"deleted", "purged"}, t, "purged")
      BY <1>1, <2>2, <2>3, <2>4, <2>6, SaysRest
    <2>8. /\ LastAbout(ErasureEvents, t) = "deleted"
                <=> Says(log, Len(log), ErasureEvents, t, "deleted")
          /\ LastAbout({"deleted", "purged"}, t) = "purged"
                <=> Says(log, Len(log), {"deleted", "purged"}, t, "purged")
      BY <1>1, <2>6, LastSays
    <2> QED
      BY <2>5, <2>7, <2>8
  <1>4. ASSUME "distribution" \notin Unreliable, Settled(DistributionEvents, t)
        PROVE  t \in LoadDistribution <=> LastAbout(DistributionEvents, t) = "published"
    <2> DEFINE k == filter["distribution"]
    <2>1. "distribution" \in Filters /\ \A type \in DistributionEvents : FilterOf(type) = "distribution"
      BY DEF Filters, FilterOf, DistributionEvents, ErasureEvents
    <2>2. k \in 0..Len(log) /\ LoadDistribution = Distribution(SubSeq(log, 1, k))
      BY <1>4, <2>1, ReliableCovers DEF LoadDistribution
    <2>3. \A j \in (k + 1)..Len(log) : ~(log[j].target = t /\ log[j].type \in DistributionEvents)
      BY <1>2, <1>4, <2>1
    <2> HIDE DEF k
    <2>4. t \in LoadDistribution <=> Says(log, k, DistributionEvents, t, "published")
      BY <1>1, <2>2, DistributionSays
    <2>5. "published" \in DistributionEvents /\ "none" \notin DistributionEvents
      BY DEF DistributionEvents
    <2>6. Says(log, k, DistributionEvents, t, "published")
                <=> Says(log, Len(log), DistributionEvents, t, "published")
      BY <1>1, <2>2, <2>3, <2>5, SaysRest
    <2>7. LastAbout(DistributionEvents, t) = "published"
                <=> Says(log, Len(log), DistributionEvents, t, "published")
      BY <1>1, <2>5, LastSays
    <2> QED
      BY <2>4, <2>6, <2>7
  <1> QED
    BY <1>3, <1>4

\* Whatever order the writers of a filter file come in, and wherever they die, a file that
\* is whole and no older than one there has been says of every target all of whose
\* operations have returned what the last of them asked for.
THEOREM FiltersFollowLog == Spec => []FiltersCurrent
  <1> QED
    BY PurgeInit, PurgeNext, FilterInit, FilterNext, FiltersRight, PTL DEF Spec

----------------------------------------------------------------------------
(* The reader.                                                             *)

Reads == [at : {"none", "docs", "shown"}, shared : SUBSET Targets, docs : SUBSET Nodes,
          own : SUBSET Nodes, down : SUBSET Nodes, hidden : SUBSET Targets,
          barred : SUBSET Targets, blind : SUBSET Filters]

\* An erasure of the target has returned, and it is not restored since.
Told(t) ==
    \E i \in returned :
        /\ log[i].target = t /\ log[i].type \in {"deleted", "purged"}
        /\ \A j \in (i+1)..Len(log) : ~(log[j].target = t /\ log[j].type = "restored")

\* Between its two looks the reader holds nothing that is not shared, and what it must
\* not show is erased.
ReaderInv ==
    /\ reader \in Reads
    /\ reader.at = "docs" =>
          /\ "distribution" \notin reader.blind => reader.shared \intersect reader.barred = {}
          /\ \A t \in reader.hidden : Told(t)
    /\ ErasedNotShown
    /\ SharedOnlyPublished

\* s is r, but there is less that it must not show.
Narrows(r, s) ==
    /\ r \in Reads /\ s \in Reads
    /\ s.at = r.at /\ s.shared = r.shared /\ s.own = r.own /\ s.down = r.down /\ s.blind = r.blind
    /\ s.hidden \subseteq r.hidden /\ s.barred \subseteq r.barred

\* What the log got is no restoration of what is still to be hidden.
HidesOn ==
    \A j \in DOMAIN log' :
        j \in DOMAIN log \/ ~(log'[j].type = "restored" /\ log'[j].target \in reader'.hidden)

LEMMA ReaderFrame ==
  ASSUME PurgeInv, FilterInv, ReaderInv, Grows(log, log'), returned \subseteq returned',
         Narrows(reader, reader'), HidesOn
  PROVE  ReaderInv'
  <1>1. /\ Len(log) \in Nat /\ Len(log') \in Nat /\ Len(log) <= Len(log')
        /\ DOMAIN log = 1..Len(log) /\ DOMAIN log' = 1..Len(log')
        /\ \A i \in 1..Len(log) : i \in 1..Len(log') /\ log'[i] = log[i]
    BY Grown DEF PurgeInv, Typed
  <1>2. /\ reader' \in Reads
        /\ reader'.at = reader.at /\ reader'.shared = reader.shared /\ reader'.own = reader.own
        /\ reader'.down = reader.down /\ reader'.blind = reader.blind
        /\ reader'.hidden \subseteq reader.hidden /\ reader'.barred \subseteq reader.barred
    BY DEF Narrows
  <1>3. ASSUME NEW t \in reader'.hidden, Told(t) PROVE Told(t)'
    <2>1. PICK i \in returned :
             /\ log[i].target = t /\ log[i].type \in {"deleted", "purged"}
             /\ \A j \in (i+1)..Len(log) : ~(log[j].target = t /\ log[j].type = "restored")
      BY <1>3 DEF Told
    <2>2. i \in 1..Len(log) /\ i \in returned'
      BY <1>1 DEF FilterInv, Covered
    <2>3. ASSUME NEW j \in (i+1)..Len(log') PROVE ~(log'[j].target = t /\ log'[j].type = "restored")
      <3>1. j \in DOMAIN log'
        BY <1>1, <2>2
      <3>2. CASE j \in DOMAIN log
        <4>1. j \in (i+1)..Len(log) /\ log'[j] = log[j]
          BY <1>1, <2>2, <3>2
        <4> QED
          BY <2>1, <4>1
      <3>3. CASE j \notin DOMAIN log
        BY <3>1, <3>3 DEF HidesOn
      <3> QED
        BY <3>2, <3>3
    <2>4. log'[i] = log[i]
      BY <1>1, <2>2
    <2> QED
      BY <2>1, <2>2, <2>3, <2>4 DEF Told
  <1>4. reader'.at = "docs" =>
          /\ "distribution" \notin reader'.blind => reader'.shared \intersect reader'.barred = {}
          /\ \A t \in reader'.hidden : Told(t)'
    BY <1>2, <1>3 DEF ReaderInv
  <1>5. ErasedNotShown'
    BY <1>2 DEF ReaderInv, ErasedNotShown
  <1>6. SharedOnlyPublished'
    BY <1>2 DEF ReaderInv, SharedOnlyPublished
  <1> QED
    BY <1>2, <1>4, <1>5, <1>6 DEF ReaderInv

\* The log got at most an event that restores nothing.
Harmless == Grows(log, log') /\ \A j \in DOMAIN log' : j \in DOMAIN log \/ log'[j].type # "restored"

LEMMA HarmlessAppend ==
  ASSUME NEW x \in Event, x.type # "restored", log \in Seq(Event), log' = Append(log, x)
  PROVE  Harmless
  <1>1. Len(log) \in Nat /\ DOMAIN log = 1..Len(log) /\ DOMAIN log' = 1..(Len(log) + 1)
        /\ log'[Len(log) + 1] = x
    OBVIOUS
  <1>2. Grows(log, log')
    BY DEF Grows
  <1>3. ASSUME NEW j \in DOMAIN log', j \notin DOMAIN log PROVE log'[j].type # "restored"
    <2>1. j = Len(log) + 1
      BY <1>1, <1>3
    <2> QED
      BY <1>1, <2>1
  <1> QED
    BY <1>2, <1>3 DEF Harmless

LEMMA ReaderAlone ==
  ASSUME PurgeInv, FilterInv, ReaderInv, UNCHANGED reader, returned \subseteq returned',
         UNCHANGED log \/ Harmless
  PROVE  ReaderInv'
  <1>1. Grows(log, log')
    BY DEF Grows, Harmless
  <1>2. Narrows(reader, reader')
    BY DEF ReaderInv, Narrows
  <1>3. HidesOn
    BY DEF HidesOn, Harmless
  <1> QED
    BY <1>1, <1>2, <1>3, ReaderFrame

LEMMA ReaderRecord ==
  ASSUME PurgeInv, FilterInv, ReaderInv, NEW e \in Erasers, NEW t \in Targets,
         NEW type \in Filtering, Record(e, type, t)
  PROVE  ReaderInv'
  <1> DEFINE x == [type |-> type, target |-> t]
             hidden == IF type = "restored" THEN reader.hidden \ {t} ELSE reader.hidden
             barred == IF type = "published" THEN reader.barred \ {t} ELSE reader.barred
  <1>1. x \in Event /\ log' = Append(log, x) /\ log \in Seq(Event)
    BY DEF Event, Filtering, Record, PurgeInv, Typed
  <1>2. Grows(log, log')
    BY <1>1 DEF Grows
  <1>3. reader' = [reader EXCEPT !.hidden = hidden, !.barred = barred] /\ returned' = returned
    BY DEF Record
  <1>4. hidden \in SUBSET reader.hidden /\ barred \in SUBSET reader.barred
    OBVIOUS
  <1>5. x.type = "restored" => x.target \notin hidden
    OBVIOUS
  <1> HIDE DEF x, hidden, barred
  <1>6. \A j \in DOMAIN log' : j \in DOMAIN log \/ log'[j] = x
    BY <1>1
  <1>7. Narrows(reader, reader') /\ reader'.hidden = hidden
    BY <1>3, <1>4 DEF Narrows, ReaderInv, Reads
  <1>8. HidesOn
    BY <1>5, <1>6, <1>7 DEF HidesOn
  <1> QED
    BY <1>2, <1>3, <1>7, <1>8, ReaderFrame

\* The prefix of the log that a file covers, whole or not.
LEMMA LoadedType ==
  ASSUME PurgeInv, FilterInv, NEW f \in Filters
  PROVE  Loaded(f) \in Seq(Event)
  <1>1. log \in Seq(Event) /\ Len(log) \in Nat
    BY DEF PurgeInv, Typed
  <1> DEFINE k == IF filter[f] = Broken THEN 0 ELSE filter[f]
  <1>2. k \in 0..Len(log) /\ Loaded(f) = SubSeq(log, 1, k)
    BY <1>1 DEF FilterInv, Bounded, Broken, Loaded
  <1> HIDE DEF k
  <1>3. SubSeq(log, 1, k) = [i \in 1..k |-> log[i]]
    BY <1>2 DEF SubSeq
  <1>4. \A i \in 1..k : log[i] \in Event
    BY <1>1, <1>2
  <1>5. k \in Nat
    BY <1>1, <1>2
  <1> QED
    BY <1>2, <1>3, <1>4, <1>5

\* The first look: what is shared by a reliable file was published, and nobody was told
\* that it is no longer.
LEMMA ReadDocsStep ==
  ASSUME PurgeInv, FilterInv, ReaderInv, ReadDocs
  PROVE  ReaderInv'
  <1> DEFINE blind == Unreliable \intersect {"distribution"}
  <1>1. /\ reader' = [NoRead EXCEPT !.at = "docs", !.shared = LoadDistribution, !.docs = Docs,
                         !.hidden = ToldErased, !.barred = ToldPrivate, !.blind = blind]
        /\ UNCHANGED <<log, returned>>
    BY DEF ReadDocs, history
  <1>2. log \in Seq(Event) /\ Len(log) \in Nat /\ DOMAIN log = 1..Len(log)
    BY DEF PurgeInv, Typed
  <1>3. LoadDistribution \in SUBSET Targets
    BY LoadedType, SharingType DEF LoadDistribution, Filters
  <1>4. Docs \in SUBSET Nodes
    BY DEF PurgeInv, Typed, Docs, Nodes
  <1>5. ToldErased \in SUBSET Targets /\ ToldPrivate \in SUBSET Targets /\ blind \in SUBSET Filters
    BY DEF ToldErased, ToldPrivate, Unreliable
  <1>6. \A t \in ToldErased : Told(t)
    BY DEF ToldErased, Told
  <1>7. ASSUME "distribution" \notin blind, NEW t \in LoadDistribution, t \in ToldPrivate
        PROVE  FALSE
    <2> DEFINE k == filter["distribution"]
    <2>1. "distribution" \in Filters \ Unreliable
      BY <1>7 DEF Filters
    <2>2. k \in 0..Len(log) /\ LoadDistribution = Distribution(SubSeq(log, 1, k))
          /\ \A i \in returned : FilterOf(log[i].type) = "distribution" => i \in 1..k
      BY <2>1, ReliableCovers DEF LoadDistribution
    <2> HIDE DEF k
    <2>3. Says(log, k, DistributionEvents, t, "published")
      BY <1>2, <1>7, <2>2, DistributionSays
    <2>4. PICK i \in 1..k : /\ log[i].target = t /\ log[i].type = "published"
                            /\ \A j \in (i+1)..k : ~(log[j].target = t /\ log[j].type \in DistributionEvents)
      BY <2>3 DEF Says
    <2>5. i \in DOMAIN log
      BY <1>2, <2>2
    <2>6. PICK m \in returned :
             /\ log[m].target = t /\ log[m].type = "unpublished"
             /\ \A j \in (m+1)..Len(log) : ~(log[j].target = t /\ log[j].type = "published")
      BY <1>7, <2>4, <2>5 DEF ToldPrivate
    <2>7. FilterOf(log[m].type) = "distribution" /\ log[m].type \in DistributionEvents
      BY <2>6 DEF FilterOf, DistributionEvents, ErasureEvents
    <2>8. m \in 1..k
      BY <2>2, <2>7
    <2>9. i # m /\ ~(m < i) /\ ~(i < m)
      <3>1. m < i => i \in (m+1)..Len(log)
        BY <1>2, <2>5, <2>8
      <3>2. i < m => m \in (i+1)..k
        BY <2>2, <2>8
      <3> QED
        BY <2>4, <2>6, <2>7, <3>1, <3>2
    <2> QED
      BY <2>2, <2>8, <2>9
  <1> DEFINE shared == LoadDistribution
             docs == Docs
             hidden == ToldErased
             barred == ToldPrivate
  <1> HIDE DEF shared, docs, hidden, barred, blind
  <1>8. reader' = [at |-> "docs", shared |-> shared, docs |-> docs, own |-> {}, down |-> {},
                   hidden |-> hidden, barred |-> barred, blind |-> blind]
    BY <1>1 DEF NoRead, shared, docs, hidden, barred
  <1>9. /\ shared \in SUBSET Targets /\ docs \in SUBSET Nodes /\ hidden \in SUBSET Targets
        /\ barred \in SUBSET Targets /\ blind \in SUBSET Filters
    BY <1>3, <1>4, <1>5 DEF shared, docs, hidden, barred
  <1>10. \A t \in hidden : Told(t)'
    BY <1>1, <1>6 DEF Told, hidden
  <1>11. "distribution" \notin blind => shared \intersect barred = {}
    BY <1>7 DEF shared, barred
  <1>12. reader' \in Reads
    BY <1>8, <1>9 DEF Reads
  <1>13. ErasedNotShown' /\ SharedOnlyPublished'
    BY <1>8 DEF ErasedNotShown, SharedOnlyPublished
  <1> QED
    BY <1>8, <1>10, <1>11, <1>12, <1>13 DEF ReaderInv

\* The second look: what is hidden is in the tombstones of a reliable file.
LEMMA ReadTombstonesStep ==
  ASSUME PurgeInv, FilterInv, ReaderInv, ReadTombstones
  PROVE  ReaderInv'
  <1> DEFINE tombs == LoadTombstones
             own == {n \in reader.docs : ~Hides(tombs, n)}
             down == {n \in own : Distributes(reader.shared, n)}
             blind == reader.blind \union (Unreliable \intersect {"erasure"})
  <1>1. /\ reader.at = "docs"
        /\ reader' = [reader EXCEPT !.at = "shown", !.docs = {}, !.own = own, !.down = down,
                         !.blind = blind]
    BY DEF ReadTombstones
  <1>2. log \in Seq(Event) /\ Len(log) \in Nat /\ DOMAIN log = 1..Len(log)
    BY DEF PurgeInv, Typed
  <1>3. own \subseteq Nodes /\ down \subseteq own /\ blind \in SUBSET Filters
    BY DEF ReaderInv, Reads, Unreliable
  <1>4. ASSUME "erasure" \notin blind, NEW t \in reader.hidden
        PROVE  t \in tombs.deleted \union tombs.purged
    <2> DEFINE k == filter["erasure"]
    <2>1. "erasure" \in Filters \ Unreliable
      BY <1>4 DEF Filters
    <2>2. k \in 0..Len(log) /\ LoadTombstones = Tombstones(SubSeq(log, 1, k))
          /\ \A i \in returned : FilterOf(log[i].type) = "erasure" => i \in 1..k
      BY <2>1, ReliableCovers DEF LoadTombstones
    <2> HIDE DEF k
    <2>3. PICK i \in returned :
             /\ log[i].target = t /\ log[i].type \in {"deleted", "purged"}
             /\ \A j \in (i+1)..Len(log) : ~(log[j].target = t /\ log[j].type = "restored")
      BY <1>1, <1>4 DEF ReaderInv, Told
    <2>4. FilterOf(log[i].type) = "erasure"
      BY <2>3 DEF FilterOf, DistributionEvents, ErasureEvents
    <2>5. i \in 1..Len(log) /\ k \in i..Len(log)
      BY <1>2, <2>2, <2>4
    <2> QED
      BY <1>2, <2>2, <2>3, <2>5, StillErased
  <1>5. ASSUME "erasure" \notin blind, NEW n \in own
        PROVE  {n, Owner[n]} \intersect reader.hidden = {}
    BY <1>4, <1>5 DEF Hides
  <1>6. ASSUME "distribution" \notin blind, NEW n \in down
        PROVE  ~({n, Owner[n]} \intersect Targets \subseteq reader.barred)
    <2>1. PICK t \in {n, Owner[n]} : t \in reader.shared
      BY <1>6 DEF Distributes
    <2>2. t \in Targets /\ t \notin reader.barred
      BY <1>1, <1>6, <2>1 DEF ReaderInv, Reads
    <2> QED
      BY <2>1, <2>2
  <1> HIDE DEF own, down, blind, tombs
  <1>7. /\ reader' \in Reads
        /\ reader'.at = "shown" /\ reader'.own = own /\ reader'.down = down
        /\ reader'.blind = blind /\ reader'.hidden = reader.hidden /\ reader'.barred = reader.barred
    BY <1>1, <1>3 DEF ReaderInv, Reads
  <1>8. ErasedNotShown'
    BY <1>3, <1>5, <1>7 DEF ErasedNotShown
  <1>9. SharedOnlyPublished'
    BY <1>6, <1>7 DEF SharedOnlyPublished
  <1> QED
    BY <1>7, <1>8, <1>9 DEF ReaderInv

LEMMA ReaderInit == Init => ReaderInv
  BY DEF Init, ReaderInv, Reads, NoRead, ErasedNotShown, SharedOnlyPublished

LEMMA ReaderNext == PurgeInv /\ FilterInv /\ ReaderInv /\ [Next]_vars => ReaderInv'
  <1> SUFFICES ASSUME PurgeInv, FilterInv, ReaderInv, [Next]_vars PROVE ReaderInv'
    OBVIOUS
  <1> USE DEF history
  <1>0. log \in Seq(Event)
    BY DEF PurgeInv, Typed
  <1>1. ASSUME NEW e \in Erasers, NEW t \in Targets,
               NEW type \in {"deleted", "purged", "published", "unpublished"}, Begin(e, type, t)
        PROVE  ReaderInv'
    BY <1>1, ReaderRecord DEF Begin, Filtering, ErasureEvents, DistributionEvents
  <1>2. ASSUME NEW e \in Erasers, Restore(e)
        PROVE  ReaderInv'
    <2>1. op[e].target \in Targets
      BY <1>2 DEF Restore, PurgeInv, Announced
    <2> QED
      BY <1>2, <2>1, ReaderRecord DEF Restore, Filtering, ErasureEvents
  <1>3. ASSUME NEW e \in Erasers,
               \/ StripRead(e) \/ StripNothing(e) \/ StripTable(e) \/ Reseal(e) \/ Unlink(e)
               \/ UnlinkRaises(e) \/ StripDone(e) \/ FoldRead(e) \/ WriteOpen(e)
               \/ WriteDone(e) \/ Crash(e)
        PROVE  ReaderInv'
    <2>1. UNCHANGED <<log, reader>> /\ returned \subseteq returned'
      BY <1>3 DEF StripRead, StripNothing, StripTable, Reseal, Unlink, UnlinkRaises, StripDone,
                  Stripped, FoldRead, WriteOpen, WriteDone, Crash
    <2> QED
      BY <2>1, ReaderAlone
  <1>4. ASSUME NEW e \in Erasers, NEW t \in Targets, Check(e, t)
        PROVE  ReaderInv'
    BY <1>4, ReaderAlone DEF Check
  <1>5. ASSUME NEW u \in Sources, PassBegin(u) \/ Produce(u)
        PROVE  ReaderInv'
    <2>1. CASE PassBegin(u)
      <3>1. UNCHANGED <<reader, returned>>
        BY <2>1 DEF PassBegin
      <3>2. PICK type \in SourceEvents : log' = Append(log, [type |-> type, target |-> u])
        BY <2>1 DEF PassBegin, SourceEvents
      <3>3. [type |-> type, target |-> u] \in Event /\ type # "restored"
        BY DEF Event, SourceEvents
      <3>4. Harmless
        BY <1>0, <3>2, <3>3, HarmlessAppend
      <3> QED
        BY <3>1, <3>4, ReaderAlone
    <2>2. CASE Produce(u)
      BY <2>2, ReaderAlone DEF Produce
    <2> QED
      BY <1>5, <2>1, <2>2
  <1>6. CASE PassWrite
    <2>1. UNCHANGED <<reader, returned>> /\ pass.source \in Sources
      BY <1>6 DEF PassWrite, PurgeInv, Typed, Passes, NoPass
    <2>2. UNCHANGED log \/ log' = Append(log, [type |-> "upserted", target |-> pass.source])
      BY <1>6 DEF PassWrite
    <2>3. [type |-> "upserted", target |-> pass.source] \in Event
      BY <2>1 DEF Event, SourceEvents
    <2>4. UNCHANGED log \/ Harmless
      BY <1>0, <2>2, <2>3, HarmlessAppend
    <2> QED
      BY <2>1, <2>4, ReaderAlone
  <1>7. CASE PassAppend
    BY <1>7, ReaderAlone DEF PassAppend
  <1>8. CASE ReadDocs \/ ReadTombstones
    BY <1>8, ReadDocsStep, ReadTombstonesStep
  <1>9. CASE UNCHANGED vars
    BY <1>9, ReaderAlone DEF vars
  <1> QED
    BY <1>1, <1>2, <1>3, <1>4, <1>5, <1>6, <1>7, <1>8, <1>9 DEF Next

\* Once a delete or a purge has returned, no read that begins afterwards shows the node,
\* here or below, whoever else is erasing, restoring other things, synchronising or
\* producing, unless the node or its source is restored or the filter file fails it.
THEOREM ErasedStaysHidden == Spec => []ErasedNotShown
  <1>1. ReaderInv => ErasedNotShown
    BY DEF ReaderInv
  <1> QED
    BY <1>1, PurgeInit, PurgeNext, FilterInit, FilterNext, ReaderInit, ReaderNext, PTL DEF Spec

\* What a folder below is shown was published and, as far as anybody was told, still is.
THEOREM OnlySharedFlowsDown == Spec => []SharedOnlyPublished
  <1>1. ReaderInv => SharedOnlyPublished
    BY DEF ReaderInv
  <1> QED
    BY <1>1, PurgeInit, PurgeNext, FilterInit, FilterNext, ReaderInit, ReaderNext, PTL DEF Spec

----------------------------------------------------------------------------
(* The claim tables.                                                       *)

\* The process rewrites the claim tables and has read them.
Holds(e) == pc[e] = "write" /\ Head(left[e]) = "claims"

\* The purge has taken its claims out of the tables: nothing of it is due there.
Clears(e, i) ==
    pc[e] \in {"strip", "write"} /\ op[e].at = i /\ "claims" \notin ToSet(left[e])
Cleared(i) == \E e \in Erasers : Clears(e, i)

\* A purge of the claim that is under way, or dead, may not have taken it out.
Due(n) == \E i \in owed : n \in ClaimsOf(log[i].target) /\ ~Cleared(i)

\* The claims there are once the pass is done with its source.
ClaimsToBe ==
    CASE pass.at = "write" -> content.claims \ ClaimsOf(pass.source)
      [] pass.at = "append" -> content.claims \union ClaimsOf(pass.source)
      [] OTHER -> content.claims

Accounted(n) == Due(n) \/ (n \in ClaimsToBe <=> n \in Projected(log))

\* Whoever rewrites the claim tables knows what they hold, and the log says nothing of
\* what is taken out.
Informed(e) ==
    /\ RewritesClaims(e) =>
          pass.at = "none" /\ ClaimsOf(op[e].target) \intersect Projected(log) = {}
    /\ Holds(e) => mem[e] = content.claims

\* Unless two met in the claim tables: whoever rewrites them is alone there and informed,
\* and but for what is due they hold what the log says.
ClaimsInv ==
    ~clash =>
        /\ \A e, x \in Erasers : RewritesClaims(e) /\ RewritesClaims(x) => e = x
        /\ \A e \in Erasers : Informed(e)
        /\ pass.at = "write" => pass.mem = content.claims
        /\ \A n \in Claims : Accounted(n)

LEMMA ClaimsRight == PurgeInv /\ ClaimsInv => ContentFollowsLog
  <1> SUFFICES ASSUME PurgeInv, ClaimsInv, pass.at = "none", ~clash
               PROVE  LET open == UNION {NodesOf(log[i].target) : i \in owed}
                      IN  content.claims \ open = Projected(log) \ open
    BY DEF ContentFollowsLog
  <1> DEFINE open == UNION {NodesOf(log[i].target) : i \in owed}
  <1>1. content.claims \subseteq Claims
    BY DEF PurgeInv, Typed
  <1>2. Projected(log) \subseteq Claims
    BY ProjectingType DEF PurgeInv, Typed
  <1>3. ASSUME NEW n \in Claims, n \notin open
        PROVE  n \in content.claims <=> n \in Projected(log)
    <2>1. ~Due(n)
      BY <1>3 DEF Due, ClaimsOf
    <2>2. ClaimsToBe = content.claims
      BY DEF ClaimsToBe
    <2> QED
      BY <2>1, <2>2 DEF ClaimsInv, Accounted
  <1> QED
    BY <1>1, <1>2, <1>3

\* A process that goes on as it did: it rewrites nothing new, and what it cleared of an
\* old purge it had cleared.
Steady(e) ==
    /\ RewritesClaims(e)' => RewritesClaims(e) /\ op'[e].target = op[e].target
    /\ Holds(e)' => mem'[e] = content'.claims
    /\ \A i \in owed : Clears(e, i)' => Clears(e, i)

LEMMA StillDue ==
  ASSUME PurgeInv, FilterInv, Grows(log, log'), NEW n, Due(n),
         \A i \in owed : n \in ClaimsOf(log[i].target) /\ ~Cleared(i) => i \in owed' /\ ~Cleared(i)'
  PROVE  Due(n)'
  <1>1. \A i \in owed : log'[i] = log[i]
    BY Grown DEF PurgeInv, Typed, FilterInv
  <1>2. PICK i \in owed : n \in ClaimsOf(log[i].target) /\ ~Cleared(i)
    BY DEF Due
  <1>3. i \in owed' /\ ~Cleared(i)' /\ n \in ClaimsOf(log'[i].target)
    BY <1>1, <1>2
  <1> QED
    BY <1>3 DEF Due

LEMMA SteadyDue ==
  ASSUME PurgeInv, FilterInv, Grows(log, log'), NEW n, Due(n),
         \A e \in Erasers : Steady(e), \A i \in owed : i \in owed' \/ Cleared(i)
  PROVE  Due(n)'
  <1>1. \A i \in owed : Cleared(i)' => Cleared(i)
    BY DEF Cleared, Steady
  <1> QED
    BY <1>1, StillDue

\* A step that takes nothing out of the claim tables and that a replay does not notice.
LEMMA ClaimsKept ==
  ASSUME PurgeInv, FilterInv, ClaimsInv, Grows(log, log'), Projected(log') = Projected(log),
         content'.claims = content.claims, UNCHANGED pass, clash => clash',
         \A e \in Erasers : Steady(e), \A i \in owed : i \in owed' \/ Cleared(i)
  PROVE  ClaimsInv'
  <1> SUFFICES ASSUME ~clash'
               PROVE  /\ \A e, x \in Erasers : RewritesClaims(e)' /\ RewritesClaims(x)' => e = x
                      /\ \A e \in Erasers : Informed(e)'
                      /\ pass'.at = "write" => pass'.mem = content'.claims
                      /\ \A n \in Claims : Accounted(n)'
    BY DEF ClaimsInv
  <1>1. /\ \A e, x \in Erasers : RewritesClaims(e) /\ RewritesClaims(x) => e = x
        /\ \A e \in Erasers : Informed(e)
        /\ pass.at = "write" => pass.mem = content.claims
        /\ \A n \in Claims : Accounted(n)
    BY DEF ClaimsInv
  <1>2. \A e, x \in Erasers : RewritesClaims(e)' /\ RewritesClaims(x)' => e = x
    BY <1>1 DEF Steady
  <1>3. ASSUME NEW e \in Erasers PROVE Informed(e)'
    <2>1. Informed(e) /\ Steady(e)
      BY <1>1
    <2>2. RewritesClaims(e)' =>
             pass'.at = "none" /\ ClaimsOf(op'[e].target) \intersect Projected(log') = {}
      BY <2>1 DEF Informed, Steady
    <2>3. Holds(e)' => mem'[e] = content'.claims
      BY <2>1 DEF Steady
    <2> QED
      BY <2>2, <2>3 DEF Informed
  <1>4. ASSUME NEW n \in Claims PROVE Accounted(n)'
    <2>1. Due(n) => Due(n)'
      BY SteadyDue
    <2>2. ClaimsToBe' = ClaimsToBe
      BY DEF ClaimsToBe
    <2>3. Accounted(n)
      BY <1>1
    <2> QED
      BY <2>1, <2>2, <2>3 DEF Accounted
  <1> QED
    BY <1>1, <1>2, <1>3, <1>4

\* A process that a step leaves alone is steady.
LEMMA AloneSteady ==
  ASSUME ClaimsInv, ~clash, NEW e \in Erasers,
         pc'[e] = pc[e], op'[e] = op[e], left'[e] = left[e], mem'[e] = mem[e],
         content'.claims = content.claims
  PROVE  Steady(e)
  <1>1. RewritesClaims(e)' <=> RewritesClaims(e)
    BY DEF RewritesClaims
  <1>2. Holds(e)' <=> Holds(e)
    BY DEF Holds
  <1>3. \A i \in owed : Clears(e, i)' <=> Clears(e, i)
    BY DEF Clears
  <1>4. Holds(e) => mem[e] = content.claims
    BY DEF ClaimsInv, Informed
  <1> QED
    BY <1>1, <1>2, <1>3, <1>4 DEF Steady

\* One that is not stripping is steady.
LEMMA BusySteady ==
  ASSUME NEW e \in Erasers, pc'[e] \notin {"strip", "write"}
  PROVE  Steady(e)
  BY DEF Steady, RewritesClaims, Holds, Clears

\* What all the others have is as it was.
OthersAlone(e) ==
    \A x \in Erasers : x # e =>
        pc'[x] = pc[x] /\ op'[x] = op[x] /\ left'[x] = left[x] /\ mem'[x] = mem[x]

LEMMA ClaimsTurn ==
  ASSUME PurgeInv, FilterInv, ClaimsInv, NEW e \in Erasers, OthersAlone(e), Steady(e),
         Grows(log, log'), Projected(log') = Projected(log),
         content'.claims = content.claims, UNCHANGED pass, clash => clash',
         \A i \in owed : i \in owed' \/ Cleared(i)
  PROVE  ClaimsInv'
  <1>1. CASE clash
    BY <1>1 DEF ClaimsInv
  <1>2. CASE ~clash
    <2>1. ASSUME NEW x \in Erasers PROVE Steady(x)
      BY <1>2, AloneSteady DEF OthersAlone
    <2> QED
      BY <2>1, ClaimsKept
  <1> QED
    BY <1>1, <1>2

\* Somebody who is not, or no longer, stripping.
LEMMA ClaimsBusy ==
  ASSUME PurgeInv, FilterInv, ClaimsInv, NEW e \in Erasers, OthersAlone(e),
         pc'[e] \notin {"strip", "write"},
         UNCHANGED <<log, pass, clash>>, content'.claims = content.claims,
         \A i \in owed : i \in owed' \/ Cleared(i)
  PROVE  ClaimsInv'
  <1>1. Steady(e)
    BY BusySteady
  <1>2. Grows(log, log')
    BY DEF Grows
  <1> QED
    BY <1>1, <1>2, ClaimsTurn

\* Nobody moves.
LEMMA ClaimsStill ==
  ASSUME PurgeInv, FilterInv, ClaimsInv, UNCHANGED <<log, work, pass, clash, owed>>,
         content'.claims = content.claims
  PROVE  ClaimsInv'
  <1>1. CASE clash
    BY <1>1 DEF ClaimsInv
  <1>2. CASE ~clash
    <2>1. ASSUME NEW x \in Erasers PROVE Steady(x)
      BY <1>2, AloneSteady DEF work
    <2>2. Grows(log, log')
      BY DEF Grows
    <2> QED
      BY <2>1, <2>2, ClaimsKept
  <1> QED
    BY <1>1, <1>2

\* What is recorded of a purge, and what a replay makes of it.
LEMMA RecordProjects ==
  ASSUME PurgeInv, NEW e \in Erasers, NEW t \in Targets, NEW type \in Filtering, Record(e, type, t)
  PROVE  /\ Grows(log, log') /\ Len(log') = Len(log) + 1 /\ log'[Len(log) + 1].target = t
         /\ Projected(log') = IF type = "purged" THEN Projected(log) \ ClaimsOf(t) ELSE Projected(log)
  <1> DEFINE x == [type |-> type, target |-> t]
  <1>1. x \in Event /\ log' = Append(log, x) /\ log \in Seq(Event)
    BY DEF Event, Filtering, Record, PurgeInv, Typed
  <1>2. x.type = type /\ x.target = t
    OBVIOUS
  <1>3. type \in ErasureEvents \union DistributionEvents
    BY DEF Filtering
  <1> HIDE DEF x
  <1>4. Grows(log, log') /\ Len(log') = Len(log) + 1 /\ log'[Len(log) + 1] = x
    BY <1>1 DEF Grows
  <1>5. Projected(log') = Project(Projected(log), x)
    BY <1>1, ProjectingAppend
  <1>6. Project(Projected(log), x) = IF type = "purged" THEN Projected(log) \ ClaimsOf(t) ELSE Projected(log)
    BY <1>2, <1>3 DEF Project, ErasureEvents, DistributionEvents
  <1> QED
    BY <1>2, <1>4, <1>5, <1>6

LEMMA RecordOthers ==
  ASSUME PurgeInv, NEW e \in Erasers, NEW t, NEW type, Record(e, type, t)
  PROVE  OthersAlone(e)
  BY DEF Record, OthersAlone, PurgeInv, Typed

LEMMA ClaimsRecordOther ==
  ASSUME PurgeInv, FilterInv, ClaimsInv, NEW e \in Erasers, NEW t \in Targets,
         NEW type \in Filtering, type # "purged", Record(e, type, t)
  PROVE  ClaimsInv'
  <1>1. pc'[e] = "fold" /\ UNCHANGED <<content, pass, owed>>
    BY DEF Record, PurgeInv, Typed
  <1>2. clash => clash'
    BY DEF Record
  <1>3. Steady(e)
    BY <1>1, BusySteady
  <1> QED
    BY <1>1, <1>2, <1>3, RecordProjects, RecordOthers, ClaimsTurn

LEMMA ClaimsPurge ==
  ASSUME PurgeInv, FilterInv, ClaimsInv, NEW e \in Erasers, NEW t \in Targets,
         Record(e, "purged", t)
  PROVE  ClaimsInv'
  <1> SUFFICES ASSUME ~clash'
               PROVE  /\ \A y, x \in Erasers : RewritesClaims(y)' /\ RewritesClaims(x)' => y = x
                      /\ \A y \in Erasers : Informed(y)'
                      /\ pass'.at = "write" => pass'.mem = content'.claims
                      /\ \A n \in Claims : Accounted(n)'
    BY DEF ClaimsInv
  <1>0. PICK at \in Nat : at = Len(log) + 1
    BY DEF PurgeInv, Typed
  <1>1. "purged" \in Filtering
    BY DEF Filtering, ErasureEvents
  <1>2. /\ Grows(log, log') /\ log'[at].target = t
        /\ Projected(log') = Projected(log) \ ClaimsOf(t)
    BY <1>0, <1>1, RecordProjects
  <1>3. /\ pc'[e] = "strip" /\ left'[e] = Places("purged", t)
        /\ op'[e] = [type |-> "purged", target |-> t, at |-> at]
        /\ owed' = owed \union {at} /\ pass.at = "none" /\ UNCHANGED <<content, pass>>
    BY <1>0 DEF Record, PurgeInv, Typed
  <1>4. ~clash /\ ("claims" \in ToSet(left'[e]) => \A x \in Erasers : ~RewritesClaims(x))
    BY <1>3 DEF Record
  <1>5. /\ \A y, x \in Erasers : RewritesClaims(y) /\ RewritesClaims(x) => y = x
        /\ \A y \in Erasers : Informed(y)
        /\ \A n \in Claims : Accounted(n)
    BY <1>4 DEF ClaimsInv
  <1>6. ASSUME NEW x \in Erasers, x # e
        PROVE  /\ RewritesClaims(x)' <=> RewritesClaims(x)
               /\ Holds(x)' <=> Holds(x)
               /\ op'[x] = op[x] /\ mem'[x] = mem[x]
               /\ \A i \in Nat : Clears(x, i)' <=> Clears(x, i)
    <2>1. pc'[x] = pc[x] /\ op'[x] = op[x] /\ left'[x] = left[x] /\ mem'[x] = mem[x]
      BY <1>6, RecordOthers DEF OthersAlone
    <2> QED
      BY <2>1 DEF RewritesClaims, Holds, Clears
  <1>7. RewritesClaims(e)' <=> "claims" \in ToSet(left'[e])
    BY <1>3 DEF RewritesClaims
  <1>8. \A y, x \in Erasers : RewritesClaims(y)' /\ RewritesClaims(x)' => y = x
    BY <1>4, <1>5, <1>6, <1>7
  <1>9. ASSUME NEW y \in Erasers PROVE Informed(y)'
    <2>1. CASE y = e
      <3>1. op'[e].target = t /\ ~Holds(e)'
        BY <1>3 DEF Holds
      <3> QED
        BY <1>2, <1>3, <2>1, <3>1 DEF Informed
    <2>2. CASE y # e
      BY <1>2, <1>3, <1>5, <1>6, <2>2 DEF Informed
    <2> QED
      BY <2>1, <2>2
  <1>10. Len(log) \in Nat /\ owed \subseteq 1..Len(log) /\ at = Len(log) + 1
    BY <1>0 DEF PurgeInv, Typed, FilterInv
  <1>11. ASSUME NEW i \in owed, ~Cleared(i) PROVE i \in owed' /\ ~Cleared(i)'
    <2>1. i \in Nat /\ i # at
      BY <1>10
    <2>2. ~Clears(e, i)'
      BY <1>3, <2>1 DEF Clears
    <2> QED
      BY <1>3, <1>6, <1>11, <2>1, <2>2 DEF Cleared
  <1>12. ASSUME NEW n \in ClaimsOf(t) PROVE Due(n)'
    <2>1. t \in Sources \/ t \in Claims
      BY <1>12 DEF ClaimsOf, NodesOf
    <2>2. "claims" \in ToSet(left'[e])
      BY <1>3, <2>1 DEF Places, ToSet
    <2>3. ASSUME NEW x \in Erasers, x # e PROVE ~Clears(x, at)
      <3>1. op[x].at \in DOMAIN log \/ pc[x] \notin {"strip", "write"}
        BY DEF FilterInv, Standing, Active
      <3>2. op[x].at # at \/ pc[x] \notin {"strip", "write"}
        BY <1>10, <3>1 DEF PurgeInv, Typed
      <3> QED
        BY <3>2 DEF Clears
    <2>4. ~Cleared(at)'
      <3>1. ~Clears(e, at)'
        BY <2>2 DEF Clears
      <3>2. at \in Nat
        BY <1>10
      <3> QED
        BY <1>6, <2>3, <3>1, <3>2 DEF Cleared
    <2>5. at \in owed' /\ n \in ClaimsOf(log'[at].target)
      BY <1>2, <1>3, <1>12
    <2> QED
      BY <2>4, <2>5 DEF Due
  <1>13. ASSUME NEW n \in Claims PROVE Accounted(n)'
    <2>1. Due(n) => Due(n)'
      BY <1>2, <1>11, StillDue
    <2>2. ClaimsToBe' = ClaimsToBe
      BY <1>3 DEF ClaimsToBe
    <2>3. Accounted(n)
      BY <1>5
    <2>4. n \in ClaimsOf(t) \/ (n \in Projected(log') <=> n \in Projected(log))
      BY <1>2
    <2> QED
      BY <1>12, <2>1, <2>2, <2>3, <2>4 DEF Accounted
  <1> QED
    BY <1>3, <1>8, <1>9, <1>13

\* What is left after a place.
LEMMA TailFacts ==
  ASSUME NEW S, NEW s \in Seq(S), s # << >>
  PROVE  /\ Head(s) \in ToSet(s) /\ ToSet(Tail(s)) \subseteq ToSet(s)
         /\ \A c : c # Head(s) => (c \in ToSet(s) <=> c \in ToSet(Tail(s)))
  <1>1. /\ Len(s) \in Nat /\ Len(s) # 0 /\ DOMAIN s = 1..Len(s)
        /\ Head(s) = s[1] /\ Len(Tail(s)) = Len(s) - 1 /\ DOMAIN Tail(s) = 1..(Len(s) - 1)
        /\ \A i \in 1..(Len(s) - 1) : Tail(s)[i] = s[i + 1]
    OBVIOUS
  <1>2. Head(s) \in ToSet(s)
    BY <1>1 DEF ToSet
  <1>3. ToSet(Tail(s)) \subseteq ToSet(s)
    BY <1>1 DEF ToSet
  <1>4. ASSUME NEW c, c # Head(s), c \in ToSet(s) PROVE c \in ToSet(Tail(s))
    <2>1. PICK i \in 1..Len(s) : c = s[i]
      BY <1>1, <1>4 DEF ToSet
    <2>2. i - 1 \in 1..(Len(s) - 1)
      BY <1>1, <1>4, <2>1
    <2>3. Tail(s)[i - 1] = c
      BY <1>1, <2>1, <2>2
    <2> QED
      BY <1>1, <2>2, <2>3 DEF ToSet
  <1> QED
    BY <1>2, <1>3, <1>4

\* A process that works on the claim tables is in them.
LEMMA HoldsRewrites ==
  ASSUME PurgeInv, NEW e \in Erasers, Holds(e)
  PROVE  RewritesClaims(e)
  <1>1. left[e] \in Seq(PlaceNames) /\ left[e] # << >>
    BY DEF PurgeInv, Typed, Remembered, Holds
  <1> QED
    BY <1>1, TailFacts DEF Holds, RewritesClaims

LEMMA ClaimsStripRead ==
  ASSUME PurgeInv, FilterInv, ClaimsInv, NEW e \in Erasers, StripRead(e)
  PROVE  ClaimsInv'
  <1>1. /\ pc[e] = "strip" /\ pc'[e] = "write" /\ mem'[e] = content[Head(left[e])]
        /\ UNCHANGED <<log, content, op, left, pass, clash, owed>>
    BY DEF StripRead, PurgeInv, Typed, history
  <1>2. OthersAlone(e)
    BY DEF StripRead, PurgeInv, Typed, OthersAlone
  <1>3. Steady(e)
    BY <1>1 DEF Steady, RewritesClaims, Holds, Clears
  <1>4. Grows(log, log')
    BY <1>1 DEF Grows
  <1> QED
    BY <1>1, <1>2, <1>3, <1>4, ClaimsTurn

\* The end of a strip, whatever it wrote.
LEMMA StrippedFacts ==
  ASSUME PurgeInv, NEW e \in Erasers, pc[e] = "write", Stripped(e)
  PROVE  /\ pc'[e] = "strip" /\ left'[e] = Tail(left[e]) /\ OthersAlone(e)
         /\ left[e] \in Seq(PlaceNames) /\ left[e] # << >>
         /\ UNCHANGED <<log, op, pass, clash, owed>>
  BY DEF Stripped, PurgeInv, Typed, Remembered, OthersAlone, history

LEMMA ClaimsStripElsewhere ==
  ASSUME PurgeInv, FilterInv, ClaimsInv, NEW e \in Erasers, pc[e] = "write", Stripped(e),
         Head(left[e]) # "claims", content'.claims = content.claims
  PROVE  ClaimsInv'
  <1>1. /\ pc'[e] = "strip" /\ left'[e] = Tail(left[e]) /\ OthersAlone(e)
        /\ left[e] \in Seq(PlaceNames) /\ left[e] # << >>
        /\ UNCHANGED <<log, op, pass, clash, owed>>
    BY StrippedFacts
  <1>2. "claims" \in ToSet(left'[e]) <=> "claims" \in ToSet(left[e])
    BY <1>1, TailFacts
  <1>3. Steady(e)
    BY <1>1, <1>2 DEF Steady, RewritesClaims, Holds, Clears
  <1>4. Grows(log, log')
    BY <1>1 DEF Grows
  <1> QED
    BY <1>1, <1>3, <1>4, ClaimsTurn

\* Whoever strips the claim tables takes out what the log says nothing of.
LEMMA ClaimsStripHere ==
  ASSUME PurgeInv, FilterInv, ClaimsInv, NEW e \in Erasers, pc[e] = "write", Stripped(e),
         Head(left[e]) = "claims", ~clash => content'.claims = content.claims \ ClaimsOf(op[e].target)
  PROVE  ClaimsInv'
  <1>1. /\ pc'[e] = "strip" /\ left'[e] = Tail(left[e]) /\ OthersAlone(e)
        /\ left[e] \in Seq(PlaceNames) /\ left[e] # << >>
        /\ UNCHANGED <<log, op, pass, clash, owed>>
    BY StrippedFacts
  <1> DEFINE gone == ClaimsOf(op[e].target)
  <1> SUFFICES ASSUME ~clash
               PROVE  /\ \A y, x \in Erasers : RewritesClaims(y)' /\ RewritesClaims(x)' => y = x
                      /\ \A y \in Erasers : Informed(y)'
                      /\ pass'.at = "write" => pass'.mem = content'.claims
                      /\ \A n \in Claims : Accounted(n)'
    BY <1>1 DEF ClaimsInv
  <1>2. /\ \A y, x \in Erasers : RewritesClaims(y) /\ RewritesClaims(x) => y = x
        /\ \A y \in Erasers : Informed(y)
        /\ \A n \in Claims : Accounted(n)
    BY DEF ClaimsInv
  <1>3. RewritesClaims(e)
    BY HoldsRewrites DEF Holds
  <1>4. pass.at = "none" /\ gone \intersect Projected(log) = {}
    BY <1>2, <1>3 DEF Informed
  <1>5. ASSUME NEW x \in Erasers, x # e
        PROVE  /\ RewritesClaims(x)' <=> RewritesClaims(x)
               /\ ~Holds(x)'
               /\ \A i \in owed : Clears(x, i)' <=> Clears(x, i)
    <2>1. pc'[x] = pc[x] /\ op'[x] = op[x] /\ left'[x] = left[x]
      BY <1>1, <1>5 DEF OthersAlone
    <2>2. ~RewritesClaims(x)
      BY <1>2, <1>3, <1>5
    <2>3. ~Holds(x)
      BY <2>2, HoldsRewrites
    <2> QED
      BY <2>1, <2>3 DEF RewritesClaims, Holds, Clears
  <1>6. RewritesClaims(e)' => RewritesClaims(e)
    BY <1>3
  <1>7. \A y, x \in Erasers : RewritesClaims(y)' /\ RewritesClaims(x)' => y = x
    BY <1>2, <1>5, <1>6
  <1>8. ASSUME NEW y \in Erasers PROVE Informed(y)'
    <2>1. ~Holds(y)'
      BY <1>1, <1>5 DEF Holds
    <2>2. RewritesClaims(y)' => RewritesClaims(y)
      BY <1>5, <1>6
    <2> QED
      BY <1>1, <1>2, <2>1, <2>2 DEF Informed
  <1>9. op[e].at \in DOMAIN log /\ log[op[e].at].target = op[e].target
    <2>1. /\ op[e].at \in DOMAIN log
          /\ log[op[e].at] = [type |-> op[e].type, target |-> op[e].target]
      BY DEF FilterInv, Standing, Active
    <2> QED
      BY <2>1
  <1>10. ASSUME NEW n \in Claims PROVE Accounted(n)'
    <2>1. ClaimsToBe = content.claims /\ ClaimsToBe' = content.claims \ gone
      BY <1>1, <1>4 DEF ClaimsToBe
    <2>2. CASE n \in gone
      BY <1>1, <1>4, <2>1, <2>2 DEF Accounted
    <2>3. CASE n \notin gone
      <3>1. ASSUME NEW i \in owed, n \in ClaimsOf(log[i].target), ~Cleared(i)
            PROVE  ~Cleared(i)'
        <4>1. i # op[e].at
          BY <1>9, <2>3, <3>1
        <4>2. ~Clears(e, i)'
          BY <1>1, <4>1 DEF Clears
        <4> QED
          BY <1>5, <3>1, <4>2 DEF Cleared
      <3>2. Due(n) => Due(n)'
        <4>1. Grows(log, log')
          BY <1>1 DEF Grows
        <4> QED
          BY <1>1, <3>1, <4>1, StillDue
      <3>3. Accounted(n)
        BY <1>2
      <3> QED
        BY <1>1, <2>1, <2>3, <3>2, <3>3 DEF Accounted
    <2> QED
      BY <2>2, <2>3
  <1> QED
    BY <1>1, <1>4, <1>7, <1>8, <1>10

\* A pass meets nobody in the claim tables, or the clash is remembered.
LEMMA ClaimsPass ==
  ASSUME PurgeInv, FilterInv, ClaimsInv, UNCHANGED <<work, owed>>, Grows(log, log'),
         clash => clash', ~clash' => \A e \in Erasers : ~RewritesClaims(e),
         ~clash' /\ pass'.at = "write" => pass'.mem = content'.claims,
         ~clash' => \A n \in Claims : (n \in ClaimsToBe <=> n \in Projected(log))
                                         => (n \in ClaimsToBe' <=> n \in Projected(log'))
  PROVE  ClaimsInv'
  <1> SUFFICES ASSUME ~clash'
               PROVE  /\ \A y, x \in Erasers : RewritesClaims(y)' /\ RewritesClaims(x)' => y = x
                      /\ \A y \in Erasers : Informed(y)'
                      /\ pass'.at = "write" => pass'.mem = content'.claims
                      /\ \A n \in Claims : Accounted(n)'
    BY DEF ClaimsInv
  <1>1. ASSUME NEW e \in Erasers
        PROVE  /\ ~RewritesClaims(e)' /\ ~Holds(e)'
               /\ \A i \in owed : Clears(e, i)' <=> Clears(e, i)
    <2>1. ~RewritesClaims(e) /\ ~Holds(e)
      BY HoldsRewrites
    <2> QED
      BY <2>1 DEF work, RewritesClaims, Holds, Clears
  <1>2. ASSUME NEW n \in Claims PROVE Accounted(n)'
    <2>1. Due(n) => Due(n)'
      <3>1. \A i \in owed : ~Cleared(i) => ~Cleared(i)'
        BY <1>1 DEF Cleared
      <3> QED
        BY <3>1, StillDue
    <2>2. Accounted(n)
      BY DEF ClaimsInv
    <2> QED
      BY <2>1, <2>2 DEF Accounted
  <1> QED
    BY <1>1, <1>2 DEF Informed

LEMMA ClaimsPassBegin ==
  ASSUME PurgeInv, FilterInv, ClaimsInv, NEW u \in Sources, PassBegin(u)
  PROVE  ClaimsInv'
  <1> DEFINE removed == [type |-> "removed", target |-> u]
             upserted == [type |-> "upserted", target |-> u]
  <1>1. UNCHANGED <<work, owed, content>> /\ pass.at = "none"
    BY DEF PassBegin
  <1>2. (clash => clash') /\ (~clash' => \A e \in Erasers : ~RewritesClaims(e))
    BY DEF PassBegin
  <1>3. log \in Seq(Event) /\ removed \in Event /\ upserted \in Event
        /\ removed.type = "removed" /\ removed.target = u
        /\ upserted.type = "upserted" /\ upserted.target = u
    BY DEF PurgeInv, Typed, Event, SourceEvents
  <1>4. \/ /\ log' = Append(log, removed)
           /\ pass' = [at |-> "write", source |-> u, mem |-> content.claims]
        \/ /\ log' = Append(log, upserted)
           /\ pass' = [at |-> "append", source |-> u, mem |-> {}]
    BY DEF PassBegin
  <1>5. Grows(log, log')
    BY <1>3, <1>4 DEF Grows
  <1> HIDE DEF removed, upserted
  <1>6. pass'.at = "write" => pass'.mem = content'.claims
    BY <1>1, <1>4
  <1>7. ClaimsToBe = content.claims
    BY <1>1 DEF ClaimsToBe
  <1>8. ASSUME NEW n \in Claims, n \in content.claims <=> n \in Projected(log)
        PROVE  n \in ClaimsToBe' <=> n \in Projected(log')
    <2>1. CASE /\ log' = Append(log, removed)
               /\ pass' = [at |-> "write", source |-> u, mem |-> content.claims]
      <3>1. Projected(log') = Projected(log) \ ClaimsOf(u)
        BY <1>3, <2>1, ProjectingAppend DEF Project
      <3>2. ClaimsToBe' = content.claims \ ClaimsOf(u)
        BY <1>1, <2>1 DEF ClaimsToBe
      <3> QED
        BY <1>8, <3>1, <3>2
    <2>2. CASE /\ log' = Append(log, upserted)
               /\ pass' = [at |-> "append", source |-> u, mem |-> {}]
      <3>1. Projected(log') = Projected(log) \union ClaimsOf(u)
        BY <1>3, <2>2, ProjectingAppend DEF Project
      <3>2. ClaimsToBe' = content.claims \union ClaimsOf(u)
        BY <1>1, <2>2 DEF ClaimsToBe
      <3> QED
        BY <1>8, <3>1, <3>2
    <2> QED
      BY <1>4, <2>1, <2>2
  <1> QED
    BY <1>1, <1>2, <1>5, <1>6, <1>7, <1>8, ClaimsPass

\* While the pass is in the claim tables nobody else is, unless they clash.
LEMMA ClaimsPassAlone ==
  ASSUME PurgeInv, ClaimsInv, pass.at # "none", ~clash
  PROVE  \A e \in Erasers : ~RewritesClaims(e)
  BY DEF ClaimsInv, Informed

LEMMA ClaimsPassWrite ==
  ASSUME PurgeInv, FilterInv, ClaimsInv, PassWrite
  PROVE  ClaimsInv'
  <1> DEFINE upserted == [type |-> "upserted", target |-> pass.source]
             next == [pass EXCEPT !.at = "append", !.mem = {}]
  <1>1. /\ UNCHANGED <<work, owed, clash>> /\ pass.at = "write"
        /\ content' = [content EXCEPT !.claims = pass.mem \ ClaimsOf(pass.source)]
    BY DEF PassWrite, history
  <1>2. ~clash => \A e \in Erasers : ~RewritesClaims(e)
    BY <1>1, ClaimsPassAlone
  <1>3. content'.claims = pass.mem \ ClaimsOf(pass.source)
    BY <1>1 DEF PurgeInv, Typed
  <1>4. pass.source \in Sources
    BY <1>1 DEF PurgeInv, Typed, Passes, NoPass
  <1>5. log \in Seq(Event) /\ upserted \in Event
        /\ upserted.type = "upserted" /\ upserted.target = pass.source
    BY <1>4 DEF PurgeInv, Typed, Event, SourceEvents
  <1>6. next.at = "append" /\ next.source = pass.source
    BY <1>1 DEF PurgeInv, Typed, Passes, NoPass
  <1>7. (pass' = NoPass /\ log' = log) \/ (pass' = next /\ log' = Append(log, upserted))
    BY DEF PassWrite
  <1> HIDE DEF upserted, next
  <1>8. Grows(log, log') /\ pass'.at # "write"
    BY <1>5, <1>6, <1>7 DEF Grows, NoPass
  <1>9. ASSUME ~clash, NEW n \in Claims, n \in ClaimsToBe <=> n \in Projected(log)
        PROVE  n \in ClaimsToBe' <=> n \in Projected(log')
    <2>1. pass.mem = content.claims
      BY <1>1, <1>9 DEF ClaimsInv
    <2>2. ClaimsToBe = content'.claims
      BY <1>1, <1>3, <2>1 DEF ClaimsToBe
    <2>3. CASE pass' = NoPass /\ log' = log
      BY <1>9, <2>2, <2>3 DEF ClaimsToBe, NoPass
    <2>4. CASE pass' = next /\ log' = Append(log, upserted)
      <3>1. Projected(log') = Projected(log) \union ClaimsOf(pass.source)
        BY <1>5, <2>4, ProjectingAppend DEF Project
      <3>2. ClaimsToBe' = content'.claims \union ClaimsOf(pass.source)
        BY <1>6, <2>4 DEF ClaimsToBe
      <3> QED
        BY <1>9, <2>2, <3>1, <3>2
    <2> QED
      BY <1>7, <2>3, <2>4
  <1> QED
    BY <1>1, <1>2, <1>8, <1>9, ClaimsPass

LEMMA ClaimsPassAppend ==
  ASSUME PurgeInv, FilterInv, ClaimsInv, PassAppend
  PROVE  ClaimsInv'
  <1>1. /\ UNCHANGED <<log, work, owed, clash>> /\ pass.at = "append" /\ pass' = NoPass
        /\ content' = [content EXCEPT !.claims = @ \union ClaimsOf(pass.source)]
    BY DEF PassAppend, history
  <1>2. ~clash => \A e \in Erasers : ~RewritesClaims(e)
    BY <1>1, ClaimsPassAlone
  <1>3. content'.claims = content.claims \union ClaimsOf(pass.source)
    BY <1>1 DEF PurgeInv, Typed
  <1>4. ClaimsToBe' = ClaimsToBe
    BY <1>1, <1>3 DEF ClaimsToBe, NoPass
  <1>5. Grows(log, log') /\ pass'.at # "write"
    BY <1>1 DEF Grows, NoPass
  <1> QED
    BY <1>1, <1>2, <1>4, <1>5, ClaimsPass

LEMMA ClaimsNext == PurgeInv /\ FilterInv /\ ClaimsInv /\ [Next]_vars => ClaimsInv'
  <1> SUFFICES ASSUME PurgeInv, FilterInv, ClaimsInv, [Next]_vars PROVE ClaimsInv'
    OBVIOUS
  <1> USE DEF history
  <1>1. ASSUME NEW e \in Erasers, NEW t \in Targets, Check(e, t)
        PROVE  ClaimsInv'
    <2>1. OthersAlone(e) /\ pc'[e] = "append"
          /\ UNCHANGED <<log, content, pass, clash, owed>>
      BY <1>1 DEF Check, PurgeInv, Typed, OthersAlone
    <2> QED
      BY <2>1, ClaimsBusy
  <1>2. ASSUME NEW e \in Erasers, NEW t \in Targets,
               NEW type \in {"deleted", "purged", "published", "unpublished"}, Begin(e, type, t)
        PROVE  ClaimsInv'
    <2>1. type \in Filtering /\ Record(e, type, t)
      BY <1>2 DEF Begin, Filtering, ErasureEvents, DistributionEvents
    <2> QED
      BY <2>1, ClaimsPurge, ClaimsRecordOther
  <1>3. ASSUME NEW e \in Erasers, Restore(e)
        PROVE  ClaimsInv'
    <2>1. op[e].target \in Targets /\ "restored" \in Filtering
      BY <1>3 DEF Restore, PurgeInv, Announced, Filtering, ErasureEvents
    <2> QED
      BY <1>3, <2>1, ClaimsRecordOther DEF Restore
  <1>4. ASSUME NEW e \in Erasers, StripRead(e)
        PROVE  ClaimsInv'
    BY <1>4, ClaimsStripRead
  <1>5. ASSUME NEW e \in Erasers, StripNothing(e)
        PROVE  ClaimsInv'
    <2>1. pc[e] = "write" /\ Stripped(e) /\ content' = content /\ Gone(e) = {}
      BY <1>5 DEF StripNothing
    <2>2. CASE Head(left[e]) # "claims"
      BY <2>1, <2>2, ClaimsStripElsewhere
    <2>3. CASE Head(left[e]) = "claims"
      <3>1. ~clash => mem[e] = content.claims
        BY <2>1, <2>3 DEF ClaimsInv, Informed, Holds
      <3>2. ~clash => content'.claims = content.claims \ ClaimsOf(op[e].target)
        BY <2>1, <3>1 DEF Gone, ClaimsOf
      <3> QED
        BY <2>1, <2>3, <3>2, ClaimsStripHere
    <2> QED
      BY <2>2, <2>3
  <1>6. ASSUME NEW e \in Erasers, StripTable(e)
        PROVE  ClaimsInv'
    <2>1. PICK place \in {"claims", "concepts"} :
             Stripping(e, place) /\ content' = [content EXCEPT ![place] = mem[e] \ Gone(e)]
      BY <1>6 DEF StripTable
    <2>2. pc[e] = "write" /\ Head(left[e]) = place /\ Stripped(e)
      BY <1>6, <2>1 DEF StripTable, Stripping
    <2>3. CASE place = "concepts"
      <3>1. content'.claims = content.claims
        BY <2>1, <2>3 DEF PurgeInv, Typed
      <3> QED
        BY <2>2, <2>3, <3>1, ClaimsStripElsewhere
    <2>4. CASE place = "claims"
      <3>1. content'.claims = mem[e] \ Gone(e)
        BY <2>1, <2>4 DEF PurgeInv, Typed
      <3>2. ~clash => mem[e] = content.claims
        BY <2>2, <2>4 DEF ClaimsInv, Informed, Holds
      <3>3. content.claims \subseteq Claims
        BY DEF PurgeInv, Typed
      <3>4. ~clash => content'.claims = content.claims \ ClaimsOf(op[e].target)
        BY <3>1, <3>2, <3>3 DEF Gone, ClaimsOf
      <3> QED
        BY <2>2, <2>4, <3>4, ClaimsStripHere
    <2> QED
      BY <2>3, <2>4
  <1>7. ASSUME NEW e \in Erasers, Reseal(e) \/ Unlink(e)
        PROVE  ClaimsInv'
    <2>1. pc[e] = "write" /\ Head(left[e]) = "sinks" /\ Stripped(e)
      BY <1>7 DEF Reseal, Unlink, Stripping
    <2>2. content'.claims = content.claims
      BY <1>7 DEF Reseal, Unlink, PurgeInv, Typed
    <2> QED
      BY <2>1, <2>2, ClaimsStripElsewhere
  <1>8. ASSUME NEW e \in Erasers, UnlinkRaises(e) \/ Crash(e)
        PROVE  ClaimsInv'
    <2>1. OthersAlone(e) /\ pc'[e] = "idle" /\ UNCHANGED <<log, content, pass, clash, owed>>
      BY <1>8 DEF UnlinkRaises, Crash, Quit, PurgeInv, Typed, OthersAlone
    <2> QED
      BY <2>1, ClaimsBusy
  <1>9. ASSUME NEW e \in Erasers, StripDone(e)
        PROVE  ClaimsInv'
    <2>1. /\ OthersAlone(e) /\ pc'[e] = "fold" /\ UNCHANGED <<log, content, pass, clash>>
          /\ pc[e] = "strip" /\ left[e] = << >> /\ owed' = owed \ {op[e].at}
      BY <1>9 DEF StripDone, PurgeInv, Typed, OthersAlone
    <2>2. Cleared(op[e].at)
      BY <2>1 DEF Cleared, Clears, ToSet
    <2>3. \A i \in owed : i \in owed' \/ Cleared(i)
      BY <2>1, <2>2
    <2> QED
      BY <2>1, <2>3, ClaimsBusy
  <1>10. ASSUME NEW e \in Erasers, FoldRead(e) \/ WriteOpen(e)
         PROVE  ClaimsInv'
    <2>1. /\ OthersAlone(e) /\ pc'[e] \in {"open", "close"}
          /\ UNCHANGED <<log, content, pass, clash, owed>>
      BY <1>10 DEF FoldRead, WriteOpen, PurgeInv, Typed, OthersAlone
    <2> QED
      BY <2>1, ClaimsBusy
  <1>11. ASSUME NEW e \in Erasers, WriteDone(e)
         PROVE  ClaimsInv'
    <2>1. OthersAlone(e) /\ pc'[e] = "idle" /\ UNCHANGED <<log, content, pass, clash, owed>>
      BY <1>11 DEF WriteDone, Quit, PurgeInv, Typed, OthersAlone
    <2> QED
      BY <2>1, ClaimsBusy
  <1>12. ASSUME NEW u \in Sources, PassBegin(u)
         PROVE  ClaimsInv'
    BY <1>12, ClaimsPassBegin
  <1>13. CASE PassWrite \/ PassAppend
    BY <1>13, ClaimsPassWrite, ClaimsPassAppend
  <1>14. CASE (\E u \in Sources : Produce(u)) \/ ReadDocs \/ ReadTombstones \/ UNCHANGED vars
    <2>1. content'.claims = content.claims /\ UNCHANGED <<log, work, pass, clash, owed>>
      BY <1>14 DEF Produce, ReadDocs, ReadTombstones, vars, work, PurgeInv, Typed
    <2> QED
      BY <2>1, ClaimsStill
  <1> QED
    BY <1>1, <1>2, <1>3, <1>4, <1>5, <1>6, <1>7, <1>8, <1>9, <1>10, <1>11, <1>12, <1>13, <1>14
       DEF Next

\* A finite set can be listed whole.
LEMMA ListedWhole ==
  ASSUME NEW S, IsFiniteSet(S)
  PROVE  \A x \in S : \E i \in DOMAIN SetToSeq(S) : SetToSeq(S)[i] = x
  <1>1. PICK f : f \in Bijection(1..Cardinality(S), S)
    BY FS_CardinalityType DEF ExistsBijection
  <1>2. f \in [1..Cardinality(S) -> S] /\ IsInjective(f)
    BY <1>1 DEF Bijection, Injection
  <1>3. SetToSeq(S) \in Injection(1..Cardinality(S), S)
    BY <1>2 DEF SetToSeq, Injection
  <1>4. Cardinality(1..Cardinality(S)) = Cardinality(S)
    BY FS_CardinalityType, FS_Interval
  <1>5. SetToSeq(S) \in Surjection(1..Cardinality(S), S)
    BY <1>3, <1>4, FS_Injection
  <1> QED
    BY <1>5 DEF Surjection

\* The log of a store that was just indexed holds a claim as soon as its source was upserted.
LEMMA IndexedSays ==
  ASSUME NEW s \in Seq(Event), \A i \in 1..Len(s) : s[i].type = "upserted", NEW n \in Claims
  PROVE  n \in Projected(s) <=> \E i \in 1..Len(s) : n \in ClaimsOf(s[i].target)
  <1> DEFINE Has(k) == n \in Projected(SubSeq(s, 1, k))
             Named(k) == \E i \in 1..k : n \in ClaimsOf(s[i].target)
             Bad == {k \in Nat : k <= Len(s) /\ ~(Has(k) <=> Named(k))}
  <1>1. Len(s) \in Nat
    OBVIOUS
  <1>2. ASSUME Bad # {} PROVE FALSE
    <2>1. PICK k \in Bad : \A j \in Bad : k <= j
      BY <1>2, LeastNumber
    <2>2. CASE k = 0
      <3>1. ~Has(0)
        BY PrefixEmpty, ProjectingNothing
      <3>2. ~Named(0)
        OBVIOUS
      <3> QED
        BY <2>1, <2>2, <3>1, <3>2
    <2>3. CASE k # 0
      <3>1. PICK j \in Nat : k = j + 1
        <4>1. k - 1 \in Nat /\ k = (k - 1) + 1
          BY <2>1, <2>3
        <4> QED
          BY <4>1
      <3>2. j + 1 <= Len(s) /\ j <= Len(s) /\ ~(k <= j)
        BY <1>1, <2>1, <3>1
      <3>3. Has(j) <=> Named(j)
        BY <2>1, <3>2
      <3>4. /\ SubSeq(s, 1, j) \in Seq(Event) /\ s[j + 1] \in Event
            /\ SubSeq(s, 1, j + 1) = Append(SubSeq(s, 1, j), s[j + 1])
        BY <3>2, PrefixGrows
      <3>5. s[j + 1].type = "upserted"
        BY <1>1, <3>2
      <3>6. Projected(SubSeq(s, 1, j + 1)) = Projected(SubSeq(s, 1, j)) \union ClaimsOf(s[j + 1].target)
        <4>1. Project(Projected(SubSeq(s, 1, j)), s[j + 1])
                 = Projected(SubSeq(s, 1, j)) \union ClaimsOf(s[j + 1].target)
          BY <3>5 DEF Project
        <4> QED
          BY <3>4, <4>1, ProjectingAppend
      <3>7. Has(j + 1) <=> (Has(j) \/ n \in ClaimsOf(s[j + 1].target))
        BY <3>6
      <3>8. Named(j + 1) <=> (Named(j) \/ n \in ClaimsOf(s[j + 1].target))
        <4>1. 1..(j + 1) = (1..j) \union {j + 1}
          OBVIOUS
        <4> QED
          BY <4>1
      <3> QED
        BY <2>1, <3>1, <3>3, <3>7, <3>8
    <2> QED
      BY <2>2, <2>3
  <1>3. Has(Len(s)) <=> Named(Len(s))
    BY <1>1, <1>2
  <1>4. SubSeq(s, 1, Len(s)) = s
    BY DEF SubSeq
  <1> QED
    BY <1>3, <1>4

LEMMA ClaimsInit == Init => ClaimsInv
  <1> SUFFICES ASSUME Init PROVE ClaimsInv
    OBVIOUS
  <1>1. /\ log = [i \in DOMAIN SourceOrder |-> [type |-> "upserted", target |-> SourceOrder[i]]]
        /\ content.claims = Claims /\ pc = [e \in Erasers |-> "idle"] /\ pass = NoPass
    BY DEF Init
  <1>2. log \in Seq(Event)
    BY PurgeInit DEF PurgeInv, Typed
  <1>3. \A i \in 1..Len(log) : log[i].type = "upserted"
    BY <1>1, <1>2
  <1>4. ASSUME NEW n \in Claims PROVE n \in Projected(log)
    <2>1. Owner[n] \in Sources
      BY OwnerAssumption DEF Nodes
    <2>2. n \in ClaimsOf(Owner[n])
      BY <2>1 DEF ClaimsOf, NodesOf, Nodes
    <2>3. PICK i \in DOMAIN SourceOrder : SourceOrder[i] = Owner[n]
      BY <2>1, FiniteAssumption, ListedWhole DEF SourceOrder
    <2>4. i \in 1..Len(log) /\ log[i].target = Owner[n]
      BY <1>1, <1>2, <2>3
    <2> QED
      BY <1>2, <1>3, <2>2, <2>4, IndexedSays
  <1>5. Projected(log) = Claims
    BY <1>2, <1>4, ProjectingType
  <1>6. ClaimsToBe = Claims
    BY <1>1 DEF ClaimsToBe, NoPass
  <1>7. \A e \in Erasers : ~RewritesClaims(e) /\ ~Holds(e)
    BY <1>1 DEF RewritesClaims, Holds
  <1> QED
    BY <1>1, <1>5, <1>6, <1>7 DEF ClaimsInv, Informed, Accounted, NoPass

\* However purges, deletes and passes meet: as long as no two were rewriting the claim
\* tables at once, what they hold is what a replay of the log gives, but for purges that
\* are under way or died.
THEOREM TablesFollowLog == Spec => []ContentFollowsLog
  <1> QED
    BY PurgeInit, PurgeNext, FilterInit, FilterNext, ClaimsInit, ClaimsNext, ClaimsRight, PTL DEF Spec
=============================================================================
