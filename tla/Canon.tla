------------------------------- MODULE Canon -------------------------------
(***************************************************************************)
(* src/versum/concept/canon.py: the concepts that a set of claims has by   *)
(* their content.  A claim has an item, a source, a unit of it or None,    *)
(* its axes (polarity and predicate) and its candidates: pairs of a term   *)
(* and whether it is quoted.                                               *)
(*                                                                         *)
(* A concept is what its id is made of: axes and a normalised term, or the *)
(* set of two concepts that it is composed of.  A canon is a function from *)
(* concepts to the claims that ground them.  Labels, aliases, examples and *)
(* the dominant modality are left out.                                     *)
(***************************************************************************)
EXTENDS Integers, FiniteSets, Sequences, SequencesExt

CONSTANTS None,
          Length,       \* of every term, ties broken
          Norm,         \* of every term: what it is normalised to
          MinDf, MinSupport

ASSUME SupportAssumption == MinDf \in Nat \ {0} /\ MinSupport \in Nat \ {0}

Sources(claims) == {c.source : c \in claims}
TermsOf(claim) == {t[1] : t \in claim.candidates}

-----------------------------------------------------------------------------
(* Salience *)

Mentioned(claims, term) == {c \in claims : term \in TermsOf(c)}

\* The terms that may name a concept: quoted somewhere, or in enough sources.
Canonical(claims) ==
    {t \in UNION {TermsOf(c) : c \in claims} :
        \/ \E c \in claims : <<t, TRUE>> \in c.candidates
        \/ Cardinality(Sources(Mentioned(claims, t))) >= MinDf}

Allowed(claims, claim) == TermsOf(claim) \intersect Canonical(claims)
Clustered(claims) == {c \in claims : Allowed(claims, c) # {}}

KeyTerm(claims, claim) ==
    CHOOSE t \in Allowed(claims, claim) :
        \A u \in Allowed(claims, claim) : Length[u] <= Length[t]

Coordinate(axes, term) == [axes |-> axes, term |-> term, members |-> {}]
Composite(members) == [axes |-> None, term |-> None, members |-> members]

\* By clustered claim, its coordinate on the identity axes.
Coordinates(claims) ==
    [c \in Clustered(claims) |-> Coordinate(c.axes, Norm[KeyTerm(claims, c)])]

-----------------------------------------------------------------------------
(* Composition.  at[c] is the coordinate of claim c. *)

Unit(claim) == <<claim.source, claim.unit>>
UnitsOf(at, id) == {Unit(c) : c \in {c \in DOMAIN at : at[c] = id /\ c.unit # None}}

UnitsWithOneOf(at, pair) ==
    {u \in UNION {UnitsOf(at, id) : id \in pair} :
        \A id \in pair : \E v \in UnitsOf(at, id) : v[2] = u[2]}

\* The units of a source that have claims of both concepts of a pair.
UnitsWith(at, pair) ==
    {u \in UNION {UnitsOf(at, id) : id \in pair} : \A id \in pair : u \in UnitsOf(at, id)}

\* The pairs that travel together in enough sources.
Recurring(at) ==
    {pair \in {{at[c], at[d]} : c, d \in DOMAIN at} :
        /\ Cardinality(pair) = 2
        /\ Cardinality({u[1] : u \in UnitsWith(at, pair)}) >= MinSupport}

\* build_canon
BuildCanon(claims, depth) ==
    LET at == Coordinates(claims)
        composites == IF depth < 2 THEN {} ELSE {Composite(p) : p \in Recurring(at)}
        together(id) == {c \in DOMAIN at : at[c] \in id.members
                                            /\ Unit(c) \in UnitsWith(at, id.members)}
    IN  [id \in Range(at) \union composites |->
            IF id \in composites THEN together(id) ELSE {c \in DOMAIN at : at[c] = id}]

-----------------------------------------------------------------------------
(* Rows, the partial of a domain, and the merge of partials *)

EdgeRows(canon) ==
    UNION {{[src |-> c.item, dst |-> id, urn |-> c.source] : c \in canon[id]} :
              id \in DOMAIN canon}
ConceptRows(canon) == {[id |-> e.dst, urn |-> e.urn] : e \in EdgeRows(canon)}
ComposesRows(canon) ==
    UNION {{[src |-> m, dst |-> id, evidence |-> {c.item : c \in canon[id]}] : m \in id.members} :
              id \in DOMAIN canon}

FingerprintsOfCoordinates(claims, canon) ==
    [s \in Sources(claims) |->
        {id \in DOMAIN canon : id.members = {} /\ s \in Sources(canon[id])}]

\* The concepts of every source, composites included.
Fingerprints(claims, canon) ==
    [s \in Sources(claims) |-> {id \in DOMAIN canon : s \in Sources(canon[id])}]

DomainPartial(claims, canon) ==
    [n |-> Cardinality(claims),
     unclustered |-> Cardinality(claims \ Clustered(claims)),
     concepts |-> [id \in DOMAIN canon |-> {c.item : c \in canon[id]}],
     fingerprints |-> Fingerprints(claims, canon)]

\* merge_partials: partials is a sequence, in the order of the domains.
MergedConcepts(partials) ==
    [id \in UNION {DOMAIN p.concepts : p \in Range(partials)} |->
        UNION {p.concepts[id] : p \in {p \in Range(partials) : id \in DOMAIN p.concepts}}]

Total(partials, count(_)) == FoldLeft(LAMBDA n, p : n + count(p), 0, partials)

\* One entry for every domain and source, in order: how many concepts there are so far.
Curve(partials, sourceOrder) ==
    LET of(p) == SelectSeq(sourceOrder, LAMBDA s : s \in DOMAIN p.fingerprints)
        prints == FlattenSeq([i \in DOMAIN partials |->
                     [j \in DOMAIN of(partials[i]) |->
                         partials[i].fingerprints[of(partials[i])[j]]]])
    IN  [i \in DOMAIN prints |->
            [distinct |-> Cardinality(UNION {prints[j] : j \in 1 .. i}),
             new |-> Cardinality(prints[i] \ UNION {prints[j] : j \in 1 .. i - 1})]]

MergePartials(partials) ==
    [concepts |-> MergedConcepts(partials),
     n |-> Total(partials, LAMBDA p : p.n),
     unclustered |-> Total(partials, LAMBDA p : p.unclustered)]
=============================================================================
