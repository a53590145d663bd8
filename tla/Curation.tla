------------------------------ MODULE Curation ------------------------------
(***************************************************************************)
(* src/versum/concept/curate.py: which concepts a set of claims suggests,  *)
(* and which claims ground them.  A term is a sequence of words; the slug  *)
(* of a concept is the sequence of the words in it.  A claim has a text,   *)
(* which is a sequence of words, an item and a urn.                        *)
(*                                                                         *)
(* Abstractions.  Of the labels of a mined family that are equally         *)
(* frequent, and of the seeds with one normal form, CHOOSE takes one (the  *)
(* code the first).  The cap on the number of mined terms is left out.     *)
(***************************************************************************)
EXTENDS Naturals, FiniteSets, Sequences, SequencesExt

CONSTANTS Stem,         \* of every word
          Plural,       \* of every word: it with an s
          Common,       \* function words, marker words and words that are too short
          MinSources, MinClaims,
          Share         \* what is in more than one claim out of Share is no term

ASSUME ThresholdAssumption == {MinSources, MinClaims, Share} \subseteq Nat \ {0}

Urns(claims) == {c.urn : c \in claims}
Stems(term) == [i \in DOMAIN term |-> Stem[term[i]]]
Within(part, whole) ==
    \E i \in 0 .. Len(whole) - Len(part) : part = SubSeq(whole, i + 1, i + Len(part))

-----------------------------------------------------------------------------
(* _mine_recurring_terms *)

TooCommon(claims, word) ==
    \/ word \in Common
    \/ Share * Cardinality({c \in claims : word \in Range(c.text)}) > Cardinality(claims)

\* The terms of a text of up to three words that do not begin or end commonly.
Grams(claims, text) ==
    {g \in {SubSeq(text, i, j) : i \in DOMAIN text, j \in DOMAIN text} :
        /\ Len(g) \in 1 .. 3
        /\ ~TooCommon(claims, g[1]) /\ ~TooCommon(claims, g[Len(g)])}

\* The forms that have a family's stems, in one claim or in all.
Forms(claims, text, gram) == {g \in Grams(claims, text) : Stems(g) = gram}
Variants(claims, gram) == UNION {Forms(claims, c.text, gram) : c \in claims}
Support(claims, gram) == {c \in claims : Forms(claims, c.text, gram) # {}}

Families(claims) == UNION {{Stems(g) : g \in Grams(claims, c.text)} : c \in claims}

Recurs(claims, gram) ==
    LET support == Support(claims, gram) IN
    /\ Cardinality(Urns(support)) >= MinSources
    /\ Cardinality(support) >= MinClaims
    /\ Share * Cardinality(support) <= Cardinality(claims)

Subsumes(claims, longer, gram) ==
    /\ Within(gram, longer)
    /\ 5 * Cardinality(Support(claims, longer)) >= 4 * Cardinality(Support(claims, gram))

\* The recurring families of n words and more, without those that a longer one subsumes.
Maximal(claims) ==
    LET qualified == {g \in Families(claims) : Recurs(claims, g)}
        kept[n \in 1 .. 4] ==
            IF n = 4 THEN {}
            ELSE kept[n + 1] \union
                 {g \in qualified : Len(g) = n /\ \A k \in kept[n + 1] : ~Subsumes(claims, k, g)}
    IN  kept[1]

Mined(claims) == IF Cardinality(claims) < MinClaims THEN {} ELSE Maximal(claims)

Frequency(claims, gram, form) ==
    Cardinality({c \in claims : form \in Forms(claims, c.text, gram)})

Label(claims, gram) ==
    CHOOSE f \in Variants(claims, gram) :
        \A g \in Variants(claims, gram) :
            Frequency(claims, gram, g) <= Frequency(claims, gram, f)

-----------------------------------------------------------------------------
(* suggest *)

\* The seed a mined family belongs to: the one of its id, else one with its stems.
SeedOf(ids, gram) ==
    IF gram \in ids \/ {i \in ids : Stems(i) = Stems(gram)} = {} THEN gram
    ELSE CHOOSE i \in ids : Stems(i) = Stems(gram)

\* By concept, all it may be called by.
Labels(claims, definitions, concepts, id) ==
    LET ids == definitions \union {c.id : c \in concepts} IN
    (IF id \in definitions THEN {id} ELSE {})
    \union UNION {{c.label, c.id} : c \in {c \in concepts : c.id = id}}
    \union UNION {Variants(claims, g) \union {g} : g \in {g \in Mined(claims) : SeedOf(ids, g) = id}}

\* The label of a definition wins, then the one a curator has confirmed.
SeedLabel(claims, definitions, concepts, id) ==
    IF id \in definitions THEN id
    ELSE IF \E c \in concepts : c.id = id THEN (CHOOSE c \in concepts : c.id = id).label
    ELSE Label(claims, id)

\* The words of the label one after the other, the last perhaps in the plural.
Mentions(text, label) ==
    Within(label, text) \/ Within([label EXCEPT ![Len(label)] = Plural[@]], text)

Seeds(claims, definitions, concepts) ==
    LET ids == definitions \union {c.id : c \in concepts} IN
    ids \union {SeedOf(ids, g) : g \in Mined(claims)}

Mentioning(claims, labels) == {c \in claims : \E l \in labels : Mentions(c.text, l)}

SuggestAfresh(claims, definitions, concepts) ==
    LET grounds == [id \in Seeds(claims, definitions, {}) |->
                       Mentioning(claims, Labels(claims, definitions, {}, id))]
        mentioned == {id \in DOMAIN grounds : grounds[id] # {}}
    IN  [concepts |-> {[id |-> id, label |-> SeedLabel(claims, definitions, {}, id),
                        sources |-> Cardinality(Urns(grounds[id]))] : id \in mentioned},
         edges |-> UNION {{[src |-> c.item, dst |-> id] : c \in grounds[id]} : id \in mentioned}]

\* What definitions, confirmed concepts and recurrence suggest, as far as some claim
\* mentions it, with an edge from every claim that does.
Suggest(claims, definitions, concepts) ==
    LET grounds == [id \in Seeds(claims, definitions, concepts) |->
                       Mentioning(claims, Labels(claims, definitions, concepts, id))]
        mentioned == {id \in DOMAIN grounds : grounds[id] # {}}
    IN  [concepts |-> {[id |-> id, label |-> SeedLabel(claims, definitions, concepts, id),
                        sources |-> Cardinality(Urns(grounds[id]))] : id \in mentioned},
         edges |-> UNION {{[src |-> c.item, dst |-> id] : c \in grounds[id]} : id \in mentioned}]
=============================================================================
