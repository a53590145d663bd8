------------------------------ MODULE NDSystems ------------------------------
(***************************************************************************)
(* src/versum/nd.py: systems of contextual axes are registered beside one  *)
(* another, claims are given coordinates on them, and claims are selected  *)
(* by whether their scope is compatible with that of a question.           *)
(*                                                                         *)
(* Abstractions.  A value on an interval axis is [from, to] over instants, *)
(* a bare date being the interval of one; None is an end that is not       *)
(* given.  Values on other axes are opaque.  Vocabularies, quantities and  *)
(* the bindings of form slots are left out, and so is the file format.     *)
(***************************************************************************)
EXTENDS Integers, FiniteSets, Functions

CONSTANTS None,
          Systems,      \* what may be registered: [id, version, namespace, axes: a sequence]
          Core,         \* the one of them that is always registered
          Primitives,   \* of every axis of Core: the relations it attests
          Interval,     \* of every axis of Core: whether its values are intervals
          Ontology,     \* rows [axis, left, right, relation]
          Values,       \* of every axis: the values that are tried
          Claims,
          Sources,
          MaxAssignments   \* bound

ASSUME AxesAssumption == \A s \in Systems \union {Core} : DOMAIN s.axes \subseteq Nat

\* Core attests disjointness on its interval axis, and has no ontology about it.
ASSUME CoreAssumption ==
    /\ None \notin Int
    /\ \A axis \in DOMAIN Values : Interval[axis] =>
          /\ Values[axis] \subseteq [from : Int \union {None}, to : Int \union {None}]
          /\ "disjoint" \in Primitives[axis]
          /\ \A row \in Ontology : row.axis # axis

VARIABLES
    systems,      \* the registered systems
    owner,        \* by qualified axis: the key of its system
    assignments   \* the coordinates: [claim, axis, value]

vars == <<systems, owner, assignments>>

-----------------------------------------------------------------------------
(* NDRegistry *)

Key(s) == <<s.id, s.version>>
Qualified(s, axis) == <<s.namespace, axis>>

CollidesById(s, axis) ==
    /\ Qualified(s, axis) \in DOMAIN owner
    /\ owner[Qualified(s, axis)][2] # s.version

\* Another system owns the axis.
Collides(s, axis) ==
    /\ Qualified(s, axis) \in DOMAIN owner
    /\ owner[Qualified(s, axis)] # Key(s)

\* The axes that are entered before the first that collides.
Entered(s) ==
    LET collisions == {i \in DOMAIN s.axes : Collides(s, s.axes[i])} IN
    {Qualified(s, s.axes[i]) : i \in {i \in DOMAIN s.axes : \A j \in collisions : i < j}}

\* One that is refused has entered some of its axes.
Register(s) ==
    /\ s.axes # <<>>
    /\ \A t \in systems : Key(t) = Key(s) => t = s
    /\ owner' = [q \in DOMAIN owner \union Entered(s) |->
                    IF q \in Entered(s) THEN Key(s) ELSE owner[q]]
    /\ systems' = IF \E a \in Range(s.axes) : Collides(s, a) THEN systems
                  ELSE systems \union {s}
    /\ UNCHANGED assignments

-----------------------------------------------------------------------------
(* NDSystem.relation, of Core *)

Converse == [contains |-> "contained_by", contained_by |-> "contains",
            precedes |-> "succeeds", succeeds |-> "precedes"]
WithConverse(rel) == {rel} \union {Converse[r] : r \in {rel} \intersect DOMAIN Converse}

Truth(b) == IF b THEN "true" ELSE "false"

HasBounds(v) == v.from # None \/ v.to # None
From(v) == IF v.from # None THEN v.from ELSE v.to
To(v) == IF v.to # None THEN v.to ELSE v.from

IntervalRelationOpen(rel, l, r) ==
    Truth(CASE rel = "equal" -> From(l) = From(r) /\ To(l) = To(r)
            [] rel = "disjoint" -> To(l) <= From(r) \/ To(r) <= From(l)
            [] rel = "overlaps" -> From(l) < To(r) /\ From(r) < To(l)
            [] rel = "contains" -> From(l) <= From(r) /\ To(r) <= To(l)
            [] rel = "contained_by" -> From(r) <= From(l) /\ To(l) <= To(r)
            [] rel = "precedes" -> To(l) < From(r)
            [] rel = "succeeds" -> From(l) > To(r))

\* The comparison of the bounds.
IntervalRelation(rel, l, r) ==
    Truth(CASE rel = "equal" -> From(l) = From(r) /\ To(l) = To(r)
            [] rel = "disjoint" -> To(l) < From(r) \/ To(r) < From(l)
            [] rel = "overlaps" -> From(l) <= To(r) /\ From(r) <= To(l)
            [] rel = "contains" -> From(l) <= From(r) /\ To(r) <= To(l)
            [] rel = "contained_by" -> From(r) <= From(l) /\ To(l) <= To(r)
            [] rel = "precedes" -> To(l) < From(r)
            [] rel = "succeeds" -> From(l) > To(r))

Attested(axis, l, r, rel) ==
    \E row \in Ontology :
        /\ row.axis = axis
        /\ \/ row.relation = rel /\ row.left = l /\ row.right = r
           \/ row.relation \in WithConverse(rel) \ {rel} /\ row.left = r /\ row.right = l

\* What is not attested is unknown.
Relation(axis, l, r, rel) ==
    IF WithConverse(rel) \intersect Primitives[axis] = {} THEN "unknown"
    ELSE IF Interval[axis] /\ HasBounds(l) /\ HasBounds(r) THEN IntervalRelation(rel, l, r)
    ELSE IF rel = "equal" THEN Truth(l = r)
    ELSE IF Attested(axis, l, r, rel) THEN "true"
    ELSE "unknown"

-----------------------------------------------------------------------------
(* scope_compatibility and select_by_scope.  A scope is a function from axes to values. *)

Positive == {"equal", "overlaps", "contains", "contained_by"}

Holds(axis, ls, rs, rels) ==
    \E l \in ls, r \in rs, rel \in rels : Relation(axis, l, r, rel) = "true"

\* A disjoint pair excludes; otherwise every shared axis needs a pair that is related.
ScopeCompatibility(left, right) ==
    LET shared == DOMAIN left \intersect DOMAIN right IN
    IF \E a \in shared : Holds(a, left[a], right[a], {"disjoint"}) THEN "false"
    ELSE IF shared = {}
            \/ \E a \in shared : /\ left[a] # {} /\ right[a] # {}
                                 /\ ~Holds(a, left[a], right[a], Positive)
    THEN "unknown"
    ELSE "true"

Scope(claim) ==
    LET given == {a \in assignments : a.claim = claim} IN
    [axis \in {a.axis : a \in given} |-> {a.value : a \in {a \in given : a.axis = axis}}]

SelectByScope(constraint) == {c \in Claims : ScopeCompatibility(Scope(c), constraint) = "true"}
Excluded(constraint) == {c \in Claims : ScopeCompatibility(Scope(c), constraint) = "false"}

-----------------------------------------------------------------------------
(* CoordinateAssignment *)

Malformed(v) == v.from # None /\ v.to # None /\ v.from > v.to

Assign(claim, axis, value, source) ==
    /\ Cardinality(assignments) < MaxAssignments
    /\ axis \in Range(Core.axes)
    /\ source # None
    /\ ~(Interval[axis] /\ Malformed(value))
    /\ assignments' = assignments \union {[claim |-> claim, axis |-> axis, value |-> value]}
    /\ UNCHANGED <<systems, owner>>

Init ==
    /\ systems = {Core}
    /\ owner = [q \in {Qualified(Core, a) : a \in Range(Core.axes)} |-> Key(Core)]
    /\ assignments = {}

Next ==
    \/ \E s \in Systems : Register(s)
    \/ \E c \in Claims, axis \in DOMAIN Values, source \in Sources \union {None} :
           \E v \in Values[axis] : Assign(c, axis, v, source)

Spec == Init /\ [][Next]_vars

-----------------------------------------------------------------------------
\* Whatever has been refused before, no two registered systems have an axis or a key in
\* common, and the axes of each are owned by it (NDRegistry.register).
Axes(s) == {Qualified(s, a) : a \in Range(s.axes)}

RegistrySound ==
    \A s, t \in systems :
        /\ Key(s) = Key(t) => s = t
        /\ s # t => Axes(s) \intersect Axes(t) = {}
        /\ \A q \in Axes(s) : owner[q] = Key(s)

\* Intervals are selected as the sets of instants that they stand for: for every question
\* a selected claim shares an instant with it on every interval axis both have, and an
\* excluded one has, on some axis, no instant or an attested disjointness
\* (select_by_scope).
Instants(v) == From(v) .. To(v)
Meets(ls, rs) == \E l \in ls, r \in rs : Instants(l) \intersect Instants(r) # {}
Bounded(vs) == {v \in vs : HasBounds(v)}

SelectionSound ==
    \A axis \in DOMAIN Values : \A q \in Values[axis] :
        LET question == [a \in {axis} |-> {q}]
            scopes == [c \in Claims |-> Scope(c)]
        IN  Interval[axis] /\ HasBounds(q) /\ ~Malformed(q) =>
                \A c \in {c \in Claims : axis \in DOMAIN scopes[c]} :
                    LET values == scopes[c][axis] IN
                    /\ c \in SelectByScope(question) => Meets(Bounded(values), {q})
                    /\ c \in Excluded(question) <=>
                           \E v \in Bounded(values) : ~Meets({v}, {q})
=============================================================================
