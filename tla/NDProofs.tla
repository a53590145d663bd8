------------------------------ MODULE NDProofs ------------------------------
(***************************************************************************)
(* The registry of NDSystems is sound for any systems, registered in any   *)
(* order.  Refused registrations leave axes with owners that are not       *)
(* registered, so that the owner of an axis says more than the systems do: *)
(* the invariant is that it is the key of every registered system that has *)
(* the axis.  Two such systems have one key, and are one.                  *)
(* Selection by scope is right for any values and scopes: two intervals    *)
(* that are related are valid, and a relation other than disjoint says     *)
(* that they have an instant in common; this is read off their bounds.     *)
(***************************************************************************)
EXTENDS NDSystems, TLAPS

\* Every axis of a registered system is owned by its key, and keys are unique.
Owned(s) == \A q \in Axes(s) : q \in DOMAIN owner /\ owner[q] = Key(s)

IInv ==
    /\ systems \subseteq Systems \union {Core}
    /\ \A s \in systems : Owned(s)
    /\ \A s, t \in systems : Key(s) = Key(t) => s = t

\* What a registration enters was not owned by another key (NDRegistry.register).
LEMMA EnteredFree ==
    ASSUME NEW s \in Systems, NEW q \in Entered(s), q \in DOMAIN owner
    PROVE  owner[q] = Key(s)
  <1> DEFINE collisions == {i \in DOMAIN s.axes : Collides(s, s.axes[i])}
  <1>1. PICK i \in DOMAIN s.axes : q = Qualified(s, s.axes[i]) /\ \A j \in collisions : i < j
    BY DEF Entered
  <1>2. i \notin collisions
    <2>1. i \in Nat
      BY AxesAssumption
    <2>2. ~(i < i)
      BY <2>1
    <2>3. QED
      BY <1>1, <2>2
  <1>3. QED
    BY <1>1, <1>2 DEF Collides

\* Without a collision all axes are entered.
LEMMA AllEntered ==
    ASSUME NEW s \in Systems, ~ \E a \in Range(s.axes) : Collides(s, a)
    PROVE  Entered(s) = Axes(s)
  BY DEF Entered, Axes, Range

\* No step takes an axis from a registered system, and a step that registers a system
\* gives it all of its axes.
LEMMA Inductive == IInv /\ [Next]_vars => IInv'
  <1> SUFFICES ASSUME IInv, [Next]_vars PROVE IInv'
    OBVIOUS
  <1>1. ASSUME NEW s \in Systems, Register(s) PROVE IInv'
    <2> DEFINE refused == \E a \in Range(s.axes) : Collides(s, a)
    <2>1. /\ owner' = [q \in DOMAIN owner \union Entered(s) |->
                          IF q \in Entered(s) THEN Key(s) ELSE owner[q]]
          /\ systems' = IF refused THEN systems ELSE systems \union {s}
          /\ \A t \in systems : Key(t) = Key(s) => t = s
      BY <1>1 DEF Register
    <2>2. ASSUME NEW t \in systems PROVE Owned(t)'
      <3> SUFFICES ASSUME NEW q \in Axes(t) PROVE q \in DOMAIN owner' /\ owner'[q] = Key(t)
        BY DEF Owned, Axes, Qualified, Key
      <3>1. q \in DOMAIN owner /\ owner[q] = Key(t)
        BY DEF IInv, Owned
      <3>2. CASE q \in Entered(s)
        BY <2>1, <3>1, <3>2, EnteredFree
      <3>3. CASE q \notin Entered(s)
        BY <2>1, <3>1, <3>3
      <3>4. QED
        BY <3>2, <3>3
    <2>3. ASSUME ~refused PROVE Owned(s)'
      <3>1. Entered(s) = Axes(s)
        BY <2>3, AllEntered
      <3>2. \A q \in Axes(s) : q \in DOMAIN owner' /\ owner'[q] = Key(s)
        BY <2>1, <3>1
      <3>3. QED
        BY <3>2 DEF Owned, Axes, Qualified, Key
    <2>4. CASE refused
      BY <2>1, <2>2, <2>4 DEF IInv, Key
    <2>5. CASE ~refused
      <3>1. systems' = systems \union {s}
        BY <2>1, <2>5
      <3>2. \A t \in systems' : Owned(t)'
        BY <2>2, <2>3, <2>5, <3>1
      <3>3. \A t, u \in systems' : Key(t) = Key(u) => t = u
        BY <2>1, <3>1 DEF IInv
      <3>4. QED
        BY <3>1, <3>2, <3>3 DEF IInv, Key
    <2>6. QED
      BY <2>4, <2>5
  <1>2. CASE UNCHANGED <<systems, owner>>
    BY <1>2 DEF IInv, Owned, Axes, Qualified, Key
  <1>3. QED
    BY <1>1, <1>2 DEF Next, Assign, vars

LEMMA InitInv == Init => IInv
  BY DEF Init, IInv, Owned, Axes

\* The owner of an axis that two systems have is the key of both.
LEMMA Sound == IInv => RegistrySound
  <1> SUFFICES ASSUME IInv, NEW s \in systems, NEW t \in systems
               PROVE  /\ Key(s) = Key(t) => s = t
                      /\ s # t => Axes(s) \intersect Axes(t) = {}
                      /\ \A q \in Axes(s) : owner[q] = Key(s)
    BY DEF RegistrySound
  <1>1. Owned(s) /\ Owned(t) /\ (Key(s) = Key(t) => s = t)
    BY DEF IInv
  <1>2. QED
    BY <1>1 DEF Owned

\* Whatever systems are offered and however often, registered systems never have an axis
\* or a key in common, and own their axes (NDRegistry.register).
THEOREM RegistryNeverCollides == Spec => []RegistrySound
  <1>1. Spec => []IInv
    BY InitInv, Inductive, PTL DEF Spec
  <1>2. QED
    BY <1>1, Sound, PTL

-----------------------------------------------------------------------------
(* Selection by scope. *)

\* What validation lets through (CoordinateAssignment).
Valid(axis, v) ==
    axis \in DOMAIN Values /\ v \in Values[axis] /\ ~(Interval[axis] /\ Malformed(v))

AssignedValid == \A a \in assignments : Valid(a.axis, a.value)

LEMMA AssignedInit == Init => AssignedValid
  BY DEF Init, AssignedValid

LEMMA AssignedNext == AssignedValid /\ [Next]_vars => AssignedValid'
  <1> SUFFICES ASSUME AssignedValid, [Next]_vars PROVE AssignedValid'
    OBVIOUS
  <1>1. ASSUME NEW c, NEW axis \in DOMAIN Values, NEW source, NEW v \in Values[axis],
               Assign(c, axis, v, source)
        PROVE  AssignedValid'
    BY <1>1 DEF Assign, AssignedValid, Valid
  <1>2. CASE UNCHANGED assignments
    BY <1>2 DEF AssignedValid
  <1>3. QED
    BY <1>1, <1>2 DEF Next, Register, vars

\* A value with an end stands for at least one instant.
LEMMA Ends ==
    ASSUME NEW axis \in DOMAIN Values, Interval[axis], NEW v, Valid(axis, v), HasBounds(v)
    PROVE  From(v) \in Int /\ To(v) \in Int /\ From(v) <= To(v)
  <1>1. v \in [from : Int \union {None}, to : Int \union {None}] /\ ~Malformed(v)
    BY CoreAssumption DEF Valid
  <1>2. CASE v.from = None \/ v.to = None
    BY <1>1, <1>2 DEF HasBounds, From, To
  <1>3. CASE v.from # None /\ v.to # None
    BY <1>1, <1>3 DEF From, To, Malformed
  <1>4. QED
    BY <1>2, <1>3

\* Two intervals meet if neither ends before the other begins.
LEMMA Meeting ==
    ASSUME NEW axis \in DOMAIN Values, Interval[axis],
           NEW l, Valid(axis, l), HasBounds(l), NEW r, Valid(axis, r), HasBounds(r)
    PROVE  Instants(l) \intersect Instants(r) # {} <=> From(l) <= To(r) /\ From(r) <= To(l)
  <1> DEFINE a == From(l)
             b == To(l)
             c == From(r)
             d == To(r)
  <1>1. a \in Int /\ b \in Int /\ a <= b /\ c \in Int /\ d \in Int /\ c <= d
    BY Ends
  <1> HIDE DEF a, b, c, d
  <1>2. (a .. b) \intersect (c .. d) # {} <=> a <= d /\ c <= b
    <2>1. ASSUME a <= d, c <= b PROVE (a .. b) \intersect (c .. d) # {}
      <3>1. a \in c .. d \/ c \in a .. b
        BY <1>1, <2>1
      <3>2. a \in a .. b /\ c \in c .. d
        BY <1>1
      <3>3. QED
        BY <3>1, <3>2
    <2>2. ASSUME NEW i \in (a .. b) \intersect (c .. d) PROVE a <= d /\ c <= b
      BY <1>1
    <2>3. QED
      BY <2>1, <2>2
  <1>3. QED
    BY <1>2 DEF Instants, a, b, c, d

\* The relation of two values on an interval axis is that of their bounds, and without
\* bounds they are at most equal (NDSystem.relation).
LEMMA RelatedByBounds ==
    ASSUME NEW axis \in DOMAIN Values, Interval[axis], NEW l, NEW r, HasBounds(r), NEW rel,
           Relation(axis, l, r, rel) = "true"
    PROVE  HasBounds(l) /\ IntervalRelation(rel, l, r) = "true"
  <1>1. ~Attested(axis, l, r, rel)
    BY CoreAssumption DEF Attested
  <1>2. CASE HasBounds(l)
    BY <1>2 DEF Relation
  <1>3. CASE ~HasBounds(l)
    <2>1. l # r
      BY <1>3
    <2>2. QED
      BY <1>1, <1>3, <2>1 DEF Relation, Truth
  <1>4. QED
    BY <1>2, <1>3

LEMMA RelatedMeet ==
    ASSUME NEW axis \in DOMAIN Values, Interval[axis], NEW l, Valid(axis, l),
           NEW r, Valid(axis, r), HasBounds(r), NEW rel \in Positive,
           Relation(axis, l, r, rel) = "true"
    PROVE  HasBounds(l) /\ Instants(l) \intersect Instants(r) # {}
  <1>1. HasBounds(l) /\ IntervalRelation(rel, l, r) = "true"
    BY RelatedByBounds
  <1>2. /\ From(l) \in Int /\ To(l) \in Int /\ From(l) <= To(l)
        /\ From(r) \in Int /\ To(r) \in Int /\ From(r) <= To(r)
    BY <1>1, Ends
  <1>3. \/ rel = "equal" /\ From(l) = From(r) /\ To(l) = To(r)
        \/ rel = "overlaps" /\ From(l) <= To(r) /\ From(r) <= To(l)
        \/ rel = "contains" /\ From(l) <= From(r) /\ To(r) <= To(l)
        \/ rel = "contained_by" /\ From(r) <= From(l) /\ To(l) <= To(r)
    BY <1>1 DEF IntervalRelation, Truth, Positive
  <1>4. From(l) <= To(r) /\ From(r) <= To(l)
    BY <1>2, <1>3
  <1>5. QED
    BY <1>1, <1>4, Meeting

LEMMA DisjointApart ==
    ASSUME NEW axis \in DOMAIN Values, Interval[axis], NEW l, Valid(axis, l),
           NEW r, Valid(axis, r), HasBounds(r)
    PROVE  Relation(axis, l, r, "disjoint") = "true"
             <=> HasBounds(l) /\ Instants(l) \intersect Instants(r) = {}
  <1>1. WithConverse("disjoint") \intersect Primitives[axis] # {}
    BY CoreAssumption DEF WithConverse
  <1>2. ASSUME HasBounds(l)
        PROVE  Relation(axis, l, r, "disjoint") = "true" <=> Instants(l) \intersect Instants(r) = {}
    <2>1. Relation(axis, l, r, "disjoint") = Truth(To(l) < From(r) \/ To(r) < From(l))
      BY <1>1, <1>2 DEF Relation, IntervalRelation
    <2>2. /\ From(l) \in Int /\ To(l) \in Int /\ From(r) \in Int /\ To(r) \in Int
      BY <1>2, Ends
    <2>3. To(l) < From(r) \/ To(r) < From(l) <=> ~(From(l) <= To(r) /\ From(r) <= To(l))
      BY <2>2
    <2>4. QED
      BY <1>2, <2>1, <2>3, Meeting DEF Truth
  <1>3. QED
    BY <1>2, RelatedByBounds

\* A claim whose scope has the axis of a question of one value.
LEMMA SelectionRight == AssignedValid => SelectionSound
  <1> SUFFICES ASSUME AssignedValid, NEW axis \in DOMAIN Values, NEW q \in Values[axis],
                      Interval[axis], HasBounds(q), ~Malformed(q),
                      NEW c \in Claims, axis \in DOMAIN Scope(c)
               PROVE  LET question == [a \in {axis} |-> {q}]
                          values == Scope(c)[axis]
                      IN  /\ c \in SelectByScope(question) => Meets(Bounded(values), {q})
                          /\ c \in Excluded(question) <=>
                                 \E v \in Bounded(values) : ~Meets({v}, {q})
    BY DEF SelectionSound
  <1> DEFINE question == [a \in {axis} |-> {q}]
             values == Scope(c)[axis]
             given == {a \in assignments : a.claim = c}
  <1>1. values = {a.value : a \in {a \in given : a.axis = axis}} /\ values # {}
    BY DEF Scope
  <1>2. \A v \in values : Valid(axis, v)
    BY <1>1 DEF AssignedValid
  <1>3. Valid(axis, q)
    BY DEF Valid
  <1>4. DOMAIN Scope(c) \intersect DOMAIN question = {axis} /\ question[axis] = {q}
    OBVIOUS
  <1>5. DOMAIN Scope(c) \intersect DOMAIN question # {}
    BY <1>4
  <1> HIDE DEF question, values
  <1>6. c \in Excluded(question) <=> Holds(axis, values, {q}, {"disjoint"})
    <2>1. ScopeCompatibility(Scope(c), question) = "false" <=> Holds(axis, values, {q}, {"disjoint"})
      BY <1>4 DEF ScopeCompatibility, values
    <2>2. QED
      BY <2>1 DEF Excluded
  <1>7. c \in SelectByScope(question) => Holds(axis, values, {q}, Positive)
    <2>1. ScopeCompatibility(Scope(c), question) = "true" => Holds(axis, values, {q}, Positive)
      BY <1>1, <1>4 DEF ScopeCompatibility, values
    <2>2. QED
      BY <2>1 DEF SelectByScope
  <1>8. Holds(axis, values, {q}, Positive) => Meets(Bounded(values), {q})
    BY <1>2, <1>3, RelatedMeet DEF Holds, Meets, Bounded
  <1>9. Holds(axis, values, {q}, {"disjoint"}) <=> \E v \in Bounded(values) : ~Meets({v}, {q})
    <2>1. \A v \in values : Relation(axis, v, q, "disjoint") = "true"
                               <=> HasBounds(v) /\ Instants(v) \intersect Instants(q) = {}
      BY <1>2, <1>3, DisjointApart
    <2>2. QED
      BY <2>1 DEF Holds, Meets, Bounded
  <1>10. QED
    BY <1>6, <1>7, <1>8, <1>9 DEF question, values

\* On every interval axis a question selects only claims with an instant in common, and
\* excludes exactly those with an interval that has none (select_by_scope).
THEOREM SelectsByInstants == Spec => []SelectionSound
  <1>1. Spec => []AssignedValid
    BY AssignedInit, AssignedNext, PTL DEF Spec
  <1>2. QED
    BY <1>1, SelectionRight, PTL
=============================================================================
