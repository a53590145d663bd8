---------------------------- MODULE FoldTheorems ----------------------------
(***************************************************************************)
(* Facts about numbers, finite sets and the folds of the community modules *)
(* that the other proofs share.  What would be shown by induction is shown *)
(* by a smallest counterexample, since the induction theorems of the       *)
(* library take an operator, which cannot be instantiated.  For the same   *)
(* reason a fold is described by functions: step[i] is what its operator   *)
(* does to a value when the i-th element of the sequence comes.            *)
(***************************************************************************)
EXTENDS Integers, FiniteSets, FiniteSetsExt, FiniteSetTheorems, WellFoundedInduction, TLAPS

NatLess == {p \in Nat \X Nat : p[1] < p[2]}

LEMMA LeastNumber ==
  ASSUME NEW T \in SUBSET Nat, T # {}
  PROVE  \E m \in T : \A n \in T : m <= n
  <1>1. IsWellFoundedOn(NatLess, Nat)
    BY NatLessThanWellFounded DEF OpToRel, NatLess
  <1>2. PICK m \in T : \A n \in T : ~(<<n, m>> \in NatLess)
    BY <1>1, WFMin
  <1>3. ASSUME NEW n \in T PROVE m <= n
    <2>1. n \in Nat /\ m \in Nat /\ ~(n < m)
      BY <1>2 DEF NatLess
    <2> QED
      BY <2>1
  <1> QED
    BY <1>3

\* By a smallest set without a highest element.
LEMMA HighestNumber ==
  ASSUME NEW T \in SUBSET Nat, T # {}, IsFiniteSet(T)
  PROVE  \E m \in T : \A n \in T : n <= m
  <1> DEFINE Highest(U) == \E m \in U : \A n \in U : n <= m
             Bad == {U \in SUBSET T : U # {} /\ ~Highest(U)}
             Sizes == {k \in Nat : \E U \in Bad : Cardinality(U) = k}
  <1>1. ASSUME NEW U \in Bad PROVE Cardinality(U) \in Sizes /\ IsFiniteSet(U)
    <2>1. IsFiniteSet(U)
      BY FS_Subset
    <2>2. Cardinality(U) \in Nat
      BY <2>1, FS_CardinalityType
    <2> QED
      BY <2>1, <2>2
  <1>2. ASSUME Sizes # {} PROVE FALSE
    <2>1. PICK k \in Sizes : \A j \in Sizes : k <= j
      BY <1>2, LeastNumber
    <2>2. PICK U \in Bad : Cardinality(U) = k
      OBVIOUS
    <2>3. PICK x \in U : TRUE
      OBVIOUS
    <2> DEFINE V == U \ {x}
    <2>4. IsFiniteSet(U) /\ k \in Nat
      BY <1>1
    <2>5. Cardinality(V) = k - 1
      BY <2>2, <2>3, <2>4, FS_RemoveElement
    <2>6. V \notin Bad
      <3>1. V \in Bad => k - 1 \in Sizes
        BY <1>1, <2>5
      <3> QED
        BY <2>1, <2>4, <3>1
    <2>7. V = {} \/ Highest(V)
      BY <2>6
    <2>8. CASE V = {}
      <3>1. \A n \in U : n = x /\ n \in Nat
        BY <2>8
      <3> QED
        BY <2>2, <2>3, <3>1
    <2>9. CASE Highest(V)
      <3>1. PICK m \in V : \A n \in V : n <= m
        BY <2>9
      <3>2. m \in Nat /\ x \in Nat /\ m \in U /\ \A n \in U : n \in Nat /\ (n = x \/ n \in V)
        BY <2>3
      <3>3. CASE x <= m
        BY <2>2, <3>1, <3>2, <3>3
      <3>4. CASE m < x
        BY <2>2, <2>3, <3>1, <3>2, <3>4
      <3> QED
        BY <3>2, <3>3, <3>4
    <2> QED
      BY <2>7, <2>8, <2>9
  <1>3. T \notin Bad
    BY <1>1, <1>2
  <1> QED
    BY <1>3

----------------------------------------------------------------------------
(* Runs: f[i] is what is left of base after the steps up to i, those not   *)
(* in s left out.                                                          *)

Run(f, n, A, base, step, s) ==
    /\ f \in [0..n -> A]
    /\ f[0] = base
    /\ \A i \in 1..n : f[i] = IF i \in s THEN step[i][f[i - 1]] ELSE f[i - 1]

\* Every choice of steps has a run.
LEMMA RunExists ==
  ASSUME NEW n \in Nat, NEW A, NEW base \in A, NEW step \in [1..n -> [A -> A]], NEW s
  PROVE  \E f : Run(f, n, A, base, step, s)
  <1> DEFINE Bad == {k \in Nat : k <= n /\ ~ \E f : Run(f, k, A, base, step, s)}
  <1>1. ASSUME Bad # {} PROVE FALSE
    <2>1. PICK k \in Bad : \A j \in Bad : k <= j
      BY <1>1, LeastNumber
    <2>2. CASE k = 0
      <3>1. Run([i \in 0..0 |-> base], 0, A, base, step, s)
        BY DEF Run
      <3> QED
        BY <2>2, <3>1
    <2>3. CASE k # 0
      <3>1. k \in Nat /\ k - 1 \in Nat /\ k - 1 <= n /\ ~(k <= k - 1) /\ k \in 1..n
        BY <2>3
      <3>2. PICK f : Run(f, k - 1, A, base, step, s)
        BY <2>1, <3>1
      <3> DEFINE g == [i \in 0..k |-> IF i = k THEN IF k \in s THEN step[k][f[k - 1]] ELSE f[k - 1]
                                      ELSE f[i]]
      <3>3. f \in [0..(k - 1) -> A] /\ f[k - 1] \in A
        BY <3>1, <3>2 DEF Run
      <3>4. g[k] \in A
        BY <3>1, <3>3
      <3>5. \A i \in 0..k : i # k => i \in 0..(k - 1) /\ g[i] = f[i]
        BY <3>1
      <3>6. g \in [0..k -> A]
        BY <3>3, <3>4, <3>5
      <3>7. ASSUME NEW i \in 1..k
            PROVE  g[i] = IF i \in s THEN step[i][g[i - 1]] ELSE g[i - 1]
        <4>1. CASE i = k
          BY <3>1, <3>5, <4>1
        <4>2. CASE i # k
          <5>1. i \in 1..(k - 1) /\ i - 1 \in 0..k /\ i - 1 # k /\ i \in 0..k
            BY <3>1, <4>2
          <5>2. f[i] = IF i \in s THEN step[i][f[i - 1]] ELSE f[i - 1]
            BY <3>2, <5>1 DEF Run
          <5> QED
            BY <3>5, <4>2, <5>1, <5>2
        <4> QED
          BY <4>1, <4>2
      <3>8. g[0] = base
        BY <3>1, <3>2, <3>5 DEF Run
      <3>9. Run(g, k, A, base, step, s)
        BY <3>6, <3>7, <3>8 DEF Run
      <3> QED
        BY <3>9
    <2> QED
      BY <2>2, <2>3
  <1>2. n \notin Bad
    BY <1>1
  <1>3. n <= n
    OBVIOUS
  <1> QED
    BY <1>2, <1>3

\* Two runs agree as long as they make the same steps.
LEMMA RunsAgree ==
  ASSUME NEW n \in Nat, NEW A, NEW base, NEW step, NEW s, NEW t, NEW f, NEW g,
         Run(f, n, A, base, step, s), Run(g, n, A, base, step, t),
         NEW k \in 0..n, \A i \in 1..k : i \in s <=> i \in t
  PROVE  f[k] = g[k]
  <1> DEFINE Bad == {i \in Nat : i <= k /\ f[i] # g[i]}
  <1>1. ASSUME Bad # {} PROVE FALSE
    <2>1. PICK i \in Bad : \A j \in Bad : i <= j
      BY <1>1, LeastNumber
    <2>2. i # 0
      BY DEF Run
    <2>3. i \in 1..k /\ i \in 1..n /\ i - 1 \in Nat /\ i - 1 <= k /\ ~(i <= i - 1)
      BY <2>2
    <2>4. f[i - 1] = g[i - 1]
      BY <2>1, <2>3
    <2> QED
      BY <2>3, <2>4 DEF Run
  <1> QED
    BY <1>1

\* After its last step a run stays where it is.
LEMMA RunRests ==
  ASSUME NEW n \in Nat, NEW A, NEW base, NEW step, NEW s, NEW f,
         Run(f, n, A, base, step, s),
         NEW k \in 0..n, \A i \in (k + 1)..n : i \notin s
  PROVE  f[n] = f[k]
  <1> DEFINE Bad == {i \in Nat : i \in k..n /\ f[i] # f[k]}
  <1>1. ASSUME Bad # {} PROVE FALSE
    <2>1. PICK i \in Bad : \A j \in Bad : i <= j
      BY <1>1, LeastNumber
    <2>2. i \in (k + 1)..n /\ i \in 1..n /\ i - 1 \in Nat /\ i - 1 \in k..n /\ ~(i <= i - 1)
      OBVIOUS
    <2>3. f[i - 1] = f[k]
      BY <2>1, <2>2
    <2> QED
      BY <2>2, <2>3 DEF Run
  <1> QED
    BY <1>1

----------------------------------------------------------------------------
(* MapThenFoldSet.                                                         *)

LEMMA MaxFacts ==
  ASSUME NEW n \in Nat, NEW s \in SUBSET (1..n), s # {}
  PROVE  Max(s) \in s /\ \A i \in s : i <= Max(s)
  <1>1. IsFiniteSet(s)
    <2>1. IsFiniteSet(1..n)
      BY FS_Interval
    <2> QED
      BY <2>1, FS_Subset
  <1>2. s \in SUBSET Nat
    OBVIOUS
  <1>3. PICK m \in s : \A i \in s : i <= m
    BY <1>1, <1>2, HighestNumber
  <1>4. \A i \in s : m >= i
    BY <1>2, <1>3
  <1>5. Max(s) \in s /\ \A i \in s : Max(s) >= i
    BY <1>4 DEF Max
  <1> QED
    BY <1>2, <1>5

LEMMA PrefixMax ==
  ASSUME NEW k \in Nat, k # 0
  PROVE  Max(1..k) = k /\ (1..k) \ {k} = 1..(k - 1) /\ 1..k # {}
  <1>1. k \in 1..k
    OBVIOUS
  <1>2. Max(1..k) \in 1..k /\ k <= Max(1..k)
    BY <1>1, MaxFacts
  <1> QED
    BY <1>1, <1>2

\* The function that MapThenFoldSet iterates.
Iterates(iter, n, A, base, step) ==
    /\ iter \in [SUBSET (1..n) -> A]
    /\ \A s \in SUBSET (1..n) :
          iter[s] = IF s = {} THEN base ELSE step[Max(s)][iter[s \ {Max(s)}]]

THEOREM FoldExists ==
  ASSUME NEW n \in Nat, NEW A, NEW base \in A, NEW step \in [1..n -> [A -> A]]
  PROVE  \E iter : Iterates(iter, n, A, base, step)
  <1> DEFINE R(f, s) == Run(f, n, A, base, step, s)
             run == [s \in SUBSET (1..n) |-> CHOOSE f : R(f, s)]
             iter == [s \in SUBSET (1..n) |-> run[s][n]]
  <1>1. ASSUME NEW s \in SUBSET (1..n) PROVE R(run[s], s)
    <2>1. \E f : R(f, s)
      BY RunExists
    <2> QED
      BY <2>1
  <1> HIDE DEF run
  <1>2. iter \in [SUBSET (1..n) -> A]
    BY <1>1 DEF Run
  <1>3. ASSUME NEW s \in SUBSET (1..n)
        PROVE  iter[s] = IF s = {} THEN base ELSE step[Max(s)][iter[s \ {Max(s)}]]
    <2>1. CASE s = {}
      <3>1. run[s][n] = run[s][0]
        BY <1>1, <2>1, RunRests
      <3> QED
        BY <1>1, <2>1, <3>1 DEF Run
    <2>2. CASE s # {}
      <3> DEFINE m == Max(s)
                 t == s \ {m}
      <3>1. m \in s /\ m \in 1..n /\ \A i \in s : i <= m
        BY <2>2, MaxFacts
      <3> HIDE DEF m
      <3>2. \A i \in (m + 1)..n : i \notin s
        BY <3>1
      <3>3. \A i \in ((m - 1) + 1)..n : i \notin t
        BY <3>1
      <3>4. run[s][n] = run[s][m]
        BY <1>1, <3>1, <3>2, RunRests
      <3>5. t \in SUBSET (1..n) /\ m - 1 \in 0..n
        BY <3>1
      <3>6. run[t][n] = run[t][m - 1]
        BY <1>1, <3>3, <3>5, RunRests
      <3>7. \A i \in 1..(m - 1) : i \in s <=> i \in t
        BY <3>1
      <3>8. run[s][m - 1] = run[t][m - 1]
        BY <1>1, <3>5, <3>7, RunsAgree
      <3>9. run[s][m] = step[m][run[s][m - 1]]
        BY <1>1, <3>1 DEF Run
      <3> QED
        BY <2>2, <3>4, <3>5, <3>6, <3>8, <3>9 DEF m
    <2> QED
      BY <2>1, <2>2
  <1> HIDE DEF iter
  <1>4. Iterates(iter, n, A, base, step)
    BY <1>2, <1>3 DEF Iterates
  <1> QED
    BY <1>4

\* The values that function has for the beginnings of the sequence are a run.
LEMMA FoldRun ==
  ASSUME NEW n \in Nat, NEW A, NEW base \in A, NEW step \in [1..n -> [A -> A]],
         NEW iter, Iterates(iter, n, A, base, step)
  PROVE  \E f : Run(f, n, A, base, step, 1..n) /\ f[n] = iter[1..n]
  <1> DEFINE f == [k \in 0..n |-> iter[1..k]]
  <1>1. ASSUME NEW k \in 0..n PROVE 1..k \in SUBSET (1..n)
    <2>1. \A i \in 1..k : i \in 1..n
      OBVIOUS
    <2> QED
      BY <2>1
  <1>2. f \in [0..n -> A]
    BY <1>1 DEF Iterates
  <1>3. f[0] = base
    <2>1. 1..0 = {} /\ {} \in SUBSET (1..n) /\ 0 \in 0..n
      OBVIOUS
    <2>2. iter[{}] = base
      BY <2>1 DEF Iterates
    <2> QED
      BY <2>1, <2>2
  <1>4. ASSUME NEW k \in 1..n PROVE f[k] = step[k][f[k - 1]]
    <2>1. k \in Nat /\ k # 0 /\ k \in 0..n /\ k - 1 \in 0..n
      OBVIOUS
    <2>2. Max(1..k) = k /\ (1..k) \ {k} = 1..(k - 1) /\ 1..k # {}
      BY <2>1, PrefixMax
    <2>3. 1..k \in SUBSET (1..n)
      BY <1>1, <2>1
    <2>4. iter[1..k] = step[k][iter[1..(k - 1)]]
      BY <2>2, <2>3 DEF Iterates
    <2> QED
      BY <2>1, <2>4
  <1>5. f[n] = iter[1..n]
    <2>1. n \in 0..n
      OBVIOUS
    <2> QED
      BY <2>1
  <1> HIDE DEF f
  <1>6. Run(f, n, A, base, step, 1..n)
    BY <1>2, <1>3, <1>4 DEF Run
  <1> QED
    BY <1>5, <1>6

\* One more step.
LEMMA RunGrows ==
  ASSUME NEW n \in Nat, NEW A, NEW base, NEW step, NEW longer, NEW f, NEW g,
         Run(f, n, A, base, step, 1..n), Run(g, n + 1, A, base, longer, 1..(n + 1)),
         \A i \in 1..n : longer[i] = step[i]
  PROVE  g[n + 1] = longer[n + 1][f[n]] /\ f[n] \in A
  <1> DEFINE h == [k \in 0..n |-> g[k]]
  <1>1. \A k \in 0..n : k \in 0..(n + 1) /\ h[k] = g[k] /\ g[k] \in A
    BY DEF Run
  <1>2. \A i \in 1..n : i \in 1..(n + 1) /\ i - 1 \in 0..n /\ i \in 0..n
    OBVIOUS
  <1>3. h \in [0..n -> A]
    BY <1>1
  <1>4. h[0] = base
    BY <1>1 DEF Run
  <1>5. \A i \in 1..n : h[i] = step[i][h[i - 1]]
    BY <1>1, <1>2 DEF Run
  <1> HIDE DEF h
  <1>6. Run(h, n, A, base, step, 1..n)
    BY <1>3, <1>4, <1>5 DEF Run
  <1>7. n \in 0..n
    OBVIOUS
  <1>8. f[n] = h[n]
    BY <1>6, <1>7, RunsAgree
  <1>9. g[n + 1] = longer[n + 1][g[n]]
    <2>1. n + 1 \in 1..(n + 1) /\ (n + 1) - 1 = n
      OBVIOUS
    <2> QED
      BY <2>1 DEF Run
  <1> QED
    BY <1>1, <1>7, <1>8, <1>9

\* It makes the steps on the beginnings of the sequence, as long as it has values of A.
Steps(it, n, A, base, step) ==
    /\ it[{}] = base
    /\ \A k \in 1..n : it[1..(k - 1)] \in A => it[1..k] = step[k][it[1..(k - 1)]]

\* Then it has the values of the run there.
LEMMA FoldTracks ==
  ASSUME NEW n \in Nat, NEW A, NEW base \in A, NEW step \in [1..n -> [A -> A]],
         NEW f, Run(f, n, A, base, step, 1..n),
         NEW it, Steps(it, n, A, base, step)
  PROVE  it[1..n] = f[n]
  <1> DEFINE Bad == {k \in Nat : k <= n /\ it[1..k] # f[k]}
  <1>1. ASSUME Bad # {} PROVE FALSE
    <2>1. PICK k \in Bad : \A j \in Bad : k <= j
      BY <1>1, LeastNumber
    <2>2. k # 0
      <3>1. 1..0 = {} /\ f[0] = base
        BY DEF Run
      <3> QED
        BY <2>1, <3>1 DEF Steps
    <2>3. k \in 1..n /\ k - 1 \in Nat /\ k - 1 <= n /\ ~(k <= k - 1) /\ k - 1 \in 0..n
      BY <2>2
    <2>4. it[1..(k - 1)] = f[k - 1] /\ f[k - 1] \in A
      BY <2>1, <2>3 DEF Run
    <2> QED
      BY <2>3, <2>4 DEF Run, Steps
  <1>2. n \notin Bad /\ n <= n
    BY <1>1
  <1> QED
    BY <1>2
=============================================================================
