-------------------------- MODULE SnapshotsProofs --------------------------
(***************************************************************************)
(* What the snapshots are made of, for any number of devices, executables, *)
(* samples and lines: every icon is one the loader answered for its path;  *)
(* a disk's figures, a clock and a charted load span two readings in a     *)
(* row; an adapter's row is of the adapter it names; a temperature is as   *)
(* old as the page says; a report holds what the pages hold, in cells a    *)
(* reader of the file gets back; and a theme is stored as it is shown.     *)
(* The composition keeps the specification of each of its components, so   *)
(* that what is proved of one alone is proved of it in the program.        *)
(***************************************************************************)
EXTENDS MCSnapshots, TLAPS, FiniteSetTheorems, WellFoundedInduction,
        SequenceTheorems

LEMMA LeastNumber ==
    ASSUME NEW T \in SUBSET Nat, T # {}
    PROVE  \E x \in T : \A y \in T : x <= y
<1> DEFINE less == {p \in Nat \X Nat : p[1] < p[2]}
<1>1. IsWellFoundedOn(less, Nat)
  <2>1. OpToRel(<, Nat) = less
    BY Zenon DEF OpToRel
  <2> QED  BY <2>1, NatLessThanWellFounded, Zenon
<1>2. \E x \in T : \A y \in T : <<y, x>> \notin less
  <2> HIDE DEF less
  <2> QED  BY <1>1, WFMin
<1>3. PICK x \in T : \A y \in T : <<y, x>> \notin less
  BY <1>2
<1>4. ASSUME NEW y \in T PROVE x <= y
  <2>1. x \in Nat /\ y \in Nat /\ <<y, x>> \in Nat \X Nat
    OBVIOUS
  <2>2. ~(y < x)
    BY <1>3, <2>1
  <2> QED  BY <2>1, <2>2
<1> QED  BY <1>4

LEMMA SetInduction ==
    ASSUME NEW T, 0 \in T, \A n \in Nat : n \in T => n + 1 \in T
    PROVE  \A n \in Nat : n \in T
<1> SUFFICES ASSUME Nat \ T # {} PROVE FALSE
    OBVIOUS
<1>1. PICK x \in Nat \ T : \A y \in Nat \ T : x <= y
  <2>1. Nat \ T \in SUBSET Nat
    OBVIOUS
  <2> QED  BY <2>1, LeastNumber
<1>2. x - 1 \in Nat /\ x - 1 \in T
  BY <1>1
<1>3. x - 1 + 1 = x
  BY <1>1
<1> QED  BY <1>1, <1>2, <1>3

\* A function of 0 .. N with a given first value and a step from each number to
\* the next exists.
Defines(f, W, x, N, rule) ==
  f \in [0 .. N -> W] /\ f[0] = x /\ \A n \in 1 .. N : f[n] = rule[n][f[n - 1]]

LEMMA RecursionExists ==
    ASSUME NEW W, NEW x \in W, NEW N \in Nat, NEW rule \in [1 .. N -> [W -> W]]
    PROVE  \E f : Defines(f, W, x, N, rule)
<1> DEFINE Upto(n) == {f \in [0 .. n -> W] : f[0] = x /\ \A k \in 1 .. n : f[k] = rule[k][f[k - 1]]}
           T == {n \in Nat : n <= N => Upto(n) # {}}
<1>1. 0 \in T
  <2>1. [k \in 0 .. 0 |-> x] \in Upto(0)
    OBVIOUS
  <2> QED  BY <2>1
<1>2. ASSUME NEW n \in Nat, n \in T PROVE n + 1 \in T
  <2> HIDE DEF Upto
  <2> SUFFICES ASSUME n + 1 <= N PROVE Upto(n + 1) # {}
      OBVIOUS
  <2> USE DEF Upto
  <2>1. PICK g \in [0 .. n -> W] : g[0] = x /\ \A k \in 1 .. n : g[k] = rule[k][g[k - 1]]
    <3>1. n <= N
      OBVIOUS
    <3> QED  BY <1>2, <3>1
  <2> DEFINE h == [k \in 0 .. (n + 1) |-> IF k = n + 1 THEN rule[n + 1][g[n]] ELSE g[k]]
  <2>2. h \in [0 .. (n + 1) -> W]
    <3>1. g[n] \in W /\ n + 1 \in 1 .. N
      OBVIOUS
    <3>2. rule[n + 1] \in [W -> W]
      BY <3>1
    <3>3. rule[n + 1][g[n]] \in W
      BY <3>1, <3>2
    <3>4. ASSUME NEW k \in 0 .. (n + 1) PROVE h[k] \in W
      BY <3>3
    <3> QED  BY <3>4
  <2>3. h[0] = x
    BY <2>1
  <2>4. ASSUME NEW k \in 1 .. (n + 1) PROVE h[k] = rule[k][h[k - 1]]
    <3>1. CASE k = n + 1
      <4>1. k - 1 = n /\ k - 1 \in 0 .. (n + 1) /\ n # n + 1
        BY <3>1
      <4>2. h[k - 1] = g[n]
        BY <4>1
      <4> QED  BY <3>1, <4>1, <4>2
    <3>2. CASE k # n + 1
      <4>1. k \in 1 .. n /\ k - 1 \in 0 .. (n + 1) /\ k - 1 # n + 1
        BY <3>2
      <4>2. h[k - 1] = g[k - 1] /\ h[k] = g[k]
        BY <3>2, <4>1
      <4> QED  BY <2>1, <4>1, <4>2
    <3> QED  BY <3>1, <3>2
  <2>5. h \in Upto(n + 1)
    <3> HIDE DEF h
    <3> QED  BY <2>2, <2>3, <2>4
  <2> QED  BY <2>5
<1>3. N \in T
  <2> HIDE DEF T
  <2> QED  BY <1>1, <1>2, SetInduction
<1>4. Upto(N) # {}
  <2> HIDE DEF Upto
  <2> QED  BY <1>3
<1> QED  BY <1>4 DEF Defines

-----------------------------------------------------------------------------
(* Sums over finite sets *)

SomeOf(S) == CHOOSE x \in S : TRUE

\* F[S] is the sum of f over S.
Sums(F, D, f) ==
  /\ F \in [SUBSET D -> Nat]
  /\ \A S \in SUBSET D : F[S] = IF S = {} THEN 0 ELSE f[SomeOf(S)] + F[S \ {SomeOf(S)}]

LEMMA SumsExist ==
    ASSUME NEW D, IsFiniteSet(D), NEW f \in [D -> Nat]
    PROVE  \E F : Sums(F, D, f)
<1> DEFINE W == [SUBSET D -> Nat]
           Next1(g) == [S \in SUBSET D |-> IF S = {} THEN 0 ELSE f[SomeOf(S)] + g[S \ {SomeOf(S)}]]
           N == Cardinality(D) + 2
           zero == [S \in SUBSET D |-> 0]
           rule == [n \in 1 .. N |-> [g \in W |-> Next1(g)]]
<1>1. Cardinality(D) \in Nat /\ N \in Nat
  BY FS_CardinalityType
<1>2. \A S \in SUBSET D : S # {} => SomeOf(S) \in S
  BY DEF SomeOf
<1>3. \A g \in W : Next1(g) \in W
  BY <1>2
<1>4. rule \in [1 .. N -> [W -> W]]
  <2> HIDE DEF W, Next1
  <2> QED  BY <1>3
<1>5. PICK G : Defines(G, W, zero, N, rule)
  <2>1. zero \in W
    OBVIOUS
  <2> HIDE DEF W, Next1, N, zero, rule
  <2> QED  BY <1>1, <1>4, <2>1, RecursionExists
<1>6. G \in [0 .. N -> W] /\ \A n \in 1 .. N : G[n] = Next1(G[n - 1])
  <2> HIDE DEF W, Next1, N, zero
  <2>1. ASSUME NEW n \in 1 .. N PROVE rule[n][G[n - 1]] = Next1(G[n - 1])
    <3>1. n - 1 \in 0 .. N
      BY <1>1
    <3>2. G[n - 1] \in W
      BY <1>5, <3>1 DEF Defines
    <3> QED  BY <3>2
  <2> HIDE DEF rule
  <2> QED  BY <1>5, <2>1 DEF Defines
<1> HIDE DEF W, Next1, N
<1> DEFINE Same(n) == \A S \in SUBSET D : Cardinality(S) < n => G[n + 1][S] = G[n][S]
           T == {n \in Nat : n + 1 <= N => Same(n)}
<1>7. \A S \in SUBSET D : IsFiniteSet(S) /\ Cardinality(S) \in Nat /\ Cardinality(S) <= Cardinality(D)
  BY FS_Subset, FS_CardinalityType
<1>8. 0 \in T
  BY <1>7
<1>9. ASSUME NEW n \in Nat, n \in T PROVE n + 1 \in T
  <2> SUFFICES ASSUME (n + 1) + 1 <= N, NEW S \in SUBSET D, Cardinality(S) < n + 1
               PROVE  G[(n + 1) + 1][S] = G[n + 1][S]
      OBVIOUS
  <2>1. n + 1 \in 1 .. N /\ (n + 1) + 1 \in 1 .. N /\ (n + 1) - 1 = n /\ ((n + 1) + 1) - 1 = n + 1
    BY <1>1
  <2>2. G[n + 1] = Next1(G[n]) /\ G[(n + 1) + 1] = Next1(G[n + 1])
    BY <1>6, <2>1
  <2>3. CASE S = {}
    BY <2>2, <2>3 DEF Next1
  <2>4. CASE S # {}
    <3>1. PICK R \in SUBSET D : R = S \ {SomeOf(S)}
      OBVIOUS
    <3>2. Cardinality(R) = Cardinality(S) - 1
      BY <1>2, <1>7, <2>4, <3>1, FS_RemoveElement
    <3>3. Cardinality(R) < n
      BY <1>7, <3>2
    <3>4. G[n + 1][R] = G[n][R]
      <4>1. n + 1 <= N
        BY <1>1
      <4> QED  BY <1>9, <3>3, <4>1
    <3> QED  BY <2>2, <2>4, <3>1, <3>4 DEF Next1
  <2> QED  BY <2>3, <2>4
<1>10. PICK m \in Nat : m = Cardinality(D) + 1 /\ m + 1 = N /\ (m + 1) - 1 = m
  BY <1>1 DEF N
<1>11. m \in T
  <2> HIDE DEF T
  <2> QED  BY <1>8, <1>9, SetInduction
<1>12. \A S \in SUBSET D : G[m + 1][S] = G[m][S]
  BY <1>1, <1>7, <1>10, <1>11
<1>13. G[m + 1] = Next1(G[m]) /\ G[m] \in W
  BY <1>1, <1>6, <1>10
<1>14. Sums(G[m], D, f)
  BY <1>12, <1>13 DEF Sums, Next1, W
<1> QED  BY <1>14

LEMMA SumIsSum ==
    ASSUME NEW D, IsFiniteSet(D), NEW f \in [D -> Nat]
    PROVE  \E F : Sums(F, D, f) /\ SumFunction(f) = F[D]
<1>1. PICK G : Sums(G, D, f)
  BY SumsExist
<1> DEFINE F == CHOOSE F : F = [S \in SUBSET D |-> IF S = {} THEN 0
                                  ELSE f[CHOOSE x \in S : TRUE] + F[S \ {CHOOSE x \in S : TRUE}]]
<1>2. G = [S \in SUBSET D |-> IF S = {} THEN 0
                                  ELSE f[CHOOSE x \in S : TRUE] + G[S \ {CHOOSE x \in S : TRUE}]]
  BY <1>1 DEF Sums, SomeOf
<1>3. F = [S \in SUBSET D |-> IF S = {} THEN 0
                                  ELSE f[CHOOSE x \in S : TRUE] + F[S \ {CHOOSE x \in S : TRUE}]]
  BY <1>2
<1>4. SumFunction(f) = F[D]
  BY DEF SumFunction, SumFunctionOnSet, FoldFunctionOnSet, MapThenFoldSet
<1> HIDE DEF F
<1>5. \A S \in SUBSET D : F[S] = IF S = {} THEN 0 ELSE f[SomeOf(S)] + F[S \ {SomeOf(S)}]
  BY <1>3 DEF SomeOf
<1>6. \A S \in SUBSET D : IsFiniteSet(S) /\ Cardinality(S) \in Nat
  BY FS_Subset, FS_CardinalityType
<1> DEFINE T == {n \in Nat : \A S \in SUBSET D : Cardinality(S) = n => F[S] \in Nat}
<1>7. 0 \in T
  <2> SUFFICES ASSUME NEW S \in SUBSET D, Cardinality(S) = 0 PROVE F[S] \in Nat
      OBVIOUS
  <2>1. S = {}
    BY <1>6, FS_EmptySet
  <2>2. F[S] = 0
    BY <1>5, <2>1
  <2> QED  BY <2>2
<1>8. ASSUME NEW n \in Nat, n \in T PROVE n + 1 \in T
  <2> SUFFICES ASSUME NEW S \in SUBSET D, Cardinality(S) = n + 1 PROVE F[S] \in Nat
      OBVIOUS
  <2>1. S # {}
    BY FS_EmptySet
  <2>2. SomeOf(S) \in S
    BY <2>1 DEF SomeOf
  <2>3. PICK R \in SUBSET D : R = S \ {SomeOf(S)}
    OBVIOUS
  <2>4. Cardinality(R) = n
    <3>1. Cardinality(R) = Cardinality(S) - 1
      BY <1>6, <2>2, <2>3, FS_RemoveElement
    <3> QED  BY <3>1
  <2>5. F[R] \in Nat /\ f[SomeOf(S)] \in Nat
    BY <1>8, <2>2, <2>4
  <2> QED  BY <1>5, <2>1, <2>3, <2>5
<1>9. \A S \in SUBSET D : F[S] \in Nat
  <2>1. \A n \in Nat : n \in T
    <3> HIDE DEF T
    <3> QED  BY <1>7, <1>8, SetInduction
  <2> QED  BY <1>6, <2>1
<1>10. F \in [SUBSET D -> Nat]
  BY <1>3, <1>9
<1> QED  BY <1>4, <1>5, <1>10 DEF Sums

LEMMA SumIsNatural ==
    ASSUME NEW D, IsFiniteSet(D), NEW f \in [D -> Nat]
    PROVE  SumFunction(f) \in Nat
<1>1. PICK F : Sums(F, D, f) /\ SumFunction(f) = F[D]
  BY SumIsSum
<1> QED  BY <1>1 DEF Sums

\* A sum is compared with another term by term.
LEMMA SumsCompare ==
    ASSUME NEW D, IsFiniteSet(D), NEW f \in [D -> Nat], NEW g \in [D -> Nat],
           NEW a \in Nat, NEW b \in Nat, \A x \in D : a * f[x] <= b * g[x]
    PROVE  a * SumFunction(f) <= b * SumFunction(g)
<1>1. PICK F : Sums(F, D, f) /\ SumFunction(f) = F[D]
  BY SumIsSum
<1>2. PICK G : Sums(G, D, g) /\ SumFunction(g) = G[D]
  BY SumIsSum
<1> DEFINE T == {n \in Nat : \A S \in SUBSET D : Cardinality(S) = n => a * F[S] <= b * G[S]}
<1>3. \A S \in SUBSET D : IsFiniteSet(S) /\ Cardinality(S) \in Nat
  BY FS_Subset, FS_CardinalityType
<1>4. 0 \in T
  <2> SUFFICES ASSUME NEW S \in SUBSET D, Cardinality(S) = 0 PROVE a * F[S] <= b * G[S]
      OBVIOUS
  <2>1. S = {}
    BY <1>3, FS_EmptySet
  <2>2. F[S] = 0 /\ G[S] = 0
    BY <1>1, <1>2, <2>1 DEF Sums
  <2> QED  BY <2>2
<1>5. ASSUME NEW n \in Nat, n \in T PROVE n + 1 \in T
  <2> SUFFICES ASSUME NEW S \in SUBSET D, Cardinality(S) = n + 1 PROVE a * F[S] <= b * G[S]
      OBVIOUS
  <2>1. S # {}
    BY FS_EmptySet
  <2>2. PICK x \in D : x = SomeOf(S) /\ x \in S
    BY <2>1 DEF SomeOf
  <2>3. PICK R \in SUBSET D : R = S \ {x}
    OBVIOUS
  <2>4. Cardinality(R) = n
    <3>1. Cardinality(R) = Cardinality(S) - 1
      BY <1>3, <2>2, <2>3, FS_RemoveElement
    <3> QED  BY <3>1
  <2>5. a * F[R] <= b * G[R]
    BY <1>5, <2>4
  <2>6. F[S] = f[x] + F[R] /\ G[S] = g[x] + G[R]
    BY <1>1, <1>2, <2>1, <2>2, <2>3 DEF Sums
  <2>7. F[R] \in Nat /\ G[R] \in Nat /\ f[x] \in Nat /\ g[x] \in Nat
    BY <1>1, <1>2 DEF Sums
  <2>8. a * (f[x] + F[R]) = a * f[x] + a * F[R] /\ b * (g[x] + G[R]) = b * g[x] + b * G[R]
    BY <2>7
  <2>9. a * f[x] \in Nat /\ a * F[R] \in Nat /\ b * g[x] \in Nat /\ b * G[R] \in Nat
    BY <2>7
  <2> QED  BY <2>5, <2>6, <2>8, <2>9
<1>6. a * F[D] <= b * G[D]
  <2>1. \A n \in Nat : n \in T
    <3> HIDE DEF T
    <3> QED  BY <1>4, <1>5, SetInduction
  <2> QED  BY <1>3, <2>1
<1> QED  BY <1>1, <1>2, <1>6

\* One of finitely many fractions is at most all others, and one at least.
Fraction == Nat \X (Nat \ {0})

LEMMA AtMostIsTotal ==
    ASSUME NEW x \in Fraction, NEW y \in Fraction
    PROVE  AtMost(x, y) \/ AtMost(y, x)
<1>1. x[1] * y[2] \in Nat /\ y[1] * x[2] \in Nat
  BY DEF Fraction
<1> QED  BY <1>1 DEF AtMost

LEMMA AtMostIsTransitive ==
    ASSUME NEW x \in Fraction, NEW y \in Fraction, NEW z \in Fraction, AtMost(x, y), AtMost(y, z)
    PROVE  AtMost(x, z)
<1>1. PICK a \in Nat, b \in Nat \ {0}, c \in Nat, d \in Nat \ {0}, e \in Nat, f \in Nat \ {0} :
             x = <<a, b>> /\ y = <<c, d>> /\ z = <<e, f>>
  <2>1. \A w \in Fraction : w[1] \in Nat /\ w[2] \in Nat \ {0} /\ w = <<w[1], w[2]>>
    BY DEF Fraction
  <2> QED  BY <2>1
<1>2. a * d <= c * b /\ c * f <= e * d
  BY <1>1 DEF AtMost
<1>3. (a * d) * f <= (c * b) * f
  BY <1>2
<1>4. (c * f) * b <= (e * d) * b
  BY <1>2
<1>5. (a * f) * d <= (e * b) * d
  <2>1. (a * d) * f = (a * f) * d /\ (c * b) * f = (c * f) * b /\ (e * d) * b = (e * b) * d
    OBVIOUS
  <2> QED  BY <1>3, <1>4, <2>1
<1>6. a * f <= e * b
  <2>1. PICK m \in Nat, n \in Nat : m = a * f /\ n = e * b
    OBVIOUS
  <2>2. m * d <= n * d
    BY <1>5, <2>1
  <2>3. ~(n + 1 <= m)
    <3> SUFFICES ASSUME n + 1 <= m PROVE FALSE
        OBVIOUS
    <3>1. (n + 1) * d <= m * d
      OBVIOUS
    <3>2. (n + 1) * d = n * d + d
      OBVIOUS
    <3> QED  BY <2>2, <3>1, <3>2
  <2> QED  BY <2>1, <2>3
<1> QED  BY <1>1, <1>6 DEF AtMost

\* Of finitely many things in an order R one comes first.
LEMMA FirstExists ==
    ASSUME NEW A, NEW R, IsFiniteSet(A), A # {},
           \A x, y \in A : <<x, y>> \in R \/ <<y, x>> \in R,
           \A x, y, z \in A : <<x, y>> \in R /\ <<y, z>> \in R => <<x, z>> \in R
    PROVE  \E x \in A : \A y \in A : <<x, y>> \in R
<1> DEFINE T == {n \in Nat : \A S \in SUBSET A :
                   Cardinality(S) = n /\ S # {} => \E x \in S : \A y \in S : <<x, y>> \in R}
<1>1. \A S \in SUBSET A : IsFiniteSet(S) /\ Cardinality(S) \in Nat
  BY FS_Subset, FS_CardinalityType
<1>2. 0 \in T
  BY <1>1, FS_EmptySet
<1>3. ASSUME NEW n \in Nat, n \in T PROVE n + 1 \in T
  <2> SUFFICES ASSUME NEW S \in SUBSET A, Cardinality(S) = n + 1, S # {}
               PROVE  \E x \in S : \A y \in S : <<x, y>> \in R
      OBVIOUS
  <2>1. PICK w \in A : w \in S
    OBVIOUS
  <2>2. PICK Q \in SUBSET A : Q = S \ {w}
    OBVIOUS
  <2>3. Cardinality(Q) = n
    BY <1>1, <2>1, <2>2, FS_RemoveElement
  <2>4. CASE Q = {}
    BY <2>1, <2>2, <2>4
  <2>5. CASE Q # {}
    <3>1. PICK x \in Q : \A y \in Q : <<x, y>> \in R
      BY <1>3, <2>3, <2>5
    <3>2. CASE <<x, w>> \in R
      BY <2>2, <3>1, <3>2
    <3>3. CASE <<w, x>> \in R
      <4>1. \A y \in Q : <<w, y>> \in R
        BY <2>1, <3>1, <3>3
      <4> QED  BY <2>1, <2>2, <4>1
    <3> QED  BY <2>1, <3>2, <3>3
  <2> QED  BY <2>4, <2>5
<1>4. Cardinality(A) \in T
  <2> HIDE DEF T
  <2> QED  BY <1>1, <1>2, <1>3, SetInduction
<1> QED  BY <1>4

-----------------------------------------------------------------------------
Entry == [texture : Nat, pending : Nat, due : BOOLEAN, used : Nat]
Requests == [id : Nat \ {0}, key : Executables]
Results == [id : Nat \ {0}, key : Executables, image : BOOLEAN]

AwaitedIn(entries) == {key \in DOMAIN entries : entries[key].pending # NoId}
Awaits(entries, wish) ==
  wish.key \in DOMAIN entries /\ entries[wish.key].pending = wish.id

\* What is on its way with the first n results taken: requests, the one being
\* loaded, and results.
Waited(entries, q, l, d, n) ==
  /\ \A i \in DOMAIN q : Awaits(entries, q[i])
  /\ l # Unoccupied => Awaits(entries, l)
  /\ \A i \in DOMAIN d : i > n => Awaits(entries, d[i])

Found(entries, q, l, d, n) ==
  \A key \in AwaitedIn(entries) :
    \/ \E i \in DOMAIN q : q[i] = Request(entries[key].pending, key)
    \/ l = Request(entries[key].pending, key)
    \/ \E i \in DOMAIN d : i > n /\ d[i].id = entries[key].pending /\ d[i].key = key

InLine(q, l, d) ==
  /\ \A i, j \in DOMAIN q : i < j => q[i].id < q[j].id
  /\ \A i, j \in DOMAIN d : i < j => d[i].id < d[j].id
  /\ \A i \in DOMAIN d, j \in DOMAIN q : d[i].id < q[j].id
  /\ l # Unoccupied => /\ \A i \in DOMAIN d : d[i].id < l.id
                       /\ \A j \in DOMAIN q : l.id < q[j].id

LEMMA AnsweredType ==
    ASSUME NEW e \in Entry, NEW r \in Results
    PROVE  /\ Answered(e, r) \in Entry
           /\ Answered(e, r).used = e.used
           /\ e.pending = r.id => Answered(e, r).pending = NoId
           /\ e.pending # r.id => Answered(e, r) = e
BY DEF Answered, Entry, Results, NoId

\* The state of poll after n results.
Midway(D, e, q, l, d, n) ==
  /\ IsFiniteSet(D) /\ e \in [D -> Entry]
  /\ q \in Seq(Requests) /\ l \in Requests \cup {Unoccupied} /\ d \in Seq(Results)
  /\ InLine(q, l, d) /\ Waited(e, q, l, d, n)

LEMMA ReceivedOne ==
    ASSUME NEW D, NEW e, NEW q, NEW l, NEW d, NEW n \in Nat,
           Midway(D, e, q, l, d, n), n + 1 \in DOMAIN d
    PROVE  LET f == Received(e, d[n + 1])
           IN  /\ Midway(D, f, q, l, d, n + 1)
               /\ Found(e, q, l, d, n) => Found(f, q, l, d, n + 1)
               /\ Cardinality(AwaitedIn(f)) = Cardinality(AwaitedIn(e)) - 1
<1> USE DEF Midway
<1> DEFINE r == d[n + 1]
           f == Received(e, r)
<1>1. r \in Results /\ r.key \in D /\ e[r.key].pending = r.id /\ r.id # NoId
  <2>1. Awaits(e, d[n + 1])
    BY DEF Waited
  <2>2. r \in Results
    OBVIOUS
  <2> QED  BY <2>1, <2>2 DEF Awaits, Results, NoId
<1>2. f = [e EXCEPT ![r.key] = Answered(e[r.key], r)]
  BY <1>1 DEF Received
<1>3. PICK a \in Entry : a = Answered(e[r.key], r) /\ a.pending = NoId
  BY <1>1, AnsweredType
<1>4. f \in [D -> Entry] /\ f[r.key] = a /\ \A k \in D : k # r.key => f[k] = e[k]
  BY <1>1, <1>2, <1>3
<1> HIDE DEF f, r
<1>5. ASSUME NEW key, NEW id, id # r.id, Awaits(e, [id |-> id, key |-> key])
      PROVE  Awaits(f, [id |-> id, key |-> key])
  BY <1>1, <1>4, <1>5 DEF Awaits
<1>6. Waited(f, q, l, d, n + 1)
  <2>1. ASSUME NEW i \in DOMAIN q PROVE Awaits(f, q[i])
    <3>1. r.id < q[i].id /\ q[i] \in Requests
      BY DEF InLine, r
    <3>2. Awaits(e, q[i])
      BY DEF Waited
    <3>3. r.id # q[i].id
      BY <1>1, <3>1 DEF Results, Requests
    <3> QED  BY <1>5, <3>2, <3>3 DEF Awaits
  <2>2. ASSUME l # Unoccupied PROVE Awaits(f, l)
    <3>1. r.id < l.id /\ l \in Requests
      BY <2>2 DEF InLine, r
    <3>2. Awaits(e, l)
      BY <2>2 DEF Waited
    <3>3. r.id # l.id
      BY <1>1, <3>1 DEF Results, Requests
    <3> QED  BY <1>5, <3>2, <3>3 DEF Awaits
  <2>3. ASSUME NEW i \in DOMAIN d, i > n + 1 PROVE Awaits(f, d[i])
    <3>1. r.id < d[i].id /\ d[i] \in Results
      BY <2>3 DEF InLine, r
    <3>2. Awaits(e, d[i])
      BY <2>3 DEF Waited
    <3>3. r.id # d[i].id
      BY <1>1, <3>1 DEF Results
    <3> QED  BY <1>5, <3>2, <3>3 DEF Awaits
  <2> QED  BY <2>1, <2>2, <2>3 DEF Waited
<1>7. AwaitedIn(f) = AwaitedIn(e) \ {r.key} /\ r.key \in AwaitedIn(e)
  BY <1>1, <1>3, <1>4 DEF AwaitedIn
<1>8. ASSUME Found(e, q, l, d, n) PROVE Found(f, q, l, d, n + 1)
  <2> SUFFICES ASSUME NEW key \in AwaitedIn(f)
               PROVE  \/ \E i \in DOMAIN q : q[i] = Request(f[key].pending, key)
                      \/ l = Request(f[key].pending, key)
                      \/ \E i \in DOMAIN d : i > n + 1 /\ d[i].id = f[key].pending /\ d[i].key = key
      BY DEF Found
  <2>1. key \in AwaitedIn(e) /\ key # r.key /\ f[key] = e[key]
    BY <1>4, <1>7 DEF AwaitedIn
  <2>2. ASSUME NEW i \in DOMAIN d, i > n, d[i].key = key PROVE i > n + 1
    BY <2>1, <2>2 DEF r
  <2> QED  BY <1>8, <2>1, <2>2 DEF Found
<1>9. Cardinality(AwaitedIn(f)) = Cardinality(AwaitedIn(e)) - 1
  <2>1. IsFiniteSet(AwaitedIn(e))
    <3>1. AwaitedIn(e) \subseteq D
      BY DEF AwaitedIn
    <3> QED  BY <3>1, FS_Subset
  <2>2. Cardinality(AwaitedIn(e) \ {r.key}) = Cardinality(AwaitedIn(e)) - 1
    BY <1>7, <2>1, FS_RemoveElement
  <2> QED  BY <1>7, <2>2
<1> QED  BY <1>4, <1>6, <1>8, <1>9 DEF f, r

\* What poll makes of the entries with the results it takes.
LEMMA UploadedAll ==
    ASSUME NEW D, NEW e, NEW q, NEW l, NEW d \in Seq(Results), NEW taken \in 0 .. Len(d),
           Midway(D, e, q, l, d, 0)
    PROVE  LET f == Uploaded(e, SubSeq(d, 1, taken))
           IN  /\ Midway(D, f, q, l, d, taken)
               /\ Found(e, q, l, d, 0) => Found(f, q, l, d, taken)
               /\ Cardinality(AwaitedIn(f)) = Cardinality(AwaitedIn(e)) - taken
<1> DEFINE results == SubSeq(d, 1, taken)
           W == [D -> Entry]
           rule == [n \in 1 .. taken |-> [x \in W |-> Received(x, d[n])]]
<1>1. Len(results) = taken /\ \A n \in 1 .. taken : results[n] = d[n] /\ d[n] \in Results
  OBVIOUS
<1>2. \A x \in W, r \in Results : Received(x, r) \in W
  <2>1. ASSUME NEW x \in W, NEW r \in Results PROVE Received(x, r) \in W
    <3>1. CASE r.key \notin D
      BY <3>1 DEF Received
    <3>2. CASE r.key \in D
      <4>1. Answered(x[r.key], r) \in Entry
        BY <3>2, AnsweredType
      <4> QED  BY <3>2, <4>1 DEF Received
    <3> QED  BY <3>1, <3>2
  <2> QED  BY <2>1
<1>3. rule \in [1 .. taken -> [W -> W]]
  BY <1>1, <1>2
<1>4. taken \in Nat
  OBVIOUS
<1>5. PICK g \in [0 .. taken -> W] :
             g[0] = e /\ \A n \in 1 .. taken : g[n] = rule[n][g[n - 1]]
  <2> HIDE DEF W, rule
  <2>1. e \in W
    BY DEF W, Midway
  <2>2. \E f : Defines(f, W, e, taken, rule)
    BY <1>3, <1>4, <2>1, RecursionExists
  <2> QED  BY <2>2 DEF Defines
<1> DEFINE F == CHOOSE f : f = [n \in 0 .. Len(results) |->
                                  IF n = 0 THEN e ELSE Received(f[n - 1], results[n])]
<1>6. F = [n \in 0 .. taken |-> IF n = 0 THEN e ELSE Received(F[n - 1], d[n])]
  <2> HIDE DEF results
  <2>1. g = [n \in 0 .. taken |-> IF n = 0 THEN e ELSE Received(g[n - 1], results[n])]
    <3>1. ASSUME NEW n \in 0 .. taken, n # 0 PROVE rule[n][g[n - 1]] = Received(g[n - 1], results[n])
      <4>1. n \in 1 .. taken /\ n - 1 \in 0 .. taken
        BY <3>1
      <4>2. g[n - 1] \in W
        BY <4>1
      <4>3. rule[n][g[n - 1]] = Received(g[n - 1], d[n])
        BY <4>1, <4>2
      <4> QED  BY <1>1, <4>1, <4>3
    <3> HIDE DEF rule, W
    <3>2. ASSUME NEW n \in 0 .. taken PROVE g[n] = IF n = 0 THEN e ELSE Received(g[n - 1], results[n])
      <4>1. CASE n = 0
        BY <1>5, <4>1
      <4>2. CASE n # 0
        <5>1. n \in 1 .. taken
          BY <4>2
        <5> QED  BY <1>5, <3>1, <4>2, <5>1
      <4> QED  BY <4>1, <4>2
    <3> QED  BY <3>2
  <2>2. F = [n \in 0 .. Len(results) |-> IF n = 0 THEN e ELSE Received(F[n - 1], results[n])]
    <3> HIDE DEF W, rule
    <3> QED  BY <1>1, <2>1
  <2>3. \A n \in 0 .. taken : n # 0 => results[n] = d[n]
    BY <1>1
  <2> HIDE DEF F
  <2> QED  BY <1>1, <2>2, <2>3
<1>7. Uploaded(e, results) = F[taken]
  BY <1>1 DEF Uploaded
<1> HIDE DEF F, results, rule, W
<1> DEFINE Holds(n) == /\ Midway(D, F[n], q, l, d, n)
                       /\ Found(e, q, l, d, 0) => Found(F[n], q, l, d, n)
                       /\ Cardinality(AwaitedIn(F[n])) = Cardinality(AwaitedIn(e)) - n
           T == {n \in Nat : n <= taken => Holds(n)}
<1>8. 0 \in T
  <2>1. F[0] = e
    BY <1>6
  <2>2. Cardinality(AwaitedIn(e)) \in Nat
    <3>1. IsFiniteSet(AwaitedIn(e))
      <4>1. AwaitedIn(e) \subseteq D /\ IsFiniteSet(D)
        BY DEF AwaitedIn, Midway
      <4> QED  BY <4>1, FS_Subset
    <3> QED  BY <3>1, FS_CardinalityType
  <2> QED  BY <2>1, <2>2
<1>9. ASSUME NEW n \in Nat, n \in T PROVE n + 1 \in T
  <2> SUFFICES ASSUME n + 1 <= taken PROVE Holds(n + 1)
      OBVIOUS
  <2>1. Holds(n)
    BY <1>9
  <2>2. n + 1 \in DOMAIN d /\ n + 1 \in 0 .. taken /\ n + 1 # 0 /\ (n + 1) - 1 = n
    OBVIOUS
  <2>3. F[n + 1] = Received(F[n], d[n + 1])
    BY <1>6, <2>2
  <2>4. PICK x : x = F[n]
    OBVIOUS
  <2>5. LET f == Received(x, d[n + 1])
        IN  /\ Midway(D, f, q, l, d, n + 1)
            /\ Found(x, q, l, d, n) => Found(f, q, l, d, n + 1)
            /\ Cardinality(AwaitedIn(f)) = Cardinality(AwaitedIn(x)) - 1
    <3>1. Midway(D, x, q, l, d, n)
      BY <2>1, <2>4
    <3> QED  BY <2>2, <3>1, ReceivedOne
  <2>6. Cardinality(AwaitedIn(e)) - n - 1 = Cardinality(AwaitedIn(e)) - (n + 1)
    <3>1. IsFiniteSet(AwaitedIn(e))
      <4>1. AwaitedIn(e) \subseteq D /\ IsFiniteSet(D)
        BY DEF AwaitedIn, Midway
      <4> QED  BY <4>1, FS_Subset
    <3>2. Cardinality(AwaitedIn(e)) \in Nat
      BY <3>1, FS_CardinalityType
    <3> QED  BY <3>2
  <2> QED  BY <2>1, <2>3, <2>4, <2>5, <2>6
<1>10. taken \in T
  <2> HIDE DEF T
  <2>1. \A n \in Nat : n \in T
    BY <1>8, <1>9, SetInduction
  <2> QED  BY <1>4, <2>1
<1> QED  BY <1>7, <1>10 DEF results

LEMMA DropTaken ==
    ASSUME NEW D, NEW e, NEW q, NEW l, NEW d \in Seq(Results), NEW n \in 0 .. Len(d),
           Midway(D, e, q, l, d, n)
    PROVE  LET rest == SubSeq(d, n + 1, Len(d))
           IN  /\ Midway(D, e, q, l, rest, 0)
               /\ Found(e, q, l, d, n) => Found(e, q, l, rest, 0)
               /\ Len(rest) = Len(d) - n
               /\ \A i \in DOMAIN rest : rest[i] = d[n + i] /\ n + i \in DOMAIN d
<1> DEFINE rest == SubSeq(d, n + 1, Len(d))
<1>1. rest \in Seq(Results) /\ Len(rest) = Len(d) - n
  OBVIOUS
<1>2. \A i \in DOMAIN rest : i \in Nat \ {0} /\ rest[i] = d[n + i] /\ n + i \in DOMAIN d /\ n + i > n
  BY <1>1
<1>3. \A i \in DOMAIN d : i > n => i - n \in DOMAIN rest /\ rest[i - n] = d[i] /\ i - n > 0
  BY <1>1
<1> HIDE DEF rest
<1>4. InLine(q, l, rest)
  <2>1. \A i, j \in DOMAIN rest : i < j => n + i < n + j
    BY <1>2
  <2> QED  BY <1>2, <2>1 DEF Midway, InLine
<1>5. Waited(e, q, l, rest, 0)
  BY <1>2 DEF Midway, Waited
<1>6. Found(e, q, l, d, n) => Found(e, q, l, rest, 0)
  BY <1>3 DEF Found
<1> QED  BY <1>1, <1>2, <1>4, <1>5, <1>6 DEF Midway, rest

-----------------------------------------------------------------------------
IconTypes ==
  /\ icons \in [Cached -> Entry] /\ Cached \subseteq Executables
  /\ {frame, nextId, outstanding} \subseteq Nat
  /\ loader \in {"running", "ended", "none"}
  /\ asked \in Seq(Requests) /\ loading \in Requests \cup {Unoccupied} /\ loaded \in Seq(Results)

Numbered ==
  /\ \A i \in DOMAIN asked : asked[i].id <= nextId
  /\ loading # Unoccupied => loading.id <= nextId
  /\ \A i \in DOMAIN loaded : loaded[i].id <= nextId

Held(l) == IF l = Unoccupied THEN 0 ELSE 1

AllCounted ==
  /\ Found(icons, asked, loading, loaded, 0)
  /\ outstanding = Cardinality(AwaitedIn(icons))
  /\ outstanding = Len(asked) + Len(loaded) + Held(loading)
  /\ outstanding <= Outstanding

PaintedLast ==
  \A p \in paintedNow : /\ p[1] \in Cached
                        /\ icons[p[1]].texture = p[2] /\ icons[p[1]].used = frame

IconInv ==
  /\ IconTypes /\ Numbered
  /\ Midway(Cached, icons, asked, loading, loaded, 0)
  /\ loader = "running" => AllCounted
  /\ loader # "running" => asked = <<>> /\ loading = Unoccupied
  /\ loader = "none" => AwaitedIn(icons) = {} /\ outstanding = 0 /\ loaded = <<>>
  /\ Cardinality(Cached) <= Capacity
  /\ PaintedLast

LEMMA IconInitInv == IconInit => IconInv
<1> SUFFICES ASSUME IconInit PROVE IconInv
    OBVIOUS
<1> USE DEF IconInit
<1>1. Cached = {}
  BY DEF Cached
<1>2. icons \in [Cached -> Entry]
  BY <1>1
<1>3. IsFiniteSet(Cached) /\ Cardinality(Cached) = 0
  BY <1>1, FS_EmptySet
<1>4. AwaitedIn(icons) = {} /\ Cardinality(AwaitedIn(icons)) = 0
  <2>1. AwaitedIn(icons) = {}
    BY <1>1 DEF AwaitedIn, Cached
  <2> QED  BY <2>1, FS_EmptySet
<1>5. Capacity \in Nat /\ Outstanding \in Nat
  BY IconAssumption
<1>6. IconTypes /\ Numbered
  BY <1>1, <1>2 DEF IconTypes, Numbered, NoId
<1>7. Midway(Cached, icons, asked, loading, loaded, 0)
  BY <1>2, <1>3 DEF Midway, InLine, Waited
<1>8. AllCounted
  BY <1>4, <1>5 DEF AllCounted, Found, Held
<1> QED  BY <1>3, <1>4, <1>5, <1>6, <1>7, <1>8 DEF IconInv, PaintedLast

LEMMA PollStep ==
    ASSUME IconInv, BeginFrame
    PROVE  IconInv'
<1> USE DEF IconInv, IconTypes
<1>1. frame' \in Nat /\ PaintedLast'
  BY DEF BeginFrame, PaintedLast
<1>2. CASE loader = "none"
  <2>1. UNCHANGED <<icons, outstanding, loader, loaded, nextId, asked, loading>>
    BY <1>2 DEF BeginFrame
  <2> QED  BY <1>1, <1>2, <2>1 DEF Numbered, Cached
<1>3. CASE loader # "none"
  <2> DEFINE taken == IF Len(loaded) < UploadsPerFrame THEN Len(loaded) ELSE UploadsPerFrame
             results == SubSeq(loaded, 1, taken)
             f == Uploaded(icons, results)
             rest == SubSeq(loaded, taken + 1, Len(loaded))
  <2>1. /\ loaded' = rest /\ UNCHANGED <<nextId, asked, loading>>
        /\ IF loader = "ended" /\ taken < UploadsPerFrame THEN LoseWorker(results) ELSE TakeLoaded(results)
    BY <1>3 DEF BeginFrame
  <2>2. taken \in 0 .. Len(loaded) /\ Len(results) = taken /\ taken \in Nat
    BY IconAssumption
  <2>3. PICK D, e, q, l, d : D = Cached /\ e = icons /\ q = asked /\ l = loading /\ d = loaded
    OBVIOUS
  <2>4. /\ Midway(Cached, f, asked, loading, loaded, taken)
        /\ Found(icons, asked, loading, loaded, 0) => Found(f, asked, loading, loaded, taken)
        /\ Cardinality(AwaitedIn(f)) = Cardinality(AwaitedIn(icons)) - taken
    <3> HIDE DEF taken
    <3>1. d \in Seq(Results) /\ taken \in 0 .. Len(d) /\ Midway(D, e, q, l, d, 0)
      BY <2>2, <2>3
    <3>2. /\ Midway(D, Uploaded(e, SubSeq(d, 1, taken)), q, l, d, taken)
          /\ Found(e, q, l, d, 0) => Found(Uploaded(e, SubSeq(d, 1, taken)), q, l, d, taken)
          /\ Cardinality(AwaitedIn(Uploaded(e, SubSeq(d, 1, taken)))) = Cardinality(AwaitedIn(e)) - taken
      BY <3>1, UploadedAll
    <3> QED  BY <2>3, <3>2
  <2>5. /\ Midway(Cached, f, asked, loading, rest, 0)
        /\ Found(f, asked, loading, loaded, taken) => Found(f, asked, loading, rest, 0)
        /\ Len(rest) = Len(loaded) - taken
        /\ \A i \in DOMAIN rest : rest[i] = loaded[taken + i] /\ taken + i \in DOMAIN loaded
    <3> HIDE DEF taken, f
    <3> QED  BY <2>2, <2>4, DropTaken
  <2> HIDE DEF taken, f, rest
  <2>6. Numbered'
    BY <2>1, <2>5 DEF Numbered
  <2>7. CASE loader = "ended" /\ taken < UploadsPerFrame
    <3>1. loader' = "none" /\ outstanding' = 0 /\ icons' = Orphaned(f)
      BY <2>1, <2>7 DEF LoseWorker, f
    <3>2. taken = Len(loaded)
      BY <2>2, <2>7, IconAssumption DEF taken
    <3>3. loaded' = <<>>
      BY <2>1, <2>2, <3>2 DEF rest
    <3>4. f \in [Cached -> Entry] /\ IsFiniteSet(Cached)
      BY <2>4 DEF Midway
    <3>5. icons' \in [Cached -> Entry] /\ \A key \in Cached : icons'[key].pending = NoId
      BY <3>1, <3>4 DEF Orphaned, Entry, NoId
    <3>6. Cached' = Cached /\ AwaitedIn(icons)' = {}
      BY <3>5 DEF Cached, AwaitedIn
    <3>7. Midway(Cached, icons, asked, loading, loaded, 0)'
      <4>1. asked' = <<>> /\ loading' = Unoccupied
        BY <2>1, <2>7
      <4> QED  BY <3>3, <3>4, <3>5, <3>6, <4>1 DEF Midway, InLine, Waited
    <3> QED  BY <1>1, <2>1, <2>6, <2>7, <3>1, <3>3, <3>5, <3>6, <3>7
  <2>8. CASE ~(loader = "ended" /\ taken < UploadsPerFrame)
    <3>1. /\ outstanding' = IF outstanding < taken THEN 0 ELSE outstanding - taken
          /\ icons' = f /\ loader' = loader
      BY <2>1, <2>2, <2>8 DEF TakeLoaded, f
    <3>2. f \in [Cached -> Entry]
      BY <2>4 DEF Midway
    <3>3. Cached' = Cached
      BY <3>1, <3>2 DEF Cached
    <3>4. Midway(Cached, icons, asked, loading, loaded, 0)'
      BY <2>1, <2>5, <3>1, <3>3
    <3>5. loader = "running" => AllCounted'
      <4> SUFFICES ASSUME loader = "running" PROVE AllCounted'
          OBVIOUS
      <4>1. outstanding' = outstanding - taken
        BY <2>2, <3>1 DEF AllCounted, Held
      <4>2. Found(icons, asked, loading, loaded, 0)'
        BY <2>1, <2>4, <2>5, <3>1 DEF AllCounted
      <4>3. outstanding' = Cardinality(AwaitedIn(icons))'
        BY <2>4, <3>1, <4>1 DEF AllCounted
      <4>4. Len(loaded)' = Len(loaded) - taken /\ UNCHANGED <<asked, loading>>
        BY <2>1, <2>5
      <4> QED  BY <2>2, <4>1, <4>2, <4>3, <4>4, IconAssumption DEF AllCounted, Held
    <3>6. outstanding' \in Nat /\ loaded' \in Seq(Results)
      BY <2>1, <2>2, <2>5, <3>1 DEF Midway
    <3> QED  BY <1>1, <1>3, <2>1, <2>6, <3>1, <3>2, <3>3, <3>4, <3>5, <3>6
  <2> QED  BY <2>7, <2>8
<1> QED  BY <1>2, <1>3

LEMMA IdsAreNumbers ==
    ASSUME NEW q \in Seq(Requests), NEW l \in Requests \cup {Unoccupied}, NEW d \in Seq(Results)
    PROVE  /\ \A i \in DOMAIN q : q[i].id \in Nat /\ q[i].id # NoId
           /\ l # Unoccupied => l.id \in Nat /\ l.id # NoId
           /\ \A i \in DOMAIN d : d[i].id \in Nat /\ d[i].id # NoId
<1>1. \A i \in DOMAIN q : q[i] \in Requests
  OBVIOUS
<1>2. \A i \in DOMAIN d : d[i] \in Results
  OBVIOUS
<1> QED  BY <1>1, <1>2 DEF Requests, Results, NoId

\* The place that a row's entry is given.
LEMMA RoomIsGiven ==
    ASSUME IconInv, NEW key \in Executables, NEW e \in Rooms(key)
    PROVE  /\ Midway(DOMAIN e, e, asked, loading, loaded, 0)
           /\ key \in DOMAIN e /\ DOMAIN e \subseteq Executables
           /\ Cardinality(DOMAIN e) <= Capacity
           /\ AwaitedIn(e) = AwaitedIn(icons)
           /\ \A k \in AwaitedIn(icons) : e[k] = icons[k]
           /\ \A p \in paintedNow : p[1] \in DOMAIN e /\ e[p[1]] = icons[p[1]]
           /\ loader = "none" => e = icons
<1> USE DEF IconInv, IconTypes
<1>1. CASE key \in Cached
  <2>1. e = icons
    BY <1>1 DEF Rooms
  <2> QED  BY <1>1, <2>1 DEF Cached, PaintedLast
<1>2. ASSUME key \notin Cached, NEW D \in SUBSET Cached, NEW f, loader # "none",
             f = [k \in D |-> icons[k]], e = Extended(f, key),
             IsFiniteSet(D), Cardinality(D) < Capacity, AwaitedIn(icons) \subseteq D,
             \A p \in paintedNow : p[1] \in D
      PROVE  /\ Midway(DOMAIN e, e, asked, loading, loaded, 0)
             /\ key \in DOMAIN e /\ DOMAIN e \subseteq Executables
             /\ Cardinality(DOMAIN e) <= Capacity
             /\ AwaitedIn(e) = AwaitedIn(icons)
             /\ \A k \in AwaitedIn(icons) : e[k] = icons[k]
             /\ \A p \in paintedNow : p[1] \in DOMAIN e /\ e[p[1]] = icons[p[1]]
             /\ loader = "none" => e = icons
  <2>1. EmptyEntry \in Entry /\ EmptyEntry.pending = NoId
    BY DEF EmptyEntry, Entry, NoId
  <2>2. /\ DOMAIN e = D \cup {key} /\ key \notin D /\ e[key] = EmptyEntry
        /\ \A k \in D : e[k] = icons[k]
    BY <1>2 DEF Extended
  <2>3. e \in [DOMAIN e -> Entry]
    <3>1. e = [k \in D \cup {key} |-> IF k = key THEN EmptyEntry ELSE f[k]]
      BY <1>2 DEF Extended
    <3>2. \A k \in D : icons[k] \in Entry
      BY <1>2
    <3> HIDE DEF EmptyEntry
    <3> QED  BY <1>2, <2>1, <2>2, <3>1, <3>2
  <2>4. IsFiniteSet(DOMAIN e) /\ Cardinality(DOMAIN e) = Cardinality(D) + 1 /\ Cardinality(D) \in Nat
    BY <1>2, <2>2, FS_AddElement, FS_CardinalityType
  <2>5. AwaitedIn(e) = AwaitedIn(icons)
    BY <1>2, <2>1, <2>2 DEF AwaitedIn, Cached
  <2>6. ASSUME NEW r, r.id # NoId, Awaits(icons, r) PROVE Awaits(e, r)
    <3>1. r.key \in AwaitedIn(icons)
      BY <2>6 DEF Awaits, AwaitedIn
    <3> QED  BY <1>2, <2>2, <2>6, <3>1 DEF Awaits
  <2>7. Waited(e, asked, loading, loaded, 0)
    <3>1. /\ \A i \in DOMAIN asked : asked[i].id # NoId /\ Awaits(icons, asked[i])
          /\ loading # Unoccupied => loading.id # NoId /\ Awaits(icons, loading)
          /\ \A i \in DOMAIN loaded : loaded[i].id # NoId /\ Awaits(icons, loaded[i])
      <4>1. Waited(icons, asked, loading, loaded, 0)
        BY DEF Midway
      <4>2. \A i \in DOMAIN loaded : i > 0
        OBVIOUS
      <4> QED  BY <4>1, <4>2, IdsAreNumbers DEF Waited
    <3> QED  BY <2>6, <3>1 DEF Waited
  <2>8. Cardinality(DOMAIN e) <= Capacity
    BY <1>2, <2>4, IconAssumption
  <2>9. \A k \in AwaitedIn(icons) : e[k] = icons[k]
    BY <1>2, <2>2
  <2>10. \A p \in paintedNow : p[1] \in DOMAIN e /\ e[p[1]] = icons[p[1]]
    BY <1>2, <2>2
  <2>11. key \in DOMAIN e /\ DOMAIN e \subseteq Executables
    BY <1>2, <2>2
  <2>12. Midway(DOMAIN e, e, asked, loading, loaded, 0)
    BY <2>3, <2>4, <2>7 DEF Midway
  <2> QED  BY <1>2, <2>5, <2>8, <2>9, <2>10, <2>11, <2>12
<1>3. CASE key \notin Cached /\ loader # "none" /\ Cardinality(Cached) < Capacity
  <2>1. e = Extended(icons, key)
    BY <1>3 DEF Rooms
  <2>2. icons = [k \in Cached |-> icons[k]] /\ IsFiniteSet(Cached) /\ AwaitedIn(icons) \subseteq Cached
    BY DEF Midway, AwaitedIn, Cached
  <2>3. \A p \in paintedNow : p[1] \in Cached
    BY DEF PaintedLast
  <2> QED  BY <1>2, <1>3, <2>1, <2>2, <2>3
<1>4. CASE key \notin Cached /\ loader # "none" /\ ~(Cardinality(Cached) < Capacity)
  <2>1. PICK victim \in Evictable : e = Extended(EntriesWithout(victim), key)
    BY <1>4 DEF Rooms, Victims
  <2>2. PICK D : D = Cached \ {victim}
    OBVIOUS
  <2>3. IsFiniteSet(Cached) /\ victim \in Cached
    BY <2>1 DEF Midway, Evictable
  <2>4. IsFiniteSet(D) /\ Cardinality(D) = Cardinality(Cached) - 1 /\ Cardinality(Cached) \in Nat
    BY <2>2, <2>3, FS_RemoveElement, FS_CardinalityType
  <2>5. Cardinality(D) < Capacity
    BY <2>4, IconAssumption
  <2>6. AwaitedIn(icons) \subseteq D
    BY <2>1, <2>2 DEF Evictable, AwaitedIn, Cached
  <2>7. \A p \in paintedNow : p[1] \in D
    BY <2>1, <2>2 DEF Evictable, PaintedLast
  <2>8. EntriesWithout(victim) = [k \in D |-> icons[k]]
    BY <2>2 DEF EntriesWithout
  <2> QED  BY <1>2, <1>4, <2>1, <2>2, <2>4, <2>5, <2>6, <2>7, <2>8
<1>5. CASE key \notin Cached /\ loader = "none"
  BY <1>5 DEF Rooms
<1> QED  BY <1>1, <1>3, <1>4, <1>5

LEMMA PaintStep ==
    ASSUME IconInv, NEW key \in Executables, Paint(key)
    PROVE  IconInv'
<1> USE DEF IconInv, IconTypes
<1>1. PICK e \in Rooms(key) : AskFor(key, e)
  BY DEF Paint
<1>2. UNCHANGED <<frame, loader, loading, loaded>>
  BY DEF Paint
<1>3. /\ Midway(DOMAIN e, e, asked, loading, loaded, 0)
      /\ key \in DOMAIN e /\ DOMAIN e \subseteq Executables
      /\ Cardinality(DOMAIN e) <= Capacity
      /\ AwaitedIn(e) = AwaitedIn(icons)
      /\ \A k \in AwaitedIn(icons) : e[k] = icons[k]
      /\ \A p \in paintedNow : p[1] \in DOMAIN e /\ e[p[1]] = icons[p[1]]
      /\ loader = "none" => e = icons
  BY RoomIsGiven
<1> DEFINE entry == [e[key] EXCEPT !.used = frame]
           asks == entry.pending = NoId /\ entry.due /\ outstanding < Outstanding /\ loader # "none"
           sent == asks /\ loader = "running" /\ Len(asked) < Outstanding
           now == IF sent THEN [entry EXCEPT !.pending = nextId + 1] ELSE entry
<1>4. /\ nextId' = IF asks THEN nextId + 1 ELSE nextId
      /\ asked' = IF sent THEN Append(asked, Request(nextId + 1, key)) ELSE asked
      /\ outstanding' = IF sent THEN outstanding + 1 ELSE outstanding
      /\ icons' = [e EXCEPT ![key] = now]
      /\ paintedNow' = IF entry.texture = NoId THEN paintedNow
                        ELSE paintedNow \cup {<<key, entry.texture>>}
  BY <1>1 DEF AskFor
<1>5. e[key] \in Entry /\ entry \in Entry /\ entry.used = frame /\ entry.pending = e[key].pending
      /\ entry.texture = e[key].texture
  BY <1>3 DEF Midway, Entry
<1>6. now \in Entry /\ now.used = frame /\ now.texture = entry.texture
      /\ now.pending = IF sent THEN nextId + 1 ELSE e[key].pending
  <2> HIDE DEF entry, sent
  <2>1. CASE sent
    <3>1. now = [entry EXCEPT !.pending = nextId + 1] /\ nextId + 1 \in Nat
      BY <2>1
    <3> QED  BY <1>5, <2>1, <3>1 DEF Entry
  <2>2. CASE ~sent
    BY <1>5, <2>2
  <2> QED  BY <2>1, <2>2
<1> HIDE DEF entry, now
<1>7. /\ icons' \in [DOMAIN e -> Entry] /\ Cached' = DOMAIN e
      /\ icons'[key] = now /\ \A k \in DOMAIN e : k # key => icons'[k] = e[k]
  BY <1>3, <1>4, <1>6 DEF Midway, Cached
<1>8. PaintedLast'
  <2> SUFFICES ASSUME NEW p \in paintedNow'
               PROVE  p[1] \in Cached' /\ icons'[p[1]].texture = p[2] /\ icons'[p[1]].used = frame
      BY <1>2 DEF PaintedLast
  <2>1. CASE p \in paintedNow
    <3>1. p[1] \in DOMAIN e /\ e[p[1]] = icons[p[1]] /\ icons[p[1]].texture = p[2]
          /\ icons[p[1]].used = frame
      BY <1>3, <2>1 DEF PaintedLast
    <3> QED  BY <1>5, <1>6, <1>7, <3>1
  <2>2. CASE p = <<key, entry.texture>>
    BY <1>3, <1>6, <1>7, <2>2
  <2> QED  BY <1>4, <2>1, <2>2
<1>9. CASE ~sent
  <2>1. asked' = asked /\ outstanding' = outstanding /\ nextId' \in Nat /\ nextId' >= nextId
    BY <1>4, <1>9
  <2>2. \A k \in DOMAIN e : icons'[k].pending = e[k].pending
    BY <1>6, <1>7, <1>9
  <2>3. AwaitedIn(icons)' = AwaitedIn(icons) /\ \A k \in AwaitedIn(icons) : icons'[k].pending = icons[k].pending
    BY <1>3, <1>7, <2>2 DEF AwaitedIn, Cached
  <2>4. Midway(Cached, icons, asked, loading, loaded, 0)'
    BY <1>2, <1>3, <1>7, <2>1, <2>2 DEF Midway, Waited, Awaits
  <2>5. Numbered'
    <3>1. \A i \in DOMAIN asked : asked[i].id <= nextId'
      BY <2>1, IdsAreNumbers DEF Numbered
    <3>2. ASSUME NEW i \in DOMAIN loaded PROVE loaded[i].id <= nextId'
      <4>1. loaded[i] \in Results
        OBVIOUS
      <4>2. loaded[i].id \in Nat /\ loaded[i].id <= nextId
        BY <4>1 DEF Results, Numbered
      <4> QED  BY <2>1, <4>2
    <3>3. loading # Unoccupied => loading.id <= nextId'
      <4>1. loading # Unoccupied => loading.id \in Nat
        BY DEF Requests
      <4>2. loading # Unoccupied => loading.id <= nextId
        BY DEF Numbered
      <4> QED  BY <2>1, <4>1, <4>2
    <3> QED  BY <1>2, <2>1, <3>1, <3>2, <3>3 DEF Numbered
  <2>6. loader = "running" => AllCounted'
    BY <1>2, <2>1, <2>3 DEF AllCounted, Found
  <2> QED  BY <1>2, <1>3, <1>7, <1>8, <2>1, <2>3, <2>4, <2>5, <2>6
<1>10. CASE sent
  <2> DEFINE r == Request(nextId + 1, key)
  <2>1. /\ asked' = Append(asked, r) /\ outstanding' = outstanding + 1 /\ nextId' = nextId + 1
        /\ loader = "running" /\ AllCounted /\ outstanding < Outstanding
    BY <1>4, <1>10
  <2>2. r \in Requests /\ r.id = nextId + 1 /\ r.key = key /\ r.id # NoId
    BY DEF Request, Requests, NoId
  <2>3. /\ asked' \in Seq(Requests) /\ Len(asked') = Len(asked) + 1
        /\ asked'[Len(asked) + 1] = r /\ \A i \in DOMAIN asked : i \in DOMAIN asked' /\ asked'[i] = asked[i]
        /\ \A i \in DOMAIN asked' : i \in DOMAIN asked \/ i = Len(asked) + 1
    BY <2>1, <2>2
  <2> HIDE DEF r
  <2>4. e[key].pending = NoId
    BY <1>5, <1>10
  <2>5. key \notin AwaitedIn(icons) /\ AwaitedIn(icons)' = AwaitedIn(icons) \cup {key}
    <3>1. key \notin AwaitedIn(e)
      BY <2>4 DEF AwaitedIn
    <3>2. AwaitedIn(icons)' = AwaitedIn(e) \cup {key}
      BY <1>3, <1>6, <1>7, <1>10, <2>2, <2>4 DEF AwaitedIn, NoId
    <3> QED  BY <1>3, <3>1, <3>2
  <2>6. Cardinality(AwaitedIn(icons))' = Cardinality(AwaitedIn(icons)) + 1
    <3>1. AwaitedIn(icons) \subseteq Cached /\ IsFiniteSet(Cached)
      BY DEF AwaitedIn, Midway, Cached
    <3>2. IsFiniteSet(AwaitedIn(icons))
      BY <3>1, FS_Subset
    <3>3. Cardinality(AwaitedIn(icons) \cup {key}) = Cardinality(AwaitedIn(icons)) + 1
      BY <2>5, <3>2, FS_AddElement
    <3> QED  BY <2>5, <3>3
  <2>7. Numbered'
    <3>1. \A i \in DOMAIN asked : asked[i].id \in Nat
      BY IdsAreNumbers
    <3>2. \A i \in DOMAIN loaded : loaded[i].id \in Nat
      BY IdsAreNumbers
    <3>3. loading # Unoccupied => loading.id \in Nat
      BY DEF Requests
    <3>4. \A i \in DOMAIN asked' : asked'[i].id <= nextId'
      BY <2>1, <2>2, <2>3, <3>1 DEF Numbered
    <3>5. \A i \in DOMAIN loaded : loaded[i].id <= nextId'
      BY <2>1, <3>2 DEF Numbered
    <3>6. loading # Unoccupied => loading.id <= nextId'
      BY <2>1, <3>3 DEF Numbered
    <3> QED  BY <1>2, <3>4, <3>5, <3>6 DEF Numbered
  <2>8. InLine(asked', loading, loaded)
    <3>1. /\ \A i \in DOMAIN asked : asked[i].id < r.id
          /\ loading # Unoccupied => loading.id < r.id
          /\ \A i \in DOMAIN loaded : loaded[i].id < r.id
      BY <2>2, IdsAreNumbers DEF Numbered
    <3>2. InLine(asked, loading, loaded)
      BY DEF Midway
    <3>3. ASSUME NEW i \in DOMAIN asked', NEW j \in DOMAIN asked', i < j PROVE asked'[i].id < asked'[j].id
      <4>1. i \in DOMAIN asked
        BY <2>3, <3>3
      <4> QED  BY <2>3, <3>1, <3>2, <3>3, <4>1 DEF InLine
    <3>4. \A j \in DOMAIN asked' : \A i \in DOMAIN loaded : loaded[i].id < asked'[j].id
      BY <2>3, <3>1, <3>2 DEF InLine
    <3>5. loading # Unoccupied => \A j \in DOMAIN asked' : loading.id < asked'[j].id
      BY <2>3, <3>1, <3>2 DEF InLine
    <3> QED  BY <3>2, <3>3, <3>4, <3>5 DEF InLine
  <2>9. Waited(icons', asked', loading, loaded, 0)
    <3>1. ASSUME NEW x, x.id # NoId, Awaits(e, x) PROVE Awaits(icons', x)
      BY <1>7, <2>4, <3>1 DEF Awaits
    <3>2. /\ \A i \in DOMAIN asked : asked[i].id # NoId /\ Awaits(e, asked[i])
          /\ loading # Unoccupied => loading.id # NoId /\ Awaits(e, loading)
          /\ \A i \in DOMAIN loaded : loaded[i].id # NoId /\ Awaits(e, loaded[i])
      <4>1. Waited(e, asked, loading, loaded, 0)
        BY <1>3 DEF Midway
      <4>2. \A i \in DOMAIN loaded : i > 0
        OBVIOUS
      <4> QED  BY <4>1, <4>2, IdsAreNumbers DEF Waited
    <3>3. Awaits(icons', r)
      BY <1>3, <1>6, <1>7, <1>10, <2>2 DEF Awaits
    <3> QED  BY <2>3, <3>1, <3>2, <3>3 DEF Waited
  <2>10. Midway(Cached, icons, asked, loading, loaded, 0)'
    BY <1>2, <1>3, <1>7, <2>3, <2>8, <2>9 DEF Midway
  <2>11. Found(icons, asked, loading, loaded, 0)'
    <3> SUFFICES ASSUME NEW k \in AwaitedIn(icons)'
                 PROVE  \/ \E i \in DOMAIN asked' : asked'[i] = Request(icons'[k].pending, k)
                        \/ loading = Request(icons'[k].pending, k)
                        \/ \E i \in DOMAIN loaded : i > 0 /\ loaded[i].id = icons'[k].pending /\ loaded[i].key = k
        BY <1>2 DEF Found
    <3>1. CASE k = key
      <4>1. asked'[Len(asked) + 1] = Request(icons'[k].pending, k) /\ Len(asked) + 1 \in DOMAIN asked'
        BY <1>6, <1>7, <1>10, <2>3, <3>1 DEF r
      <4> QED  BY <4>1
    <3>2. CASE k # key
      <4>1. k \in AwaitedIn(icons) /\ icons'[k] = icons[k]
        BY <1>3, <1>7, <2>5, <3>2 DEF AwaitedIn
      <4> QED  BY <2>1, <2>3, <4>1 DEF AllCounted, Found
    <3> QED  BY <3>1, <3>2
  <2>12. AllCounted'
    <3>1. outstanding' = Cardinality(AwaitedIn(icons))'
      BY <2>1, <2>6 DEF AllCounted
    <3>2. Len(asked)' = Len(asked) + 1 /\ UNCHANGED <<loaded, loading>>
      BY <1>2, <2>3
    <3>3. outstanding' <= Outstanding
      BY <2>1, IconAssumption
    <3> QED  BY <2>1, <2>11, <3>1, <3>2, <3>3 DEF AllCounted, Held
  <2> QED  BY <1>2, <1>3, <1>7, <1>8, <2>1, <2>3, <2>7, <2>10, <2>12
<1> QED  BY <1>9, <1>10

\* A asked that the worker takes, or a result it leaves, keeps its place.
LEMMA LoadStep ==
    ASSUME IconInv, Load
    PROVE  IconInv'
<1> USE DEF IconInv, IconTypes
<1>1. /\ loader = "running" /\ loading = Unoccupied /\ asked # <<>>
      /\ loading' = Head(asked) /\ asked' = Tail(asked)
      /\ UNCHANGED <<icons, frame, nextId, outstanding, loader, loaded, paintedNow>>
  BY DEF Load
<1>2. PICK q \in Seq(Requests) : q = asked /\ q # <<>>
  BY <1>1
<1>3. /\ Head(q) = q[1] /\ 1 \in DOMAIN q /\ Tail(q) \in Seq(Requests) /\ Len(Tail(q)) = Len(q) - 1
      /\ \A i \in DOMAIN Tail(q) : i + 1 \in DOMAIN q /\ Tail(q)[i] = q[i + 1] /\ i + 1 > 1
      /\ \A i \in DOMAIN q : i # 1 => i - 1 \in DOMAIN Tail(q) /\ Tail(q)[i - 1] = q[i]
  BY <1>2
<1>4. PICK r \in Requests : r = q[1] /\ r # Unoccupied
  <2>1. q[1] \in Requests
    BY <1>2, <1>3
  <2> QED  BY <2>1 DEF Requests, Unoccupied, NoId
<1>5. PICK t \in Seq(Requests) : t = Tail(q)
  BY <1>3
<1>6. loading' = r /\ asked' = t
  BY <1>1, <1>2, <1>3, <1>4, <1>5
<1>7. InLine(t, r, loaded)
  <2>1. InLine(q, loading, loaded)
    BY <1>2 DEF Midway
  <2>2. \A i, j \in DOMAIN t : i < j => i + 1 < j + 1
    OBVIOUS
  <2>3. \A i, j \in DOMAIN t : i < j => t[i].id < t[j].id
    BY <1>3, <1>5, <2>1, <2>2 DEF InLine
  <2>4. \A i \in DOMAIN loaded, j \in DOMAIN t : loaded[i].id < t[j].id
    BY <1>3, <1>5, <2>1 DEF InLine
  <2>5. (\A i \in DOMAIN loaded : loaded[i].id < r.id) /\ (\A j \in DOMAIN t : r.id < t[j].id)
    BY <1>3, <1>4, <1>5, <2>1 DEF InLine
  <2> QED  BY <2>1, <2>3, <2>4, <2>5 DEF InLine
<1>8. Waited(icons, t, r, loaded, 0)
  <2>1. Waited(icons, q, loading, loaded, 0)
    BY <1>2 DEF Midway
  <2> QED  BY <1>3, <1>4, <1>5, <2>1 DEF Waited
<1>9. Found(icons, t, r, loaded, 0)
  <2>1. Found(icons, q, loading, loaded, 0)
    BY <1>1, <1>2 DEF AllCounted
  <2> SUFFICES ASSUME NEW k \in AwaitedIn(icons)
               PROVE  \/ \E i \in DOMAIN t : t[i] = Request(icons[k].pending, k)
                      \/ r = Request(icons[k].pending, k)
                      \/ \E i \in DOMAIN loaded : i > 0 /\ loaded[i].id = icons[k].pending /\ loaded[i].key = k
      BY DEF Found
  <2>2. loading # Request(icons[k].pending, k)
    <3>1. icons[k].pending # NoId
      BY DEF AwaitedIn
    <3> QED  BY <1>1, <3>1 DEF Request, Unoccupied
  <2>3. ASSUME NEW i \in DOMAIN q, q[i] = Request(icons[k].pending, k)
        PROVE  r = Request(icons[k].pending, k) \/ \E j \in DOMAIN t : t[j] = Request(icons[k].pending, k)
    <3>1. CASE i = 1
      BY <1>4, <2>3, <3>1
    <3>2. CASE i # 1
      BY <1>3, <1>5, <2>3, <3>2
    <3> QED  BY <3>1, <3>2
  <2> QED  BY <2>1, <2>2, <2>3 DEF Found
<1>10. Numbered'
  <2>1. \A i \in DOMAIN t : t[i].id <= nextId
    BY <1>2, <1>3, <1>5 DEF Numbered
  <2>2. r.id <= nextId
    BY <1>2, <1>3, <1>4 DEF Numbered
  <2> QED  BY <1>1, <1>6, <2>1, <2>2 DEF Numbered
<1>11. Cached' = Cached /\ AwaitedIn(icons)' = AwaitedIn(icons)
  BY <1>1 DEF Cached
<1>12. Midway(Cached, icons, asked, loading, loaded, 0)'
  BY <1>1, <1>6, <1>7, <1>8, <1>11 DEF Midway
<1>13. AllCounted'
  <2>1. Len(asked)' = Len(asked) - 1 /\ Held(loading) = 0 /\ Held(loading)' = 1
    BY <1>1, <1>2, <1>3, <1>4, <1>5, <1>6 DEF Held
  <2>2. Found(icons, asked, loading, loaded, 0)'
    BY <1>1, <1>6, <1>9
  <2>3. Len(asked) \in Nat /\ Len(loaded) \in Nat
    OBVIOUS
  <2>4. AllCounted
    BY <1>1
  <2> QED  BY <1>1, <1>11, <2>1, <2>2, <2>3, <2>4 DEF AllCounted
<1> QED  BY <1>1, <1>6, <1>10, <1>11, <1>12, <1>13 DEF PaintedLast

LEMMA DeliverStep ==
    ASSUME IconInv, Deliver
    PROVE  IconInv'
<1> USE DEF IconInv, IconTypes
<1>1. PICK image \in BOOLEAN :
        /\ loader = "running" /\ loading # Unoccupied
        /\ loaded' = Append(loaded, [id |-> loading.id, key |-> loading.key, image |-> image])
        /\ loading' = Unoccupied
        /\ UNCHANGED <<icons, frame, nextId, outstanding, loader, asked, paintedNow>>
  BY DEF Deliver
<1>2. PICK r : r = [id |-> loading.id, key |-> loading.key, image |-> image]
  OBVIOUS
<1>3. r \in Results /\ r.id = loading.id /\ r.key = loading.key /\ loading = [id |-> r.id, key |-> r.key]
  <2>1. loading \in Requests
    BY <1>1
  <2> QED  BY <1>2, <2>1 DEF Requests, Results
<1>4. PICK d \in Seq(Results) : d = loaded'
  <2>1. Append(loaded, r) \in Seq(Results)
    BY <1>3
  <2> QED  BY <1>1, <1>2, <2>1
<1>5. /\ Len(d) = Len(loaded) + 1 /\ Len(d) \in DOMAIN d /\ d[Len(d)] = r
      /\ \A i \in DOMAIN loaded : i \in DOMAIN d /\ d[i] = loaded[i]
      /\ \A i \in DOMAIN d : i \in DOMAIN loaded \/ i = Len(d)
      /\ \A i \in DOMAIN d : i > 0 /\ i \in Nat
  BY <1>1, <1>2, <1>3, <1>4
<1>6. InLine(asked, Unoccupied, d)
  <2>1. InLine(asked, loading, loaded)
    BY DEF Midway
  <2>2. ASSUME NEW i \in DOMAIN d, NEW j \in DOMAIN d, i < j PROVE d[i].id < d[j].id
    <3>1. i \in DOMAIN loaded
      BY <1>5, <2>2
    <3> QED  BY <1>1, <1>3, <1>5, <2>1, <2>2, <3>1 DEF InLine
  <2>3. \A i \in DOMAIN d, j \in DOMAIN asked : d[i].id < asked[j].id
    BY <1>1, <1>3, <1>5, <2>1 DEF InLine
  <2> QED  BY <2>1, <2>2, <2>3 DEF InLine
<1>7. Waited(icons, asked, Unoccupied, d, 0)
  <2>1. Waited(icons, asked, loading, loaded, 0)
    BY DEF Midway
  <2>2. Awaits(icons, r)
    BY <1>1, <1>3, <2>1 DEF Waited, Awaits
  <2>3. \A i \in DOMAIN loaded : i > 0
    OBVIOUS
  <2> QED  BY <1>5, <2>1, <2>2, <2>3 DEF Waited
<1>8. Found(icons, asked, Unoccupied, d, 0)
  <2>1. Found(icons, asked, loading, loaded, 0)
    BY <1>1 DEF AllCounted
  <2> SUFFICES ASSUME NEW k \in AwaitedIn(icons)
               PROVE  \/ \E i \in DOMAIN asked : asked[i] = Request(icons[k].pending, k)
                      \/ \E i \in DOMAIN d : i > 0 /\ d[i].id = icons[k].pending /\ d[i].key = k
      BY DEF Found
  <2>2. ASSUME loading = Request(icons[k].pending, k)
        PROVE  r.id = icons[k].pending /\ r.key = k
    BY <1>3, <2>2 DEF Request
  <2> QED  BY <1>5, <2>1, <2>2 DEF Found
<1>9. Numbered'
  <2>1. \A i \in DOMAIN d : d[i].id <= nextId
    BY <1>1, <1>3, <1>5 DEF Numbered
  <2> QED  BY <1>1, <1>4, <2>1 DEF Numbered
<1>10. Cached' = Cached /\ AwaitedIn(icons)' = AwaitedIn(icons)
  BY <1>1 DEF Cached
<1>11. Midway(Cached, icons, asked, loading, loaded, 0)'
  BY <1>1, <1>4, <1>6, <1>7, <1>10 DEF Midway
<1>12. AllCounted'
  <2>1. Len(loaded)' = Len(loaded) + 1 /\ Held(loading) = 1 /\ Held(loading)' = 0
    BY <1>1, <1>4, <1>5 DEF Held
  <2>2. Found(icons, asked, loading, loaded, 0)'
    BY <1>1, <1>4, <1>8
  <2>3. Len(asked) \in Nat /\ Len(loaded) \in Nat
    OBVIOUS
  <2>4. AllCounted
    BY <1>1
  <2> QED  BY <1>1, <1>10, <2>1, <2>2, <2>3, <2>4 DEF AllCounted
<1> QED  BY <1>1, <1>4, <1>9, <1>10, <1>11, <1>12 DEF PaintedLast

LEMMA OtherIconSteps ==
    ASSUME IconInv, LoadPanics \/ \E key \in Cached : FallDue(key)
    PROVE  IconInv'
<1> USE DEF IconInv, IconTypes
<1>1. CASE LoadPanics
  <2>1. /\ loader = "running" /\ loader' = "ended" /\ loading' = Unoccupied /\ asked' = <<>>
        /\ UNCHANGED <<icons, frame, nextId, outstanding, loaded, paintedNow>>
    BY <1>1 DEF LoadPanics
  <2>2. Cached' = Cached
    BY <2>1 DEF Cached
  <2>3. Midway(Cached, icons, asked, loading, loaded, 0)'
    BY <2>1, <2>2 DEF Midway, InLine, Waited
  <2>4. Numbered'
    BY <2>1 DEF Numbered
  <2> QED  BY <2>1, <2>2, <2>3, <2>4 DEF PaintedLast
<1>2. CASE \E key \in Cached : FallDue(key)
  <2>1. PICK key \in Cached : /\ icons' = [icons EXCEPT ![key].due = TRUE]
                              /\ UNCHANGED <<frame, nextId, outstanding, loader, asked, loading,
                                             loaded, paintedNow>>
    BY <1>2 DEF FallDue
  <2>2. icons' = [icons EXCEPT ![key] = [icons[key] EXCEPT !.due = TRUE]] /\ icons[key] \in Entry
    BY <2>1
  <2>3. PICK x \in Entry : x = [icons[key] EXCEPT !.due = TRUE] /\ x.pending = icons[key].pending
                          /\ x.texture = icons[key].texture /\ x.used = icons[key].used
    <3>1. /\ [icons[key] EXCEPT !.due = TRUE] \in Entry
          /\ [icons[key] EXCEPT !.due = TRUE].pending = icons[key].pending
          /\ [icons[key] EXCEPT !.due = TRUE].texture = icons[key].texture
          /\ [icons[key] EXCEPT !.due = TRUE].used = icons[key].used
      BY <2>2 DEF Entry
    <3> QED  BY <3>1
  <2>4. /\ icons' \in [Cached -> Entry] /\ Cached' = Cached
        /\ \A k \in Cached : /\ icons'[k].pending = icons[k].pending
                              /\ icons'[k].texture = icons[k].texture /\ icons'[k].used = icons[k].used
    BY <2>1, <2>2, <2>3 DEF Cached
  <2>5. AwaitedIn(icons)' = AwaitedIn(icons)
    BY <2>4 DEF AwaitedIn, Cached
  <2>6. Midway(Cached, icons, asked, loading, loaded, 0)'
    BY <2>1, <2>4 DEF Midway, Waited, Awaits, Cached
  <2>7. loader = "running" => AllCounted'
    <3>1. \A k \in AwaitedIn(icons) : k \in Cached
      BY DEF AwaitedIn, Cached
    <3>2. loader = "running" => Found(icons, asked, loading, loaded, 0)'
      BY <2>1, <2>4, <2>5, <3>1 DEF AllCounted, Found
    <3> QED  BY <2>1, <2>5, <3>2 DEF AllCounted
  <2>8. PaintedLast'
    BY <2>1, <2>4 DEF PaintedLast
  <2> QED  BY <2>1, <2>4, <2>5, <2>6, <2>7, <2>8 DEF Numbered
<1> QED  BY <1>1, <1>2

LEMMA IconInvKept == IconInv /\ [IconNext]_iconVars => IconInv'
<1> SUFFICES ASSUME IconInv, [IconNext]_iconVars PROVE IconInv'
    OBVIOUS
<1>1. CASE UNCHANGED iconVars
  BY <1>1 DEF iconVars, IconInv, IconTypes, Cached, Numbered, AllCounted, Midway, PaintedLast
<1>2. CASE IconNext
  BY <1>2, PollStep, PaintStep, LoadStep, DeliverStep, OtherIconSteps DEF IconNext
<1> QED  BY <1>1, <1>2

LEMMA IconInvAccounts == IconInv => IconsAreAccounted
<1> SUFFICES ASSUME IconInv PROVE IconsAreAccounted
    OBVIOUS
<1> USE DEF IconInv, IconTypes
<1>1. AwaitedIn(icons) = Pending
  BY DEF AwaitedIn, Pending, Cached
<1>2. ASSUME loader = "running"
      PROVE  OnTheWay = {Request(icons[key].pending, key) : key \in Pending}
  <2>1. Waited(icons, asked, loading, loaded, 0)
    BY DEF Midway
  <2>2. ASSUME NEW key, NEW id, id # NoId, key \in Cached, icons[key].pending = id
        PROVE  Request(id, key) \in {Request(icons[k].pending, k) : k \in Pending}
    BY <2>2 DEF Pending
  <2>3. ASSUME NEW x \in OnTheWay
        PROVE  x \in {Request(icons[key].pending, key) : key \in Pending}
    <3>1. CASE x \in Range(asked)
      <4>1. PICK i \in DOMAIN asked : x = asked[i]
        BY <3>1 DEF Range
      <4>2. x \in Requests /\ x = Request(x.id, x.key) /\ x.id # NoId
        <5>1. asked[i] \in Requests
          BY <4>1
        <5> QED  BY <4>1, <5>1 DEF Requests, Request, NoId
      <4> QED  BY <2>1, <2>2, <4>1, <4>2 DEF Waited, Awaits, Cached
    <3>2. CASE x \in {loading} \ {Unoccupied}
      <4>1. x = loading /\ x \in Requests /\ x = Request(x.id, x.key) /\ x.id # NoId
        BY <3>2 DEF Requests, Request, NoId, Unoccupied
      <4> QED  BY <2>1, <2>2, <3>2, <4>1 DEF Waited, Awaits, Cached
    <3>3. CASE x \in {Request(r.id, r.key) : r \in Range(loaded)}
      <4>1. PICK i \in DOMAIN loaded : x = Request(loaded[i].id, loaded[i].key)
        BY <3>3 DEF Range
      <4>2. loaded[i].id # NoId /\ i > 0
        <5>1. loaded[i] \in Results
          BY <4>1
        <5> QED  BY <4>1, <5>1 DEF Results, NoId
      <4> QED  BY <2>1, <2>2, <4>1, <4>2 DEF Waited, Awaits, Cached
    <3> QED  BY <3>1, <3>2, <3>3 DEF OnTheWay
  <2>4. ASSUME NEW key \in Pending PROVE Request(icons[key].pending, key) \in OnTheWay
    <3>1. Found(icons, asked, loading, loaded, 0)
      BY <1>2 DEF AllCounted
    <3>2. icons[key].pending # NoId
      BY DEF Pending
    <3>3. CASE \E i \in DOMAIN asked : asked[i] = Request(icons[key].pending, key)
      BY <3>3 DEF OnTheWay, Range
    <3>4. CASE loading = Request(icons[key].pending, key)
      <4>1. loading # Unoccupied
        BY <3>2, <3>4 DEF Unoccupied, Request
      <4> QED  BY <3>4, <4>1 DEF OnTheWay
    <3>5. CASE \E i \in DOMAIN loaded : loaded[i].id = icons[key].pending /\ loaded[i].key = key
      BY <3>5 DEF OnTheWay, Range
    <3> QED  BY <1>1, <3>1, <3>3, <3>4, <3>5 DEF Found
  <2> QED  BY <2>3, <2>4
<1>3. CountedOnce
  BY <1>1, <1>2 DEF CountedOnce, AllCounted, Held
<1>4. PaintedIsHeld
  BY DEF PaintedIsHeld, PaintedLast
<1> QED  BY <1>3, <1>4 DEF IconsAreAccounted

\* While its worker lives every pending entry of the icon cache has exactly one
\* asked on its way and the count is their number, without a worker nothing is
\* awaited, the cache is not over its capacity, and a texture painted in this
\* frame has not been evicted in it (process_icons/mod.rs 118-240).
THEOREM IconsAccountedFor == IconSpec => []IconsAreAccounted
BY IconInitInv, IconInvKept, IconInvAccounts, PTL DEF IconSpec

-----------------------------------------------------------------------------
\* A rate that is kept spans two collections in a row.
OfTwoInARow(disks) ==
  \A name \in DOMAIN disks :
    LET value == disks[name]["Rate"].value IN value # NoValue => value[2] = value[1] + 1

\* While the worker keeps its count, the counter of the rate took part in the
\* last collection.
Warm(have, raw, n) == have.samples >= 1 /\ "Rate" \in have.counters => raw["Rate"][2] = n

Rising(points) ==
  \A i, j \in DOMAIN points : i < j /\ points[i] # Gap /\ points[j] # Gap => points[i] < points[j]

Until(points, t) == \A i \in DOMAIN points : points[i] # Gap => points[i] <= t
Earlier(points, t) == \A i \in DOMAIN points : points[i] # Gap => points[i] < t

SnapshotFields == {"at", "generation", "disks", "error"}

DiskTypes ==
  /\ diskClock \in Nat /\ diskClock >= FirstMoment /\ passAt \in Nat /\ passAt <= diskClock
  /\ collections \in Nat /\ samples \in 0 .. 2
  /\ raws \in [Metrics -> Nat \X Nat]
  /\ snapshot.generation \in Nat /\ snapshot.error # "WorkerEnded"
  /\ plottedGeneration \in Nat /\ plottedGeneration <= snapshot.generation
  /\ plotted \in [DOMAIN plotted -> Seq(Nat)]
  /\ DOMAIN snapshot = SnapshotFields /\ DOMAIN latestDisks = SnapshotFields

DiskInv ==
  /\ DiskTypes
  /\ Warm(Have, raws, collections)
  /\ OfTwoInARow(snapshot.disks)
  /\ mailbox # NoMail => /\ mailbox = snapshot /\ snapshot.at = passAt
                         /\ plottedGeneration < snapshot.generation
                         /\ \A name \in DOMAIN plotted : Earlier(plotted[name], passAt)
  /\ latestDisks.generation = plottedGeneration
  /\ latestDisks.error = "WorkerEnded" =>
       latestDisks.at \in Nat \ {Never} /\ latestDisks.at + StaleAfter < diskClock
  /\ \A name \in DOMAIN plotted : Rising(plotted[name]) /\ Until(plotted[name], passAt)

LEMMA DiskInitInv == DiskInit => DiskInv
<1> SUFFICES ASSUME DiskInit PROVE DiskInv
    OBVIOUS
<1> USE DEF DiskInit
<1>1. StaleAfter \in Nat /\ HistoryLength \in Nat
  BY DiskAssumption
<1>2. DiskTypes
  BY <1>1 DEF DiskTypes, FirstMoment, Empty, Never, Metrics, SnapshotFields
<1>3. Warm(Have, raws, collections) /\ OfTwoInARow(snapshot.disks)
  BY DEF Warm, Have, OfTwoInARow, Empty
<1> QED  BY <1>1, <1>2, <1>3 DEF DiskInv, Empty, Never

\* What the sampler has after initialize: the count of collections is kept only
\* with the counters it was made for.
LEMMA InitializedWarm ==
    ASSUME DiskInv, NEW have \in Initialized
    PROVE  have.samples \in 0 .. 2 /\ "samples" \in DOMAIN have /\ Warm(have, raws, collections)
<1> USE DEF DiskInv, DiskTypes
<1>1. CASE have = Have
  BY <1>1 DEF Have
<1>2. CASE have = [Have EXCEPT !.retryAt = diskClock + RetryAfter]
  BY <1>2 DEF Have, Warm
<1>3. ASSUME NEW new, have = Added([[Have EXCEPT !.retryAt = diskClock + RetryAfter] EXCEPT !.open = TRUE], new)
      PROVE  have.samples \in 0 .. 2 /\ "samples" \in DOMAIN have /\ Warm(have, raws, collections)
  <2>1. have.samples = (IF new = {} THEN samples ELSE 0) /\ "samples" \in DOMAIN have
    BY <1>3 DEF Have, Added
  <2>2. have.counters = diskCounters \cup new
    BY <1>3 DEF Have, Added
  <2>3. CASE new = {}
    BY <2>1, <2>2, <2>3 DEF Warm, Have
  <2>4. CASE new # {}
    BY <2>1, <2>4 DEF Warm
  <2> QED  BY <2>1, <2>3, <2>4
<1> QED  BY <1>1, <1>2, <1>3 DEF Initialized

\* A batch gives rates of two collections in a row or none.
LEMMA RatesInBatch ==
    ASSUME NEW have, NEW raw, NEW batch \in Batches(have, raw),
           have.samples >= 2 /\ have.samples \in Nat /\ "Rate" \in have.counters
             => raw["Rate"][2] = raw["Rate"][1] + 1,
           have.samples \in Nat,
           NEW name \in DOMAIN batch["Rate"].rows, batch["Rate"].rows[name] # NoValue
    PROVE  batch["Rate"].rows[name][2] = batch["Rate"].rows[name][1] + 1
<1>1. DOMAIN Failed.rows = {}
  BY DEF Failed
<1>2. CASE have.samples < 2
  <2>1. PICK pdh : batch = Baseline(have, pdh)
    BY <1>2 DEF Batches
  <2>2. batch["Rate"] = Failed \/ batch["Rate"] = Valueless(pdh)
    BY <2>1 DEF Baseline, Metrics
  <2>3. CASE batch["Rate"] = Valueless(pdh)
    <3>1. batch["Rate"].rows[name] = NoValue
      BY <2>3 DEF Valueless
    <3> QED  BY <3>1
  <2> QED  BY <1>1, <2>2, <2>3
<1>3. CASE ~(have.samples < 2)
  <2>1. batch["Rate"] \in IF "Rate" \in have.counters THEN DiskArrays("Rate", raw) ELSE {Failed}
    BY <1>3 DEF Batches, Metrics
  <2>2. "Rate" \in have.counters /\ batch["Rate"] \in DiskArrays("Rate", raw)
    BY <1>1, <2>1
  <2>3. PICK names \in SUBSET Disks : \E kept \in [names -> Values("Rate", raw)] : batch["Rate"] = ReadRows(kept)
    BY <1>1, <2>2 DEF DiskArrays
  <2>4. batch["Rate"].rows[name] \in Values("Rate", raw)
    BY <2>3 DEF ReadRows
  <2>5. batch["Rate"].rows[name] = raw["Rate"]
    BY <2>4 DEF Values, Span
  <2> QED  BY <1>3, <2>2, <2>5
<1> QED  BY <1>2, <1>3

\* A pass keeps only what it read or what was kept.
LEMMA AppliedRates ==
    ASSUME NEW snap, NEW batch, NEW at, OfTwoInARow(snap.disks),
           \A name \in DOMAIN batch["Rate"].rows :
             batch["Rate"].rows[name] # NoValue =>
               batch["Rate"].rows[name][2] = batch["Rate"].rows[name][1] + 1
    PROVE  OfTwoInARow(Applied(snap, batch, at).disks)
<1> DEFINE kept == Kept(snap.disks, batch)
           listed == kept \cup Pushed(kept, batch)
           before(name) == IF name \in kept THEN snap.disks[name] ELSE NewDisk
           after == Applied(snap, batch, at).disks
<1>1. after = [name \in listed |-> [metric \in Metrics |->
                 ReadingAfter(before(name)[metric], batch[metric], name, at)]]
  BY DEF Applied
<1>2. ASSUME NEW name \in listed
      PROVE  LET value == after[name]["Rate"].value IN value # NoValue => value[2] = value[1] + 1
  <2>1. after[name]["Rate"] = ReadingAfter(before(name)["Rate"], batch["Rate"], name, at)
    BY <1>1 DEF Metrics
  <2>2. LET value == before(name)["Rate"].value IN value # NoValue => value[2] = value[1] + 1
    <3>1. kept \subseteq DOMAIN snap.disks
      BY DEF Kept
    <3> QED  BY <3>1 DEF OfTwoInARow, NewDisk, Unread, Metrics
  <2> HIDE DEF before, after
  <2> QED  BY <2>1, <2>2 DEF ReadingAfter
<1> HIDE DEF listed, after
<1>3. DOMAIN after = listed
  BY <1>1
<1>4. OfTwoInARow(after)
  BY <1>2, <1>3 DEF OfTwoInARow
<1> QED  BY <1>4 DEF after

\* What one pass leaves, whatever was read.
LEMMA SampledStep ==
    ASSUME DiskInv, passAt < diskClock, NEW have, NEW batch, Sampled(have, batch),
           have.samples \in 0 .. 2, collections' \in Nat, raws' \in [Metrics -> Nat \X Nat],
           Warm(have, raws', collections'),
           \A name \in DOMAIN batch["Rate"].rows :
             batch["Rate"].rows[name] # NoValue =>
               batch["Rate"].rows[name][2] = batch["Rate"].rows[name][1] + 1,
           UNCHANGED <<diskClock, latestDisks, diskWorker, plotted, plottedGeneration>>
    PROVE  DiskInv'
<1> USE DEF DiskInv, DiskTypes
<1>1. /\ diskCounters' = have.counters /\ samples' = have.samples
      /\ snapshot' = Applied(snapshot, batch, diskClock) /\ mailbox' = snapshot' /\ passAt' = diskClock
  BY DEF Sampled
<1>2. /\ snapshot'.at = diskClock /\ snapshot'.generation = snapshot.generation + 1
      /\ snapshot'.error \in {"None", "Counters", "DeviceLimit"}
  BY <1>1 DEF Applied
<1>3. OfTwoInARow(snapshot.disks)'
  BY <1>1, AppliedRates
<1>4. Warm(Have, raws, collections)'
  BY <1>1 DEF Warm, Have
<1>5. DiskTypes'
  <2>1. DOMAIN snapshot' = SnapshotFields
    BY <1>1 DEF Applied, SnapshotFields
  <2> QED  BY <1>1, <1>2, <2>1
<1>6. ASSUME NEW name \in DOMAIN plotted
      PROVE  Earlier(plotted[name], passAt') /\ Until(plotted[name], passAt')
  <2>1. Until(plotted[name], passAt) /\ plotted[name] \in Seq(Nat)
    OBVIOUS
  <2> QED  BY <1>1, <2>1 DEF Until, Earlier
<1> QED  BY <1>1, <1>2, <1>3, <1>4, <1>5, <1>6

LEMMA PassStep ==
    ASSUME DiskInv, Pass
    PROVE  DiskInv'
<1> USE DEF DiskInv, DiskTypes
<1>1. PICK have \in Initialized : NoQuery(have) \/ CollectFails(have) \/ CollectWorks(have)
  BY DEF Pass
<1>2. /\ have.samples \in 0 .. 2 /\ "samples" \in DOMAIN have /\ Warm(have, raws, collections) /\ passAt < diskClock
      /\ UNCHANGED <<diskClock, latestDisks, diskWorker, plotted, plottedGeneration>>
  BY InitializedWarm DEF Pass
<1>3. \A name \in DOMAIN NoBatch["Rate"].rows :
        NoBatch["Rate"].rows[name] # NoValue => NoBatch["Rate"].rows[name][2] = NoBatch["Rate"].rows[name][1] + 1
  BY DEF NoBatch, Failed, Metrics
<1>4. CASE NoQuery(have)
  <2>1. Sampled(have, NoBatch) /\ UNCHANGED <<collections, raws>>
    BY <1>4 DEF NoQuery
  <2> QED  BY <1>2, <1>3, <2>1, SampledStep
<1>5. CASE CollectFails(have)
  <2>1. /\ Sampled(FailedCollect(have), NoBatch) /\ collections' = collections + 1 /\ UNCHANGED raws
    BY <1>5 DEF CollectFails
  <2>2. PICK failed : failed = FailedCollect(have)
    OBVIOUS
  <2>3. failed.samples = 0
    BY <1>2, <2>2 DEF FailedCollect
  <2>4. failed.samples \in 0 .. 2 /\ Warm(failed, raws', collections')
    BY <2>3 DEF Warm
  <2> QED  BY <1>2, <1>3, <2>1, <2>2, <2>4, SampledStep
<1>6. CASE CollectWorks(have)
  <2>1. PICK counted : counted = Counted(have)
    OBVIOUS
  <2>2. PICK batch \in Batches(counted, raws') : Sampled(counted, batch)
    BY <1>6, <2>1 DEF CollectWorks
  <2>3. collections' = collections + 1 /\ raws' = Collected(have)
    BY <1>6 DEF CollectWorks
  <2>4. counted.counters = have.counters /\ counted.samples = IF have.samples < 2 THEN have.samples + 1 ELSE 2
    BY <1>2, <2>1 DEF Counted
  <2>5. raws' \in [Metrics -> Nat \X Nat]
    BY <2>3 DEF Collected, Metrics
  <2>6. "Rate" \in have.counters => raws'["Rate"] = <<raws["Rate"][2], collections + 1>>
    BY <2>3 DEF Collected, Metrics
  <2>7. Warm(counted, raws', collections')
    BY <2>3, <2>4, <2>6 DEF Warm
  <2>8. counted.samples \in 0 .. 2 /\ collections' \in Nat
    BY <1>2, <2>3, <2>4
  <2>9. counted.samples >= 2 /\ "Rate" \in counted.counters => raws'["Rate"][2] = raws'["Rate"][1] + 1
    <3> SUFFICES ASSUME counted.samples >= 2, "Rate" \in counted.counters
                 PROVE  raws'["Rate"][2] = raws'["Rate"][1] + 1
        OBVIOUS
    <3>1. have.samples >= 1
      BY <1>2, <2>4
    <3>2. raws["Rate"][2] = collections
      BY <1>2, <2>4, <3>1 DEF Warm
    <3> QED  BY <2>4, <2>6, <3>2
  <2>10. \A name \in DOMAIN batch["Rate"].rows :
           batch["Rate"].rows[name] # NoValue => batch["Rate"].rows[name][2] = batch["Rate"].rows[name][1] + 1
    BY <2>2, <2>8, <2>9, RatesInBatch
  <2> QED  BY <1>2, <2>2, <2>5, <2>7, <2>8, <2>10, SampledStep
<1> QED  BY <1>1, <1>4, <1>5, <1>6

\* One more point on a graph: still rising, if the point is later than all others.
LEMMA AppendedRises ==
    ASSUME NEW points \in Seq(Nat), NEW point \in Nat, NEW t \in Nat, Rising(points), Until(points, t),
           point # Gap => point = t /\ Earlier(points, t)
    PROVE  /\ Appended(points, point) \in Seq(Nat)
           /\ Rising(Appended(points, point)) /\ Until(Appended(points, point), t)
<1>1. HistoryLength \in Nat \ {0}
  BY DiskAssumption
<1>2. ASSUME NEW rest \in Seq(Nat), Rising(rest), Until(rest, t), point # Gap => Earlier(rest, t)
      PROVE  /\ Append(rest, point) \in Seq(Nat)
             /\ Rising(Append(rest, point)) /\ Until(Append(rest, point), t)
  <2> DEFINE more == Append(rest, point)
  <2>1. /\ more \in Seq(Nat) /\ Len(more) = Len(rest) + 1 /\ more[Len(more)] = point
        /\ \A i \in DOMAIN more : i \in Nat /\ (i = Len(more) \/ (i \in DOMAIN rest /\ more[i] = rest[i]))
        /\ \A i \in DOMAIN more : i <= Len(more)
    OBVIOUS
  <2> HIDE DEF more
  <2>2. ASSUME NEW i \in DOMAIN more, NEW j \in DOMAIN more, i < j, more[i] # Gap, more[j] # Gap
        PROVE  more[i] < more[j]
    <3>1. i \in DOMAIN rest /\ more[i] = rest[i]
      BY <2>1, <2>2
    <3>2. CASE j = Len(more)
      BY <1>2, <2>1, <2>2, <3>1, <3>2 DEF Earlier
    <3>3. CASE j \in DOMAIN rest /\ more[j] = rest[j]
      BY <1>2, <2>2, <3>1, <3>3 DEF Rising
    <3> QED  BY <2>1, <3>2, <3>3
  <2>3. ASSUME NEW i \in DOMAIN more, more[i] # Gap PROVE more[i] <= t
    <3>1. CASE i = Len(more)
      BY <2>1, <2>3, <3>1
    <3>2. CASE i \in DOMAIN rest /\ more[i] = rest[i]
      BY <1>2, <2>3, <3>2 DEF Until
    <3> QED  BY <2>1, <3>1, <3>2
  <2>4. Rising(more) /\ Until(more, t)
    BY <2>2, <2>3 DEF Rising, Until
  <2> QED  BY <2>1, <2>4 DEF more
<1>3. CASE Len(points) < HistoryLength
  BY <1>2, <1>3 DEF Appended
<1>4. CASE ~(Len(points) < HistoryLength)
  <2>1. points # <<>>
    BY <1>1, <1>4
  <2>2. PICK rest : rest = Tail(points)
    OBVIOUS
  <2>3. rest \in Seq(Nat) /\ \A i \in DOMAIN rest : i + 1 \in DOMAIN points /\ rest[i] = points[i + 1]
    BY <2>1, <2>2
  <2>4. \A i, j \in DOMAIN rest : i < j => i + 1 < j + 1
    BY <2>3
  <2>5. Rising(rest) /\ Until(rest, t) /\ (point # Gap => Earlier(rest, t))
    BY <2>3, <2>4 DEF Rising, Until, Earlier
  <2> QED  BY <1>2, <1>4, <2>2, <2>3, <2>5 DEF Appended
<1> QED  BY <1>3, <1>4

LEMMA GapAppended ==
    ASSUME NEW points \in Seq(Nat), NEW t \in Nat, Earlier(points, t)
    PROVE  Earlier(Appended(points, Gap), t)
<1>1. HistoryLength \in Nat \ {0}
  BY DiskAssumption
<1>2. ASSUME NEW rest \in Seq(Nat), Earlier(rest, t) PROVE Earlier(Append(rest, Gap), t)
  BY <1>2 DEF Earlier
<1>3. CASE Len(points) < HistoryLength
  BY <1>2, <1>3 DEF Appended
<1>4. CASE ~(Len(points) < HistoryLength)
  <2>1. PICK rest : rest = Tail(points)
    OBVIOUS
  <2>2. rest \in Seq(Nat) /\ \A i \in DOMAIN rest : i + 1 \in DOMAIN points /\ rest[i] = points[i + 1]
    BY <1>1, <1>4, <2>1
  <2>3. Earlier(rest, t)
    BY <2>2 DEF Earlier
  <2> QED  BY <1>2, <1>4, <2>1, <2>2, <2>3 DEF Appended
<1> QED  BY <1>3, <1>4

LEMMA TakeStep ==
    ASSUME DiskInv, TakeDisks
    PROVE  DiskInv'
<1> USE DEF DiskInv, DiskTypes
<1>1. PICK taken \in BOOLEAN :
        /\ taken => mailbox # NoMail
        /\ mailbox' = IF taken THEN NoMail ELSE mailbox
        /\ latestDisks' = NoticeEnd(IF taken THEN mailbox ELSE latestDisks)
  BY DEF TakeDisks
<1>2. /\ Plot(latestDisks')
      /\ UNCHANGED <<diskClock, samples, collections, raws, snapshot, diskWorker, passAt>>
      /\ diskCounters' = diskCounters /\ queryOpen' = queryOpen /\ retryAt' = retryAt
  BY DEF TakeDisks
<1>3. PICK given : given = IF taken THEN mailbox ELSE latestDisks
  OBVIOUS
<1>4. StaleAfter \in Nat /\ diskClock - (StaleAfter + 1) \in Nat \ {Never}
      /\ diskClock - (StaleAfter + 1) + StaleAfter < diskClock
  BY DiskAssumption DEF FirstMoment, Never
<1>5. DOMAIN given = SnapshotFields /\ given.generation \in Nat
  BY <1>1, <1>3
<1>6. /\ latestDisks'.generation = given.generation /\ DOMAIN latestDisks' = SnapshotFields
      /\ latestDisks'.error = "WorkerEnded" =>
           latestDisks'.at \in Nat \ {Never} /\ latestDisks'.at + StaleAfter < diskClock
      /\ latestDisks' = given \/ latestDisks'.at + StaleAfter < diskClock
  <2>1. CASE diskWorker = "ended" /\ given.error # "WorkerEnded"
    <3>1. latestDisks' = Expired(given)
      BY <1>1, <1>3, <2>1 DEF NoticeEnd
    <3>2. /\ latestDisks'.generation = given.generation /\ DOMAIN latestDisks' = SnapshotFields
          /\ latestDisks'.at = diskClock - (StaleAfter + 1)
      BY <1>5, <3>1 DEF Expired, SnapshotFields
    <3> QED  BY <1>4, <3>2
  <2>2. CASE ~(diskWorker = "ended" /\ given.error # "WorkerEnded")
    <3>1. latestDisks' = given
      BY <1>1, <1>3, <2>2 DEF NoticeEnd
    <3> QED  BY <1>1, <1>3, <1>5, <3>1
  <2> QED  BY <2>1, <2>2
<1>7. given.generation <= snapshot.generation /\ plottedGeneration' = given.generation
  BY <1>1, <1>2, <1>3, <1>6 DEF Plot
<1>8. ASSUME NEW name, PointOf(latestDisks', name) # Gap
      PROVE  /\ PointOf(latestDisks', name) = passAt
             /\ \A other \in DOMAIN plotted : Earlier(plotted[other], passAt)
  <2>1. /\ plottedGeneration # latestDisks'.generation
        /\ Live(latestDisks'.disks[name]["Rate"], latestDisks', diskClock)
        /\ PointOf(latestDisks', name) = latestDisks'.at
    BY <1>8 DEF PointOf, Live
  <2>2. taken
    BY <1>1, <1>3, <1>6, <2>1
  <2>3. latestDisks'.at \in Nat => ~(latestDisks'.at + StaleAfter < diskClock)
    BY <1>4, <2>1 DEF Live, Fresh
  <2>4. latestDisks' = given
    <3>1. latestDisks' # given => latestDisks'.at = diskClock - (StaleAfter + 1)
      BY <1>1, <1>3, <1>5 DEF NoticeEnd, Expired, SnapshotFields
    <3> QED  BY <1>4, <2>3, <3>1
  <2> QED  BY <1>1, <1>3, <2>1, <2>2, <2>4
<1>9. DOMAIN plotted' = DOMAIN latestDisks'.disks
      /\ \A name \in DOMAIN plotted' :
           plotted'[name] = Appended(IF name \in DOMAIN plotted THEN plotted[name] ELSE <<>>,
                                     PointOf(latestDisks', name))
  BY <1>2 DEF Plot
<1>10. ASSUME NEW name \in DOMAIN plotted'
       PROVE  plotted'[name] \in Seq(Nat) /\ Rising(plotted'[name]) /\ Until(plotted'[name], passAt)
  <2>1. PICK points \in Seq(Nat) : /\ points = IF name \in DOMAIN plotted THEN plotted[name] ELSE <<>>
                                   /\ Rising(points) /\ Until(points, passAt)
                                   /\ PointOf(latestDisks', name) # Gap => Earlier(points, passAt)
    <3>1. CASE name \in DOMAIN plotted
      BY <1>8, <3>1
    <3>2. CASE name \notin DOMAIN plotted
      <4>1. <<>> \in Seq(Nat) /\ Rising(<<>>) /\ Until(<<>>, passAt) /\ Earlier(<<>>, passAt)
        BY DEF Rising, Until, Earlier
      <4> QED  BY <3>2, <4>1
    <3> QED  BY <3>1, <3>2
  <2>2. PICK point \in Nat : point = PointOf(latestDisks', name) /\ (point # Gap => point = passAt)
    BY <1>8 DEF Gap
  <2>3. plotted'[name] = Appended(points, point)
    BY <1>9, <2>1, <2>2
  <2> QED  BY <2>1, <2>2, <2>3, AppendedRises
<1>11. plotted' \in [DOMAIN plotted' -> Seq(Nat)]
  <2>1. plotted' = [name \in DOMAIN plotted' |-> plotted'[name]]
    BY <1>2 DEF Plot
  <2> QED  BY <1>10, <2>1
<1>12. DiskTypes'
  BY <1>2, <1>5, <1>6, <1>7, <1>11
<1>13. mailbox' # NoMail => ~taken
  BY <1>1
<1>14. mailbox' # NoMail =>
         \A name \in DOMAIN plotted' : Earlier(plotted'[name], passAt)
  <2> SUFFICES ASSUME mailbox' # NoMail, NEW name \in DOMAIN plotted' PROVE Earlier(plotted'[name], passAt)
      OBVIOUS
  <2>1. PointOf(latestDisks', name) = Gap
    BY <1>1, <1>3, <1>6, <1>13 DEF PointOf
  <2>2. mailbox # NoMail
    BY <1>1, <1>13
  <2>3. PICK points \in Seq(Nat) : /\ points = IF name \in DOMAIN plotted THEN plotted[name] ELSE <<>>
                                   /\ Earlier(points, passAt)
    <3>1. <<>> \in Seq(Nat) /\ Earlier(<<>>, passAt)
      BY DEF Earlier
    <3> QED  BY <2>2, <3>1
  <2>4. plotted'[name] = Appended(points, Gap)
    BY <1>9, <2>1, <2>3
  <2> QED  BY <2>3, <2>4, GapAppended
<1>15. Warm(Have, raws, collections)' /\ OfTwoInARow(snapshot.disks)'
  <2>1. Have' = Have
    BY <1>2 DEF Have
  <2> QED  BY <1>2, <2>1
<1>16. mailbox' # NoMail => mailbox' = snapshot /\ snapshot.at = passAt /\ plottedGeneration' < snapshot.generation
  BY <1>1, <1>3, <1>7, <1>13
<1> QED  BY <1>2, <1>6, <1>7, <1>10, <1>12, <1>14, <1>15, <1>16

LEMMA DiskInvKept == DiskInv /\ [DiskNext]_diskVars => DiskInv'
<1> SUFFICES ASSUME DiskInv, [DiskNext]_diskVars PROVE DiskInv'
    OBVIOUS
<1>1. CASE UNCHANGED diskVars
  <2>1. Have' = Have
    BY <1>1 DEF diskVars, Have
  <2> QED  BY <1>1, <2>1 DEF diskVars, DiskInv, DiskTypes
<1>2. CASE PassPanics
  <2>1. Have' = Have
    BY <1>2 DEF PassPanics, Have
  <2> QED  BY <1>2, <2>1 DEF PassPanics, DiskInv, DiskTypes
<1>3. CASE Tick
  <2>1. Have' = Have
    BY <1>3 DEF Tick, Have
  <2>2. diskClock' = diskClock + 1 /\ StaleAfter \in Nat
    BY <1>3, DiskAssumption DEF Tick
  <2> QED  BY <1>3, <2>1, <2>2 DEF Tick, DiskInv, DiskTypes, FirstMoment
<1> QED  BY <1>1, <1>2, <1>3, PassStep, TakeStep DEF DiskNext

LEMMA DiskInvMeasures == DiskInv => ActivityIsMeasured
<1> SUFFICES ASSUME DiskInv PROVE ActivityIsMeasured
    OBVIOUS
<1> USE DEF DiskInv, DiskTypes
<1>1. RatesSpanOneCollection
  BY DEF RatesSpanOneCollection, OfTwoInARow
<1>2. ASSUME latestDisks.error = "WorkerEnded"
      PROVE  SnapshotState(latestDisks, diskClock) \in {"Stale", "Unavailable"}
  <2>1. latestDisks.at # Never /\ ~Fresh(latestDisks, diskClock)
    BY <1>2, DiskAssumption DEF Fresh
  <2> QED  BY <2>1 DEF SnapshotState
<1>3. PlottedOnce
  BY DEF PlottedOnce, Rising
<1> QED  BY <1>1, <1>2, <1>3 DEF ActivityIsMeasured, EndedIsNotLive

\* Every rate of a disk was computed between two collections in a row, nothing is
\* called live after the worker's end was noticed, and no measurement is plotted
\* twice (disk_activity.rs, disk_activity/native.rs 30-98, app/disks.rs 12-28).
THEOREM DisksAreMeasured == DiskSpec => []ActivityIsMeasured
BY DiskInitInv, DiskInvKept, DiskInvMeasures, PTL DEF DiskSpec


-----------------------------------------------------------------------------
(* The clocks *)

Later(t) == \A q \in failedQueries : q < t

ClockInv ==
  /\ refreshedAt \in Nat \ {0} /\ failedQueries \subseteq Nat
  /\ \A q \in failedQueries : q <= refreshedAt
  /\ baseline # None => /\ baseline.at \in Nat /\ baseline.at <= refreshedAt /\ Later(baseline.at)
                        /\ baseline.counters \in Counters
  /\ values # None =>
       /\ values.at \in Nat /\ values.from \in Nat /\ values.at <= refreshedAt
       /\ values.at - values.from \in MinInterval .. MaxInterval
       /\ \A q \in failedQueries : ~(values.from <= q /\ q <= values.at)
       /\ AtMost(values.slowest, values.average) /\ AtMost(values.average, values.fastest)
  /\ clockHealth.state = "Live" => values # None /\ values.at = clockHealth.attempt

\* The hits of a processor between two readings that can be compared, and their
\* weight, are natural numbers.
LEMMA CountsAreNatural ==
    ASSUME NEW old \in Counters, NEW new \in Counters, Comparable(old, new), NEW p \in DOMAIN new
    PROVE  HitsOf(old, new, p) \in Nat /\ WeightOf(old, new, p) \in Nat
<1>1. /\ new[p].nominal \in Nat
      /\ \A s \in Percents : s \in Nat /\ new[p].hits[s] - old[p].hits[s] \in Nat
  <2>1. new[p] \in Counter /\ old[p] \in Counter /\ p \in DOMAIN old
    BY DEF Comparable, Counters
  <2>2. \A s \in Percents : old[p].hits[s] <= new[p].hits[s]
    BY DEF Comparable
  <2>3. \A s \in Percents : old[p].hits[s] \in Nat /\ new[p].hits[s] \in Nat
    BY <2>1, ClockAssumption DEF Counter
  <2>4. ASSUME NEW s \in Percents PROVE s \in Nat /\ new[p].hits[s] - old[p].hits[s] \in Nat
    <3>1. PICK a \in Nat, b \in Nat : a = old[p].hits[s] /\ b = new[p].hits[s]
      BY <2>3
    <3>2. a <= b
      BY <2>2, <3>1
    <3>3. b - a \in Nat
      BY <3>2
    <3> QED  BY <3>1, <3>3, ClockAssumption
  <2>5. new[p].nominal \in Nat
    BY <2>1, ClockAssumption DEF Counter
  <2> QED  BY <2>4, <2>5
<1>2. [s \in Percents |-> new[p].hits[s] - old[p].hits[s]] \in [Percents -> Nat]
  BY <1>1
<1>3. [s \in Percents |-> (new[p].hits[s] - old[p].hits[s]) * s * new[p].nominal] \in [Percents -> Nat]
  <2>1. ASSUME NEW s \in Percents
        PROVE  (new[p].hits[s] - old[p].hits[s]) * s * new[p].nominal \in Nat
    <3>1. PICK h \in Nat, m \in Nat, n \in Nat : h = new[p].hits[s] - old[p].hits[s] /\ m = s /\ n = new[p].nominal
      BY <1>1
    <3>2. h * m * n \in Nat
      OBVIOUS
    <3> QED  BY <3>1, <3>2
  <2> QED  BY <2>1
<1> QED  BY <1>2, <1>3, SumIsNatural, ClockAssumption DEF HitsOf, WeightOf

\* The average of what was calculated lies between the slowest and the fastest.
LEMMA AverageIsBetween ==
    ASSUME NEW old \in Counters, NEW new \in Counters, Comparable(old, new), ~NoHits(old, new),
           NEW from, NEW to
    PROVE  LET c == Calculated(old, new, from, to)
           IN  AtMost(c.slowest, c.average) /\ AtMost(c.average, c.fastest)
<1> DEFINE busy  == {p \in DOMAIN new : HitsOf(old, new, p) > 0}
           H == [p \in busy |-> HitsOf(old, new, p)]
           Q == [p \in busy |-> WeightOf(old, new, p)]
           speed == [p \in busy |-> <<WeightOf(old, new, p), HitsOf(old, new, p)>>]
           c == Calculated(old, new, from, to)
           fast == CHOOSE p \in busy : \A q \in busy : AtMost(speed[q], speed[p])
           slow == CHOOSE p \in busy : \A q \in busy : AtMost(speed[p], speed[q])
<1>1. \A p \in DOMAIN new : HitsOf(old, new, p) \in Nat /\ WeightOf(old, new, p) \in Nat
  BY CountsAreNatural
<1>2. busy # {}
  BY <1>1 DEF NoHits
<1>3. IsFiniteSet(busy)
  <2>1. busy \subseteq Processors
    BY DEF Counters
  <2> QED  BY <2>1, FS_Subset, ClockAssumption
<1>4. H \in [busy -> Nat] /\ Q \in [busy -> Nat] /\ \A p \in busy : H[p] # 0
  BY <1>1
<1>5. \A p \in busy : speed[p] = <<Q[p], H[p]>> /\ speed[p] \in Fraction
  BY <1>1 DEF Fraction
<1>6. /\ c.average = <<SumFunction(Q), SumFunction(H)>>
      /\ c.fastest = speed[fast] /\ c.slowest = speed[slow]
  BY DEF Calculated, Average
<1> HIDE DEF busy, H, Q, speed, c
<1>7. fast \in busy /\ \A q \in busy : AtMost(speed[q], speed[fast])
  <2> DEFINE R == {e \in busy \X busy : AtMost(speed[e[2]], speed[e[1]])}
  <2>1. \A x, y \in busy : <<x, y>> \in R <=> AtMost(speed[y], speed[x])
    OBVIOUS
  <2> HIDE DEF R
  <2>2. \A x, y \in busy : <<x, y>> \in R \/ <<y, x>> \in R
    BY <1>5, <2>1, AtMostIsTotal
  <2>3. \A x, y, z \in busy : <<x, y>> \in R /\ <<y, z>> \in R => <<x, z>> \in R
    BY <1>5, <2>1, AtMostIsTransitive
  <2>4. \E x \in busy : \A y \in busy : <<x, y>> \in R
    BY <1>2, <1>3, <2>2, <2>3, FirstExists
  <2>5. \E x \in busy : \A y \in busy : AtMost(speed[y], speed[x])
    BY <2>1, <2>4
  <2> QED  BY <2>5
<1>8. slow \in busy /\ \A q \in busy : AtMost(speed[slow], speed[q])
  <2> DEFINE R == {e \in busy \X busy : AtMost(speed[e[1]], speed[e[2]])}
  <2>1. \A x, y \in busy : <<x, y>> \in R <=> AtMost(speed[x], speed[y])
    OBVIOUS
  <2> HIDE DEF R
  <2>2. \A x, y \in busy : <<x, y>> \in R \/ <<y, x>> \in R
    BY <1>5, <2>1, AtMostIsTotal
  <2>3. \A x, y, z \in busy : <<x, y>> \in R /\ <<y, z>> \in R => <<x, z>> \in R
    BY <1>5, <2>1, AtMostIsTransitive
  <2>4. \E x \in busy : \A y \in busy : <<x, y>> \in R
    BY <1>2, <1>3, <2>2, <2>3, FirstExists
  <2>5. \E x \in busy : \A y \in busy : AtMost(speed[x], speed[y])
    BY <2>1, <2>4
  <2> QED  BY <2>5
<1> HIDE DEF fast, slow
<1>9. PICK wf \in Nat, hf \in Nat, ws \in Nat, hs \in Nat :
             /\ speed[fast] = <<wf, hf>> /\ speed[slow] = <<ws, hs>>
  BY <1>4, <1>5, <1>7, <1>8
<1>10. SumFunction(Q) \in Nat /\ SumFunction(H) \in Nat
  BY <1>3, <1>4, SumIsNatural
<1>11. AtMost(c.average, c.fastest)
  <2>1. ASSUME NEW x \in busy PROVE hf * Q[x] <= wf * H[x]
    <3>1. Q[x] * hf <= wf * H[x]
      BY <1>5, <1>7, <1>9 DEF AtMost
    <3> QED  BY <1>4, <3>1
  <2>2. hf * SumFunction(Q) <= wf * SumFunction(H)
    BY <1>3, <1>4, <2>1, SumsCompare
  <2>3. SumFunction(Q) * hf <= wf * SumFunction(H)
    BY <1>10, <2>2
  <2> QED  BY <1>6, <1>9, <2>3 DEF AtMost
<1>12. AtMost(c.slowest, c.average)
  <2>1. ASSUME NEW x \in busy PROVE ws * H[x] <= hs * Q[x]
    <3>1. ws * H[x] <= Q[x] * hs
      BY <1>5, <1>8, <1>9 DEF AtMost
    <3> QED  BY <1>4, <3>1
  <2>2. ws * SumFunction(H) <= hs * SumFunction(Q)
    BY <1>3, <1>4, <2>1, SumsCompare
  <2>3. ws * SumFunction(H) <= SumFunction(Q) * hs
    BY <1>10, <2>2
  <2> QED  BY <1>6, <1>9, <2>3 DEF AtMost
<1> QED  BY <1>11, <1>12 DEF c

LEMMA ClockInitInv == ClockInit => ClockInv
BY DEF ClockInit, ClockInv, None, NoHealth

LEMMA ReadStep ==
    ASSUME ClockInv, NEW pause \in ClockSteps, refreshedAt' = refreshedAt + pause, Read(refreshedAt + pause)
    PROVE  ClockInv'
<1> USE DEF ClockInv
<1>1. pause \in Nat \ {0} /\ {MinInterval, MaxInterval} \subseteq Nat
  BY ClockAssumption
<1>2. PICK t \in Nat \ {0} : t = refreshedAt + pause /\ t > refreshedAt
  BY <1>1
<1>3. PICK newest \in Counters :
        /\ baseline' = [at |-> t, counters |-> newest]
        /\ ClocksMeasured(t, newest) \/ OnlyBaseline(t, newest)
  BY <1>2 DEF Read
<1>4. failedQueries' = failedQueries /\ refreshedAt' = t
  BY <1>2 DEF Read
<1>5. /\ baseline'.at = t /\ baseline'.counters = newest /\ Later(baseline.at)'
  BY <1>1, <1>2, <1>3, <1>4 DEF Later
<1>6. CASE ClocksMeasured(t, newest)
  <2>1. /\ baseline # None /\ t - baseline.at \in MinInterval .. MaxInterval
        /\ Comparable(baseline.counters, newest) /\ ~NoHits(baseline.counters, newest)
        /\ values' = Calculated(baseline.counters, newest, baseline.at, t)
        /\ clockHealth' = RecordHealth(clockHealth, t, "Live")
    BY <1>6 DEF ClocksMeasured, IntervalFits
  <2>2. values'.at = t /\ values'.from = baseline.at
    BY <2>1 DEF Calculated
  <2>3. values' # None
    BY <1>2, <2>2 DEF None, Never
  <2>4. AtMost(values'.slowest, values'.average) /\ AtMost(values'.average, values'.fastest)
    BY <2>1, AverageIsBetween
  <2>5. ASSUME NEW q \in failedQueries PROVE ~(baseline.at <= q /\ q <= t)
    <3>1. q \in Nat /\ baseline.at \in Nat /\ Later(baseline.at)
      BY <2>1
    <3>2. q < baseline.at
      BY <3>1 DEF Later
    <3> QED  BY <3>1, <3>2
  <2>6. clockHealth'.attempt = t
    BY <2>1 DEF RecordHealth
  <2> QED  BY <1>2, <1>3, <1>4, <1>5, <2>1, <2>2, <2>3, <2>4, <2>5, <2>6
<1>7. CASE OnlyBaseline(t, newest)
  <2>1. values' = values /\ clockHealth'.state # "Live"
    BY <1>7 DEF OnlyBaseline, RecordHealth
  <2>2. values' # None => /\ values'.at \in Nat /\ values'.from \in Nat /\ values'.at <= t
                          /\ values'.at - values'.from \in MinInterval .. MaxInterval
                          /\ \A q \in failedQueries' : ~(values'.from <= q /\ q <= values'.at)
                          /\ AtMost(values'.slowest, values'.average)
                          /\ AtMost(values'.average, values'.fastest)
    <3>1. values # None =>
            /\ values.at \in Nat /\ values.from \in Nat /\ values.at <= refreshedAt
            /\ values.at - values.from \in MinInterval .. MaxInterval
            /\ \A q \in failedQueries : ~(values.from <= q /\ q <= values.at)
            /\ AtMost(values.slowest, values.average) /\ AtMost(values.average, values.fastest)
      OBVIOUS
    <3>2. values # None => values.at <= t
      <4>1. ASSUME NEW v \in Nat, v <= refreshedAt PROVE v <= t
        BY <1>2, <4>1
      <4> QED  BY <3>1, <4>1
    <3> QED  BY <1>4, <2>1, <3>1, <3>2
  <2>3. \A q \in failedQueries' : q <= t
    BY <1>2, <1>4
  <2> QED  BY <1>2, <1>3, <1>4, <1>5, <2>1, <2>2, <2>3
<1> QED  BY <1>3, <1>6, <1>7

LEMMA ClockInvKept == ClockInv /\ [Refresh]_clockVars => ClockInv'
<1> SUFFICES ASSUME ClockInv, [Refresh]_clockVars PROVE ClockInv'
    OBVIOUS
<1>1. CASE UNCHANGED clockVars
  BY <1>1 DEF clockVars, ClockInv, Later
<1>2. ASSUME NEW pause \in ClockSteps, refreshedAt' = refreshedAt + pause, QueryFails(refreshedAt + pause)
      PROVE  ClockInv'
  <2>1. pause \in Nat \ {0}
    BY ClockAssumption
  <2>2. PICK t \in Nat \ {0} : t = refreshedAt + pause /\ t > refreshedAt
    BY <2>1 DEF ClockInv
  <2>3. /\ baseline' = None /\ values' = values /\ failedQueries' = failedQueries \cup {t}
        /\ clockHealth'.state # "Live"
    BY <1>2, <2>2 DEF QueryFails, RecordHealth
  <2>4. \A q \in failedQueries' : q \in Nat /\ q <= t
    <3>1. ASSUME NEW q \in failedQueries PROVE q \in Nat /\ q <= t
      <4>1. q \in Nat /\ refreshedAt \in Nat /\ q <= refreshedAt
        BY <3>1 DEF ClockInv
      <4> QED  BY <2>2, <4>1
    <3> QED  BY <2>2, <2>3, <3>1
  <2>5. values # None => \A q \in failedQueries : ~(values.from <= q /\ q <= values.at)
    BY DEF ClockInv
  <2>6. refreshedAt' = t
    BY <1>2, <2>2
  <2>7. values' # None => /\ values'.at \in Nat /\ values'.from \in Nat /\ values'.at <= t
                          /\ values'.at - values'.from \in MinInterval .. MaxInterval
                          /\ \A q \in failedQueries' : ~(values'.from <= q /\ q <= values'.at)
                          /\ AtMost(values'.slowest, values'.average)
                          /\ AtMost(values'.average, values'.fastest)
    <3>1. values # None =>
            /\ values.at \in Nat /\ values.from \in Nat /\ values.at <= refreshedAt
            /\ values.at - values.from \in MinInterval .. MaxInterval
            /\ AtMost(values.slowest, values.average) /\ AtMost(values.average, values.fastest)
      BY DEF ClockInv
    <3>2. ASSUME values # None
          PROVE  values.at <= t /\ \A q \in failedQueries' : ~(values.from <= q /\ q <= values.at)
      <4>1. values.at < t
        BY <2>2, <3>1, <3>2 DEF ClockInv
      <4>2. ~(values.from <= t /\ t <= values.at)
        BY <2>2, <3>1, <3>2, <4>1
      <4> QED  BY <2>2, <2>3, <2>5, <3>1, <3>2, <4>1, <4>2
    <3> QED  BY <2>3, <3>1, <3>2
  <2> QED  BY <2>2, <2>3, <2>4, <2>6, <2>7 DEF ClockInv
<1>3. ASSUME NEW pause \in ClockSteps, refreshedAt' = refreshedAt + pause,
             UNCHANGED <<baseline, values, clockHealth, clockRetryAt, failedQueries>>
      PROVE  ClockInv'
  <2>1. pause \in Nat \ {0}
    BY ClockAssumption
  <2> QED  BY <1>3, <2>1 DEF ClockInv, Later
<1> QED  BY <1>1, <1>2, <1>3, ReadStep DEF Refresh

LEMMA ClockInvMeasures == ClockInv => ClocksAreOfOneInterval
<1> SUFFICES ASSUME ClockInv PROVE ClocksAreOfOneInterval
    OBVIOUS
<1>1. values # None => failedQueries \cap values.from .. values.at = {}
  BY DEF ClockInv
<1>2. ASSUME NEW later \in 0 .. MaxInterval, StateAt(clockHealth, MaxInterval, refreshedAt + later) = "Live"
      PROVE  values # None /\ values.at = clockHealth.attempt
  BY <1>2 DEF StateAt, ClockInv
<1> QED  BY <1>1, <1>2 DEF ClocksAreOfOneInterval, ClockInv

\* Shown clocks are of one interval of a sensible length without a failed query,
\* live ones were measured at the last attempt, and the average lies between the
\* slowest and the fastest processor (cpu_clock.rs 59-190).
THEOREM ClocksAreMeasured == ClockSpec => []ClocksAreOfOneInterval
BY ClockInitInv, ClockInvKept, ClockInvMeasures, PTL DEF ClockSpec

-----------------------------------------------------------------------------
(* The display adapters *)

LEMMA KeysAreFinite == ASSUME NEW keys \in SUBSET Keys PROVE IsFiniteSet(keys)
<1>1. IsFiniteSet({0} \cup Nodes)
  <2>1. IsFiniteSet({0})
    BY FS_Singleton
  <2> QED  BY <2>1, FS_Union, GpuAssumption
<1>2. IsFiniteSet(Keys)
  BY <1>1, FS_Product, GpuAssumption DEF Keys
<1> QED  BY <1>2, FS_Subset

\* New rows are entered only while there is room.
LEMMA EnteredFits ==
    ASSUME NEW keys \in SUBSET Keys, Cardinality(keys) <= MaxAdapters,
           NEW needed \in SUBSET Keys, NEW entered \in Entered(keys, needed)
    PROVE  /\ keys \subseteq entered /\ entered \subseteq keys \cup needed
           /\ Cardinality(entered) <= MaxAdapters
<1> DEFINE free == {Cardinality(needed \ keys), MaxAdapters - Cardinality(keys)}
           room == Min(free)
<1>1. PICK new \in kSubset(room, needed \ keys) : entered = keys \cup new
  BY DEF Entered
<1>2. new \subseteq needed \ keys /\ Cardinality(new) = room
  BY <1>1 DEF kSubset
<1>3. /\ IsFiniteSet(keys) /\ IsFiniteSet(new) /\ IsFiniteSet(needed \ keys)
      /\ Cardinality(keys) \in Nat /\ Cardinality(new) \in Nat /\ Cardinality(needed \ keys) \in Nat
  BY <1>2, KeysAreFinite, FS_CardinalityType
<1>4. free \in SUBSET Nat /\ free # {}
  BY <1>3, GpuAssumption
<1>5. room \in free /\ \A y \in free : room <= y
  <2> HIDE DEF free
  <2>1. \E x \in free : \A y \in free : x <= y
    BY <1>4, LeastNumber
  <2> QED  BY <2>1 DEF Min
<1>6. Cardinality(new) <= MaxAdapters - Cardinality(keys)
  BY <1>2, <1>5
<1>7. Cardinality(keys \cup new) = Cardinality(keys) + Cardinality(new)
  <2>1. keys \cap new = {}
    BY <1>2
  <2>2. Cardinality(keys \cap new) = 0
    BY <2>1, FS_EmptySet
  <2>3. Cardinality(keys \cup new) = Cardinality(keys) + Cardinality(new) - Cardinality(keys \cap new)
    BY <1>3, FS_Union
  <2> QED  BY <1>3, <2>2, <2>3
<1>8. Cardinality(entered) <= MaxAdapters
  BY <1>1, <1>3, <1>6, <1>7, GpuAssumption
<1> QED  BY <1>1, <1>2, <1>8

AdapterInv ==
  /\ gpuClock \in Nat \ {0} /\ inventoried \subseteq Luids
  /\ DOMAIN adapterRows \subseteq Keys
  /\ \A key \in DOMAIN adapterRows : adapterRows[key].lastSeen \in Nat
  /\ AdapterFiguresCurrent

LEMMA AdapterInitInv == GpuInit => AdapterInv
<1> SUFFICES ASSUME GpuInit PROVE AdapterInv
    OBVIOUS
<1>1. DOMAIN adapterRows = {}
  BY DEF GpuInit
<1>2. Cardinality(DOMAIN adapterRows) <= MaxAdapters
  BY <1>1, FS_EmptySet, GpuAssumption
<1> QED  BY <1>1, <1>2 DEF GpuInit, AdapterInv, AdapterFiguresCurrent

\* A row that was not seen in time is one of an inventory's adapters.
LEMMA RowIsDated ==
    ASSUME AdapterInv, gpuClock' = gpuClock + 1,
           NEW active \in SUBSET Keys, NEW memory, DOMAIN memory \subseteq Keys,
           NEW key \in Keys, key \in RetainedKeys \/ key \in active \cup DOMAIN memory \/ Listed(key)
    PROVE  LET row == Row(key, active, memory)
           IN  /\ row.activity \in {Unavailable, gpuClock'}
               /\ row.live => row.memory = gpuClock'
               /\ row.current => row.described /\ inventoryLive' /\ key[1] \in inventoried'
               /\ gpuClock' <= row.lastSeen + Retain \/ (key[2] = 0 /\ key[1] \in inventoried')
               /\ row.lastSeen \in Nat
<1> DEFINE row == Row(key, active, memory)
<1>1. gpuClock' \in Nat /\ Retain \in Nat
  BY GpuAssumption DEF AdapterInv
<1>2. /\ row.activity \in {Unavailable, gpuClock'}
      /\ row.live => row.memory = gpuClock'
      /\ row.current => row.described /\ inventoryLive' /\ key[1] \in inventoried'
  BY DEF Row, LiveNow, Listed
<1>3. Before(key).lastSeen \in Nat
  BY DEF AdapterInv, Before, RetainedKeys, NewRow, Never
<1>4. row.lastSeen = gpuClock' \/ row.lastSeen = Before(key).lastSeen
  BY DEF Row
<1>5. gpuClock' <= row.lastSeen + Retain \/ (key[2] = 0 /\ key[1] \in inventoried')
  <2>1. CASE key \in RetainedKeys
    <3>1. gpuClock' <= Before(key).lastSeen + Retain
      BY <2>1 DEF Before, RetainedKeys
    <3>2. gpuClock' <= gpuClock' + Retain
      BY <1>1
    <3> QED  BY <1>4, <3>1, <3>2
  <2>2. CASE key \in active \cup DOMAIN memory
    <3>1. row.lastSeen = gpuClock'
      BY <2>2 DEF Row
    <3> QED  BY <1>1, <3>1
  <2>3. CASE Listed(key)
    BY <2>3 DEF Listed
  <2> QED  BY <2>1, <2>2, <2>3
<1> QED  BY <1>1, <1>2, <1>3, <1>4, <1>5

LEMMA AdapterStep ==
    ASSUME AdapterInv, NextAdapters
    PROVE  AdapterInv'
<1>1. gpuClock' = gpuClock + 1 /\ gpuClock' \in Nat \ {0} /\ inventoried' \subseteq Luids
  <2>1. gpuClock' = gpuClock + 1 /\ gpuClock' \in Nat \ {0}
    BY DEF AdapterInv, NextAdapters
  <2>2. inventoried' = inventoried \/ inventoried' \in SUBSET Luids
    BY DEF NextAdapters, RetryNative
  <2> QED  BY <2>1, <2>2 DEF AdapterInv
<1>2. PICK active \in SUBSET Keys :
        \E memory \in IF memoryQuery' THEN MemoryArrays ELSE {<<>>} : SampleAdapters(active, memory)
  BY DEF NextAdapters
<1>3. PICK memory : DOMAIN memory \subseteq Keys /\ SampleAdapters(active, memory)
  <2>1. PICK memory \in IF memoryQuery' THEN MemoryArrays ELSE {<<>>} : SampleAdapters(active, memory)
    BY <1>2
  <2>2. DOMAIN memory \subseteq Keys
    BY <2>1 DEF MemoryArrays
  <2> QED  BY <2>1, <2>2
<1> DEFINE knownRows == {<<luid, 0>> : luid \in inventoried'}
<1>4. PICK described, busy, keys :
        /\ described \in Entered(RetainedKeys, knownRows) /\ busy \in Entered(described, active)
        /\ keys \in Entered(busy, DOMAIN memory)
        /\ adapterRows' = [key \in keys |-> Row(key, active, memory)]
  BY <1>3 DEF SampleAdapters
<1>5. knownRows \in SUBSET Keys
  BY <1>1 DEF Keys
<1>6. RetainedKeys \in SUBSET Keys /\ Cardinality(RetainedKeys) <= MaxAdapters
  <2>1. DOMAIN adapterRows \in SUBSET Keys /\ RetainedKeys \in SUBSET DOMAIN adapterRows
        /\ Cardinality(DOMAIN adapterRows) <= MaxAdapters
    BY DEF AdapterInv, AdapterFiguresCurrent, RetainedKeys
  <2>2. IsFiniteSet(DOMAIN adapterRows)
    BY <2>1, KeysAreFinite
  <2>3. IsFiniteSet(RetainedKeys) /\ Cardinality(RetainedKeys) <= Cardinality(DOMAIN adapterRows)
    BY <2>1, <2>2, FS_Subset
  <2>4. Cardinality(RetainedKeys) \in Nat /\ Cardinality(DOMAIN adapterRows) \in Nat
    BY <2>2, <2>3, FS_CardinalityType
  <2> QED  BY <2>1, <2>3, <2>4, GpuAssumption
<1> HIDE DEF knownRows
<1>7. /\ RetainedKeys \subseteq described /\ described \subseteq RetainedKeys \cup knownRows
      /\ Cardinality(described) <= MaxAdapters
  BY <1>4, <1>5, <1>6, EnteredFits
<1>8. described \in SUBSET Keys
  BY <1>5, <1>6, <1>7
<1>9. busy \subseteq described \cup active /\ Cardinality(busy) <= MaxAdapters
  BY <1>4, <1>7, <1>8, EnteredFits
<1>10. busy \in SUBSET Keys /\ DOMAIN memory \in SUBSET Keys
  BY <1>3, <1>8, <1>9
<1>11. keys \subseteq busy \cup DOMAIN memory /\ Cardinality(keys) <= MaxAdapters
  BY <1>4, <1>9, <1>10, EnteredFits
<1>12. DOMAIN adapterRows' = keys /\ keys \subseteq Keys
  BY <1>4, <1>10, <1>11
<1>13. ASSUME NEW key \in keys
       PROVE  LET row == adapterRows'[key]
              IN  /\ row.activity \in {Unavailable, gpuClock'}
                  /\ row.live => row.memory = gpuClock'
                  /\ row.current => row.described /\ inventoryLive' /\ key[1] \in inventoried'
                  /\ gpuClock' <= row.lastSeen + Retain \/ (key[2] = 0 /\ key[1] \in inventoried')
                  /\ row.lastSeen \in Nat
  <2>1. adapterRows'[key] = Row(key, active, memory)
    BY <1>4
  <2>2. key \in knownRows => Listed(key)
    BY DEF knownRows, Listed
  <2>3. key \in Keys /\ (key \in RetainedKeys \/ key \in active \cup DOMAIN memory \/ Listed(key))
    BY <1>7, <1>9, <1>10, <1>11, <2>2
  <2> QED  BY <1>1, <1>3, <2>1, <2>3, RowIsDated
<1>14. AdapterFiguresCurrent'
  BY <1>11, <1>12, <1>13 DEF AdapterFiguresCurrent
<1>15. \A key \in DOMAIN adapterRows' : adapterRows'[key].lastSeen \in Nat
  BY <1>12, <1>13
<1> QED  BY <1>1, <1>12, <1>14, <1>15 DEF AdapterInv

(* The plotted sensors *)

Dated == {p \in [at : Nat, value : Nat] : p.value \in {NotRead, p.at}}

PlotInv ==
  /\ gpuClock \in Nat \ {0} /\ {"readings", "cached"} \subseteq DOMAIN sensors
  /\ \A uuid \in DOMAIN sensorHistory : sensorHistory[uuid] \in Seq(Dated)

LEMMA PlotInitInv == GpuInit => PlotInv
BY DEF GpuInit, PlotInv

\* What leaves the front of a history leaves the rest as it is.
LEMMA PrunedIsDated ==
    ASSUME NEW points \in Seq(Dated), NEW at \in Nat
    PROVE  Pruned(points, at) \in Seq(Dated)
<1> DEFINE kept == {i \in 1 .. Len(points) + 1 :
                      /\ Len(points) < i + MaxSensorPoints
                      /\ i <= Len(points) => at <= points[i].at + SensorWindow}
           first == Min(kept)
<1>1. kept \in SUBSET Nat /\ Len(points) \in Nat /\ MaxSensorPoints \in Nat
  BY GpuAssumption
<1>2. Len(points) + 1 \in kept
  BY <1>1
<1>3. first \in kept
  <2>1. \E x \in kept : \A y \in kept : x <= y
    BY <1>1, <1>2, LeastNumber
  <2> HIDE DEF kept
  <2> QED  BY <2>1 DEF Min
<1>4. first \in 1 .. Len(points) + 1
  BY <1>3
<1> HIDE DEF first, kept
<1>5. \A i \in first .. Len(points) : points[i] \in Dated
  BY <1>4
<1>6. SubSeq(points, first, Len(points)) \in Seq(Dated)
  BY <1>1, <1>4, <1>5
<1> QED  BY <1>6 DEF Pruned, first, kept

LEMMA PushIsDated ==
    ASSUME NEW points \in Seq(Dated), NEW at \in Nat, NEW value \in {NotRead, at}
    PROVE  Push(points, at, value) \in Seq(Dated)
<1>1. [at |-> at, value |-> value] \in Dated
  BY DEF Dated, NotRead
<1>2. Append(points, [at |-> at, value |-> value]) \in Seq(Dated)
  BY <1>1
<1>3. Pruned(Append(points, [at |-> at, value |-> value]), at) \in Seq(Dated)
  BY <1>2, PrunedIsDated
<1> QED  BY <1>3 DEF Push

\* What may be plotted was read now: readings that are kept are marked.
LEMMA PlottableIsNow ==
    ASSUME PlotInv, SampleSensors
    PROVE  /\ {"readings", "cached"} \subseteq DOMAIN sensors'
           /\ \A uuid : Plottable(sensors', uuid) \in {NotRead, gpuClock'}
<1>1. CASE FailSensors \/ WaitForRetry
  <2>1. /\ {"readings", "cached"} \subseteq DOMAIN sensors'
        /\ sensors'.readings = lastGood
        /\ sensors'.cached <=> lastGood # <<>>
    <3>1. CASE FailSensors
      BY <3>1 DEF FailSensors
    <3>2. CASE WaitForRetry
      BY <3>2 DEF WaitForRetry, PlotInv
    <3> QED  BY <1>1, <3>1, <3>2
  <2>2. ~sensors'.cached => DOMAIN sensors'.readings = {}
    <3>1. DOMAIN <<>> = {}
      OBVIOUS
    <3> QED  BY <2>1, <3>1
  <2> QED  BY <2>1, <2>2 DEF Plottable
<1>2. ASSUME NEW readings \in Answers, Succeed(readings)
      PROVE  /\ {"readings", "cached"} \subseteq DOMAIN sensors'
             /\ \A uuid : Plottable(sensors', uuid) \in {NotRead, gpuClock'}
  <2>1. {"readings", "cached"} \subseteq DOMAIN sensors' /\ sensors'.readings = readings
    BY <1>2 DEF Succeed
  <2>2. PICK uuids : readings \in [uuids -> {NotRead, gpuClock'}]
    BY <1>2 DEF Answers
  <2> QED  BY <2>1, <2>2 DEF Plottable
<1> QED  BY <1>1, <1>2 DEF SampleSensors

LEMMA PlotStep ==
    ASSUME PlotInv, NextSensors
    PROVE  PlotInv'
<1>1. gpuClock' \in Nat \ {0}
  BY DEF PlotInv, NextSensors
<1>2. {"readings", "cached"} \subseteq DOMAIN sensors'
  BY PlottableIsNow DEF NextSensors
<1> DEFINE old(uuid) == IF uuid \in DOMAIN sensorHistory THEN sensorHistory[uuid] ELSE <<>>
           pushed == [uuid \in DOMAIN sensorHistory \cup DOMAIN sensors'.readings |->
                        Push(old(uuid), gpuClock', Plottable(sensors', uuid))]
           kept == {uuid \in DOMAIN pushed : StillShown(sensors', uuid, pushed[uuid])}
<1>3. sensorHistory' = Restrict(pushed, kept)
  BY DEF NextSensors, PlotSensors
<1>4. \A uuid \in kept : uuid \in DOMAIN pushed
  OBVIOUS
<1>5. ASSUME NEW uuid \in DOMAIN pushed PROVE pushed[uuid] \in Seq(Dated)
  <2>1. old(uuid) \in Seq(Dated)
    BY DEF PlotInv
  <2>2. Plottable(sensors', uuid) \in {NotRead, gpuClock'}
    BY PlottableIsNow DEF NextSensors
  <2> HIDE DEF old
  <2>3. Push(old(uuid), gpuClock', Plottable(sensors', uuid)) \in Seq(Dated)
    BY <1>1, <2>1, <2>2, PushIsDated
  <2> QED  BY <2>3
<1> HIDE DEF pushed, kept
<1>6. DOMAIN sensorHistory' = kept /\ \A uuid \in kept : sensorHistory'[uuid] = pushed[uuid]
  BY <1>3 DEF Restrict
<1> QED  BY <1>1, <1>4, <1>5, <1>6, <1>2 DEF PlotInv

LEMMA PlotInvReads == PlotInv => PlottedWasRead
<1> SUFFICES ASSUME PlotInv, NEW uuid \in DOMAIN sensorHistory, NEW i \in DOMAIN sensorHistory[uuid]
             PROVE  sensorHistory[uuid][i].value \in {NotRead, sensorHistory[uuid][i].at}
    BY DEF PlottedWasRead
<1>1. sensorHistory[uuid] \in Seq(Dated)
  BY DEF PlotInv
<1>2. sensorHistory[uuid][i] \in Dated
  BY <1>1
<1> QED  BY <1>2 DEF Dated

LEMMA AdapterInvKept == AdapterInv /\ [NextAdapters]_deviceVars => AdapterInv'
<1>1. AdapterInv /\ UNCHANGED deviceVars => AdapterInv'
  BY DEF deviceVars, adapterVars, AdapterInv, AdapterFiguresCurrent
<1> QED  BY <1>1, AdapterStep

LEMMA PlotInvKept == PlotInv /\ [NextSensors]_deviceVars => PlotInv'
<1>1. PlotInv /\ UNCHANGED deviceVars => PlotInv'
  BY DEF deviceVars, sensorVars, PlotInv
<1> QED  BY <1>1, PlotStep

\* An engine, a memory figure or a description that a row shows as live is of the last
\* sample (gpu_adapters/native.rs 58-152).
THEOREM AdaptersAreCurrent == AdapterSpec => []AdapterFiguresCurrent
<1>1. AdapterInv => AdapterFiguresCurrent
  BY DEF AdapterInv
<1> QED  BY <1>1, AdapterInitInv, AdapterInvKept, PTL DEF AdapterSpec

\* Every plotted point was read when it says (gpu_sensors.rs 59-150, app.rs 458-490).
THEOREM PlotsAreRead == SensorSpec => []PlottedWasRead
<1> QED  BY PlotInitInv, PlotInvKept, PlotInvReads, PTL DEF SensorSpec

-----------------------------------------------------------------------------
(* The temperatures on the pages *)

\* A wait of pages that are kept live ends before its readings grow old.
WaitIsShort ==
  bridgeAt = "waiting" =>
    /\ instant <= waitUntil
    /\ liveOn /\ ~requested /\ ~published.late => waitUntil <= published.at + BridgeLimit

DriveInv ==
  /\ DOMAIN drive = DOMAIN NewDrive
  /\ ~drive.failed /\ drive.success # NotYet =>
       HasReading(drive.list) # {} /\ drive.listAt = drive.success

BridgeTypes ==
  /\ instant \in Nat /\ began \in Nat /\ waitUntil \in Nat
  /\ liveOn \in BOOLEAN /\ requested \in BOOLEAN /\ specsOn \in BOOLEAN
  /\ bridgeAt \in {"off", "polling", "waiting"}
  /\ published.poll \in Polls /\ seen.poll \in Polls /\ published.at \in Int
  /\ published = NeverPolled \/ published.at \in Nat

BridgeInv ==
  /\ BridgeTypes
  /\ bridgeAt = "off" <=> ~specsOn
  /\ bridgeAt = "polling" => began <= instant
  /\ ~specsOn => liveOn /\ seen = NeverPolled
  /\ specsOn /\ WantsLive(showing) => liveOn
  /\ WaitIsShort

SensorPagesInv == BridgeInv /\ DriveInv

LEMMA SensorPagesInitInv == SensorPagesInit => SensorPagesInv
<1>1. NeverPolled.poll \in Polls /\ NeverPolled.at \in Int
  BY DEF NeverPolled, Polls, NotYet
<1> SUFFICES ASSUME SensorPagesInit PROVE SensorPagesInv
    OBVIOUS
<1>2. BridgeTypes
  BY <1>1 DEF SensorPagesInit, BridgeTypes
<1>3. BridgeInv
  BY <1>2 DEF SensorPagesInit, BridgeInv, WaitIsShort
<1>4. DriveInv
  BY DEF SensorPagesInit, DriveInv, NewDrive
<1> QED  BY <1>3, <1>4 DEF SensorPagesInv

LEMMA EndPollStep == ASSUME BridgeInv, EndPoll PROVE BridgeInv'
<1>1. PICK poll \in Polls :
        /\ published' = [poll |-> poll, at |-> began, late |-> instant - began > PollBudget]
        /\ waitUntil' = instant + (IF ~liveOn THEN IdleInterval
                                   ELSE IF Known(published') THEN ActivePoll ELSE IdlePoll)
  BY DEF EndPoll
<1>2. instant \in Nat /\ began \in Nat /\ began <= instant
  BY DEF EndPoll, BridgeInv, BridgeTypes
<1>3. /\ ActivePoll + PollBudget <= BridgeLimit /\ IdlePoll + PollBudget <= BridgeLimit
  <2>1. PICK m \in {ActivePoll, IdlePoll} : \A x \in {ActivePoll, IdlePoll} : m >= x
    BY SensorPagesAssumption
  <2>2. /\ Max({ActivePoll, IdlePoll}) \in {ActivePoll, IdlePoll}
        /\ \A x \in {ActivePoll, IdlePoll} : Max({ActivePoll, IdlePoll}) >= x
    BY <2>1 DEF Max
  <2> QED  BY <2>2, SensorPagesAssumption
<1>4. waitUntil' \in Nat /\ instant' <= waitUntil'
  BY <1>1, <1>2, SensorPagesAssumption DEF EndPoll
<1>5. /\ published'.at = began /\ published'.poll = poll
      /\ published'.late <=> instant - began > PollBudget
  BY <1>1
<1>6. ASSUME liveOn, ~published'.late PROVE waitUntil' <= published'.at + BridgeLimit
  <2>1. instant - began <= PollBudget
    BY <1>2, <1>5, <1>6, SensorPagesAssumption
  <2>2. waitUntil' = instant + ActivePoll \/ waitUntil' = instant + IdlePoll
    BY <1>1, <1>6
  <2> QED  BY <1>2, <1>3, <1>5, <2>1, <2>2, SensorPagesAssumption
<1>7. WaitIsShort'
  BY <1>4, <1>6 DEF WaitIsShort, EndPoll
<1>8. BridgeTypes'
  BY <1>2, <1>4, <1>5 DEF BridgeTypes, BridgeInv, EndPoll
<1> QED  BY <1>7, <1>8 DEF BridgeInv, EndPoll

LEMMA StartSpecsStep ==
    ASSUME BridgeTypes, NEW on \in BOOLEAN, StartSpecs(on)
    PROVE  bridgeAt' \in {"off", "polling", "waiting"} /\ began' \in Nat /\ specsOn' \in BOOLEAN
BY DEF BridgeTypes, StartSpecs

LEMMA FrameStep == ASSUME BridgeInv, NEW page, Frame(page) PROVE BridgeInv'
<1>1. /\ instant' = instant /\ waitUntil' = waitUntil /\ published' = published /\ showing' = page
      /\ StartSpecs(specsOn \/ StartsSpecs(page))
  BY DEF Frame
<1>2. specsOn' <=> specsOn \/ StartsSpecs(page)
  BY <1>1 DEF StartSpecs
<1>3. specsOn \in BOOLEAN /\ specsOn' \in BOOLEAN
  BY <1>1 DEF StartSpecs, BridgeInv, BridgeTypes, StartsSpecs
<1>4. /\ specsOn' /\ ~specsOn => bridgeAt' = "polling" /\ began' = instant
      /\ ~(specsOn' /\ ~specsOn) => bridgeAt' = bridgeAt /\ began' = began
  BY <1>1, <1>2 DEF StartSpecs
<1>5. /\ specsOn' => /\ liveOn' = WantsLive(page)
                     /\ requested' = (requested \/ (WantsLive(page) /\ ~liveOn))
      /\ ~specsOn' => liveOn' = liveOn /\ requested' = requested
  BY DEF Frame, SetLive
<1>6. liveOn' \in BOOLEAN /\ requested' \in BOOLEAN
  <2>1. liveOn \in BOOLEAN /\ requested \in BOOLEAN /\ WantsLive(page) \in BOOLEAN
    BY DEF BridgeInv, BridgeTypes, WantsLive
  <2>2. CASE specsOn'
    BY <1>5, <2>1, <2>2
  <2>3. CASE ~specsOn'
    BY <1>5, <2>1, <2>3
  <2> QED  BY <2>2, <2>3
<1>7. seen' = seen \/ seen' = published
  BY DEF Frame
<1>8. BridgeTypes'
  BY <1>1, <1>3, <1>4, <1>6, <1>7 DEF BridgeInv, BridgeTypes
<1>9. WaitIsShort'
  <2> SUFFICES ASSUME bridgeAt' = "waiting" PROVE WaitIsShort'
      BY DEF WaitIsShort
  <2>1. bridgeAt = "waiting" /\ specsOn /\ specsOn'
    BY <1>2, <1>3, <1>4 DEF BridgeInv
  <2>2. liveOn' /\ ~requested' => liveOn /\ ~requested
    BY <1>5, <2>1 DEF BridgeInv, BridgeTypes
  <2> QED  BY <1>1, <2>1, <2>2 DEF WaitIsShort, BridgeInv
<1>10. /\ bridgeAt' = "off" <=> ~specsOn'
       /\ bridgeAt' = "polling" => began' <= instant'
  <2>1. instant \in Nat
    BY DEF BridgeInv, BridgeTypes
  <2> QED  BY <1>1, <1>2, <1>3, <1>4, <2>1 DEF BridgeInv
<1>11. ~specsOn' => liveOn' /\ seen' = NeverPolled
  <2> SUFFICES ASSUME ~specsOn' PROVE liveOn' /\ seen' = NeverPolled
      OBVIOUS
  <2>1. ~specsOn /\ seen' = seen
    BY <1>2 DEF Frame
  <2> QED  BY <1>5, <2>1 DEF BridgeInv
<1>12. specsOn' /\ WantsLive(showing)' => liveOn'
  BY <1>1, <1>5 DEF WantsLive
<1> QED  BY <1>8, <1>9, <1>10, <1>11, <1>12 DEF BridgeInv

LEMMA BridgeInvKept == ASSUME BridgeInv, BridgeNext PROVE BridgeInv'
<1>1. CASE EndPoll
  BY <1>1, EndPollStep
<1>2. CASE NextPoll
  <2>1. instant \in Nat
    BY DEF BridgeInv, BridgeTypes
  <2>2. BridgeTypes'
    BY <1>2, <2>1 DEF NextPoll, BridgeInv, BridgeTypes
  <2>3. bridgeAt = "waiting" /\ specsOn
    BY <1>2 DEF NextPoll, WaitOver, BridgeInv
  <2> QED  BY <1>2, <2>1, <2>2, <2>3 DEF NextPoll, BridgeInv, WaitIsShort, WantsLive
<1>3. CASE HoverSystem
  <2>1. instant \in Nat /\ liveOn
    BY <1>3 DEF HoverSystem, BridgeInv, BridgeTypes
  <2>2. specsOn' = TRUE /\ bridgeAt' = "polling" /\ began' = instant
    BY <1>3 DEF HoverSystem, StartSpecs
  <2>3. BridgeTypes'
    BY <1>3, <2>1, <2>2 DEF HoverSystem, BridgeInv, BridgeTypes
  <2> QED  BY <1>3, <2>1, <2>2, <2>3 DEF HoverSystem, BridgeInv, WaitIsShort, WantsLive
<1>4. CASE PassInstant
  <2>1. instant \in Nat /\ waitUntil \in Nat /\ instant' = instant + 1
    BY <1>4 DEF PassInstant, BridgeInv, BridgeTypes
  <2>2. bridgeAt = "waiting" => instant < waitUntil
    BY <1>4, <2>1 DEF PassInstant, WaitOver
  <2>3. BridgeTypes'
    BY <1>4, <2>1 DEF PassInstant, bridgeVars, BridgeInv, BridgeTypes
  <2>4. WaitIsShort'
    BY <1>4, <2>1, <2>2 DEF PassInstant, bridgeVars, BridgeInv, WaitIsShort
  <2>5. bridgeAt' = "polling" => began' <= instant'
    BY <1>4, <2>1 DEF PassInstant, bridgeVars, BridgeInv, BridgeTypes
  <2> QED  BY <1>4, <2>3, <2>4, <2>5 DEF PassInstant, bridgeVars, BridgeInv, WantsLive
<1>5. ASSUME NEW page \in ShownPages, Frame(page) PROVE BridgeInv'
  BY <1>5, FrameStep
<1> QED  BY <1>1, <1>2, <1>3, <1>4, <1>5 DEF BridgeNext

LEMMA BridgeInvRests == BridgeInv /\ UNCHANGED <<instant, bridgeVars>> => BridgeInv'
BY DEF bridgeVars, BridgeInv, BridgeTypes, WaitIsShort, WantsLive

LEMMA DriveInvKept == ASSUME DriveInv, DriveNext PROVE DriveInv'
<1>1. CASE DriveAnswers
  <2>1. PICK list \in SensorLists : drive' = CompleteRead(list)
    BY <1>1 DEF DriveAnswers
  <2> QED  BY <2>1 DEF CompleteRead, DriveInv, NewDrive
<1>2. CASE DriveFails
  BY <1>2 DEF DriveFails, DriveInv, NewDrive
<1>3. CASE DriveMoves
  <2>1. \/ drive' = [drive EXCEPT !.present = FALSE] \/ drive' = [drive EXCEPT !.present = TRUE]
        \/ drive' = NewDrive
    BY <1>3 DEF DriveMoves, DriveGoes, DriveReturns
  <2> QED  BY <2>1 DEF DriveInv, NewDrive
<1>4. CASE PassInstant
  BY <1>4 DEF PassInstant, DriveInv
<1> QED  BY <1>1, <1>2, <1>3, <1>4 DEF DriveNext

LEMMA SensorPagesInvKept ==
    SensorPagesInv /\ [BridgeNext \/ DriveNext]_sensorPageVars => SensorPagesInv'
<1> SUFFICES ASSUME SensorPagesInv, [BridgeNext \/ DriveNext]_sensorPageVars PROVE SensorPagesInv'
    OBVIOUS
<1>1. CASE UNCHANGED sensorPageVars
  BY <1>1, BridgeInvRests DEF sensorPageVars, SensorPagesInv, DriveInv
<1>2. CASE BridgeNext
  <2>1. drive' = drive
    BY <1>2 DEF BridgeNext, EndPoll, NextPoll, HoverSystem, PassInstant, Frame
  <2> QED  BY <1>2, <2>1, BridgeInvKept DEF SensorPagesInv, DriveInv
<1>3. CASE DriveNext
  <2>1. CASE PassInstant
    BY <2>1, <1>3, BridgeInvKept, DriveInvKept DEF BridgeNext, SensorPagesInv
  <2>2. CASE ~PassInstant
    BY <1>3, <2>2, BridgeInvRests, DriveInvKept DEF DriveNext, DriveAnswers, DriveFails, DriveMoves,
       SensorPagesInv
  <2> QED  BY <2>1, <2>2
<1> QED  BY <1>1, <1>2, <1>3

\* All pages show the processor's temperature, or all name what is missing.
LEMMA CpuStory == ASSUME SensorPagesInv PROVE CpuPagesAgree
<1> DEFINE offered == With(seen, PackageKey)
           answering == Known(seen) /\ FreshBridge(seen)
<1>1. OverviewTile = IF answering THEN offered ELSE {}
  BY DEF OverviewTile
<1>2. FromBridge(PackageKey) = IF answering THEN offered ELSE {}
  BY DEF FromBridge
<1> HIDE DEF offered
<1>3. Known(seen) => specsOn
  <2>1. ~Known(NeverPolled)
    BY DEF Known, NeverPolled, NotRunning
  <2> QED  BY <2>1 DEF SensorPagesInv, BridgeInv
<1>4. OverviewTile # {} <=> CpuTemperatureGap = "none"
  BY <1>1 DEF CpuTemperatureGap, offered
<1>5. OverviewTile # {} <=> LiveParts(PackageKey) = "value"
  BY <1>1, <1>2, <1>4 DEF LiveParts, CpuTemperatureGap
<1>6. OverviewTile # {} <=> HeadlineLive(PackageKey) # "--"
  BY <1>1, <1>2, <1>4, <1>5 DEF HeadlineLive, LiveParts
<1>7. OverviewTile # {} <=> SensorsRow = "value"
  BY <1>1, <1>5 DEF SensorsRow
<1>8. SensorsPill = "providers" <=> CpuTemperatureGap \in {"none", "not in sensor app"}
  BY <1>3 DEF SensorsPill, CpuTemperatureGap
<1>9. SensorsPill = "sensor app stopped" <=> CpuTemperatureGap = "sensor app stopped"
  BY <1>3 DEF SensorsPill, CpuTemperatureGap
<1> QED  BY <1>4, <1>5, <1>6, <1>7, <1>8, <1>9 DEF CpuPagesAgree

\* The cores of one provider are numbered in its order.
LEMMA NumbersRise ==
    ASSUME NEW reports \in SUBSET Nat, NEW m \in reports, NEW n \in reports, m # Package, m < n
    PROVE  Key(reports, m).index < Key(reports, n).index
<1> DEFINE below(k) == {c \in reports \ {Package} : c < k}
<1>1. m \in Nat /\ n \in Nat /\ n # Package /\ m < n
  BY DEF Package
<1>2. IsFiniteSet(below(n))
  <2>1. IsFiniteSet(0 .. n)
    BY <1>1, FS_Interval
  <2>2. ASSUME NEW c \in below(n) PROVE c \in 0 .. n
    BY <1>1
  <2> QED  BY <2>1, <2>2, FS_Subset
<1>3. below(m) \cup {m} \subseteq below(n) /\ m \notin below(m)
  <2>1. m \in below(n) /\ m \notin below(m)
    BY <1>1
  <2>2. ASSUME NEW c \in below(m) PROVE c \in below(n)
    <3>1. c \in Nat /\ c < m
      OBVIOUS
    <3> QED  BY <1>1, <3>1
  <2> QED  BY <2>1, <2>2
<1>4. IsFiniteSet(below(m)) /\ IsFiniteSet(below(m) \cup {m})
  BY <1>2, <1>3, FS_Subset
<1>5. Cardinality(below(m) \cup {m}) = Cardinality(below(m)) + 1
  <2> HIDE DEF below
  <2> QED  BY <1>3, <1>4, FS_AddElement
<1>6. Cardinality(below(m) \cup {m}) <= Cardinality(below(n))
  BY <1>2, <1>3, FS_Subset
<1>7. Cardinality(below(m)) \in Nat /\ Cardinality(below(n)) \in Nat
  BY <1>2, <1>4, FS_CardinalityType
<1>8. Cardinality(below(m)) < Cardinality(below(n))
  <2> HIDE DEF below
  <2> QED  BY <1>5, <1>6, <1>7
<1> QED  BY <1>1, <1>8 DEF Key

LEMMA Recently == ASSUME SensorPagesInv PROVE TemperaturesAreRecent
<1>1. seen.poll \in Polls
  BY DEF SensorPagesInv, BridgeInv, BridgeTypes
<1>2. \A a \in Apps : seen.poll[a].reports \in SUBSET Nat /\ a \in Nat
  <2>1. \A a \in Apps : seen.poll[a] \in {NotRunning} \cup [running : {TRUE}, reports : Reports]
    BY <1>1 DEF Polls
  <2>2. Apps \subseteq Nat /\ \A reports \in Reports : reports \subseteq Nat
    BY SensorPagesAssumption
  <2>3. ASSUME NEW a \in Apps PROVE seen.poll[a].reports \in SUBSET Nat
    <3>1. CASE seen.poll[a] = NotRunning
      BY <3>1 DEF NotRunning
    <3>2. CASE seen.poll[a] \in [running : {TRUE}, reports : Reports]
      BY <2>2, <3>2
    <3> QED  BY <2>1, <3>1, <3>2
  <2> QED  BY <2>2, <2>3
<1>3. ASSUME OverviewTile # {} \/ \E chip \in CoreChips : chip.text = "value"
      PROVE  seen.at # NotYet /\ instant - seen.at <= BridgeLimit
  <2>1. CASE OverviewTile # {}
    BY <2>1 DEF OverviewTile, FreshBridge, Recent
  <2>2. ASSUME NEW chip \in CoreChips, chip.text = "value" PROVE FreshBridge(seen)
    <3>1. PICK r : chip.text = HeadlineLive(r.key)
      BY <2>2 DEF CoreChips
    <3>2. LiveParts(r.key) = "value"
      BY <2>2, <3>1 DEF HeadlineLive
    <3>3. FromBridge(r.key) # {}
      BY <3>2 DEF LiveParts, CpuTemperatureGap
    <3> QED  BY <3>3 DEF FromBridge
  <2> QED  BY <1>3, <2>1, <2>2 DEF FreshBridge, Recent
<1>4. ASSUME NEW r \in OverviewTile, NEW a \in Apps, Package \in seen.poll[a].reports
      PROVE  r.app <= a
  <2>1. r \in BridgeReadings(seen) /\ r.key = PackageKey
    BY DEF OverviewTile, With
  <2>2. [key |-> PackageKey, app |-> a, name |-> Package] \in Offered(seen)
    <3>1. Key(seen.poll[a].reports, Package) = PackageKey
      BY DEF Key, PackageKey
    <3> QED  BY <1>4, <3>1 DEF Offered
  <2> QED  BY <2>1, <2>2 DEF BridgeReadings
<1> DEFINE Core(r) == /\ r \in BridgeReadings(seen) /\ r.app \in Apps
                      /\ r.name \in seen.poll[r.app].reports /\ r.name # Package
                      /\ r = [key |-> Key(seen.poll[r.app].reports, r.name), app |-> r.app, name |-> r.name]
<1>5. ASSUME NEW x \in CoreChips
      PROVE  Core(x.core) /\ x = [core |-> x.core, text |-> HeadlineLive(x.core.key)]
  <2>1. PICK r \in BridgeReadings(seen) :
          x = [core |-> r, text |-> HeadlineLive(r.key)] /\ r.key.kind = "core"
    BY DEF CoreChips
  <2>2. PICK a, n : /\ a \in Apps /\ n \in seen.poll[a].reports
                    /\ r = [key |-> Key(seen.poll[a].reports, n), app |-> a, name |-> n]
    BY DEF BridgeReadings, Offered
  <2>3. n # Package
    BY <2>1, <2>2 DEF Key
  <2> QED  BY <2>1, <2>2, <2>3
<1>6. ASSUME NEW r, NEW s, Core(r), Core(s), r.app = s.app, r.name < s.name
      PROVE  r.key.index < s.key.index
  <2>1. Key(seen.poll[r.app].reports, r.name).index < Key(seen.poll[r.app].reports, s.name).index
    BY <1>2, <1>6, NumbersRise
  <2> QED  BY <1>6, <2>1
<1>7. ASSUME NEW r, Core(r) PROVE r.name \in Nat /\ r.key.index \in Nat
  <2>1. r.name \in Nat
    BY <1>2, <1>7
  <2>2. r.key.index = Cardinality({c \in seen.poll[r.app].reports \ {Package} : c < r.name})
    BY <1>7 DEF Key
  <2>3. IsFiniteSet({c \in seen.poll[r.app].reports \ {Package} : c < r.name})
    <3>1. IsFiniteSet(0 .. r.name)
      BY <2>1, FS_Interval
    <3>2. {c \in seen.poll[r.app].reports \ {Package} : c < r.name} \subseteq 0 .. r.name
      BY <1>2, <1>7, <2>1
    <3> QED  BY <3>1, <3>2, FS_Subset
  <2> QED  BY <2>1, <2>2, <2>3, FS_CardinalityType
<1>8. ASSUME NEW r, NEW s, Core(r), Core(s), r.key = s.key PROVE r = s
  <2>1. r.app <= s.app /\ s.app <= r.app
    BY <1>8 DEF BridgeReadings
  <2>2. r.app = s.app
    BY <1>2, <1>8, <2>1
  <2>3. ~(r.name < s.name) /\ ~(s.name < r.name)
    BY <1>6, <1>7, <1>8, <2>2
  <2>4. r.name = s.name
    BY <1>7, <1>8, <2>3
  <2> QED  BY <1>8, <2>2, <2>4
<1> HIDE DEF Core
<1>9. ASSUME NEW x \in CoreChips, NEW y \in CoreChips
      PROVE  /\ x.core.key = y.core.key => x = y
             /\ x.core.app = y.core.app /\ x.core.name < y.core.name
                  => x.core.key.index < y.core.key.index
  <2>1. Core(x.core) /\ Core(y.core)
    BY <1>5
  <2>2. x.core.key = y.core.key => x.core = y.core
    BY <1>8, <2>1
  <2> QED  BY <1>5, <1>6, <2>1, <2>2
<1> QED  BY <1>3, <1>4, <1>9 DEF TemperaturesAreRecent

\* A page that keeps the bridge polling finds its last poll recent.
LEMMA StoppedBecauseOfTheApp == ASSUME SensorPagesInv PROVE StoppedIsTrue
<1>1. CpuTemperatureGap = "sensor app stopped" => ~FreshBridge(seen) /\ Known(seen)
  BY Zenon DEF CpuTemperatureGap
<1> SUFFICES ASSUME specsOn, WantsLive(showing), ~FreshBridge(seen) /\ Known(seen),
                    ~published.late, bridgeAt # "polling", ~requested, seen = published
             PROVE  FALSE
    BY <1>1, Zenon DEF StoppedIsTrue
<1>2. ~FreshBridge(seen) /\ Known(seen)
  OBVIOUS
<1>3. bridgeAt = "waiting" /\ liveOn
  BY DEF SensorPagesInv, BridgeInv, BridgeTypes
<1>4. /\ instant <= waitUntil /\ waitUntil <= published.at + BridgeLimit
      /\ instant \in Nat /\ waitUntil \in Nat /\ published.at \in Int
  BY <1>3 DEF SensorPagesInv, BridgeInv, BridgeTypes, WaitIsShort
<1>5. instant - published.at <= BridgeLimit
  <2>1. PICK i \in Nat, w \in Nat, at \in Int, b \in Nat :
               i = instant /\ w = waitUntil /\ at = published.at /\ b = BridgeLimit
    BY <1>4, SensorPagesAssumption
  <2>2. i <= w /\ w <= at + b
    BY <1>4, <2>1
  <2>3. i - at <= b
    BY <2>2
  <2> QED  BY <2>1, <2>3
<1>6. published.at = NotYet
  BY <1>2, <1>5 DEF FreshBridge, Recent
<1>7. published = NeverPolled
  <2>1. published = NeverPolled \/ published.at \in Nat
    BY DEF SensorPagesInv, BridgeInv, BridgeTypes
  <2>2. NotYet \notin Nat
    BY DEF NotYet
  <2> QED  BY <1>6, <2>1, <2>2
<1> QED  BY <1>2, <1>7 DEF Known, NeverPolled, NotRunning

\* A drive's temperature is unmarked on all pages or on none.
LEMMA DriveStory == ASSUME SensorPagesInv PROVE DrivePagesAgree
<1> USE DEF SensorPagesInv, DriveInv
<1>1. DriveLive => HasReading(drive.list) # {} /\ drive.present /\ Recent(drive.listAt, DriveLimit)
  BY DEF DriveLive, Recent
<1>2. DriveStatus = "Live" <=> DriveLive
  BY DEF DriveStatus, DriveLive
<1>3. SystemDrive.state = "Live" <=> DriveLive
  <2> DEFINE zero == {i \in HasReading(drive.list) : drive.list[i].index = 0}
             found == IF zero # {} THEN zero ELSE HasReading(drive.list)
  <2>1. found = {} <=> HasReading(drive.list) = {}
    OBVIOUS
  <2>2. SystemDrive = IF found = {} \/ (~DriveLive /\ drive.success = NotYet) THEN [state |-> "unavailable"]
                      ELSE [state |-> IF DriveLive THEN "Live" ELSE "Cached",
                            celsius |-> drive.list[Min(found)].celsius]
    BY DEF SystemDrive
  <2> HIDE DEF found
  <2>3. CASE found = {} \/ (~DriveLive /\ drive.success = NotYet)
    <3>1. SystemDrive.state = "unavailable"
      BY <2>2, <2>3
    <3> QED  BY <1>1, <2>1, <2>3, <3>1
  <2>4. CASE ~(found = {} \/ (~DriveLive /\ drive.success = NotYet))
    <3>1. SystemDrive.state = IF DriveLive THEN "Live" ELSE "Cached"
      BY <2>2, <2>4
    <3> QED  BY <3>1
  <2> QED  BY <2>3, <2>4
<1>4. DriveLive <=> OverviewDrive.shows = "tile" /\ OverviewDrive.chip = "none"
  <2>1. StateChip = "none" <=> DriveLive
    BY <1>2 DEF StateChip
  <2>2. DriveLive => OverviewDrive.shows = "tile" /\ OverviewDrive.chip = StateChip
    BY <1>1 DEF OverviewDrive
  <2>3. OverviewDrive.shows = "tile" => OverviewDrive.chip = StateChip
    BY DEF OverviewDrive
  <2> QED  BY <2>1, <2>2, <2>3
<1>5. DriveLive <=> DriveCard.shows = "card" /\ DriveCard.chip = "none"
  <2>1. DriveLive => drive.list # <<>>
    BY <1>1 DEF HasReading
  <2>2. DriveCard.shows = "card" =>
          DriveCard.chip = CASE DriveStatus = "Live" -> "none" [] DriveStatus = "Cached" -> "Cached"
                             [] OTHER -> "Stale"
    BY DEF DriveCard
  <2>3. drive.list # <<>> => DriveCard.shows = "card"
    BY DEF DriveCard
  <2> QED  BY <1>2, <2>1, <2>2, <2>3
<1> QED  BY <1>1, <1>3, <1>4, <1>5 DEF DrivePagesAgree

LEMMA SensorPagesInvShows == SensorPagesInv => SensorsAreAsShown
BY CpuStory, Recently, StoppedBecauseOfTheApp, DriveStory DEF SensorsAreAsShown

-----------------------------------------------------------------------------
(* What is written *)

LEMMA ResolveAlike ==
    ASSUME NEW r, NEW s, NEW b, r.kind = s.kind, r.sampled = s.sampled, r.present = s.present,
           r.current = s.current, r.ever = s.ever
    PROVE  Resolve(r, b) = Resolve(s, b)
<1>1. /\ CounterValue(r) = CounterValue(s) /\ GpuValue(r) = GpuValue(s) /\ DriveValue(r) = DriveValue(s)
  BY DEF CounterValue, GpuValue, DriveValue
<1>2. FromSnapshot(r) = FromSnapshot(s)
  BY <1>1 DEF FromSnapshot
<1> QED  BY <1>2 DEF Resolve

\* Two rows that differ in nothing public are written alike.
LEMMA PublicRowsAlike ==
    ASSUME NEW row \in Rows, NEW other \in Rows, PublicPart(row) = PublicPart(other), NEW b
    PROVE  RowText(row, b, FALSE) = RowText(other, b, FALSE) /\ JsonRow(row, b, FALSE) = JsonRow(other, b, FALSE)
<1> DEFINE LiveKeys == {NoLive} \cup Readings
<1>1. /\ row.private \in BOOLEAN /\ other.private \in BOOLEAN
      /\ row.live \in LiveKeys /\ other.live \in LiveKeys
  BY DEF Rows
<1>2. \A x \in LiveKeys : DOMAIN x = {"kind", "sampled", "present", "current", "ever", "secret"}
  BY DEF NoLive, Readings
<1>3. CASE row.private
  <2>1. PublicPart(row) = [private |-> TRUE, hasLive |-> row.live.kind # "none"]
    BY <1>3 DEF PublicPart
  <2>2. "text" \notin DOMAIN PublicPart(other)
    BY <2>1
  <2>3. other.private
    BY <2>2 DEF PublicPart
  <2>4. PublicPart(other) = [private |-> TRUE, hasLive |-> other.live.kind # "none"]
    BY <2>3 DEF PublicPart
  <2>5. row.live.kind # "none" <=> other.live.kind # "none"
    <3>1. \A p \in BOOLEAN, q \in BOOLEAN :
            [private |-> TRUE, hasLive |-> p] = [private |-> TRUE, hasLive |-> q] => p = q
      OBVIOUS
    <3>2. PICK p \in BOOLEAN, q \in BOOLEAN :
                p = (row.live.kind # "none") /\ q = (other.live.kind # "none")
      OBVIOUS
    <3> QED  BY <2>1, <2>4, <3>1, <3>2, Zenon
  <2> QED  BY <1>3, <2>3, <2>5 DEF RowText, JsonRow
<1>4. CASE ~row.private
  <2> DEFINE shown(x) == IF x.live.kind = "drive" THEN [x.live EXCEPT !.secret = "a"] ELSE x.live
  <2>1. PublicPart(row) = [text |-> row.text, live |-> shown(row)]
    BY <1>4 DEF PublicPart
  <2>2. ~other.private
    <3> SUFFICES ASSUME other.private PROVE FALSE
        OBVIOUS
    <3>1. PublicPart(other) = [private |-> TRUE, hasLive |-> other.live.kind # "none"]
      BY DEF PublicPart
    <3>2. "text" \notin DOMAIN PublicPart(other)
      BY <3>1
    <3> QED  BY <2>1, <3>2
  <2>3. PublicPart(other) = [text |-> other.text, live |-> shown(other)]
    BY <2>2 DEF PublicPart
  <2> HIDE DEF shown
  <2>4. row.text = other.text /\ shown(row) = shown(other)
    <3>1. PublicPart(row).text = row.text /\ PublicPart(row).live = shown(row)
      BY <2>1
    <3>2. PublicPart(other).text = other.text /\ PublicPart(other).live = shown(other)
      BY <2>3
    <3> QED  BY <3>1, <3>2
  <2>5. \A x \in {row, other} :
          /\ shown(x).kind = x.live.kind /\ shown(x).sampled = x.live.sampled
          /\ shown(x).present = x.live.present /\ shown(x).current = x.live.current
          /\ shown(x).ever = x.live.ever
          /\ x.live.kind # "drive" => shown(x) = x.live
    BY <1>1, <1>2 DEF shown
  <2>6. /\ row.live.kind = other.live.kind /\ row.live.sampled = other.live.sampled
        /\ row.live.present = other.live.present /\ row.live.current = other.live.current
        /\ row.live.ever = other.live.ever
        /\ row.live.kind # "drive" => row.live = other.live
    BY <2>4, <2>5
  <2>7. Resolve(row.live, b) = Resolve(other.live, b)
    BY <2>6, ResolveAlike
  <2>8. KeyLabel(row.live) = KeyLabel(other.live)
    BY <2>6 DEF KeyLabel
  <2> QED  BY <1>4, <2>2, <2>4, <2>6, <2>7, <2>8 DEF RowText, JsonRow, JsonLive
<1> QED  BY <1>1, <1>3, <1>4

\* A value without a mark is of a live provider, or of the bridge that answers.
LEMMA UnmarkedIsCurrent ==
    ASSUME NEW r \in Readings, NEW b, Resolve(r, b).known, ~Resolve(r, b).cached,
           r.kind \in {"counter", "gpu", "drive", "bridge"}
    PROVE  IF Resolve(r, b).source THEN BridgeReports(b) ELSE r.current
<1>1. CASE FromSnapshot(r).known
  <2>1. Resolve(r, b) = FromSnapshot(r)
    BY <1>1 DEF Resolve
  <2>2. CASE r.kind = "counter"
    BY <1>1, <2>1, <2>2 DEF FromSnapshot, CounterValue, LiveKnown, LiveCached, LiveUnavailable
  <2>3. CASE r.kind = "gpu"
    BY <1>1, <2>1, <2>3 DEF FromSnapshot, GpuValue, LiveKnown, LiveCached, LiveDegrees, LiveUnavailable
  <2>4. CASE r.kind = "drive"
    BY <1>1, <2>1, <2>4 DEF FromSnapshot, DriveValue, LiveKnown, LiveCached, LiveDegrees, LiveUnavailable
  <2>5. CASE r.kind = "bridge"
    BY <1>1, <2>5 DEF FromSnapshot, LiveUnavailable
  <2> QED  BY <2>2, <2>3, <2>4, <2>5
<1>2. CASE ~FromSnapshot(r).known
  BY <1>2 DEF Resolve, LiveUnavailable, LiveKnown, LiveDegrees
<1> QED  BY <1>1, <1>2

(* Spreadsheet cells *)

Printed == Characters \cup {"'"}
Reads == [text : Seq(Printed), quoted : BOOLEAN, readable : BOOLEAN]

LEMMA SameSequence ==
    ASSUME NEW S, NEW s \in Seq(S), NEW t \in Seq(S), Len(s) = Len(t),
           \A i \in 1 .. Len(s) : s[i] = t[i]
    PROVE  s = t
OBVIOUS

LEMMA DoubledType == ASSUME NEW c \in Characters PROVE Doubled(c) \in Seq(Characters)
<1>1. "quote" \in Characters
  BY DEF Characters
<1>2. <<"quote", "quote">> \in Seq(Characters) /\ <<c>> \in Seq(Characters)
  BY <1>1
<1> QED  BY <1>2 DEF Doubled

Escapes(up, text) ==
  /\ up \in [0 .. Len(text) -> Seq(Characters)] /\ up[0] = <<>>
  /\ \A n \in 1 .. Len(text) : up[n] = up[n - 1] \o Doubled(text[n])

LEMMA EscapedUnfolds ==
    ASSUME NEW text \in Seq(Characters)
    PROVE  \E up : Escapes(up, text) /\ Escaped(text) = up[Len(text)]
<1> DEFINE N == Len(text)
           W == Seq(Characters)
           rule == [n \in 1 .. N |-> [s \in W |-> s \o Doubled(text[n])]]
<1>1. N \in Nat /\ <<>> \in W
  OBVIOUS
<1>2. rule \in [1 .. N -> [W -> W]]
  <2>1. ASSUME NEW n \in 1 .. N, NEW s \in W PROVE s \o Doubled(text[n]) \in W
    <3>1. Doubled(text[n]) \in Seq(Characters)
      BY DoubledType
    <3> QED  BY <3>1
  <2> QED  BY <2>1
<1>3. PICK G : Defines(G, W, <<>>, N, rule)
  <2> HIDE DEF N, W, rule
  <2> QED  BY <1>1, <1>2, RecursionExists
<1>4. \A n \in 1 .. N : G[n] = G[n - 1] \o Doubled(text[n])
  <2>1. ASSUME NEW n \in 1 .. N PROVE rule[n][G[n - 1]] = G[n - 1] \o Doubled(text[n])
    <3>1. n - 1 \in 0 .. N
      OBVIOUS
    <3>2. G[n - 1] \in W
      BY <1>3, <3>1 DEF Defines
    <3> QED  BY <3>2
  <2> HIDE DEF rule
  <2> QED  BY <1>3, <2>1 DEF Defines
<1> DEFINE F == CHOOSE f : f = [n \in 0 .. N |-> IF n = 0 THEN <<>> ELSE f[n - 1] \o Doubled(text[n])]
<1> HIDE DEF N, W, rule
<1>5. G = [n \in 0 .. N |-> IF n = 0 THEN <<>> ELSE G[n - 1] \o Doubled(text[n])]
  <2>1. ASSUME NEW n \in 0 .. N PROVE G[n] = IF n = 0 THEN <<>> ELSE G[n - 1] \o Doubled(text[n])
    <3>1. CASE n = 0
      BY <1>3, <3>1 DEF Defines
    <3>2. CASE n # 0
      <4>1. n \in 1 .. N
        BY <1>1, <3>2
      <4> QED  BY <1>4, <3>2, <4>1
    <3> QED  BY <3>1, <3>2
  <2> QED  BY <1>3, <2>1 DEF Defines
<1>6. F = [n \in 0 .. N |-> IF n = 0 THEN <<>> ELSE F[n - 1] \o Doubled(text[n])]
  BY <1>5
<1>7. Escaped(text) = F[N]
  BY DEF Escaped, N
<1> HIDE DEF F
<1> DEFINE T == {n \in Nat : n <= N => F[n] = G[n]}
<1>8. 0 \in T
  BY <1>1, <1>5, <1>6
<1>9. ASSUME NEW n \in Nat, n \in T PROVE n + 1 \in T
  <2> SUFFICES ASSUME n + 1 <= N PROVE F[n + 1] = G[n + 1]
      OBVIOUS
  <2>1. n + 1 \in 0 .. N /\ n + 1 # 0 /\ (n + 1) - 1 = n /\ F[n] = G[n]
    BY <1>1, <1>9
  <2>2. F[n + 1] = F[n] \o Doubled(text[n + 1]) /\ G[n + 1] = G[n] \o Doubled(text[n + 1])
    BY <1>5, <1>6, <2>1
  <2> QED  BY <2>1, <2>2
<1>10. F[N] = G[N]
  <2> HIDE DEF T
  <2>1. N \in T
    BY <1>1, <1>8, <1>9, SetInduction
  <2> QED  BY <1>1, <2>1 DEF T
<1>11. Escapes(G, text)
  BY <1>3, <1>4 DEF Escapes, Defines, N, W
<1> QED  BY <1>7, <1>10, <1>11 DEF N

ReadsOn(after, s) ==
  /\ after \in [0 .. Len(s) -> Reads] /\ after[0] = NothingRead
  /\ \A n \in 1 .. Len(s) : after[n] = ReadOn(after[n - 1], s[n])

LEMMA ReadOnType == ASSUME NEW x \in Reads, NEW c \in Printed PROVE ReadOn(x, c) \in Reads
<1>1. "quote" \in Printed
  BY DEF Printed, Characters
<1>2. x.text \in Seq(Printed) /\ Append(x.text, c) \in Seq(Printed) /\ Append(x.text, "quote") \in Seq(Printed)
  BY <1>1 DEF Reads
<1> QED  BY <1>2 DEF ReadOn, Reads

LEMMA ReadUnfolds ==
    ASSUME NEW s \in Seq(Printed)
    PROVE  \E after : ReadsOn(after, s) /\ Unescaped(s) = after[Len(s)]
<1> DEFINE N == Len(s)
           W == Reads
           rule == [n \in 1 .. N |-> [x \in W |-> ReadOn(x, s[n])]]
<1>1. N \in Nat /\ NothingRead \in W
  BY DEF NothingRead, Reads
<1>2. rule \in [1 .. N -> [W -> W]]
  BY ReadOnType
<1>3. PICK G : Defines(G, W, NothingRead, N, rule)
  <2> HIDE DEF N, W, rule
  <2> QED  BY <1>1, <1>2, RecursionExists
<1>4. \A n \in 1 .. N : G[n] = ReadOn(G[n - 1], s[n])
  <2>1. ASSUME NEW n \in 1 .. N PROVE rule[n][G[n - 1]] = ReadOn(G[n - 1], s[n])
    <3>1. n - 1 \in 0 .. N
      OBVIOUS
    <3>2. G[n - 1] \in W
      BY <1>3, <3>1 DEF Defines
    <3> QED  BY <3>2
  <2> HIDE DEF rule
  <2> QED  BY <1>3, <2>1 DEF Defines
<1> DEFINE F == CHOOSE f : f = [n \in 0 .. N |-> IF n = 0 THEN NothingRead ELSE ReadOn(f[n - 1], s[n])]
<1> HIDE DEF N, W, rule
<1>5. G = [n \in 0 .. N |-> IF n = 0 THEN NothingRead ELSE ReadOn(G[n - 1], s[n])]
  <2>1. ASSUME NEW n \in 0 .. N PROVE G[n] = IF n = 0 THEN NothingRead ELSE ReadOn(G[n - 1], s[n])
    <3>1. CASE n = 0
      BY <1>3, <3>1 DEF Defines
    <3>2. CASE n # 0
      <4>1. n \in 1 .. N
        BY <1>1, <3>2
      <4> QED  BY <1>4, <3>2, <4>1
    <3> QED  BY <3>1, <3>2
  <2> QED  BY <1>3, <2>1 DEF Defines
<1>6. F = [n \in 0 .. N |-> IF n = 0 THEN NothingRead ELSE ReadOn(F[n - 1], s[n])]
  BY <1>5
<1>7. Unescaped(s) = F[N]
  BY DEF Unescaped, N
<1> HIDE DEF F
<1> DEFINE T == {n \in Nat : n <= N => F[n] = G[n]}
<1>8. 0 \in T
  BY <1>1, <1>5, <1>6
<1>9. ASSUME NEW n \in Nat, n \in T PROVE n + 1 \in T
  <2> SUFFICES ASSUME n + 1 <= N PROVE F[n + 1] = G[n + 1]
      OBVIOUS
  <2>1. n + 1 \in 0 .. N /\ n + 1 # 0 /\ (n + 1) - 1 = n /\ F[n] = G[n]
    BY <1>1, <1>9
  <2>2. F[n + 1] = ReadOn(F[n], s[n + 1]) /\ G[n + 1] = ReadOn(G[n], s[n + 1])
    BY <1>5, <1>6, <2>1
  <2> QED  BY <2>1, <2>2
<1>10. F[N] = G[N]
  <2> HIDE DEF T
  <2>1. N \in T
    BY <1>1, <1>8, <1>9, SetInduction
  <2> QED  BY <1>1, <2>1 DEF T
<1>11. ReadsOn(G, s)
  BY <1>3, <1>4 DEF ReadsOn, Defines, N, W
<1> QED  BY <1>7, <1>10, <1>11 DEF N

\* What is escaped so far stays as it is.
LEMMA EscapedGrows ==
    ASSUME NEW text \in Seq(Characters), NEW up, Escapes(up, text), NEW n \in 0 .. Len(text)
    PROVE  LET all == up[Len(text)]
           IN  Len(up[n]) <= Len(all) /\ \A k \in 1 .. Len(up[n]) : all[k] = up[n][k]
<1> DEFINE N == Len(text)
           Stands(m) == Len(up[n]) <= Len(up[m]) /\ \A k \in 1 .. Len(up[n]) : up[m][k] = up[n][k]
           T == {m \in Nat : n <= m /\ m <= N => Stands(m)}
<1>1. N \in Nat /\ n \in Nat /\ n <= N /\ up[n] \in Seq(Characters)
  BY DEF Escapes
<1> HIDE DEF N
<1>2. 0 \in T
  BY <1>1
<1>3. ASSUME NEW m \in Nat, m \in T PROVE m + 1 \in T
  <2> SUFFICES ASSUME n <= m + 1, m + 1 <= N PROVE Stands(m + 1)
      OBVIOUS
  <2>1. CASE n = m + 1
    BY <1>1, <2>1
  <2>2. CASE n # m + 1
    <3>1. Stands(m)
      BY <1>1, <1>3, <2>2
    <3>2. m + 1 \in 1 .. N /\ m \in 0 .. N /\ (m + 1) - 1 = m
      BY <1>1
    <3>3. /\ up[m + 1] = up[m] \o Doubled(text[m + 1])
          /\ up[m] \in Seq(Characters) /\ Doubled(text[m + 1]) \in Seq(Characters)
      <4>1. text[m + 1] \in Characters
        BY <3>2 DEF N
      <4> QED  BY <3>2, <4>1, DoubledType DEF Escapes, N
    <3>4. PICK a \in Seq(Characters), b \in Seq(Characters), c \in Seq(Characters) :
                a = up[m] /\ b = Doubled(text[m + 1]) /\ c = up[n] /\ up[m + 1] = a \o b
      BY <1>1, <3>3
    <3>5. Len(a \o b) = Len(a) + Len(b) /\ \A k \in 1 .. Len(a) : (a \o b)[k] = a[k]
      OBVIOUS
    <3>6. Len(c) <= Len(a) /\ \A k \in 1 .. Len(c) : a[k] = c[k]
      BY <3>1, <3>4
    <3>7. Len(c) <= Len(a \o b) /\ \A k \in 1 .. Len(c) : (a \o b)[k] = c[k]
      BY <3>5, <3>6
    <3> QED  BY <3>4, <3>7
  <2> QED  BY <2>1, <2>2
<1>4. Stands(N)
  <2> HIDE DEF Stands
  <2>1. N \in T
    <3> HIDE DEF T
    <3> QED  BY <1>1, <1>2, <1>3, SetInduction
  <2> QED  BY <1>1, <2>1
<1> QED  BY <1>4 DEF N

\* One character read on, outside a quote and inside of one.
LEMMA PlainReadOn ==
    ASSUME NEW old, NEW c, c # "quote"
    PROVE  ReadOn([text |-> old, quoted |-> FALSE, readable |-> TRUE], c) = [text |-> Append(old, c), quoted |-> FALSE, readable |-> TRUE]
BY DEF ReadOn

LEMMA QuoteReadOn ==
    ASSUME NEW old, NEW c, c = "quote"
    PROVE  /\ ReadOn([text |-> old, quoted |-> FALSE, readable |-> TRUE], c) = [text |-> old, quoted |-> TRUE, readable |-> TRUE]
           /\ ReadOn([text |-> old, quoted |-> TRUE, readable |-> TRUE], c) = [text |-> Append(old, c), quoted |-> FALSE, readable |-> TRUE]
BY DEF ReadOn

LEMMA PrefixGrows ==
    ASSUME NEW S, NEW pre \in Seq(S), NEW s \in Seq(S), NEW n \in Nat, n + 1 <= Len(s)
    PROVE  pre \o SubSeq(s, 1, n + 1) = Append(pre \o SubSeq(s, 1, n), s[n + 1])
<1>1. Len(s) \in Nat /\ n + 1 \in 1 .. Len(s) /\ 1 \in 1 .. Len(s) /\ n + 1 \in 1 .. n + 1 /\ (n + 1) - 1 = n
  OBVIOUS
<1>2. PICK t \in Seq(S) : t = SubSeq(s, 1, n)
  <2>1. 1 \in Int /\ n \in Int /\ \A i \in 1 .. n : s[i] \in S
    BY <1>1
  <2> QED  BY <2>1, SubSeqProperties
<1>3. PICK c \in S : c = s[n + 1]
  BY <1>1
<1>4. SubSeq(s, 1, n + 1) = t \o <<c>>
  BY <1>1, <1>2, <1>3, SubSeqRecursiveSecond
<1>5. <<c>> \in Seq(S)
  OBVIOUS
<1>6. pre \o (t \o <<c>>) = (pre \o t) \o <<c>>
  BY <1>5, ConcatAssociative
<1>7. PICK u \in Seq(S) : u = pre \o t
  BY ConcatProperties
<1>8. Append(u, c) = u \o <<c>>
  OBVIOUS
<1> QED  BY <1>2, <1>3, <1>4, <1>6, <1>7, <1>8

\* Escaped text is read back as it was, after a character that needs no escape too.
LEMMA ReadsBack ==
    ASSUME NEW text \in Seq(Characters), NEW pre \in Seq(Printed),
           pre = <<>> \/ \E q \in Printed : q # "quote" /\ pre = <<q>>
    PROVE  Unescaped(pre \o Escaped(text)) = [text |-> pre \o text, quoted |-> FALSE, readable |-> TRUE]
<1> DEFINE N == Len(text)
           P == Len(pre)
<1>1. PICK up : Escapes(up, text) /\ Escaped(text) = up[N]
  BY EscapedUnfolds
<1> DEFINE body == pre \o up[N]
<1>2. /\ N \in Nat /\ P \in {0, 1}
      /\ \A n \in 0 .. N : up[n] \in Seq(Characters) /\ up[n] \in Seq(Printed)
  <2>1. \A n \in 0 .. N : up[n] \in Seq(Characters)
    BY <1>1 DEF Escapes
  <2>2. \A a \in Seq(Characters) : a \in Seq(Printed)
    BY SeqMonotonic DEF Printed
  <2> QED  BY <2>1, <2>2
<1>3. /\ body \in Seq(Printed) /\ Len(body) = P + Len(up[N])
      /\ \A k \in 1 .. Len(up[N]) : body[P + k] = up[N][k]
      /\ P = 1 => body[1] = pre[1]
  <2>1. PICK a \in Seq(Printed) : a = up[N]
    BY <1>2
  <2>2. /\ pre \o a \in Seq(Printed) /\ Len(pre \o a) = P + Len(a)
        /\ \A k \in 1 .. Len(a) : (pre \o a)[P + k] = a[k]
        /\ P = 1 => (pre \o a)[1] = pre[1]
    BY <1>2
  <2> QED  BY <2>1, <2>2
<1>4. PICK after : ReadsOn(after, body) /\ Unescaped(body) = after[Len(body)]
  BY <1>3, ReadUnfolds
<1> DEFINE Done(n) == [text |-> pre \o SubSeq(text, 1, n), quoted |-> FALSE, readable |-> TRUE]
           T == {n \in Nat : n <= N => after[P + Len(up[n])] = Done(n)}
<1>5. 0 \in T
  <2> HIDE DEF body
  <2>1. up[0] = <<>> /\ Len(up[0]) = 0
    BY <1>1 DEF Escapes
  <2>2. SubSeq(text, 1, 0) = <<>>
    BY SubSeqEmpty
  <2>3. pre \o SubSeq(text, 1, 0) = pre
    BY <2>2, ConcatEmptySeq
  <2>4. after[P] = [text |-> pre, quoted |-> FALSE, readable |-> TRUE]
    <3>1. CASE pre = <<>>
      <4>1. P = 0 /\ after[0] = NothingRead
        BY <1>4, <3>1 DEF ReadsOn
      <4> QED  BY <3>1, <4>1 DEF NothingRead
    <3>2. CASE pre # <<>>
      <4>1. PICK q \in Printed : q # "quote" /\ pre = <<q>>
        BY <3>2
      <4>2. P = 1 /\ pre[1] = q
        BY <4>1
      <4>3. Len(body) \in Nat /\ 1 <= Len(body)
        <5>1. Len(up[N]) \in Nat
          BY <1>2
        <5> QED  BY <1>3, <4>2, <5>1
      <4> HIDE DEF P
      <4>4. 1 \in 1 .. Len(body) /\ 1 - 1 = 0
        BY <4>3
      <4>5. after[1] = ReadOn(after[0], body[1])
        BY <1>4, <4>4 DEF ReadsOn
      <4>6. after[1] = ReadOn([text |-> <<>>, quoted |-> FALSE, readable |-> TRUE], q)
        BY <1>3, <1>4, <4>2, <4>5 DEF ReadsOn, NothingRead
      <4>7. Append(<<>>, q) = pre
        BY <4>1
      <4> QED  BY <4>1, <4>2, <4>6, <4>7, PlainReadOn
    <3> QED  BY <3>1, <3>2
  <2>5. P + Len(up[0]) = P
    BY <1>2, <2>1
  <2> QED  BY <2>3, <2>4, <2>5
<1>6. ASSUME NEW n \in Nat, n \in T PROVE n + 1 \in T
  <2> SUFFICES ASSUME n + 1 <= N PROVE after[P + Len(up[n + 1])] = Done(n + 1)
      OBVIOUS
  <2> HIDE DEF body
  <2>1. /\ n \in 0 .. N /\ n + 1 \in 0 .. N /\ n + 1 \in 1 .. N /\ (n + 1) - 1 = n /\ N \in 0 .. N
        /\ after[P + Len(up[n])] = Done(n)
    BY <1>2, <1>6
  <2>2. PICK c \in Characters : c = text[n + 1]
    BY <2>1
  <2>3. up[n + 1] = up[n] \o Doubled(c)
    BY <1>1, <2>1, <2>2 DEF Escapes
  <2>4. PICK a \in Seq(Characters) : a = up[n]
    BY <1>2, <2>1
  <2>5. PICK b \in Seq(Characters) : b = up[N]
    BY <1>2, <2>1
  <2>6. PICK L \in Nat : L = P + Len(a)
    BY <1>2
  <2>7. Len(up[n + 1]) <= Len(b) /\ \A k \in 1 .. Len(up[n + 1]) : b[k] = up[n + 1][k]
    BY <1>1, <2>1, <2>5, EscapedGrows
  <2>8. PICK d \in Seq(Characters) : d = Doubled(c) /\ up[n + 1] = a \o d
    BY <2>3, <2>4, DoubledType
  <2>9. /\ Len(a) \in Nat /\ Len(b) \in Nat /\ Len(d) \in Nat /\ Len(a) + Len(d) <= Len(b)
        /\ \A k \in 1 .. Len(d) : b[Len(a) + k] = d[k]
    <3>1. Len(a) \in Nat /\ Len(b) \in Nat /\ Len(d) \in Nat
      OBVIOUS
    <3>2. Len(a \o d) = Len(a) + Len(d) /\ \A k \in 1 .. Len(d) : (a \o d)[Len(a) + k] = d[k]
      OBVIOUS
    <3>3. \A k \in 1 .. Len(d) : Len(a) + k \in 1 .. (Len(a) + Len(d))
      BY <3>1
    <3> QED  BY <2>7, <2>8, <3>1, <3>2, <3>3
  <2>10. /\ Len(body) = P + Len(b) /\ Len(body) \in Nat
         /\ \A k \in 1 .. Len(d) : body[L + k] = d[k] /\ L + k \in 1 .. Len(body)
    <3>1. Len(body) = P + Len(b) /\ Len(body) \in Nat
      BY <1>2, <1>3, <2>5, <2>9
    <3>2. ASSUME NEW k \in 1 .. Len(d) PROVE body[L + k] = d[k] /\ L + k \in 1 .. Len(body)
      <4>1. Len(a) + k \in 1 .. Len(b) /\ P + (Len(a) + k) = L + k
        BY <1>2, <2>6, <2>9
      <4>2. body[P + (Len(a) + k)] = b[Len(a) + k]
        BY <1>3, <2>5, <4>1
      <4>3. L + k \in 1 .. Len(body)
        <5>1. PICK p \in Nat, l \in Nat, m \in Nat, x \in Nat : p = P /\ l = Len(a) /\ m = Len(b) /\ x = k
          BY <1>2, <2>9
        <5>2. l + x \in 1 .. m /\ L = p + l /\ Len(body) = p + m
          BY <2>6, <3>1, <4>1, <5>1
        <5>3. (p + l) + x \in 1 .. (p + m)
          BY <5>2
        <5> QED  BY <5>1, <5>2, <5>3
      <4> QED  BY <2>9, <4>1, <4>2, <4>3
    <3> QED  BY <3>1, <3>2
  <2>11. \A k \in 1 .. Len(d) : after[L + k] = ReadOn(after[L + (k - 1)], d[k])
    <3>1. ASSUME NEW k \in 1 .. Len(d) PROVE after[L + k] = ReadOn(after[L + (k - 1)], d[k])
      <4>1. after[L + k] = ReadOn(after[(L + k) - 1], body[L + k])
        BY <1>4, <2>10 DEF ReadsOn
      <4>2. (L + k) - 1 = L + (k - 1)
        OBVIOUS
      <4> QED  BY <2>10, <4>1, <4>2
    <3> QED  BY <3>1
  <2>12. PICK old : old = pre \o SubSeq(text, 1, n)
    OBVIOUS
  <2>13. Append(old, c) = pre \o SubSeq(text, 1, n + 1)
    <3>1. text \in Seq(Printed)
      BY SeqMonotonic DEF Printed
    <3> QED  BY <2>2, <2>12, <3>1, PrefixGrows
  <2>14. after[L] = [text |-> old, quoted |-> FALSE, readable |-> TRUE]
    BY <2>1, <2>4, <2>6, <2>12
  <2>15. P + Len(up[n + 1]) = L + Len(d)
    <3>1. Len(a \o d) = Len(a) + Len(d)
      OBVIOUS
    <3> QED  BY <1>2, <2>6, <2>8, <2>9, <3>1
  <2>16. after[L + Len(d)] = [text |-> Append(old, c), quoted |-> FALSE, readable |-> TRUE]
    <3>1. CASE c # "quote"
      <4>1. Len(d) = 1 /\ d[1] = c
        BY <2>8, <3>1 DEF Doubled
      <4>2. 1 \in 1 .. Len(d) /\ L + (1 - 1) = L
        BY <4>1
      <4>3. after[L + 1] = ReadOn(after[L], c)
        BY <2>11, <4>1, <4>2
      <4> QED  BY <2>14, <3>1, <4>1, <4>3, PlainReadOn
    <3>2. CASE c = "quote"
      <4>1. Len(d) = 2 /\ d[1] = c /\ d[2] = c
        BY <2>8, <3>2 DEF Doubled
      <4>2. 1 \in 1 .. Len(d) /\ L + (1 - 1) = L /\ 2 \in 1 .. Len(d) /\ L + (2 - 1) = L + 1
        BY <4>1
      <4>3. after[L + 1] = ReadOn(after[L], c) /\ after[L + 2] = ReadOn(after[L + 1], c)
        BY <2>11, <4>1, <4>2
      <4>4. after[L + 1] = [text |-> old, quoted |-> TRUE, readable |-> TRUE]
        BY <2>14, <3>2, <4>3, QuoteReadOn
      <4> QED  BY <3>2, <4>1, <4>3, <4>4, QuoteReadOn
    <3> QED  BY <3>1, <3>2
  <2> QED  BY <2>13, <2>15, <2>16
<1>7. after[P + Len(up[N])] = Done(N)
  <2> HIDE DEF Done
  <2>1. N \in T
    <3> HIDE DEF T
    <3> QED  BY <1>2, <1>5, <1>6, SetInduction
  <2> QED  BY <1>2, <2>1
<1>8. SubSeq(text, 1, N) = text
  BY SubSeqFull
<1> QED  BY <1>1, <1>3, <1>4, <1>7, <1>8

LEMMA CellUnfolds ==
    ASSUME NEW text \in Seq(Characters)
    PROVE  LET pre == IF Dangerous(text) THEN <<"'">> ELSE <<>>
           IN  ReadCell(Cell(text)) = [text |-> pre \o text, quoted |-> FALSE, readable |-> TRUE]
<1> DEFINE pre == IF Dangerous(text) THEN <<"'">> ELSE <<>>
<1>1. "'" \in Printed /\ "quote" \in Printed /\ "'" # "quote"
  BY DEF Printed, Characters
<1>2. PICK e \in Seq(Characters) : e = Escaped(text)
  <2>1. PICK up : Escapes(up, text) /\ Escaped(text) = up[Len(text)]
    BY EscapedUnfolds
  <2>2. up[Len(text)] \in Seq(Characters)
    <3>1. Len(text) \in 0 .. Len(text)
      OBVIOUS
    <3> QED  BY <2>1, <3>1 DEF Escapes
  <2> QED  BY <2>1, <2>2
<1>3. /\ pre \in Seq(Printed) /\ e \in Seq(Printed) /\ <<"quote">> \in Seq(Printed)
      /\ pre = <<>> \/ \E q \in Printed : q # "quote" /\ pre = <<q>>
  <2>1. e \in Seq(Printed)
    BY SeqMonotonic DEF Printed
  <2>2. <<>> \in Seq(Printed) /\ \A q \in Printed : <<q>> \in Seq(Printed)
    OBVIOUS
  <2> QED  BY <1>1, <2>1, <2>2
<1>4. Cell(text) = ((<<"quote">> \o pre) \o e) \o <<"quote">>
  BY <1>2 DEF Cell
<1> HIDE DEF pre
<1>5. PICK s \in Seq(Printed) : s = pre \o e
  BY <1>3, ConcatProperties
<1>6. Cell(text) = (<<"quote">> \o s) \o <<"quote">>
  BY <1>3, <1>4, <1>5, ConcatAssociative
<1>7. SubSeq(Cell(text), 2, Len(Cell(text)) - 1) = s
  <2> DEFINE cell == (<<"quote">> \o s) \o <<"quote">>
  <2>1. cell \in Seq(Printed) /\ Len(cell) = Len(s) + 2 /\ Len(s) \in Nat
        /\ \A i \in 1 .. Len(s) : cell[i + 1] = s[i]
    BY <1>1
  <2> HIDE DEF cell
  <2>2. /\ SubSeq(cell, 2, Len(cell) - 1) \in Seq(Printed)
        /\ Len(SubSeq(cell, 2, Len(cell) - 1)) = Len(s)
        /\ \A i \in 1 .. Len(s) : SubSeq(cell, 2, Len(cell) - 1)[i] = cell[i + 1]
    BY <2>1
  <2>3. SubSeq(cell, 2, Len(cell) - 1) = s
    BY <2>1, <2>2, SeqEqual
  <2> QED  BY <1>6, <2>3 DEF cell
<1>8. Unescaped(s) = [text |-> pre \o text, quoted |-> FALSE, readable |-> TRUE]
  BY <1>2, <1>3, <1>5, ReadsBack
<1> QED  BY <1>7, <1>8 DEF ReadCell, pre

\* What a spreadsheet reads is no formula.
LEMMA NoFormula ==
    ASSUME NEW text \in Seq(Characters)
    PROVE  LET pre  == IF Dangerous(text) THEN <<"'">> ELSE <<>>
               copy == pre \o text
           IN  Trimmed(copy) # <<>> => Trimmed(copy)[1] # "="
<1>1. CASE ~Dangerous(text)
  <2>1. <<>> \o text = text
    OBVIOUS
  <2> QED  BY <1>1, <2>1 DEF Dangerous
<1>2. CASE Dangerous(text)
  <2> DEFINE copy == <<"'">> \o text
             printed == {i \in DOMAIN copy : copy[i] \notin Blanks}
  <2>1. copy[1] = "'" /\ 1 \in DOMAIN copy /\ Len(copy) \in Nat /\ copy \in Seq(Printed)
    BY DEF Printed
  <2>2. 1 \in printed /\ \A i \in printed : 1 <= i
    BY <2>1 DEF Blanks
  <2>3. Min(printed) = 1
    <3> HIDE DEF printed
    <3>1. \A i \in printed : i \in Nat
      BY <2>1 DEF printed
    <3> QED  BY <2>2, <3>1 DEF Min
  <2>4. Trimmed(copy) = SubSeq(copy, 1, Len(copy))
    BY <2>2, <2>3 DEF Trimmed
  <2> HIDE DEF copy
  <2>5. Trimmed(copy)[1] = "'"
    BY <2>1, <2>4
  <2> QED  BY <1>2, <2>5 DEF copy
<1> QED  BY <1>1, <1>2

(* The report *)

Material ==
  \/ \E row, other \in Rows : PublicPart(row) = PublicPart(other) /\ material = [rows |-> <<row, other>>]
  \/ \E r \in Readings, b \in Bridges : material = [reading |-> r, bridge |-> b]
  \/ \E text \in Seq(Characters) : material = [cell |-> text]

ReportInv ==
  /\ Material
  /\ Written("rows") =>
       document = [i \in {1, 2} |-> <<RowText(material.rows[i], Whole, FALSE),
                                     JsonRow(material.rows[i], Whole, FALSE)>>]
  /\ Written("reading") => document = <<Resolve(material.reading, material.bridge)>>
  /\ Written("cell") => document = Cell(material.cell)

LEMMA RestingReportInv == material = [cell |-> <<>>] /\ document = Unwritten => ReportInv
<1>1. <<>> \in Seq(Characters)
  OBVIOUS
<1> QED  BY <1>1 DEF ReportInv, Material, Written

LEMMA ReportInitInv == ReportInit => ReportInv
<1>1. \A text \in Texts : text \in Seq(Characters)
  BY DEF Texts
<1> QED  BY <1>1 DEF ReportInit, ReportInv, Material, Written

LEMMA ReportInvKept == ReportInv /\ [ReportNext]_reportVars => ReportInv'
<1> SUFFICES ASSUME ReportInv, [ReportNext]_reportVars PROVE ReportInv'
    OBVIOUS
<1>1. material' = material /\ Material'
  BY DEF ReportNext, WriteRows, WriteLive, WriteCell, reportVars, ReportInv, Material
<1>2. /\ "rows" \in DOMAIN material => "reading" \notin DOMAIN material /\ "cell" \notin DOMAIN material
      /\ "reading" \in DOMAIN material => "cell" \notin DOMAIN material
  BY DEF ReportInv, Material
<1>3. CASE UNCHANGED reportVars
  BY <1>3 DEF reportVars, ReportInv, Material, Written
<1>4. CASE WriteRows
  BY <1>1, <1>2, <1>4 DEF WriteRows, ReportInv, Written
<1>5. CASE WriteLive
  BY <1>1, <1>2, <1>5 DEF WriteLive, ReportInv, Written
<1>6. CASE WriteCell
  BY <1>1, <1>2, <1>6 DEF WriteCell, ReportInv, Written
<1> QED  BY <1>3, <1>4, <1>5, <1>6 DEF ReportNext

LEMMA ReportInvTells == ReportInv => ReportIsFaithful
<1> SUFFICES ASSUME ReportInv PROVE ReportIsFaithful
    OBVIOUS
<1>1. PrivateStaysOut
  <2> SUFFICES ASSUME Written("rows") PROVE document[1] = document[2]
      BY DEF PrivateStaysOut
  <2>1. PICK row \in Rows, other \in Rows :
              PublicPart(row) = PublicPart(other) /\ material = [rows |-> <<row, other>>]
    BY DEF ReportInv, Material, Written
  <2>2. material.rows[1] = row /\ material.rows[2] = other
    BY <2>1
  <2>3. /\ document[1] = <<RowText(row, Whole, FALSE), JsonRow(row, Whole, FALSE)>>
        /\ document[2] = <<RowText(other, Whole, FALSE), JsonRow(other, Whole, FALSE)>>
    BY <2>2 DEF ReportInv
  <2> QED  BY <2>1, <2>3, PublicRowsAlike
<1>2. OldIsMarked
  <2> SUFFICES ASSUME Written("reading") PROVE
          LET value == document[1]
              r     == material.reading
          IN  value.known /\ ~value.cached /\ r.kind \in {"counter", "gpu", "drive", "bridge"}
                => IF value.source THEN BridgeReports(material.bridge) ELSE r.current
      BY DEF OldIsMarked
  <2>1. PICK r \in Readings, b \in Bridges : material = [reading |-> r, bridge |-> b]
    BY DEF ReportInv, Material, Written
  <2>2. material.reading = r /\ material.bridge = b
    BY <2>1
  <2>3. document[1] = Resolve(r, b)
    BY <2>2 DEF ReportInv
  <2> QED  BY <2>2, <2>3, UnmarkedIsCurrent
<1>3. CellsReadBack
  <2> SUFFICES ASSUME Written("cell") PROVE
          LET cell == ReadCell(document)
              copy == cell.text
          IN  /\ cell.readable /\ ~cell.quoted
              /\ copy = material.cell \/ copy = <<"'">> \o material.cell
              /\ Trimmed(copy) # <<>> => Trimmed(copy)[1] # "="
      BY DEF CellsReadBack
  <2>1. PICK text \in Seq(Characters) : material = [cell |-> text]
    BY DEF ReportInv, Material, Written
  <2>2. material.cell = text /\ document = Cell(text)
    BY <2>1 DEF ReportInv
  <2> DEFINE pre == IF Dangerous(text) THEN <<"'">> ELSE <<>>
  <2>3. ReadCell(document) = [text |-> pre \o text, quoted |-> FALSE, readable |-> TRUE]
    BY <2>2, CellUnfolds
  <2>4. pre \o text = text \/ pre \o text = <<"'">> \o text
    OBVIOUS
  <2>5. Trimmed(pre \o text) # <<>> => Trimmed(pre \o text)[1] # "="
    BY NoFormula
  <2> HIDE DEF pre
  <2> QED  BY <2>2, <2>3, <2>4, <2>5
<1> QED  BY <1>1, <1>2, <1>3 DEF ReportIsFaithful

-----------------------------------------------------------------------------
(***************************************************************************)
(* The theme editor: what any edit makes of the pegs is kept, stored and   *)
(* read back as it is.  First f32: what is added is rounded to a multiple  *)
(* of the ulp, which never turns the order of two sums.                    *)
(***************************************************************************)
F32Sums == 0 .. One + FiveHundredths
Places == 0 .. One

(* The ulp is the one whose binade holds the number. *)
LEMMA UlpIs ==
    ASSUME NEW n \in F32Sums
    PROVE  \/ Ulp(n) = 1 /\ n < 16777216
           \/ \E ulp \in {2, 4, 8, 16, 32, 64, 128} :
                Ulp(n) = ulp /\ 8388608 * ulp <= n /\ n < 16777216 * ulp
<1>1. 2^24 = 16777216 /\ 2^23 = 8388608 /\ 2^30 = 1073741824
  BY SMT
<1>2. n \in Int /\ 0 <= n /\ n < 2147483648
  BY <1>1 DEF F32Sums, One, FiveHundredths
<1>3. CASE n < 16777216
  BY <1>1, <1>3 DEF Ulp
<1>4. CASE n >= 16777216
  <2> DEFINE S == {2, 4, 8, 16, 32, 64, 128}
             P(ulp) == n \div (8388608 * ulp) = 1
  <2>1. \A ulp \in S : P(ulp) <=> 8388608 * ulp <= n /\ n < 16777216 * ulp
    BY <1>2
  <2>2. \E ulp \in S : P(ulp)
    <3>1. \E ulp \in S : 8388608 * ulp <= n /\ n < 16777216 * ulp
      BY <1>2, <1>4
    <3> QED  BY <2>1, <3>1
  <2>3. Ulp(n) = CHOOSE ulp \in S : P(ulp)
    BY <1>1, <1>2, <1>4 DEF Ulp
  <2> HIDE DEF P
  <2>4. Ulp(n) \in S /\ P(Ulp(n))
    BY <2>2, <2>3
  <2> QED  BY <2>1, <2>4
<1> QED  BY <1>2, <1>3, <1>4

LEMMA NearestIs ==
    ASSUME NEW n \in F32Sums, NEW h \in 0 .. 99
    PROVE  /\ Nearest(n, h) \in Nat
           /\ n - Ulp(n) <= Nearest(n, h) /\ Nearest(n, h) <= n + Ulp(n)
<1>1. Ulp(n) \in {1, 2, 4, 8, 16, 32, 64, 128}
  BY UlpIs
<1>2. n \in Nat
  BY DEF F32Sums, One, FiveHundredths
<1> DEFINE ulp == Ulp(n)
<1>3. ulp \in Nat \ {0} /\ n % ulp \in 0 .. ulp - 1 /\ n % ulp <= n
  BY <1>1, <1>2
<1>4. Nearest(n, h) = n - (n % ulp) \/ Nearest(n, h) = n - (n % ulp) + ulp
  BY <1>2, <1>3 DEF Nearest
<1> HIDE DEF ulp
<1> QED  BY <1>2, <1>3, <1>4 DEF ulp

Ulps == {1, 2, 4, 8, 16, 32, 64, 128}

(* The nearest multiple of the ulp, the even one of two. *)
Rounded(ulp, q, r) == IF 2 * r > ulp \/ (2 * r = ulp /\ q % 2 = 1) THEN ulp * q + ulp ELSE ulp * q

LEMMA NearestOf ==
    ASSUME NEW n \in F32Sums, NEW u \in Ulps, Ulp(n) = u
    PROVE  \E q, r \in Nat : n = u * q + r /\ r < u /\ Nearest(n, 0) = Rounded(u, q, r)
<1> DEFINE q == n \div u
           r == n % u
<1>1. n \in Nat
  BY SMT DEF F32Sums, One, FiveHundredths
<1>2. n = u * q + r /\ r \in Nat /\ r < u /\ q \in Nat
  BY <1>1 DEF Ulps
<1>3. Nearest(n, 0) = (n - r) + IF 100 * r + 0 > 50 * u \/ (100 * r + 0 = 50 * u /\ q % 2 = 1) THEN u ELSE 0
  BY Zenon DEF Nearest
<1>4. u \in Nat
  BY DEF Ulps
<1> HIDE DEF q, r
<1>5. u * q \in Nat
  BY <1>2, <1>4
<1>6. n - r = u * q
  BY <1>1, <1>2, <1>5
<1>7. Nearest(n, 0) = Rounded(u, q, r)
  BY <1>2, <1>3, <1>4, <1>5, <1>6 DEF Rounded
<1> QED  BY <1>2, <1>7

LEMMA NearestRises ==
    ASSUME NEW a \in F32Sums, NEW b \in F32Sums, a <= b
    PROVE  Nearest(a, 0) <= Nearest(b, 0)
<1>1. a \in Nat /\ b \in Nat
  BY DEF F32Sums, One, FiveHundredths
<1>3. CASE Ulp(a) = Ulp(b)
  <2>1. PICK u \in Ulps : Ulp(a) = u /\ Ulp(b) = u
    BY <1>3, UlpIs DEF Ulps
  <2>2. PICK q, r \in Nat : a = u * q + r /\ r < u /\ Nearest(a, 0) = Rounded(u, q, r)
    BY <2>1, NearestOf
  <2>3. PICK p, s \in Nat : b = u * p + s /\ s < u /\ Nearest(b, 0) = Rounded(u, p, s)
    BY <2>1, NearestOf
  <2>4. CASE q = p
    BY <2>2, <2>3, <2>4 DEF Rounded, Ulps
  <2>5. CASE q < p
    BY <2>2, <2>3, <2>5 DEF Rounded, Ulps
  <2>6. CASE q > p
    <3>1. a > b
      BY <2>2, <2>3, <2>6 DEF Ulps
    <3> QED  BY <1>1, <3>1
  <2> QED  BY <2>4, <2>5, <2>6
<1>4. CASE Ulp(a) # Ulp(b)
  <2>1. PICK u \in Ulps : Ulp(a) = u /\ a < 16777216 * u /\ (u = 1 \/ 8388608 * u <= a)
    BY SMT, UlpIs DEF Ulps
  <2>2. PICK v \in Ulps : Ulp(b) = v /\ (v = 1 \/ 8388608 * v <= b) /\ b < 16777216 * v
    BY SMT, UlpIs DEF Ulps
  <2>3. u < v
    BY SMT, <1>1, <1>4, <2>1, <2>2 DEF Ulps
  <2>4. 2 * u <= v
    BY <2>3 DEF Ulps
  <2>5. Nearest(a, 0) \in Int /\ Nearest(a, 0) <= 16777216 * u
    <3>1. PICK q, r \in Nat : a = u * q + r /\ r < u /\ Nearest(a, 0) = Rounded(u, q, r)
      BY <2>1, NearestOf
    <3> QED  BY SMT, <2>1, <3>1 DEF Rounded, Ulps
  <2>6. Nearest(b, 0) \in Int /\ 8388608 * v <= Nearest(b, 0)
    <3>1. PICK q, r \in Nat : b = v * q + r /\ r < v /\ Nearest(b, 0) = Rounded(v, q, r)
      BY <2>2, NearestOf
    <3> QED  BY SMT, <2>2, <2>3, <3>1 DEF Rounded, Ulps
  <2> QED  BY SMT, <2>4, <2>5, <2>6 DEF Ulps
<1> QED  BY <1>3, <1>4

LEMMA UlpAt ==
    ASSUME NEW ulp \in Ulps \ {1}, NEW n \in F32Sums, 8388608 * ulp <= n, n < 16777216 * ulp
    PROVE  Ulp(n) = ulp
<1>1. PICK u \in Ulps : Ulp(n) = u /\ n < 16777216 * u /\ (u = 1 \/ 8388608 * u <= n)
  BY SMT, UlpIs DEF Ulps
<1>2. n \in Nat
  BY SMT DEF F32Sums, One, FiveHundredths
<1> QED  BY SMT, <1>1, <1>2 DEF Ulps

(* The value of a rounding that is no tie. *)
NearBy(n, ulp, r) == (n - r) + IF 2 * r > ulp THEN ulp ELSE 0

LEMMA NearestAt ==
    ASSUME NEW ulp \in Ulps, NEW n \in F32Sums, Ulp(n) = ulp,
           NEW r \in Nat, n % ulp = r, 2 * r # ulp
    PROVE  Nearest(n, 0) = NearBy(n, ulp, r)
<1>1. n \in Nat /\ ulp \in Nat
  BY SMT DEF F32Sums, One, FiveHundredths, Ulps
<1> DEFINE odd == (n \div ulp) % 2 = 1
<1>2. Nearest(n, 0) = (n - r) + IF 100 * r + 0 > 50 * ulp \/ (100 * r + 0 = 50 * ulp /\ odd) THEN ulp ELSE 0
  BY Zenon DEF Nearest
<1> HIDE DEF odd
<1> QED  BY SMT, <1>1, <1>2 DEF NearBy

(***************************************************************************)
(* Pegs: what bounds a peg from below rises with the one before it and is  *)
(* never above its ceiling, which the normalisation leaves room for.       *)
(***************************************************************************)
After(at) == Plus(at, Hundredth)

LEMMA AfterIs ==
    ASSUME NEW a \in Places, NEW b \in Places
    PROVE  /\ After(a) \in Nat /\ a < After(a) /\ After(a) <= (a + Hundredth) + 128
           /\ a <= b => After(a) <= After(b)
<1>1. a \in Nat /\ b \in Nat /\ a + Hundredth \in F32Sums /\ b + Hundredth \in F32Sums
  BY SMT DEF Places, F32Sums, One, Hundredth, FiveHundredths
<1>2. 0 \in 0 .. 99
  OBVIOUS
<1>3. After(a) = Nearest(a + Hundredth, 0) /\ After(b) = Nearest(b + Hundredth, 0)
  BY DEF After, Plus
<1>4. /\ After(a) \in Nat /\ (a + Hundredth) - Ulp(a + Hundredth) <= After(a)
      /\ After(a) <= (a + Hundredth) + Ulp(a + Hundredth)
  <2> DEFINE n == a + Hundredth
  <2>1. n \in F32Sums /\ After(a) = Nearest(n, 0)
    BY <1>1, <1>3, Zenon
  <2> HIDE DEF n
  <2>2. After(a) \in Nat /\ n - Ulp(n) <= After(a) /\ After(a) <= n + Ulp(n)
    BY <1>2, <2>1, NearestIs
  <2> QED  BY <2>2, Zenon DEF n
<1>5. Ulp(a + Hundredth) \in Int /\ Ulp(a + Hundredth) < 129
  <2>1. Ulp(a + Hundredth) \in {1, 2, 4, 8, 16, 32, 64, 128}
    BY <1>1, UlpIs
  <2> QED  BY SMT, <2>1
<1>6. a <= b => After(a) <= After(b)
  <2>1. a <= b => a + Hundredth <= b + Hundredth
    BY SMT, <1>1 DEF Hundredth
  <2> QED  BY <1>1, <1>3, <2>1, NearestRises
<1> QED  BY SMT, <1>1, <1>4, <1>5, <1>6 DEF Hundredth

(* What is reckoned here is Ceiling: 1041529600, 1052267008, 1063004416 and One. *)
LEMMA CeilingIs ==
    /\ \A i \in Pegs : Ceiling[i] \in Places
    /\ \A i \in 2 .. 4 : After(Ceiling[i - 1]) <= Ceiling[i]
    /\ \A i \in Pegs : Third[i] <= Ceiling[i]
<1>1. One = 1073741824 /\ Hundredth = 10737418 /\ FiveHundredths = 53687092
  BY SMT DEF One, Hundredth, FiveHundredths
<1>2. Nearest(0, 0) = 0 /\ Nearest(10737418, 0) = 10737418
  <2>1. Ulp(0) = 1 /\ Ulp(10737418) = 1
    BY SMT DEF Ulp
  <2> QED  BY SMT, <2>1 DEF Nearest
<1>3. Nearest(21474836, 0) = 21474836
  <2>1. 2 \in Ulps \ {1}
    BY SMT DEF Ulps
  <2>2. 21474836 \in F32Sums
    BY SMT DEF F32Sums, One, FiveHundredths
  <2>3. 8388608 * 2 <= 21474836 /\ 21474836 < 16777216 * 2
    BY SMT
  <2>4. 0 \in Nat /\ 21474836 % 2 = 0 /\ 2 * 0 # 2
    BY SMT
  <2>5. NearBy(21474836, 2, 0) = 21474836
    BY SMT DEF NearBy
  <2> QED  BY SMT, <2>1, <2>2, <2>3, <2>4, <2>5, UlpAt, NearestAt
<1>4. Nearest(32212254, 0) = 32212254
  <2>1. 2 \in Ulps \ {1}
    BY SMT DEF Ulps
  <2>2. 32212254 \in F32Sums
    BY SMT DEF F32Sums, One, FiveHundredths
  <2>3. 8388608 * 2 <= 32212254 /\ 32212254 < 16777216 * 2
    BY SMT
  <2>4. 0 \in Nat /\ 32212254 % 2 = 0 /\ 2 * 0 # 2
    BY SMT
  <2>5. NearBy(32212254, 2, 0) = 32212254
    BY SMT DEF NearBy
  <2> QED  BY SMT, <2>1, <2>2, <2>3, <2>4, <2>5, UlpAt, NearestAt
<1>5. Nearest(1041529570, 0) = 1041529600
  <2>1. 64 \in Ulps \ {1}
    BY SMT DEF Ulps
  <2>2. 1041529570 \in F32Sums
    BY SMT DEF F32Sums, One, FiveHundredths
  <2>3. 8388608 * 64 <= 1041529570 /\ 1041529570 < 16777216 * 64
    BY SMT
  <2>4. 34 \in Nat /\ 1041529570 % 64 = 34 /\ 2 * 34 # 64
    BY SMT
  <2>5. NearBy(1041529570, 64, 34) = 1041529600
    BY SMT DEF NearBy
  <2> QED  BY SMT, <2>1, <2>2, <2>3, <2>4, <2>5, UlpAt, NearestAt
<1>6. Nearest(1052266988, 0) = 1052267008
  <2>1. 64 \in Ulps \ {1}
    BY SMT DEF Ulps
  <2>2. 1052266988 \in F32Sums
    BY SMT DEF F32Sums, One, FiveHundredths
  <2>3. 8388608 * 64 <= 1052266988 /\ 1052266988 < 16777216 * 64
    BY SMT
  <2>4. 44 \in Nat /\ 1052266988 % 64 = 44 /\ 2 * 44 # 64
    BY SMT
  <2>5. NearBy(1052266988, 64, 44) = 1052267008
    BY SMT DEF NearBy
  <2> QED  BY SMT, <2>1, <2>2, <2>3, <2>4, <2>5, UlpAt, NearestAt
<1>7. Nearest(1063004406, 0) = 1063004416
  <2>1. 64 \in Ulps \ {1}
    BY SMT DEF Ulps
  <2>2. 1063004406 \in F32Sums
    BY SMT DEF F32Sums, One, FiveHundredths
  <2>3. 8388608 * 64 <= 1063004406 /\ 1063004406 < 16777216 * 64
    BY SMT
  <2>4. 54 \in Nat /\ 1063004406 % 64 = 54 /\ 2 * 54 # 64
    BY SMT
  <2>5. NearBy(1063004406, 64, 54) = 1063004416
    BY SMT DEF NearBy
  <2> QED  BY SMT, <2>1, <2>2, <2>3, <2>4, <2>5, UlpAt, NearestAt
<1>8. Nearest(1073741824, 0) = 1073741824
  <2>1. 128 \in Ulps \ {1}
    BY SMT DEF Ulps
  <2>2. 1073741824 \in F32Sums
    BY SMT DEF F32Sums, One, FiveHundredths
  <2>3. 8388608 * 128 <= 1073741824 /\ 1073741824 < 16777216 * 128
    BY SMT
  <2>4. 0 \in Nat /\ 1073741824 % 128 = 0 /\ 2 * 0 # 128
    BY SMT
  <2>5. NearBy(1073741824, 128, 0) = 1073741824
    BY SMT DEF NearBy
  <2> QED  BY SMT, <2>1, <2>2, <2>3, <2>4, <2>5, UlpAt, NearestAt
<1>9. Nearest(1052267018, 0) = 1052267008
  <2>1. 64 \in Ulps \ {1}
    BY SMT DEF Ulps
  <2>2. 1052267018 \in F32Sums
    BY SMT DEF F32Sums, One, FiveHundredths
  <2>3. 8388608 * 64 <= 1052267018 /\ 1052267018 < 16777216 * 64
    BY SMT
  <2>4. 10 \in Nat /\ 1052267018 % 64 = 10 /\ 2 * 10 # 64
    BY SMT
  <2>5. NearBy(1052267018, 64, 10) = 1052267008
    BY SMT DEF NearBy
  <2> QED  BY SMT, <2>1, <2>2, <2>3, <2>4, <2>5, UlpAt, NearestAt
<1>10. Nearest(1063004426, 0) = 1063004416
  <2>1. 64 \in Ulps \ {1}
    BY SMT DEF Ulps
  <2>2. 1063004426 \in F32Sums
    BY SMT DEF F32Sums, One, FiveHundredths
  <2>3. 8388608 * 64 <= 1063004426 /\ 1063004426 < 16777216 * 64
    BY SMT
  <2>4. 10 \in Nat /\ 1063004426 % 64 = 10 /\ 2 * 10 # 64
    BY SMT
  <2>5. NearBy(1063004426, 64, 10) = 1063004416
    BY SMT DEF NearBy
  <2> QED  BY SMT, <2>1, <2>2, <2>3, <2>4, <2>5, UlpAt, NearestAt
<1>11. Nearest(1073741834, 0) = 1073741824
  <2>1. 128 \in Ulps \ {1}
    BY SMT DEF Ulps
  <2>2. 1073741834 \in F32Sums
    BY SMT DEF F32Sums, One, FiveHundredths
  <2>3. 8388608 * 128 <= 1073741834 /\ 1073741834 < 16777216 * 128
    BY SMT
  <2>4. 10 \in Nat /\ 1073741834 % 128 = 10 /\ 2 * 10 # 128
    BY SMT
  <2>5. NearBy(1073741834, 128, 10) = 1073741824
    BY SMT DEF NearBy
  <2> QED  BY SMT, <2>1, <2>2, <2>3, <2>4, <2>5, UlpAt, NearestAt
<1>12. /\ Ceiling[1] = 1041529600 /\ Ceiling[2] = 1052267008
       /\ Ceiling[3] = 1063004416 /\ Ceiling[4] = 1073741824
  BY SMT, <1>1, <1>2, <1>3, <1>4, <1>5, <1>6, <1>7, <1>8 DEF Ceiling, Pegs, Minus
<1>13. /\ After(1041529600) = 1052267008 /\ After(1052267008) = 1063004416
       /\ After(1063004416) = 1073741824
  BY SMT, <1>1, <1>9, <1>10, <1>11 DEF After, Plus
<1>14. \A i \in Pegs : Ceiling[i] \in Places
  <2>1. 1041529600 \in Places /\ 1052267008 \in Places
    BY SMT DEF Places, One
  <2>2. 1063004416 \in Places /\ 1073741824 \in Places
    BY SMT DEF Places, One
  <2> HIDE DEF Places
  <2> QED  BY SMT, <1>12, <2>1, <2>2 DEF Pegs
<1>15. \A i \in 2 .. 4 : After(Ceiling[i - 1]) <= Ceiling[i]
  BY SMT, <1>12, <1>13
<1>16. \A i \in Pegs : Third[i] <= Ceiling[i]
  BY SMT, <1>1, <1>12 DEF Pegs, Third
<1> QED  BY <1>14, <1>15, <1>16

(* A theme whose pegs may still be anywhere, and one that the normalisation made. *)
Strewn == [stops : [Pegs -> [at : Nat, paint : Nat \X Nat]], scheme : Nat, layout : Int]
Themes == [stops : [Pegs -> [at : Places, paint : Nat \X Nat]], scheme : Nat, layout : Int]
Apart(t) == \A i \in Pegs :
  t.stops[i].at \in (IF i = 1 THEN 0 ELSE After(t.stops[i - 1].at)) .. Ceiling[i]
Settled == {t \in Themes : Apart(t)}

Stops == [Pegs -> [at : Nat, paint : Nat \X Nat]]
MovedTo(stops, at) == [i \in Pegs |-> [stops[i] EXCEPT !.at = at[i]]]
LowAt(stops, at, i) == Clamped(stops[i].at, IF i = 1 THEN 0 ELSE After(at[i - 1]), Ceiling[i])

LEMMA BelowAPlace == ASSUME NEW m \in Places, NEW n \in Nat, n <= m PROVE n \in Places
<1>1. One \in Nat
  BY SMT DEF One
<1> QED  BY <1>1 DEF Places

(* The places are a function of the pegs, each found from the one before it. *)
LEMMA PlacesExist ==
    ASSUME NEW stops \in Stops
    PROVE  \E at : /\ at = [i \in Pegs |-> LowAt(stops, at, i)]
                   /\ Placed(stops) = MovedTo(stops, at)
<1> DEFINE a == LowAt(stops, <<>>, 1)
           b == LowAt(stops, <<a>>, 2)
           c == LowAt(stops, <<a, b>>, 3)
           d == LowAt(stops, <<a, b, c>>, 4)
           good(f) == f = [i \in Pegs |-> LowAt(stops, f, i)]
<1>1. good(<<a, b, c, d>>)
  <2> DEFINE f == <<a, b, c, d>>
  <2>1. f = [i \in Pegs |-> f[i]]
    BY DEF Pegs
  <2>2. /\ f[1] = LowAt(stops, f, 1) /\ f[2] = LowAt(stops, f, 2)
        /\ f[3] = LowAt(stops, f, 3) /\ f[4] = LowAt(stops, f, 4)
    BY DEF LowAt
  <2> HIDE DEF f
  <2>3. \A i \in Pegs : f[i] = LowAt(stops, f, i)
    BY <2>2 DEF Pegs
  <2> QED  BY <2>1, <2>3, Zenon DEF f
<1>2. good(CHOOSE f : good(f))
  <2> HIDE DEF good
  <2> QED  BY <1>1, Zenon
<1>3. Placed(stops) = MovedTo(stops, CHOOSE f : good(f))
  BY Zenon DEF Placed, MovedTo, LowAt, After
<1> QED  BY <1>2, <1>3

LEMMA PlacedApart ==
    ASSUME NEW stops \in Stops
    PROVE  LET made == Placed(stops)
           IN  /\ made \in [Pegs -> [at : Places, paint : Nat \X Nat]]
               /\ \A i \in Pegs : made[i].at \in (IF i = 1 THEN 0 ELSE After(made[i - 1].at)) .. Ceiling[i]
<1>1. PICK at : at = [i \in Pegs |-> LowAt(stops, at, i)] /\ Placed(stops) = MovedTo(stops, at)
  BY PlacesExist
<1>2. \A i \in Pegs : Ceiling[i] \in Places
  BY CeilingIs
<1> DEFINE Within(i) == /\ at[i] \in Nat /\ at[i] <= Ceiling[i]
                        /\ i # 1 => After(at[i - 1]) \in Nat /\ After(at[i - 1]) <= at[i]
<1>3. Within(1)
  <2>1. at[1] = Clamped(stops[1].at, 0, Ceiling[1]) /\ stops[1].at \in Nat /\ Ceiling[1] \in Nat
    BY <1>1, <1>2 DEF LowAt, Pegs, Stops, Places
  <2> QED  BY <2>1 DEF Clamped
<1>4. ASSUME NEW i \in 2 .. 4, Within(i - 1) PROVE Within(i)
  <2>1. /\ at[i] = Clamped(stops[i].at, After(at[i - 1]), Ceiling[i])
        /\ stops[i].at \in Nat /\ Ceiling[i] \in Places /\ Ceiling[i - 1] \in Places
    BY <1>1, <1>2 DEF LowAt, Pegs, Stops
  <2>2. at[i - 1] \in Places
    BY <1>4, <2>1, BelowAPlace
  <2>3. After(at[i - 1]) \in Nat /\ After(at[i - 1]) <= After(Ceiling[i - 1])
    BY <1>4, <2>1, <2>2, AfterIs
  <2>4. After(Ceiling[i - 1]) \in Nat /\ After(Ceiling[i - 1]) <= Ceiling[i]
    BY <2>1, AfterIs, CeilingIs
  <2>5. Ceiling[i] \in Nat
    BY <2>1 DEF Places
  <2> QED  BY <2>1, <2>3, <2>4, <2>5 DEF Clamped
<1>5. \A i \in Pegs : Within(i)
  <2> HIDE DEF Within
  <2>1. Within(2)
    BY <1>3, <1>4
  <2>2. Within(3)
    BY <2>1, <1>4
  <2>3. Within(4)
    BY <2>2, <1>4
  <2> QED  BY <1>3, <2>1, <2>2, <2>3 DEF Pegs
<1>6. \A i \in Pegs : at[i] \in Places
  BY <1>2, <1>5, BelowAPlace
<1>7. \A i \in Pegs : MovedTo(stops, at)[i] \in [at : Places, paint : Nat \X Nat] /\ MovedTo(stops, at)[i].at = at[i]
  BY <1>6 DEF MovedTo, Stops
<1>8. MovedTo(stops, at) \in [Pegs -> [at : Places, paint : Nat \X Nat]]
  BY <1>7 DEF MovedTo
<1>9. \A i \in Pegs : at[i] \in (IF i = 1 THEN 0 ELSE After(at[i - 1])) .. Ceiling[i]
  BY <1>2, <1>5 DEF Places
<1>10. \A i \in Pegs : i # 1 => i - 1 \in Pegs
  BY DEF Pegs
<1> QED  BY <1>1, <1>7, <1>8, <1>9, <1>10

(* Every place in the order is taken: the first of those left is the next. *)
LEMMA FirstOf ==
    ASSUME NEW stops \in Stops, NEW S \in SUBSET Pegs, S # {}
    PROVE  \E i \in S : \A j \in S \ {i} : ComesBefore(stops, i, j) /\ ~ComesBefore(stops, j, i)
<1> DEFINE key(i) == 5 * stops[i].at + i
           keys == {key(i) : i \in S}
<1>1. \A i \in S : i \in 1 .. 4 /\ stops[i].at \in Nat
  BY DEF Stops, Pegs
<1>2. keys \in SUBSET Nat /\ keys # {}
  BY <1>1
<1>3. PICK least \in keys : \A y \in keys : least <= y
  <2> HIDE DEF keys
  <2> QED  BY <1>2, LeastNumber
<1>4. PICK i \in S : least = key(i)
  BY <1>3
<1>5. ASSUME NEW j \in S \ {i} PROVE ComesBefore(stops, i, j) /\ ~ComesBefore(stops, j, i)
  <2>1. key(i) <= key(j)
    BY <1>3, <1>4
  <2>2. i # j
    OBVIOUS
  <2> QED  BY <1>1, <2>1, <2>2 DEF ComesBefore
<1> QED  BY <1>5

Ahead(stops, i) == {j \in Pegs : ComesBefore(stops, j, i)}

LEMMA EveryPlaceIsTaken ==
    ASSUME NEW stops \in Stops, NEW k \in Pegs
    PROVE  \E i \in Pegs : Cardinality(Ahead(stops, i)) = k - 1
<1> DEFINE First(S, i) == i \in S /\ \A j \in S \ {i} : ComesBefore(stops, i, j) /\ ~ComesBefore(stops, j, i)
<1>1. \A S \in SUBSET Pegs : S # {} => \E i \in S : First(S, i)
  BY FirstOf
<1>2. \A i \in Pegs : ~ComesBefore(stops, i, i)
  BY DEF ComesBefore, Stops, Pegs
<1>3. PICK p \in Pegs : First(Pegs, p)
  <2>1. Pegs # {}
    BY DEF Pegs
  <2> QED  BY <1>1, <2>1
<1>4. PICK q \in Pegs : First(Pegs \ {p}, q)
  <2>1. Pegs \ {p} # {}
    BY DEF Pegs
  <2> QED  BY <1>1, <2>1
<1>5. PICK r \in Pegs : First(Pegs \ {p, q}, r)
  <2>1. Pegs \ {p, q} # {}
    BY DEF Pegs
  <2> QED  BY <1>1, <2>1
<1>6. PICK s \in Pegs : First(Pegs \ {p, q, r}, s)
  <2>1. Pegs \ {p, q, r} # {}
    BY DEF Pegs
  <2> QED  BY <1>1, <2>1
<1>7. p # q /\ p # r /\ p # s /\ q # r /\ q # s /\ r # s
  BY <1>4, <1>5, <1>6
<1>8. Pegs = {p, q, r, s}
  BY <1>7 DEF Pegs
<1>9. /\ Ahead(stops, p) = {} /\ Ahead(stops, q) = {p}
      /\ Ahead(stops, r) = {p, q} /\ Ahead(stops, s) = {p, q, r}
  BY <1>2, <1>3, <1>4, <1>5, <1>6, <1>7, <1>8 DEF Ahead
<1>10. /\ Cardinality({}) = 0 /\ Cardinality({p}) = 1
       /\ Cardinality({p, q}) = 2 /\ Cardinality({p, q, r}) = 3
  <2>1. Cardinality({}) = 0 /\ Cardinality({p}) = 1 /\ IsFiniteSet({p})
    BY FS_EmptySet, FS_Singleton
  <2>2. Cardinality({p} \cup {q}) = 2 /\ IsFiniteSet({p} \cup {q})
    <3>1. q \notin {p}
      BY <1>7
    <3>2. /\ Cardinality({p} \cup {q}) = (IF q \in {p} THEN Cardinality({p}) ELSE Cardinality({p}) + 1)
          /\ IsFiniteSet({p} \cup {q})
      BY <2>1, FS_AddElement, Zenon
    <3> QED  BY <2>1, <3>1, <3>2
  <2>3. Cardinality(({p} \cup {q}) \cup {r}) = 3
    <3>1. r \notin {p} \cup {q}
      BY <1>7
    <3>2. Cardinality(({p} \cup {q}) \cup {r}) =
            IF r \in {p} \cup {q} THEN Cardinality({p} \cup {q}) ELSE Cardinality({p} \cup {q}) + 1
      BY <2>2, FS_AddElement, Zenon
    <3> QED  BY <2>2, <3>1, <3>2
  <2>4. {p} \cup {q} = {p, q} /\ ({p} \cup {q}) \cup {r} = {p, q, r}
    OBVIOUS
  <2> QED  BY <2>1, <2>2, <2>3, <2>4
<1>11. \/ k - 1 = 0 \/ k - 1 = 1 \/ k - 1 = 2 \/ k - 1 = 3
  BY DEF Pegs
<1> QED  BY <1>9, <1>10, <1>11

LEMMA SortedIsRow ==
    ASSUME NEW stops \in Stops
    PROVE  ByPosition(stops) \in Stops
<1>1. ASSUME NEW k \in Pegs
      PROVE  (CHOOSE i \in Pegs : Cardinality(Ahead(stops, i)) = k - 1) \in Pegs
  BY <1>1, EveryPlaceIsTaken
<1> QED  BY <1>1 DEF ByPosition, Stops, Ahead

(* Pegs that are apart are in order, and stay where they are. *)
LEMMA ApartStays ==
    ASSUME NEW t \in Settled
    PROVE  Normalized(t) = t
<1> DEFINE stops == t.stops
<1>1. stops \in Stops /\ stops \in [Pegs -> [at : Places, paint : Nat \X Nat]]
  BY DEF Settled, Themes, Stops, Places
<1>2. \A i \in Pegs : stops[i].at \in Places
  BY <1>1
<1>3. \A i \in Pegs : stops[i].at \in (IF i = 1 THEN 0 ELSE After(stops[i - 1].at)) .. Ceiling[i]
  BY DEF Settled, Apart
<1>4. \A i \in 1 .. 3 : stops[i].at < stops[i + 1].at
  <2> SUFFICES ASSUME NEW i \in 1 .. 3 PROVE stops[i].at < stops[i + 1].at
      OBVIOUS
  <2>1. i \in Pegs /\ i + 1 \in Pegs /\ i + 1 # 1 /\ (i + 1) - 1 = i
    BY DEF Pegs
  <2>2. stops[i + 1].at \in After(stops[i].at) .. Ceiling[i + 1]
    BY <1>3, <2>1
  <2>3. After(stops[i].at) \in Nat /\ stops[i].at < After(stops[i].at)
    BY <1>2, <2>1, AfterIs
  <2>4. stops[i].at \in Nat /\ stops[i + 1].at \in Nat
    BY <1>2, <2>1 DEF Places
  <2> QED  BY <2>2, <2>3, <2>4
<1>5. \A i \in Pegs : Ahead(stops, i) = 1 .. i - 1
  <2>1. \A i \in Pegs : stops[i].at \in Nat
    BY <1>2 DEF Places
  <2>2. stops[1].at < stops[2].at /\ stops[2].at < stops[3].at /\ stops[3].at < stops[4].at
    BY <1>4
  <2>3. \A i, j \in Pegs : ComesBefore(stops, j, i) <=> j < i
    BY <2>1, <2>2 DEF ComesBefore, Pegs
  <2> QED  BY <2>3 DEF Ahead, Pegs
<1>6. \A i \in Pegs : Cardinality(Ahead(stops, i)) = i - 1
  <2> SUFFICES ASSUME NEW i \in Pegs PROVE Cardinality(Ahead(stops, i)) = i - 1
      OBVIOUS
  <2>1. Cardinality(1 .. i - 1) = i - 1
    <3>1. 1 \in Int /\ i - 1 \in Int /\ (IF 1 > i - 1 THEN 0 ELSE (i - 1) - 1 + 1) = i - 1
      BY DEF Pegs
    <3> QED  BY <3>1, FS_Interval
  <2> QED  BY <1>5, <2>1
<1>7. ByPosition(stops) = stops
  <2>1. \A k \in Pegs : (CHOOSE i \in Pegs : Cardinality(Ahead(stops, i)) = k - 1) = k
    <3> SUFFICES ASSUME NEW k \in Pegs PROVE (CHOOSE i \in Pegs : Cardinality(Ahead(stops, i)) = k - 1) = k
        OBVIOUS
    <3>1. \A i \in Pegs : Cardinality(Ahead(stops, i)) = k - 1 <=> i = k
      BY <1>6 DEF Pegs
    <3> QED  BY <3>1
  <2>2. ByPosition(stops) =
          [k \in Pegs |-> stops[CHOOSE i \in Pegs : Cardinality(Ahead(stops, i)) = k - 1]]
    BY Zenon DEF ByPosition, Ahead
  <2>3. ByPosition(stops) = [k \in Pegs |-> stops[k]]
    BY <2>1, <2>2, Zenon
  <2> QED  BY <1>1, <2>3 DEF Stops
<1>8. Placed(stops) = stops
  <2>1. PICK at : at = [i \in Pegs |-> LowAt(stops, at, i)] /\ Placed(stops) = MovedTo(stops, at)
    BY <1>1, PlacesExist
  <2>2. \A i \in Pegs : Ceiling[i] \in Nat /\ stops[i].at \in Nat
    BY <1>2, CeilingIs DEF Places
  <2>3. at[1] = stops[1].at
    BY <1>3, <2>1, <2>2 DEF LowAt, Clamped, Pegs
  <2>4. ASSUME NEW i \in 2 .. 4, at[i - 1] = stops[i - 1].at PROVE at[i] = stops[i].at
    <3>1. i \in Pegs /\ i # 1 /\ i - 1 \in Pegs
      BY DEF Pegs
    <3>2. After(stops[i - 1].at) \in Nat
      BY <1>2, <3>1, AfterIs
    <3>3. at[i] = Clamped(stops[i].at, After(stops[i - 1].at), Ceiling[i])
      BY <2>1, <2>4, <3>1 DEF LowAt
    <3>4. stops[i].at \in After(stops[i - 1].at) .. Ceiling[i]
      BY <1>3, <3>1
    <3> QED  BY <2>2, <3>1, <3>2, <3>3, <3>4 DEF Clamped
  <2>5. \A i \in Pegs : at[i] = stops[i].at
    <3>1. at[2] = stops[2].at
      BY <2>3, <2>4
    <3>2. at[3] = stops[3].at
      BY <3>1, <2>4
    <3>3. at[4] = stops[4].at
      BY <3>2, <2>4
    <3> QED  BY <2>3, <3>1, <3>2, <3>3 DEF Pegs
  <2>6. \A i \in Pegs : [stops[i] EXCEPT !.at = at[i]] = stops[i]
    BY <1>1, <2>5
  <2>7. MovedTo(stops, at) = [i \in Pegs |-> stops[i]]
    BY <2>6 DEF MovedTo
  <2> QED  BY <1>1, <2>1, <2>7
<1>9. t \in Themes
  BY DEF Settled
<1> QED  BY <1>7, <1>8, <1>9 DEF Normalized, Themes

LEMMA NormalizedIsKept ==
    ASSUME NEW t \in Strewn
    PROVE  Normalized(t) \in Settled
<1>1. t.stops \in Stops /\ ByPosition(t.stops) \in Stops
  BY SortedIsRow DEF Strewn, Stops
<1> DEFINE made == Placed(ByPosition(t.stops))
<1>2. /\ made \in [Pegs -> [at : Places, paint : Nat \X Nat]]
      /\ \A i \in Pegs : made[i].at \in (IF i = 1 THEN 0 ELSE After(made[i - 1].at)) .. Ceiling[i]
  BY <1>1, PlacedApart
<1>3. Normalized(t) = [t EXCEPT !.stops = made]
  BY DEF Normalized
<1> HIDE DEF made
<1>4. Normalized(t) \in Themes /\ Normalized(t).stops = made
  BY <1>2, <1>3 DEF Strewn, Themes
<1> QED  BY <1>2, <1>4 DEF Settled, Apart

Palettes == [scheme : Nat, paints : [Pegs -> Nat \X Nat]]
Libraries == {list \in Seq([name : StudioNames, theme : Settled]) : Acceptable(list)}

StudioTypes ==
  /\ theme \in Settled /\ sessionStart \in Settled \cup {NoTheme}
  /\ rolls \in Seq(Palettes) /\ library \in Libraries
  /\ revision \in Nat /\ edits \in Nat
  /\ stored \in [theme : Settled, library : Libraries]

(* What is shown is known and stored as soon as it may be edited, and the session
   starts when an open editor first may edit. *)
StudioInv ==
  /\ StudioTypes
  /\ canEdit => known = [theme |-> theme, revision |-> revision]
  /\ StoredIsShown
  /\ RevertsToOpening
  /\ sessionStart = NoTheme <=> ~(editorOpen /\ canEdit)

LEMMA NoThemeIsNone == NoTheme \notin Settled
<1>1. ASSUME NEW t \in Themes PROVE t # NoTheme
  <2>1. "stops" \in DOMAIN t
    BY DEF Themes
  <2>2. DOMAIN NoTheme = {}
    BY DEF NoTheme
  <2> QED  BY <2>1, <2>2
<1> QED  BY <1>1 DEF Settled

LEMMA SavedIsKept ==
    ASSUME NEW list \in Libraries
    PROVE  \A i \in DOMAIN list : list[i] \in [name : StudioNames, theme : Settled]
<1> DEFINE saved == [name : StudioNames, theme : Settled]
<1>1. list \in Seq(saved)
  BY DEF Libraries
<1> HIDE DEF saved
<1>2. \A i \in DOMAIN list : list[i] \in saved
  BY <1>1
<1> QED  BY <1>2 DEF saved

LEMMA LibraryStays ==
    ASSUME NEW list \in Libraries
    PROVE  EncodeLibrary(list) = list /\ LoadLibrary(list) = list
<1>1. \A i \in DOMAIN list : list[i] \in [name : StudioNames, theme : Settled]
  BY SavedIsKept
<1>2. \A i \in DOMAIN list : Normalized(list[i].theme) = list[i].theme
  BY <1>1, ApartStays
<1>3. \A i \in DOMAIN list : [list[i] EXCEPT !.theme = list[i].theme] = list[i]
  BY <1>1
<1>4. list = [i \in DOMAIN list |-> list[i]]
  BY DEF Libraries
<1> QED  BY <1>2, <1>3, <1>4, Zenon DEF EncodeLibrary, LoadLibrary, Encoded, Decoded

LEMMA StudioInvTells == StudioInv => ThemeIsKept
<1> SUFFICES ASSUME StudioInv PROVE ThemeIsKept
    OBVIOUS
<1>1. PegsApart
  BY DEF StudioInv, StudioTypes, Settled, Apart, PegsApart, After
<1>2. StoredReadsBack
  <2>1. Acceptable(stored.library)
    BY DEF StudioInv, StudioTypes, Libraries
  <2>2. LoadLibrary(stored.library) = stored.library
    BY LibraryStays DEF StudioInv, StudioTypes
  <2>3. Decoded(stored.theme) = stored.theme
    BY ApartStays DEF StudioInv, StudioTypes, Decoded
  <2> QED  BY <2>1, <2>2, <2>3 DEF StoredReadsBack
<1> QED  BY <1>1, <1>2 DEF StudioInv, ThemeIsKept

LEMMA DefaultIsKept == Default \in Settled
<1>1. /\ Third[1] \in Places /\ Third[2] \in Places /\ Third[3] \in Places /\ Third[4] \in Places
  BY SMT DEF Third, Places, One
<1>2. Third \in [Pegs -> Places]
  BY <1>1 DEF Third, Pegs
<1>3. Default \in Themes
  BY <1>2 DEF Default, Themes, Pegs
<1>4. \A i \in Pegs : Default.stops[i].at = Third[i]
  BY DEF Default
<1>5. After(Third[1]) <= Third[2] /\ After(Third[2]) <= Third[3] /\ After(Third[3]) <= Third[4]
  <2>1. /\ After(Third[1]) \in Nat /\ After(Third[1]) <= (Third[1] + Hundredth) + 128
        /\ After(Third[2]) \in Nat /\ After(Third[2]) <= (Third[2] + Hundredth) + 128
        /\ After(Third[3]) \in Nat /\ After(Third[3]) <= (Third[3] + Hundredth) + 128
    BY <1>1, AfterIs
  <2> QED  BY SMT, <2>1 DEF Third, Hundredth, One
<1>6. Apart(Default)
  <2> SUFFICES ASSUME NEW i \in Pegs
               PROVE  Third[i] \in (IF i = 1 THEN 0 ELSE After(Third[i - 1])) .. Ceiling[i]
      BY <1>4 DEF Apart, Pegs
  <2>1. Ceiling[i] \in Nat /\ Third[i] <= Ceiling[i] /\ Third[i] \in Nat
    BY <1>2, CeilingIs DEF Places
  <2>2. i # 1 => After(Third[i - 1]) \in Nat /\ After(Third[i - 1]) <= Third[i]
    <3>1. i = 1 \/ i = 2 \/ i = 3 \/ i = 4
      BY DEF Pegs
    <3>2. After(Third[1]) \in Nat /\ After(Third[2]) \in Nat /\ After(Third[3]) \in Nat
      BY <1>1, AfterIs
    <3> HIDE DEF Third
    <3> QED  BY <1>5, <3>1, <3>2
  <2> QED  BY <2>1, <2>2
<1> QED  BY <1>3, <1>6 DEF Settled

LEMMA KeptIsStrewn == \A t \in Settled : t \in Themes /\ t \in Strewn
<1>1. Places \subseteq Nat
  BY DEF Places
<1> QED  BY <1>1 DEF Settled, Themes, Strewn

LEMMA StudioInitInv == StudioInit => StudioInv
<1> SUFFICES ASSUME StudioInit PROVE StudioInv
    OBVIOUS
<1>1. <<>> \in Libraries
  BY StudioAssumption DEF Libraries, Acceptable
<1>2. <<>> \in Seq(Palettes)
  OBVIOUS
<1>3. StudioTypes
  BY <1>1, <1>2, DefaultIsKept DEF StudioInit, StudioTypes
<1> QED  BY <1>3 DEF StudioInit, StudioInv, StoredIsShown, RevertsToOpening

(* Every edit ends in the normalisation, and what differs is stored. *)
LEMMA EditStep ==
    ASSUME StudioInv, NEW t \in Strewn, NEW list \in Libraries, NEW rev \in Nat,
           NEW palettes \in Seq(Palettes), rev = revision => list = library,
           Edit(t, list, rev, palettes), edits' \in Nat
    PROVE  StudioInv'
<1>1. /\ running /\ editorOpen /\ canEdit
      /\ theme' = Normalized(t) /\ library' = list /\ revision' = rev /\ rolls' = palettes
      /\ Capture(theme', list, rev)
      /\ sessionStart' = BaselineOf(TRUE, TRUE, theme)
      /\ editorOpen' = editorOpen /\ canEdit' = canEdit /\ openedWith' = openedWith
  BY Zenon DEF Edit
<1>2. theme' \in Settled
  BY <1>1, NormalizedIsKept
<1>3. sessionStart' = sessionStart /\ sessionStart' # NoTheme
  BY <1>1 DEF BaselineOf, StudioInv
<1>4. stored' = [theme |-> theme', library |-> list] /\ known' = [theme |-> theme', revision |-> rev]
  <2>1. CASE theme' # known.theme \/ rev # known.revision
    <3>1. stored' = [theme |-> Encoded(theme'), library |-> EncodeLibrary(list)]
          /\ known' = [theme |-> theme', revision |-> rev]
      BY <1>1, <2>1, Zenon DEF Capture
    <3>2. Encoded(theme') = theme'
      BY <1>2, ApartStays DEF Encoded
    <3> QED  BY <3>1, <3>2, LibraryStays
  <2>2. CASE theme' = known.theme /\ rev = known.revision
    <3>1. stored' = stored /\ known' = known
      BY <1>1, <2>2, Zenon DEF Capture
    <3>2. known = [theme |-> theme, revision |-> revision] /\ stored = [theme |-> theme, library |-> library]
      BY <1>1 DEF StudioInv, StoredIsShown
    <3> QED  BY <2>2, <3>1, <3>2
  <2> QED  BY <2>1, <2>2
<1>5. StudioTypes'
  BY <1>1, <1>2, <1>3, <1>4 DEF StudioTypes, StudioInv
<1> QED  BY <1>1, <1>3, <1>4, <1>5 DEF StudioInv, StoredIsShown, RevertsToOpening

LEMMA ThemeEditStep ==
    ASSUME StudioInv, NEW t \in Strewn, EditTheme(t), edits' \in Nat
    PROVE  StudioInv'
BY EditStep DEF EditTheme, StudioInv, StudioTypes

LEMMA EditsAreCounted == StudioInv /\ (NewEdit \/ UNCHANGED edits) => edits' \in Nat
BY DEF StudioInv, StudioTypes, NewEdit

(* What may be asked of a peg, or reckoned for it, is a number. *)
LEMMA PlacesAreNumbers ==
    ASSUME NEW a \in Places
    PROVE  /\ \A k \in StudioPercents : Percent(k) \in Nat
           /\ \A by \in {Hundredth, FiveHundredths} : Plus(a, by) \in Nat /\ Minus(a, by) \in Nat
           /\ Minus(One, a) \in Nat
<1>1. \A n \in F32Sums, h \in 0 .. 99 : Nearest(n, h) \in Nat
  BY NearestIs
<1>2. ASSUME NEW k \in StudioPercents PROVE Percent(k) \in Nat
  <2>1. k \in 1 .. 100
    BY StudioAssumption
  <2>2. k * Hundredth + (k * 24) \div 100 \in F32Sums
    BY SMT, <2>1 DEF F32Sums, One, Hundredth, FiveHundredths
  <2>3. (k * 24) % 100 \in 0 .. 99
    BY <2>1
  <2> QED  BY <1>1, <2>2, <2>3, Zenon DEF Percent
<1>3. ASSUME NEW by \in {Hundredth, FiveHundredths}
      PROVE  Plus(a, by) \in Nat /\ Minus(a, by) \in Nat
  <2>1. a + by \in F32Sums /\ a \in Nat /\ by \in Nat
    BY SMT DEF Places, F32Sums, One, Hundredth, FiveHundredths
  <2>2. a >= by => a - by \in F32Sums
    BY SMT, <2>1 DEF Places, F32Sums, One, FiveHundredths
  <2>3. 0 \in 0 .. 99
    OBVIOUS
  <2>4. Plus(a, by) \in Nat
    BY <1>1, <2>1, <2>3, Zenon DEF Plus
  <2>5. CASE a < by
    BY <2>4, <2>5 DEF Minus
  <2>6. CASE a >= by
    <3>1. Nearest(a - by, 0) \in Nat
      BY <1>1, <2>2, <2>3, <2>6
    <3> QED  BY <2>1, <2>4, <2>6, <3>1 DEF Minus
  <2> QED  BY <2>1, <2>5, <2>6
<1>4. Minus(One, a) \in Nat
  <2>1. ~(One < a) /\ One - a \in F32Sums /\ 0 \in 0 .. 99
    BY SMT DEF Places, F32Sums, One, FiveHundredths
  <2> QED  BY <1>1, <2>1, Zenon DEF Minus
<1> QED  BY <1>2, <1>3, <1>4

LEMMA MovedIsStrewn ==
    ASSUME NEW t \in Settled, NEW i \in Pegs, NEW at \in Targets(t, i)
    PROVE  MoveStop(t, i, at) \in Strewn
<1>1. t \in Themes /\ t \in Strewn /\ \A j \in Pegs : t.stops[j].at \in Places /\ t.stops[j].at \in Nat
  <2>1. t \in Themes /\ t \in Strewn
    BY KeptIsStrewn
  <2> QED  BY <2>1 DEF Themes, Strewn
<1>2. at \in Nat
  BY <1>1, PlacesAreNumbers DEF Targets
<1>3. Lowest(t, i) \in Nat
  <2>1. i # 1 => i - 1 \in Pegs
    BY DEF Pegs
  <2> QED  BY <1>1, <2>1, PlacesAreNumbers DEF Lowest
<1>4. Highest(t, i) \in Nat
  <2>1. i # 4 => i + 1 \in Pegs
    BY DEF Pegs
  <2>2. One \in Nat
    BY SMT DEF One
  <2> QED  BY <1>1, <2>1, <2>2, PlacesAreNumbers DEF Highest
<1>5. Clamped(at, Lowest(t, i), Highest(t, i)) \in Nat
  BY <1>2, <1>3, <1>4 DEF Clamped
<1> QED  BY <1>1, <1>5 DEF MoveStop, Strewn

LEMMA MovePegStep == ASSUME StudioInv, MovePeg PROVE StudioInv'
<1>1. PICK i \in Pegs : \E at \in Targets(theme, i) :
        Movable(theme, i) /\ NewEdit /\ EditTheme(MoveStop(theme, i, at))
  BY DEF MovePeg
<1> PICK at \in Targets(theme, i) : NewEdit /\ EditTheme(MoveStop(theme, i, at))
  BY <1>1
<1>2. MoveStop(theme, i, at) \in Strewn
  BY MovedIsStrewn DEF StudioInv, StudioTypes
<1> QED  BY <1>2, ThemeEditStep, EditsAreCounted

LEMMA ReversePegsStep == ASSUME StudioInv, ReversePegs PROVE StudioInv'
<1>1. theme \in Themes /\ theme \in Strewn
  BY KeptIsStrewn DEF StudioInv, StudioTypes
<1>2. \A i \in Pegs : 5 - i \in Pegs
  BY DEF Pegs
<1>3. \A i \in Pegs : theme.stops[5 - i] \in [at : Places, paint : Nat \X Nat]
  BY <1>1, <1>2 DEF Themes
<1>4. \A i \in Pegs : Minus(One, theme.stops[5 - i].at) \in Nat
  BY <1>3, PlacesAreNumbers
<1>5. \A i \in Pegs : [theme.stops[5 - i] EXCEPT !.at = Minus(One, @)] \in [at : Nat, paint : Nat \X Nat]
  BY <1>3, <1>4
<1>6. [i \in Pegs |-> [theme.stops[5 - i] EXCEPT !.at = Minus(One, @)]] \in [Pegs -> [at : Nat, paint : Nat \X Nat]]
  BY <1>5
<1>7. ReverseGradient(theme) \in Strewn
  BY <1>1, <1>6 DEF ReverseGradient, Strewn
<1> QED  BY <1>7, ThemeEditStep, EditsAreCounted DEF ReversePegs

LEMMA EvenSpacingStep == ASSUME StudioInv, EvenSpacing PROVE StudioInv'
<1>1. theme \in Themes /\ theme \in Strewn
  BY KeptIsStrewn DEF StudioInv, StudioTypes
<1>2. \A i \in Pegs : Third[i] \in Nat
  BY SMT DEF Third, Pegs, One
<1>3. EvenlySpace(theme) \in Strewn
  BY <1>1, <1>2 DEF EvenlySpace, Strewn
<1> QED  BY <1>3, ThemeEditStep, EditsAreCounted DEF EvenSpacing

LEMMA ImportStep == ASSUME StudioInv, Import PROVE StudioInv'
<1>1. PICK at \in [Pegs -> StudioPercents] :
        NewEdit /\ EditTheme(Decoded([Default EXCEPT !.stops = [i \in Pegs |-> [@[i] EXCEPT !.at = Percent(at[i])]]]))
  BY DEF Import
<1> DEFINE text == [Default EXCEPT !.stops = [i \in Pegs |-> [@[i] EXCEPT !.at = Percent(at[i])]]]
<1>2. Default \in Strewn
  BY DefaultIsKept, KeptIsStrewn
<1>3. \A i \in Pegs : Percent(at[i]) \in Nat
  <2>1. 0 \in Places
    BY SMT DEF Places, One
  <2> QED  BY <2>1, PlacesAreNumbers
<1>4. text \in Strewn
  <2>1. \A i \in Pegs : Default.stops[i] \in [at : Nat, paint : Nat \X Nat]
    BY <1>2 DEF Strewn
  <2>2. \A i \in Pegs : [Default.stops[i] EXCEPT !.at = Percent(at[i])] \in [at : Nat, paint : Nat \X Nat]
    BY <1>3, <2>1
  <2> QED  BY <1>2, <2>2 DEF Strewn
<1> HIDE DEF text
<1>5. Decoded(text) \in Strewn
  BY <1>4, NormalizedIsKept, KeptIsStrewn DEF Decoded
<1> QED  BY <1>1, <1>5, ThemeEditStep, EditsAreCounted DEF text

LEMMA PaintedIsStrewn ==
    ASSUME NEW t \in Strewn, NEW paints \in [Pegs -> Nat \X Nat], NEW scheme \in Nat
    PROVE  [t EXCEPT !.scheme = scheme, !.stops = Painted(t, paints)] \in Strewn
<1>1. \A i \in Pegs : [t.stops[i] EXCEPT !.paint = paints[i]] \in [at : Nat, paint : Nat \X Nat]
  BY DEF Strewn
<1>2. Painted(t, paints) \in [Pegs -> [at : Nat, paint : Nat \X Nat]]
  BY <1>1 DEF Painted
<1> QED  BY <1>2 DEF Strewn

LEMMA RandomizeStep == ASSUME StudioInv, Randomize PROVE StudioInv'
<1> DEFINE roll == edits + 1
           paints == [i \in Pegs |-> theme.stops[i].paint]
           palette == [scheme |-> theme.scheme, paints |-> paints]
           next == [theme EXCEPT !.scheme = roll, !.stops = Painted(theme, [i \in Pegs |-> <<roll, i>>])]
           palettes == Append(IF Len(rolls) = MaxSaved THEN Tail(rolls) ELSE rolls, palette)
<1>1. NewEdit /\ Edit(next, library, revision, palettes)
  BY Zenon DEF Randomize
<1>2. theme \in Themes /\ theme \in Strewn
  BY KeptIsStrewn DEF StudioInv, StudioTypes
<1>3. roll \in Nat /\ edits' \in Nat
  BY <1>1, EditsAreCounted DEF StudioInv, StudioTypes
<1>4. next \in Strewn
  <2>1. [i \in Pegs |-> <<roll, i>>] \in [Pegs -> Nat \X Nat]
    BY <1>3 DEF Pegs
  <2> HIDE DEF roll
  <2> QED  BY <1>2, <1>3, <2>1, PaintedIsStrewn
<1>5. palette \in Palettes
  BY <1>2 DEF Palettes, Strewn
<1>6. palettes \in Seq(Palettes)
  <2>1. rolls \in Seq(Palettes)
    BY DEF StudioInv, StudioTypes
  <2>2. (IF Len(rolls) = MaxSaved THEN Tail(rolls) ELSE rolls) \in Seq(Palettes)
    <3>1. Len(rolls) = MaxSaved => rolls # <<>>
      BY <2>1, StudioAssumption
    <3> QED  BY <2>1, <3>1
  <2> HIDE DEF palette
  <2> QED  BY <1>5, <2>2
<1> HIDE DEF next, palettes
<1> QED  BY <1>1, <1>3, <1>4, <1>6, EditStep DEF StudioInv, StudioTypes

LEMMA UndoRollStep == ASSUME StudioInv, UndoRoll PROVE StudioInv'
<1> DEFINE next == [theme EXCEPT !.scheme = Last(rolls).scheme, !.stops = Painted(theme, Last(rolls).paints)]
<1>1. rolls # <<>> /\ UNCHANGED edits /\ Edit(next, library, revision, Front(rolls))
  BY Zenon DEF UndoRoll
<1>2. theme \in Strewn
  BY KeptIsStrewn DEF StudioInv, StudioTypes
<1>3. rolls \in Seq(Palettes)
  BY DEF StudioInv, StudioTypes
<1>4. Last(rolls) \in Palettes /\ Front(rolls) \in Seq(Palettes)
  BY <1>1, <1>3 DEF Last, Front
<1>5. next \in Strewn
  <2>1. Last(rolls).scheme \in Nat /\ Last(rolls).paints \in [Pegs -> Nat \X Nat]
    BY <1>4 DEF Palettes
  <2> QED  BY <1>2, <2>1, PaintedIsStrewn
<1> HIDE DEF next
<1> QED  BY <1>1, <1>4, <1>5, EditStep, EditsAreCounted DEF StudioInv, StudioTypes

LEMMA ChangeLayoutStep == ASSUME StudioInv, ChangeLayout PROVE StudioInv'
<1>1. theme \in Strewn
  BY KeptIsStrewn DEF StudioInv, StudioTypes
<1>2. [theme EXCEPT !.layout = 1 - @] \in Strewn
  BY <1>1 DEF Strewn
<1> QED  BY <1>2, ThemeEditStep, EditsAreCounted DEF ChangeLayout

LEMMA ReturnSteps ==
    ASSUME StudioInv, ResetTheme \/ RevertSession \/ LoadSaved
    PROVE  StudioInv'
<1>1. CASE ResetTheme
  BY <1>1, DefaultIsKept, KeptIsStrewn, ThemeEditStep, EditsAreCounted DEF ResetTheme
<1>2. CASE RevertSession
  <2>1. (IF sessionStart = NoTheme THEN Default ELSE sessionStart) \in Settled
    BY DefaultIsKept DEF StudioInv, StudioTypes
  <2> QED  BY <1>2, <2>1, KeptIsStrewn, ThemeEditStep, EditsAreCounted DEF RevertSession
<1>3. CASE LoadSaved
  <2>1. PICK i \in DOMAIN library : UNCHANGED edits /\ EditTheme(library[i].theme)
    BY <1>3 DEF LoadSaved
  <2>2. library[i].theme \in Settled
    <3>1. library[i] \in [name : StudioNames, theme : Settled]
      BY SavedIsKept DEF StudioInv, StudioTypes
    <3> QED  BY <3>1
  <2> QED  BY <2>1, <2>2, KeptIsStrewn, ThemeEditStep, EditsAreCounted
<1> QED  BY <1>1, <1>2, <1>3

LEMMA OpenEditorStep == ASSUME StudioInv, OpenEditor PROVE StudioInv'
<1>1. StudioTypes' /\ (theme # NoTheme)
  BY NoThemeIsNone DEF OpenEditor, StudioInv, StudioTypes, BaselineOf
<1> QED  BY <1>1 DEF OpenEditor, StudioInv, BaselineOf, StoredIsShown, RevertsToOpening

LEMMA CloseEditorStep == ASSUME StudioInv, CloseEditor PROVE StudioInv'
<1>1. StudioTypes'
  BY DEF CloseEditor, StudioInv, StudioTypes
<1> QED  BY <1>1 DEF CloseEditor, StudioInv, StoredIsShown, RevertsToOpening

LEMMA LoadSettingsStep == ASSUME StudioInv, LoadSettings PROVE StudioInv'
<1>1. stored.theme \in Settled /\ stored.library \in Libraries
  BY DEF StudioInv, StudioTypes
<1>2. theme' = stored.theme
  BY <1>1, ApartStays DEF LoadSettings, Decoded
<1>3. library' = stored.library /\ revision' = revision + 1
  <2>1. Acceptable(stored.library)
    BY <1>1 DEF Libraries
  <2> QED  BY <1>1, <2>1, LibraryStays DEF LoadSettings
<1>4. sessionStart' = openedWith'
  BY DEF LoadSettings, BaselineOf, StudioInv
<1>5. theme' # NoTheme
  BY <1>1, <1>2, NoThemeIsNone
<1>6. sessionStart' = IF editorOpen THEN theme' ELSE NoTheme
  BY DEF LoadSettings, BaselineOf, StudioInv
<1>7. StudioTypes'
  <2>1. theme' \in Settled /\ library' \in Libraries /\ sessionStart' \in Settled \cup {NoTheme}
    BY <1>1, <1>2, <1>3, <1>6
  <2>2. revision' \in Nat
    BY <1>3 DEF StudioInv, StudioTypes
  <2>3. rolls' = rolls /\ edits' = edits /\ stored' = stored
    BY DEF LoadSettings
  <2> QED  BY <2>1, <2>2, <2>3 DEF StudioInv, StudioTypes
<1>8. stored' = [theme |-> theme', library |-> library']
  <2>1. stored = [theme |-> stored.theme, library |-> stored.library]
    BY DEF StudioInv, StudioTypes
  <2> QED  BY <1>2, <1>3, <2>1 DEF LoadSettings
<1>9. known' = [theme |-> theme', revision |-> revision'] /\ canEdit' /\ editorOpen' = editorOpen
  BY DEF LoadSettings
<1> QED  BY <1>4, <1>5, <1>6, <1>7, <1>8, <1>9 DEF StudioInv, StoredIsShown, RevertsToOpening

LEMMA StartAgainStep == ASSUME StudioInv, StartAgain PROVE StudioInv'
<1>1. <<>> \in Libraries
  BY StudioAssumption DEF Libraries, Acceptable
<1>2. StudioTypes'
  BY <1>1, DefaultIsKept DEF StartAgain, StudioInv, StudioTypes
<1> QED  BY <1>2 DEF StartAgain, StudioInv, StoredIsShown, RevertsToOpening

(* A library whose names differ and that has room: with a row replaced, a new one or without one. *)
LEMMA SaveNamedStep == ASSUME StudioInv, SaveNamed PROVE StudioInv'
<1>1. PICK name \in StudioNames :
        LET named == {i \in DOMAIN library : library[i].name = name}
            row == [name |-> name, theme |-> Normalized(theme)]
        IN  /\ NewEdit
            /\ named # {} \/ Len(library) < MaxSaved
            /\ Edit(theme, IF named # {} THEN [i \in DOMAIN library |-> IF i \in named THEN row ELSE library[i]]
                           ELSE Append(library, row),
                    revision + 1, rolls)
  BY Zenon DEF SaveNamed
<1> DEFINE named == {i \in DOMAIN library : library[i].name = name}
           row == [name |-> name, theme |-> Normalized(theme)]
           replaced == [i \in DOMAIN library |-> IF i \in named THEN row ELSE library[i]]
           list == IF named # {} THEN replaced ELSE Append(library, row)
           saved == [name : StudioNames, theme : Settled]
<1>2. NewEdit /\ (named # {} \/ Len(library) < MaxSaved) /\ Edit(theme, list, revision + 1, rolls)
  BY <1>1, Zenon
<1>3. theme \in Strewn /\ library \in Seq(saved) /\ Acceptable(library)
  BY KeptIsStrewn DEF StudioInv, StudioTypes, Libraries
<1>4. row \in saved /\ row.name = name
  BY <1>3, NormalizedIsKept
<1>5. \A i \in DOMAIN library : library[i] \in saved
  BY SavedIsKept DEF StudioInv, StudioTypes
<1> HIDE DEF row, saved
<1>6. Len(library) \in Nat /\ DOMAIN library = 1 .. Len(library) /\ Len(library) <= MaxSaved
  BY <1>3 DEF Acceptable
<1>7. list \in Seq(saved) /\ Acceptable(list)
  <2>1. CASE named # {}
    <3>1. replaced \in [1 .. Len(library) -> saved]
      BY <1>4, <1>5, <1>6
    <3>2. replaced \in Seq(saved) /\ Len(replaced) = Len(library) /\ DOMAIN replaced = DOMAIN library
      BY <1>6, <3>1
    <3>3. \A i \in DOMAIN library : replaced[i].name = library[i].name
      BY <1>4
    <3> HIDE DEF replaced
    <3>4. Acceptable(replaced)
      BY <1>3, <1>6, <3>2, <3>3 DEF Acceptable
    <3> QED  BY <2>1, <3>2, <3>4
  <2>2. CASE named = {}
    <3> DEFINE more == Append(library, row)
    <3>1. more \in Seq(saved) /\ Len(more) = Len(library) + 1 /\ DOMAIN more = 1 .. Len(library) + 1
      BY <1>3, <1>4
    <3>2. \A i \in 1 .. Len(library) : more[i] = library[i] /\ more[i].name # name
      BY <1>3, <1>4, <1>6, <2>2
    <3>3. more[Len(library) + 1] = row
      BY <1>3, <1>4
    <3> HIDE DEF more
    <3>4. \A i, j \in DOMAIN more : i # j => more[i].name # more[j].name
      <4> SUFFICES ASSUME NEW i \in DOMAIN more, NEW j \in DOMAIN more, i # j
                   PROVE  more[i].name # more[j].name
          OBVIOUS
      <4>1. CASE i \in DOMAIN library /\ j \in DOMAIN library
        BY <1>3, <1>6, <3>2, <4>1 DEF Acceptable
      <4>2. CASE i \notin DOMAIN library
        <5>1. i = Len(library) + 1 /\ j \in 1 .. Len(library)
          BY <1>6, <3>1, <4>2
        <5> QED  BY <1>4, <3>2, <3>3, <5>1
      <4>3. CASE j \notin DOMAIN library
        <5>1. j = Len(library) + 1 /\ i \in 1 .. Len(library)
          BY <1>6, <3>1, <4>3
        <5> QED  BY <1>4, <3>2, <3>3, <5>1
      <4> QED  BY <4>1, <4>2, <4>3
    <3>5. Len(more) <= MaxSaved
      BY <1>2, <1>6, <2>2, <3>1, StudioAssumption
    <3>6. Acceptable(more)
      BY <3>4, <3>5, Zenon DEF Acceptable
    <3> QED  BY <2>2, <3>1, <3>6 DEF more
  <2> QED  BY <2>1, <2>2
<1> HIDE DEF list
<1>8. list \in Libraries
  BY <1>7 DEF Libraries, saved
<1>9. revision + 1 \in Nat /\ revision + 1 # revision /\ rolls \in Seq(Palettes)
  BY DEF StudioInv, StudioTypes
<1>10. edits' \in Nat
  BY <1>2, EditsAreCounted
<1> QED  BY <1>2, <1>3, <1>8, <1>9, <1>10, EditStep

LEMMA DeleteSavedStep == ASSUME StudioInv, DeleteSaved PROVE StudioInv'
<1>1. PICK d \in DOMAIN library : UNCHANGED edits /\ Edit(theme, RemoveAt(library, d), revision + 1, rolls)
  BY DEF DeleteSaved
<1> DEFINE saved == [name : StudioNames, theme : Settled]
           list == RemoveAt(library, d)
<1>2. theme \in Strewn /\ library \in Seq(saved) /\ Acceptable(library)
  BY KeptIsStrewn DEF StudioInv, StudioTypes, Libraries
<1> HIDE DEF saved
<1>3. d \in 1 .. Len(library) /\ Len(library) \in Nat
  BY <1>2
<1>4. list \in Seq(saved) /\ Len(list) = Len(library) - 1
  BY <1>2, <1>3 DEF RemoveAt
<1>5. ASSUME NEW i \in 1 .. Len(library) - 1 PROVE list[i] = library[IF i < d THEN i ELSE i + 1]
  <2> DEFINE left == SubSeq(library, 1, d - 1)
             right == SubSeq(library, d + 1, Len(library))
  <2>1. /\ left \in Seq(saved) /\ Len(left) = d - 1
        /\ \A j \in 1 .. d - 1 : left[j] = library[j]
    BY <1>2, <1>3
  <2>2. /\ right \in Seq(saved) /\ Len(right) = Len(library) - d
        /\ \A j \in 1 .. Len(library) - d : right[j] = library[d + j]
    BY <1>2, <1>3
  <2>3. list = left \o right
    BY DEF RemoveAt
  <2> HIDE DEF left, right, list
  <2>4. CASE i < d
    BY <1>3, <2>1, <2>2, <2>3, <2>4
  <2>5. CASE i >= d
    <3>1. list[i] = right[i - (d - 1)]
      BY <1>3, <2>1, <2>2, <2>3, <2>5
    <3>2. i - (d - 1) \in 1 .. Len(library) - d /\ d + (i - (d - 1)) = i + 1
      BY <1>3, <2>5
    <3> QED  BY <1>3, <2>2, <2>5, <3>1, <3>2
  <2> QED  BY <1>3, <2>4, <2>5
<1>6. Acceptable(list)
  <2>1. DOMAIN list = 1 .. Len(library) - 1
    BY <1>3, <1>4
  <2> HIDE DEF list
  <2>2. Len(list) <= MaxSaved
    BY <1>2, <1>3, <1>4, StudioAssumption DEF Acceptable
  <2>3. \A i, j \in DOMAIN list : i # j => list[i].name # list[j].name
    <3> SUFFICES ASSUME NEW i \in 1 .. Len(library) - 1, NEW j \in 1 .. Len(library) - 1, i # j
                 PROVE  list[i].name # list[j].name
        BY <2>1
    <3> DEFINE p == IF i < d THEN i ELSE i + 1
               q == IF j < d THEN j ELSE j + 1
    <3>1. p \in DOMAIN library /\ q \in DOMAIN library /\ p # q
      BY <1>2, <1>3
    <3>2. list[i] = library[p] /\ list[j] = library[q]
      BY <1>5
    <3> HIDE DEF p, q
    <3> QED  BY <1>2, <3>1, <3>2 DEF Acceptable
  <2> QED  BY <2>2, <2>3, Zenon DEF Acceptable
<1> HIDE DEF list
<1>7. list \in Libraries
  BY <1>4, <1>6 DEF Libraries, saved
<1>8. revision + 1 \in Nat /\ revision + 1 # revision /\ rolls \in Seq(Palettes)
  BY DEF StudioInv, StudioTypes
<1>9. edits' \in Nat
  BY <1>1, EditsAreCounted
<1> QED  BY <1>1, <1>2, <1>7, <1>8, <1>9, EditStep DEF list

LEMMA StudioInvKept == StudioInv /\ [StudioNext]_studioVars => StudioInv'
<1> SUFFICES ASSUME StudioInv, [StudioNext]_studioVars PROVE StudioInv'
    OBVIOUS
<1>1. CASE UNCHANGED studioVars
  BY <1>1 DEF studioVars, StudioInv, StudioTypes, StoredIsShown, RevertsToOpening
<1>2. CASE MovePanics
  BY <1>2 DEF MovePanics, StudioInv, StudioTypes, StoredIsShown, RevertsToOpening
<1> QED  BY <1>1, <1>2, OpenEditorStep, CloseEditorStep, LoadSettingsStep, StartAgainStep, MovePegStep,
         ReversePegsStep, EvenSpacingStep, ImportStep, RandomizeStep, UndoRollStep, ChangeLayoutStep,
         ReturnSteps, SaveNamedStep, DeleteSavedStep DEF StudioNext

\* Whatever is edited, the pegs are in order and apart, what is shown is what is stored
\* and is read back unchanged, and Revert session returns to the opening theme
\* (theme/gradient.rs:19, theme_studio.rs:52, 543-575).
THEOREM ThemesAreKept == StudioSpec => []ThemeIsKept
BY StudioInitInv, StudioInvKept, StudioInvTells, PTL DEF StudioSpec

-----------------------------------------------------------------------------
(* All of them together: a behaviour runs one component and the others rest. *)

SnapshotsInv ==
  /\ IconInv /\ DiskInv /\ ClockInv /\ SensorPagesInv /\ ReportInv
  /\ part = "adapters" => AdapterInv
  /\ part # "adapters" => DOMAIN adapterRows = {}
  /\ part = "sensors" => PlotInv
  /\ part # "sensors" => DOMAIN sensorHistory = {}

LEMMA SnapshotsInitInv == SnapshotsInit => SnapshotsInv
<1> SUFFICES ASSUME SnapshotsInit PROVE SnapshotsInv
    OBVIOUS
<1>1. IconInv /\ DiskInv /\ ClockInv /\ SensorPagesInv
  BY IconInitInv, DiskInitInv, ClockInitInv, SensorPagesInitInv DEF SnapshotsInit
<1>2. ReportInv
  <2>1. CASE part = "report"
    BY <2>1, ReportInitInv DEF SnapshotsInit
  <2>2. CASE part # "report"
    BY <2>2, RestingReportInv DEF SnapshotsInit
  <2> QED  BY <2>1, <2>2
<1>3. AdapterInv /\ PlotInv
  BY AdapterInitInv, PlotInitInv DEF SnapshotsInit
<1>4. DOMAIN adapterRows = {} /\ DOMAIN sensorHistory = {}
  BY DEF SnapshotsInit, GpuInit
<1> QED  BY <1>1, <1>2, <1>3, <1>4 DEF SnapshotsInv

\* Whatever runs, a component takes a step of its own or rests.
LEMMA EachStepsOrRests ==
    ASSUME [SnapshotsNext]_snapshotsVars
    PROVE  /\ UNCHANGED part
           /\ [IconNext]_iconVars /\ [DiskNext]_diskVars /\ [Refresh]_clockVars
           /\ [ReportNext]_reportVars /\ [BridgeNext \/ DriveNext]_sensorPageVars
           /\ part = "adapters" => [NextAdapters]_deviceVars
           /\ part = "sensors" => [NextSensors]_deviceVars
           /\ part \notin {"adapters", "sensors"} => UNCHANGED deviceVars
<1>1. CASE UNCHANGED snapshotsVars
  BY <1>1 DEF snapshotsVars
<1>2. ASSUME Only("hotkey", KeyNext) \/ Only("inventory", InventoryNext) \/ Only("sampling", SamplingNext)
             \/ Only("graphs", GraphNext) \/ Only("export", ExportNext) \/ Only("failures", LogNext)
             \/ Only("graphics", GraphicsNext) \/ Only("studio", StudioNext)
      PROVE  /\ UNCHANGED <<part, iconVars, diskVars, clockVars, reportVars, sensorPageVars, deviceVars>>
             /\ part \notin {"adapters", "sensors"}
  BY <1>2 DEF Only
<1>3. CASE Only("report", ReportNext)
  BY <1>3 DEF Only
<1>4. CASE Only("icons", IconNext)
  BY <1>4 DEF Only
<1>5. CASE Only("disks", DiskNext)
  BY <1>5 DEF Only
<1>6. CASE Only("clocks", Refresh)
  BY <1>6 DEF Only
<1>7. CASE Only("adapters", NextAdapters)
  BY <1>7 DEF Only
<1>8. CASE Only("sensors", NextSensors)
  BY <1>8 DEF Only
<1>9. CASE Only("bridge", BridgeNext) \/ Only("drivepages", DriveNext)
  BY <1>9 DEF Only
<1> QED  BY <1>1, <1>2, <1>3, <1>4, <1>5, <1>6, <1>7, <1>8, <1>9 DEF SnapshotsNext

LEMMA SnapshotsInvKept == SnapshotsInv /\ [SnapshotsNext]_snapshotsVars => SnapshotsInv'
<1> SUFFICES ASSUME SnapshotsInv, [SnapshotsNext]_snapshotsVars PROVE SnapshotsInv'
    OBVIOUS
<1>1. IconInv' /\ DiskInv' /\ ClockInv' /\ ReportInv' /\ SensorPagesInv'
  BY EachStepsOrRests, IconInvKept, DiskInvKept, ClockInvKept, ReportInvKept, SensorPagesInvKept
     DEF SnapshotsInv
<1>2. ASSUME part = "adapters" PROVE AdapterInv' /\ DOMAIN sensorHistory' = {}
  <2>1. AdapterInv /\ [NextAdapters]_deviceVars /\ DOMAIN sensorHistory = {}
    BY <1>2, EachStepsOrRests DEF SnapshotsInv
  <2>2. UNCHANGED sensorVars
    BY <2>1 DEF NextAdapters, deviceVars
  <2> QED  BY <2>1, <2>2, AdapterInvKept DEF sensorVars
<1>3. ASSUME part = "sensors" PROVE PlotInv' /\ DOMAIN adapterRows' = {}
  <2>1. PlotInv /\ [NextSensors]_deviceVars /\ DOMAIN adapterRows = {}
    BY <1>3, EachStepsOrRests DEF SnapshotsInv
  <2>2. UNCHANGED adapterVars
    BY <2>1 DEF NextSensors, deviceVars
  <2> QED  BY <2>1, <2>2, PlotInvKept DEF adapterVars
<1>4. ASSUME part \notin {"adapters", "sensors"}
      PROVE  DOMAIN adapterRows' = {} /\ DOMAIN sensorHistory' = {}
  BY <1>4, EachStepsOrRests DEF SnapshotsInv, deviceVars, adapterVars, sensorVars
<1>5. part' = part
  BY EachStepsOrRests
<1> QED  BY <1>1, <1>2, <1>3, <1>4, <1>5 DEF SnapshotsInv

\* A rate of a disk or a processor's clock is of one whole interval between two
\* readings, and live only while it is of the last one (disk_activity.rs 222-286,
\* cpu_clock.rs 59-183).
THEOREM RatesAreMeasured == SnapshotsSpec => []MeasuredOverOneInterval
<1>1. SnapshotsInv => MeasuredOverOneInterval
  BY DiskInvMeasures, ClockInvMeasures DEF SnapshotsInv, MeasuredOverOneInterval
<1> QED  BY <1>1, SnapshotsInitInv, SnapshotsInvKept, PTL DEF SnapshotsSpec

\* A sensor's figure in what is published and on the pages is recent or is marked
\* (gpu_adapters.rs, gpu_sensors.rs, specs/bridge.rs, app/sensors.rs).
THEOREM FiguresAreDated == SnapshotsSpec => []ReadingsAreDated
<1>1. SnapshotsInv => ReadingsAreDated
  <2> SUFFICES ASSUME SnapshotsInv PROVE ReadingsAreDated
      OBVIOUS
  <2>1. AdapterFiguresCurrent
    <3>1. CASE part = "adapters"
      BY <3>1 DEF SnapshotsInv, AdapterInv
    <3>2. CASE part # "adapters"
      <4>1. DOMAIN adapterRows = {}
        BY <3>2 DEF SnapshotsInv
      <4>2. Cardinality(DOMAIN adapterRows) <= MaxAdapters
        BY <4>1, FS_EmptySet, GpuAssumption
      <4> QED  BY <4>1, <4>2 DEF AdapterFiguresCurrent
    <3> QED  BY <3>1, <3>2
  <2>2. PlottedWasRead
    <3>1. CASE part = "sensors"
      BY <3>1, PlotInvReads DEF SnapshotsInv
    <3>2. CASE part # "sensors"
      BY <3>2 DEF SnapshotsInv, PlottedWasRead
    <3> QED  BY <3>1, <3>2
  <2>3. SensorsAreAsShown
    BY SensorPagesInvShows DEF SnapshotsInv
  <2> QED  BY <2>1, <2>2, <2>3 DEF ReadingsAreDated, GpuFiguresAreDated
<1> QED  BY <1>1, SnapshotsInitInv, SnapshotsInvKept, PTL DEF SnapshotsSpec

\* A report of any text, reading or row is neither private, nor older than it says,
\* nor another text than the one collected (specs/report.rs, export/encode.rs).
THEOREM ReportsAreFaithful == SnapshotsSpec => []ReportIsFaithful
<1>1. SnapshotsInv => ReportIsFaithful
  BY ReportInvTells DEF SnapshotsInv
<1> QED  BY <1>1, SnapshotsInitInv, SnapshotsInvKept, PTL DEF SnapshotsSpec

\* What is proved of a component alone, here or in WindowProofs, holds of all of them
\* side by side; the GPU's two samplers are apart, each with the other at rest.
THEOREM ComponentsKeepTheirSpecs ==
  SnapshotsSpec =>
    /\ KeySpec /\ InventorySpec /\ SamplingSpec /\ GraphInit /\ [][GraphNext]_graphVars /\ ExportSpec /\ LogSpec
    /\ GraphicsSpec /\ IconSpec /\ DiskSpec /\ ClockSpec /\ StudioSpec
<1>1. SnapshotsInit => /\ KeyInit /\ InventoryInit /\ SamplingInit /\ GraphInit /\ ExportInit /\ LogInit
                       /\ GraphicsInit /\ IconInit /\ DiskInit /\ ClockInit /\ StudioInit
  BY DEF SnapshotsInit
<1>2. [SnapshotsNext]_snapshotsVars =>
        /\ [KeyNext]_keyVars /\ [InventoryNext]_inventoryVars /\ [SamplingNext]_samplingVars
        /\ [GraphNext]_graphVars /\ [ExportNext]_exportVars /\ [LogNext]_logVars
        /\ [GraphicsNext]_graphicsVars /\ [IconNext]_iconVars /\ [DiskNext]_diskVars
        /\ [Refresh]_clockVars /\ [StudioNext]_studioVars
  <2>1. CASE UNCHANGED snapshotsVars
    BY <2>1 DEF snapshotsVars
  <2>2. CASE SnapshotsNext
    BY <2>2, Zenon DEF SnapshotsNext, Only
  <2> QED  BY <2>1, <2>2
<1> QED  BY <1>1, <1>2, PTL DEF SnapshotsSpec, KeySpec, InventorySpec, SamplingSpec, ExportSpec,
         LogSpec, GraphicsSpec, IconSpec, DiskSpec, ClockSpec, StudioSpec
=============================================================================
