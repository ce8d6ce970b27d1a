---------------------------- MODULE NaturalFacts -----------------------------
(***************************************************************************)
(* Facts about natural numbers that the proofs need and the library does   *)
(* not have in a form the provers can use: least elements and induction in *)
(* terms of sets, division, powers of two, and that a recursion on numbers *)
(* has a solution.                                                         *)
(***************************************************************************)
EXTENDS Integers, FiniteSetTheorems, FunctionTheorems, TLAPS

\* A set of numbers that is not empty has a least one.
LEMMA LeastNumber ==
    ASSUME NEW A \in SUBSET Nat, A # {}
    PROVE  \E m \in A : \A n \in A : m <= n
<1> DEFINE F == FiniteSubsetsOf(Nat)
           R == StrictSubsetOrdering(Nat)
           T == {0..n : n \in A}
<1>1. \A n \in A : 0..n \in F
  BY FS_Interval DEF FiniteSubsetsOf
<1>2. T \subseteq F /\ T # {}
  BY <1>1
<1>3. IsWellFoundedOn(R, F)
  BY FS_StrictSubsetOrderingWellFounded
<1> HIDE DEF F, R, T
<1>4. PICK x \in T : \A y \in T : ~(<<y, x>> \in R)
  BY <1>2, <1>3, WFMin
<1>5. PICK m \in A : x = 0..m
  BY <1>4 DEF T
<1>6. ASSUME NEW n \in A, n < m PROVE FALSE
  <2>1. 0..n \subseteq 0..m /\ m \notin 0..n /\ m \in 0..m
    BY <1>6
  <2>2. 0..n \in T
    BY DEF T
  <2>3. 0..n \in SUBSET Nat /\ 0..m \in SUBSET Nat /\ 0..n # 0..m
    BY <2>1
  <2>4. <<0..n, 0..m>> \in R
    BY <2>1, <2>3, Zenon DEF R, StrictSubsetOrdering
  <2> QED BY <1>4, <1>5, <2>2, <2>4
<1> QED BY <1>6

\* Induction, for a set: what contains 0 and with every number the next one
\* contains every number.
LEMMA SetInduction ==
    ASSUME NEW A, 0 \in A, \A n \in Nat : n \in A => n + 1 \in A
    PROVE  \A n \in Nat : n \in A
<1> SUFFICES ASSUME Nat \ A # {} PROVE FALSE
  OBVIOUS
<1>1. PICK m \in Nat \ A : \A n \in Nat \ A : m <= n
  BY LeastNumber
<1>2. m # 0 /\ m \in Nat /\ m - 1 \in Nat
  BY <1>1
<1>3. m - 1 \in A
  BY <1>1, <1>2
<1> QED BY <1>1, <1>2, <1>3

\* Division rounds down.
LEMMA RoundsDown ==
    ASSUME NEW x \in Nat, NEW a \in Nat, a >= 1
    PROVE  x \div a \in Nat /\ (x \div a) * a <= x /\ x < (x \div a + 1) * a
OBVIOUS

\* What division leaves is the remainder.
LEMMA Remainder ==
    ASSUME NEW x \in Nat, NEW a \in Nat, a >= 1
    PROVE  x % a \in Nat /\ x = a * (x \div a) + (x % a)
OBVIOUS

\* A quotient is known by the multiples around the dividend.
LEMMA Quotient ==
    ASSUME NEW x \in Nat, NEW a \in Nat, a >= 1, NEW q \in Nat, q * a <= x, x < (q + 1) * a
    PROVE  x \div a = q
<1> DEFINE r == x \div a
<1>1. r \in Nat /\ r * a <= x /\ x < (r + 1) * a
  BY RoundsDown
<1> HIDE DEF r
<1>2. CASE r >= q + 1
  <2>1. r * a >= (q + 1) * a
    BY <1>1, <1>2
  <2>2. r * a \in Nat /\ (q + 1) * a \in Nat
    BY <1>1
  <2> QED BY <1>1, <2>1, <2>2
<1>3. CASE q >= r + 1
  <2>1. q * a >= (r + 1) * a
    BY <1>1, <1>3
  <2>2. q * a \in Nat /\ (r + 1) * a \in Nat
    BY <1>1
  <2> QED BY <1>1, <2>1, <2>2
<1> QED BY <1>1, <1>2, <1>3 DEF r

\* Powers of two double. 2^n is the number of subsets of n elements, and with
\* one element more each of them is there twice.
LEMMA PowerDoubles ==
    ASSUME NEW n \in Nat
    PROVE  2^n \in Nat /\ 2^n >= 1 /\ 2^(n + 1) = 2 * 2^n
<1> DEFINE S == 1..n
           T == 1..n + 1
           With == {A \cup {n + 1} : A \in SUBSET S}
<1>1. IsFiniteSet(S) /\ Cardinality(S) = n /\ IsFiniteSet(T) /\ Cardinality(T) = n + 1
  BY FS_Interval
<1>2. S \subseteq T /\ n + 1 \notin S /\ T = S \cup {n + 1}
  OBVIOUS
<1>3. /\ IsFiniteSet(SUBSET S) /\ Cardinality(SUBSET S) = 2^n
      /\ IsFiniteSet(SUBSET T) /\ Cardinality(SUBSET T) = 2^(n + 1)
  BY <1>1, FS_SUBSET
<1> HIDE DEF S, T
<1>4. SUBSET T = (SUBSET S) \cup With
  <2>1. ASSUME NEW B \in SUBSET T, n + 1 \in B PROVE B \in With
    <3>1. B \ {n + 1} \in SUBSET S /\ (B \ {n + 1}) \cup {n + 1} = B
      BY <1>2, <2>1
    <3> QED BY <3>1
  <2>2. ASSUME NEW B \in SUBSET T, n + 1 \notin B PROVE B \in SUBSET S
    BY <1>2, <2>2
  <2>3. With \subseteq SUBSET T /\ SUBSET S \subseteq SUBSET T
    BY <1>2
  <2> QED BY <2>1, <2>2, <2>3
<1>5. (SUBSET S) \cap With = {}
  BY <1>2
<1>6. PICK f : f = [A \in SUBSET S |-> A \cup {n + 1}]
  OBVIOUS
<1>7. f \in Bijection(SUBSET S, With)
  <2>1. f \in [SUBSET S -> With]
    BY <1>6
  <2>2. \A A, B \in SUBSET S : f[A] = f[B] => A = B
    <3> TAKE A, B \in SUBSET S
    <3>1. A = (A \cup {n + 1}) \ {n + 1} /\ B = (B \cup {n + 1}) \ {n + 1}
      BY <1>2
    <3> QED BY <1>6, <3>1
  <2>3. \A C \in With : \E A \in SUBSET S : f[A] = C
    BY <1>6
  <2> QED BY <2>1, <2>2, <2>3, Fun_IsBij
<1>8. IsFiniteSet(With) /\ Cardinality(With) = 2^n
  BY <1>3, <1>7, FS_Bijection, Fun_ExistsBij
<1>9. 2^n \in Nat
  BY <1>3, FS_CardinalityType
<1>10. 2^n # 0
  <2>1. SUBSET S # {}
    OBVIOUS
  <2> QED BY <1>3, <2>1, FS_EmptySet
<1> HIDE DEF With
<1>11. Cardinality(SUBSET T) = 2^n + 2^n - 0
  <2>1. PICK U : U = SUBSET S
    OBVIOUS
  <2>2. Cardinality(U \cup With) = Cardinality(U) + Cardinality(With) - Cardinality(U \cap With)
    BY <1>3, <1>8, <2>1, FS_Union
  <2>3. Cardinality(U \cap With) = 0
    BY <1>5, <2>1, FS_EmptySet
  <2> QED BY <1>3, <1>4, <1>8, <2>1, <2>2, <2>3
<1> QED BY <1>3, <1>8, <1>9, <1>10, <1>11

\* Powers of two grow with their exponents.
LEMMA PowerGrows ==
    ASSUME NEW m \in Nat, NEW n \in Nat, m <= n
    PROVE  2^m <= 2^n
<1> DEFINE A == {k \in Nat : 2^m <= 2^(m + k)}
<1>1. 0 \in A
  BY PowerDoubles
<1>2. ASSUME NEW k \in Nat, k \in A PROVE k + 1 \in A
  <2>1. PICK x \in Nat : x = 2^(m + k)
    BY PowerDoubles
  <2>2. 2^((m + k) + 1) = 2 * x /\ 2^m \in Nat
    BY <2>1, PowerDoubles
  <2>3. (m + k) + 1 = m + (k + 1)
    OBVIOUS
  <2> QED BY <1>2, <2>1, <2>2, <2>3
<1>3. \A k \in Nat : k \in A
  <2> HIDE DEF A
  <2> QED BY <1>1, <1>2, SetInduction
<1>4. n - m \in A
  BY <1>3
<1>5. m + (n - m) = n
  OBVIOUS
<1> QED BY <1>4, <1>5

\* A power of two is larger than its exponent.
LEMMA PowerAbove == ASSUME NEW n \in Nat PROVE n < 2^n
<1> DEFINE A == {k \in Nat : k < 2^k}
<1>1. 0 \in A
  BY PowerDoubles
<1>2. ASSUME NEW k \in Nat, k \in A PROVE k + 1 \in A
  <2>1. PICK x \in Nat : x = 2^k /\ 2^(k + 1) = 2 * x
    BY PowerDoubles
  <2> QED BY <1>2, <2>1
<1>3. \A k \in Nat : k \in A
  <2> HIDE DEF A
  <2> QED BY <1>1, <1>2, SetInduction
<1> QED BY <1>3

\* Exponents add.
LEMMA PowerSum ==
    ASSUME NEW m \in Nat, NEW n \in Nat
    PROVE  2^(m + n) = 2^m * 2^n
<1> DEFINE A == {k \in Nat : 2^(m + k) = 2^m * 2^k}
<1>0. PICK y \in Nat : y = 2^m
  BY PowerDoubles
<1>1. 0 \in A
  BY <1>0
<1>2. ASSUME NEW k \in Nat, k \in A PROVE k + 1 \in A
  <2>1. PICK x \in Nat : x = 2^k /\ 2^(k + 1) = 2 * x
    BY PowerDoubles
  <2>2. PICK z \in Nat : z = 2^(m + k) /\ 2^((m + k) + 1) = 2 * z
    BY PowerDoubles
  <2>3. z = y * x
    BY <1>0, <1>2, <2>1, <2>2
  <2>4. 2 * z = y * (2 * x)
    BY <2>3
  <2>5. (m + k) + 1 = m + (k + 1)
    OBVIOUS
  <2> QED BY <1>0, <2>1, <2>2, <2>4, <2>5
<1>3. \A k \in Nat : k \in A
  <2> HIDE DEF A
  <2> QED BY <1>1, <1>2, SetInduction
<1> QED BY <1>3

\* Every positive number lies between two consecutive powers of two.
LEMMA Octave ==
    ASSUME NEW v \in Nat, v >= 1
    PROVE  \E o \in 0..v : 2^o <= v /\ v < 2^(o + 1)
<1> DEFINE A == {k \in Nat : v < 2^(k + 1)}
<1>1. v \in A
  <2>1. v < 2^v /\ 2^v \in Nat /\ 2^(v + 1) = 2 * 2^v
    BY PowerAbove, PowerDoubles
  <2> QED BY <2>1
<1>2. PICK o \in A : \A k \in A : o <= k
  <2>1. A \in SUBSET Nat /\ A # {}
    BY <1>1
  <2> HIDE DEF A
  <2> QED BY <2>1, LeastNumber
<1>3. o \in 0..v
  BY <1>1, <1>2
<1>4. 2^o <= v
  <2>1. CASE o = 0
    BY <2>1
  <2>2. CASE o # 0
    <3>1. o - 1 \in Nat /\ o - 1 \notin A /\ (o - 1) + 1 = o
      BY <1>2, <2>2
    <3> QED BY <3>1, PowerDoubles
  <2> QED BY <2>1, <2>2
<1> QED BY <1>2, <1>3, <1>4

\* There is one such pair only.
LEMMA OctaveUnique ==
    ASSUME NEW v \in Nat, NEW o \in Nat, NEW r \in Nat,
           2^o <= v, v < 2^(o + 1), 2^r <= v, v < 2^(r + 1)
    PROVE  o = r
<1>1. /\ 2^o \in Nat /\ 2^r \in Nat /\ 2^(o + 1) \in Nat /\ 2^(r + 1) \in Nat
  BY PowerDoubles
<1>2. CASE o + 1 <= r
  BY <1>1, <1>2, PowerGrows
<1>3. CASE r + 1 <= o
  BY <1>1, <1>3, PowerGrows
<1> QED BY <1>2, <1>3
-----------------------------------------------------------------------------
(* Recursion: on the numbers of stop a function is given by base, on the   *)
(* others by a step from its value at a smaller number.                    *)
Recursive(V, stop, from, base, step) ==
    /\ stop \in SUBSET Nat /\ from \in [Nat -> Nat] /\ base \in [Nat -> V]
    /\ step \in [Nat -> [V -> V]]
    /\ \A n \in Nat : n \notin stop => from[n] < n
Follows(g, k, stop, from, base, step) ==
    /\ k \in stop => g[k] = base[k]
    /\ k \notin stop => g[k] = step[k][g[from[k]]]
Solves(g, V, stop, from, base, step) ==
    g \in [Nat -> V] /\ \A n \in Nat : Follows(g, n, stop, from, base, step)
SolvesTo(g, n, V, stop, from, base, step) ==
    g \in [0 .. n -> V] /\ \A k \in 0 .. n : Follows(g, k, stop, from, base, step)

\* There is such a function up to every number.
LEMMA RecursionTo ==
    ASSUME NEW V, NEW stop, NEW from, NEW base, NEW step,
           Recursive(V, stop, from, base, step)
    PROVE  \A n \in Nat : \E g : SolvesTo(g, n, V, stop, from, base, step)
<1> DEFINE A == {n \in Nat : \E g : SolvesTo(g, n, V, stop, from, base, step)}
<1>1. 0 \in A
  <2>1. 0 \in stop
    BY DEF Recursive
  <2>2. PICK g : g = [k \in 0 .. 0 |-> base[k]]
    OBVIOUS
  <2>3. SolvesTo(g, 0, V, stop, from, base, step)
    BY <2>1, <2>2 DEF SolvesTo, Follows, Recursive
  <2> QED BY <2>3
<1>2. ASSUME NEW n \in Nat, n \in A PROVE n + 1 \in A
  <2>1. PICK g : SolvesTo(g, n, V, stop, from, base, step)
    BY <1>2
  <2>2. \A k \in 0 .. n + 1 : k \notin stop => from[k] \in 0 .. n
    BY DEF Recursive
  <2>3. PICK v \in V : /\ n + 1 \in stop => v = base[n + 1]
                       /\ n + 1 \notin stop => v = step[n + 1][g[from[n + 1]]]
    <3>1. CASE n + 1 \in stop
      BY <3>1 DEF Recursive
    <3>2. CASE n + 1 \notin stop
      <4>1. g[from[n + 1]] \in V
        BY <2>1, <2>2, <3>2 DEF SolvesTo
      <4> QED BY <3>2, <4>1 DEF Recursive
    <3> QED BY <3>1, <3>2
  <2>4. PICK h : h = [k \in 0 .. n + 1 |-> IF k = n + 1 THEN v ELSE g[k]]
    OBVIOUS
  <2>5. h \in [0 .. n + 1 -> V] /\ h[n + 1] = v /\ \A k \in 0 .. n : h[k] = g[k]
    BY <2>1, <2>4 DEF SolvesTo
  <2>6. ASSUME NEW k \in 0 .. n + 1 PROVE Follows(h, k, stop, from, base, step)
    <3>1. k \notin stop => h[from[k]] = g[from[k]]
      BY <2>2, <2>5
    <3>2. CASE k \in 0 .. n
      BY <2>1, <2>5, <3>1, <3>2 DEF SolvesTo, Follows
    <3>3. CASE k = n + 1
      BY <2>3, <2>5, <3>1, <3>3 DEF Follows
    <3> QED BY <3>2, <3>3
  <2>7. SolvesTo(h, n + 1, V, stop, from, base, step)
    BY <2>5, <2>6 DEF SolvesTo
  <2> QED BY <2>7
<1>3. \A n \in Nat : n \in A
  <2> HIDE DEF A
  <2> QED BY <1>1, <1>2, SetInduction
<1> QED BY <1>3

\* Two of them agree.
LEMMA RecursionUnique ==
    ASSUME NEW V, NEW stop, NEW from, NEW base, NEW step,
           Recursive(V, stop, from, base, step),
           NEW m \in Nat, NEW n \in Nat, m <= n, NEW g, NEW h,
           SolvesTo(g, m, V, stop, from, base, step),
           SolvesTo(h, n, V, stop, from, base, step)
    PROVE  g[m] = h[m]
<1> DEFINE D == {k \in Nat : k <= m /\ g[k] # h[k]}
<1> SUFFICES ASSUME D # {} PROVE FALSE
  OBVIOUS
<1>1. PICK k \in D : \A j \in D : k <= j
  <2>1. D \in SUBSET Nat
    OBVIOUS
  <2> HIDE DEF D
  <2> QED BY <2>1, LeastNumber
<1>2. k \in 0 .. m /\ k \in 0 .. n /\ g[k] # h[k]
  BY <1>1
<1>3. Follows(g, k, stop, from, base, step) /\ Follows(h, k, stop, from, base, step)
  BY <1>2 DEF SolvesTo
<1>4. ASSUME k \notin stop PROVE g[from[k]] = h[from[k]]
  <2>1. from[k] \in Nat /\ from[k] < k /\ from[k] <= m
    BY <1>2, <1>4 DEF Recursive
  <2> QED BY <1>1, <2>1
<1> QED BY <1>2, <1>3, <1>4 DEF Follows

\* There is such a function.
LEMMA Recursion ==
    ASSUME NEW V, NEW stop, NEW from, NEW base, NEW step,
           Recursive(V, stop, from, base, step)
    PROVE  \E g : Solves(g, V, stop, from, base, step)
<1>1. PICK T : T = [n \in Nat |-> CHOOSE g : SolvesTo(g, n, V, stop, from, base, step)]
  OBVIOUS
<1>2. \A n \in Nat : SolvesTo(T[n], n, V, stop, from, base, step)
  BY <1>1, RecursionTo
<1>3. PICK G : G = [n \in Nat |-> T[n][n]]
  OBVIOUS
<1>4. ASSUME NEW n \in Nat PROVE Follows(G, n, stop, from, base, step)
  <2>1. G[n] = T[n][n]
    BY <1>3
  <2>2. ASSUME n \notin stop PROVE G[from[n]] = T[n][from[n]]
    <3>1. PICK k \in Nat : k = from[n] /\ k <= n
      BY <2>2 DEF Recursive
    <3>2. T[k][k] = T[n][k]
      BY <1>2, <3>1, RecursionUnique
    <3> QED BY <1>3, <3>1, <3>2
  <2>3. Follows(T[n], n, stop, from, base, step)
    BY <1>2 DEF SolvesTo
  <2> QED BY <2>1, <2>2, <2>3 DEF Follows
<1>5. G \in [Nat -> V]
  <2>1. \A n \in Nat : T[n][n] \in V
    BY <1>2 DEF SolvesTo
  <2> QED BY <1>3, <2>1
<1>6. Solves(G, V, stop, from, base, step)
  BY <1>4, <1>5 DEF Solves
<1> QED BY <1>6

\* N steps F[1], F[2], ... from v0: what they are, and the results g
Steps(F, N, V) == F \in [1 .. N -> [V -> V]]
Iterates(g, N, V, v0, F) ==
    /\ g \in [0 .. N -> V] /\ g[0] = v0
    /\ \A k \in 1 .. N : g[k] = F[k][g[k - 1]]

\* Any finite number of steps can be taken.
LEMMA Iteration ==
    ASSUME NEW V, NEW N \in Nat, NEW v0 \in V, NEW F, Steps(F, N, V)
    PROVE  \E g : Iterates(g, N, V, v0, F)
<1>0. F \in [1 .. N -> [V -> V]]
  BY DEF Steps
<1>1. PICK from : from = [n \in Nat |-> IF n = 0 THEN 0 ELSE n - 1]
  OBVIOUS
<1>2. PICK base : base = [n \in Nat |-> v0]
  OBVIOUS
<1>3. PICK id \in [V -> V] : TRUE
  <2>1. [v \in V |-> v] \in [V -> V]
    OBVIOUS
  <2> QED BY <2>1
<1>4. PICK step : step = [n \in Nat |-> IF n \in 1 .. N THEN F[n] ELSE id]
  OBVIOUS
<1>5. PICK stop : stop = {0}
  OBVIOUS
<1>6. Recursive(V, stop, from, base, step)
  BY <1>0, <1>1, <1>2, <1>4, <1>5 DEF Recursive
<1>s. PICK g : Solves(g, V, stop, from, base, step)
  BY <1>6, Recursion
<1>7. PICK h : h = [k \in 0 .. N |-> g[k]]
  OBVIOUS
<1>8. h \in [0 .. N -> V] /\ h[0] = v0
  BY <1>2, <1>5, <1>7, <1>s DEF Solves, Follows
<1>9. ASSUME NEW k \in 1 .. N PROVE h[k] = F[k][h[k - 1]]
  <2>1. k \in Nat /\ k # 0 /\ from[k] = k - 1 /\ step[k] = F[k]
    BY <1>1, <1>4
  <2>2. k - 1 \in 0 .. N /\ k \in 0 .. N
    OBVIOUS
  <2> QED BY <1>5, <1>7, <1>s, <2>1, <2>2 DEF Solves, Follows
<1>10. Iterates(h, N, V, v0, F)
  BY <1>8, <1>9 DEF Iterates
<1> QED BY <1>10

\* What holds at the start and along the steps holds all the way.
LEMMA Along ==
    ASSUME NEW N \in Nat, NEW P, 0 \in P, \A k \in 1 .. N : k - 1 \in P => k \in P
    PROVE  \A k \in 0 .. N : k \in P
<1> DEFINE A == {k \in Nat : k <= N => k \in P}
<1>1. 0 \in A
  OBVIOUS
<1>2. ASSUME NEW n \in Nat, n \in A PROVE n + 1 \in A
  <2>1. n + 1 <= N => n + 1 \in 1 .. N /\ (n + 1) - 1 \in P
    BY <1>2
  <2> QED BY <2>1
<1>3. \A n \in Nat : n \in A
  <2> HIDE DEF A
  <2> QED BY <1>1, <1>2, SetInduction
<1> QED BY <1>3
=============================================================================
