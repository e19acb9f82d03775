------------------------------ MODULE NatLemmas ------------------------------
(***************************************************************************)
(* Facts about numbers, folds and sums that several proofs use.            *)
(***************************************************************************)
EXTENDS Integers, FiniteSetsExt, FiniteSetTheorems, WellFoundedInduction, TLAPS

LessRel == OpToRel(<, Nat)

\* A set of naturals that is not empty has a least element.
LEMMA LeastExists ==
    ASSUME NEW S, S \subseteq Nat, S # {}
    PROVE  \E x \in S : \A y \in S : x <= y
<1>1. IsWellFoundedOn(LessRel, Nat)
  BY NatLessThanWellFounded DEF LessRel
<1>2. PICK x \in S : \A y \in S : <<y, x>> \notin LessRel
  BY <1>1, WFMin
<1>3. \A y \in S : y < x => <<y, x>> \in LessRel
  BY DEF LessRel, OpToRel
<1>4. \A y \in S : ~(y < x)
  BY <1>2, <1>3
<1>5. \A y \in S : x <= y
  BY <1>4
<1> QED BY <1>5

\* Division with remainder.
LEMMA DivMod ==
    ASSUME NEW a \in Int, NEW S \in Int, S > 0
    PROVE  a \div S \in Int /\ a % S \in 0 .. S-1 /\ a = S * (a \div S) + (a % S)
<1>1. a \div S \in Int /\ a % S \in 0 .. S-1
  OBVIOUS
<1>2. a = S * (a \div S) + (a % S)
  OBVIOUS
<1> QED BY <1>1, <1>2

\* There is one remainder only.
LEMMA ModUnique ==
    ASSUME NEW S \in Int, S > 0, NEW q \in Int, NEW r \in 0 .. S-1
    PROVE  (S*q + r) % S = r
OBVIOUS

\* The quotient in a division with remainder.
LEMMA DivUnique ==
    ASSUME NEW S \in Int, S > 0, NEW q \in Int, NEW r \in 0 .. S-1
    PROVE  (S*q + r) \div S = q
OBVIOUS

\* Small numbers are their own remainders.
LEMMA ModSmall ==
    ASSUME NEW S \in Int, S > 0, NEW r \in 0 .. S-1
    PROVE  r % S = r
OBVIOUS

\* A number may be reduced before another one is added to it.
LEMMA ModAdd ==
    ASSUME NEW a \in Int, NEW k \in Int, NEW S \in Int, S > 0
    PROVE  ((a % S) + k) % S = (a + k) % S
<1> DEFINE r == ((a % S) + k) % S
           q == ((a % S) + k) \div S
<1>1. r \in 0 .. S-1 /\ q \in Int /\ (a % S) + k = S*q + r
  BY DivMod
<1>2. a \div S \in Int /\ a = S * (a \div S) + (a % S) /\ a % S \in Int
  BY DivMod
<1> HIDE DEF r, q
<1>3. S * ((a \div S) + q) = S * (a \div S) + S*q
  BY <1>1, <1>2
<1>4. a + k = S * ((a \div S) + q) + r
  BY <1>1, <1>2, <1>3
<1>5. (S * ((a \div S) + q) + r) % S = r
  BY <1>1, <1>2, ModUnique
<1> QED BY <1>4, <1>5 DEF r

\* Numbers less than S apart have different remainders.
LEMMA ModDistinct ==
    ASSUME NEW a \in Int, NEW b \in Int, NEW S \in Int, S > 0, a < b, b - a < S
    PROVE  a % S # b % S
<1> SUFFICES ASSUME a % S = b % S PROVE FALSE
  OBVIOUS
<1> DEFINE p == a \div S
           q == b \div S
<1>1. p \in Int /\ q \in Int /\ a = S*p + (a % S) /\ b = S*q + (a % S) /\ a % S \in Int
  BY DivMod
<1> HIDE DEF p, q
<1>2. b - a = S * (q - p)
  BY <1>1
<1>3. CASE q - p >= 1
  <2>1. S * (q - p) >= S
    BY <1>1, <1>3
  <2> QED BY <1>2, <2>1
<1>4. CASE q - p <= 0
  <2>1. S * (q - p) <= 0
    BY <1>1, <1>4
  <2> QED BY <1>2, <2>1
<1> QED BY <1>1, <1>3, <1>4

\* An index that goes round.
LEMMA ModNext ==
    ASSUME NEW S \in Int, S > 0, NEW r \in 0 .. S-1
    PROVE  (r + 1) % S = IF r + 1 >= S THEN 0 ELSE r + 1
<1>1. CASE r + 1 = S
  <2>1. r + 1 = S*1 + 0
    BY <1>1
  <2>2. (S*1 + 0) % S = 0
    BY ModUnique
  <2> QED BY <1>1, <2>1, <2>2
<1>2. CASE r + 1 < S
  BY <1>2, ModSmall
<1> QED BY <1>1, <1>2

\* A round more or less makes no difference.
LEMMA ModRound ==
    ASSUME NEW a \in Int, NEW S \in Int, S > 0
    PROVE  (a + S) % S = a % S
<1> DEFINE q == a \div S
           r == a % S
<1>1. q \in Int /\ r \in 0 .. S-1 /\ a = S*q + r
  BY DivMod
<1> HIDE DEF q, r
<1>2. a + S = S * (q + 1) + r
  BY <1>1
<1>3. (S * (q + 1) + r) % S = r
  BY <1>1, ModUnique
<1> QED BY <1>2, <1>3 DEF r

-----------------------------------------------------------------------------
(* Positions in a ring of S slots, counted from slot c on.                 *)

\* Every slot has a position.
LEMMA RingCover ==
    ASSUME NEW S \in Int, S > 0, NEW c \in 0 .. S-1, NEW i \in 0 .. S-1
    PROVE  \E k \in 0 .. S-1 : i = (c + k) % S
<1>1. CASE i >= c
  <2>1. i - c \in 0 .. S-1 /\ c + (i - c) = i
    BY <1>1
  <2>2. i % S = i
    BY ModSmall
  <2> QED BY <2>1, <2>2
<1>2. CASE i < c
  <2>1. i - c + S \in 0 .. S-1 /\ c + (i - c + S) = i + S
    BY <1>2
  <2>2. (i + S) % S = i
    BY ModSmall, ModRound
  <2> QED BY <2>1, <2>2
<1> QED BY <1>1, <1>2

\* The slot at a position, the one after and the one before.
LEMMA RingSteps ==
    ASSUME NEW S \in Int, S > 0, NEW c \in Int, NEW k \in Int
    PROVE  /\ (c + k) % S \in 0 .. S-1
           /\ (((c + k) % S) + 1) % S = (c + (k + 1)) % S
           /\ (((c + k) % S) + S - 1) % S = (c + (k - 1)) % S
<1>1. (c + k) \in Int /\ (c + k) % S \in 0 .. S-1
  BY DivMod
<1>2. (((c + k) % S) + 1) % S = ((c + k) + 1) % S
  BY <1>1, ModAdd
<1>3. (((c + k) % S) + (S - 1)) % S = ((c + k) + (S - 1)) % S
  <2>1. S - 1 \in Int
    OBVIOUS
  <2> QED BY <1>1, <2>1, ModAdd
<1>4. (c + k) + (S - 1) = (c + (k - 1)) + S /\ c + (k - 1) \in Int
  BY <1>1
<1>5. ((c + (k - 1)) + S) % S = (c + (k - 1)) % S
  BY <1>4, ModRound
<1>6. (c + k) + 1 = c + (k + 1)
      /\ ((c + k) % S) + S - 1 = ((c + k) % S) + (S - 1)
  BY <1>1
<1> QED BY <1>1, <1>2, <1>3, <1>4, <1>5, <1>6

\* Positions of one round are different slots.
LEMMA RingApart ==
    ASSUME NEW S \in Int, S > 0, NEW c \in Int, NEW k \in Int, NEW l \in Int,
           k - l < S, l - k < S, (c + k) % S = (c + l) % S
    PROVE  k = l
<1>1. c + k \in Int /\ c + l \in Int
  OBVIOUS
<1>2. CASE k < l
  <2>1. c + k < c + l /\ (c + l) - (c + k) < S
    BY <1>2
  <2> QED BY <1>1, <2>1, ModDistinct
<1>3. CASE l < k
  <2>1. c + l < c + k /\ (c + k) - (c + l) < S
    BY <1>3
  <2> QED BY <1>1, <2>1, ModDistinct
<1> QED BY <1>2, <1>3

\* Positions counted from another slot.
LEMMA RingShift ==
    ASSUME NEW S \in Int, S > 0, NEW c \in Int, NEW d \in Int, NEW k \in Int
    PROVE  (((c + d) % S) + k) % S = (c + (d + k)) % S
<1>1. c + d \in Int /\ (c + d) + k = c + (d + k)
  OBVIOUS
<1> QED BY <1>1, ModAdd

\* The distance from slot c tells the position.
LEMMA RingDist ==
    ASSUME NEW S \in Int, S > 0, NEW c \in 0 .. S-1, NEW k \in 0 .. S-1
    PROVE  (((c + k) % S) + S - c) % S = k
<1>1. c + k \in Int /\ S - c \in Int /\ k \in Int /\ (c + k) % S \in Int
  BY DivMod
<1>2. (((c + k) % S) + (S - c)) % S = ((c + k) + (S - c)) % S
  BY <1>1, ModAdd
<1>3. (c + k) + (S - c) = k + S
      /\ ((c + k) % S) + S - c = ((c + k) % S) + (S - c)
  BY <1>1
<1>4. (k + S) % S = k
  BY <1>1, ModRound, ModSmall
<1> QED BY <1>2, <1>3, <1>4

\* The quotient grows by one where the remainder comes round.
LEMMA DivStep ==
    ASSUME NEW f \in Nat \ {0}, NEW j \in Nat \ {0}
    PROVE  /\ (j - 1) \div f \in Nat
           /\ j \div f = IF j % f = 0 THEN (j - 1) \div f + 1 ELSE (j - 1) \div f
<1> DEFINE q == (j - 1) \div f
           r == (j - 1) % f
<1>1. f \in Int /\ f > 0 /\ j - 1 \in Nat /\ j - 1 \in Int
  OBVIOUS
<1>2. q \in Int /\ r \in 0 .. f-1 /\ j - 1 = f * q + r
  BY <1>1, DivMod
<1>3. q \in Nat
  BY <1>1
<1> HIDE DEF q, r
<1>4. CASE r + 1 = f
  <2>1. j = f * (q + 1) + 0 /\ q + 1 \in Int /\ 0 \in 0 .. f-1
    BY <1>1, <1>2, <1>4
  <2>2. (f * (q + 1) + 0) % f = 0 /\ (f * (q + 1) + 0) \div f = q + 1
    BY <1>1, <2>1, ModUnique, DivUnique
  <2> QED BY <1>3, <2>1, <2>2 DEF q
<1>5. CASE r + 1 # f
  <2>1. j = f * q + (r + 1) /\ r + 1 \in 0 .. f-1 /\ r + 1 # 0
    BY <1>1, <1>2, <1>5
  <2>2. (f * q + (r + 1)) % f = r + 1 /\ (f * q + (r + 1)) \div f = q
    BY <1>1, <1>2, <2>1, ModUnique, DivUnique
  <2> QED BY <1>3, <2>1, <2>2 DEF q
<1> QED BY <1>4, <1>5

-----------------------------------------------------------------------------
(* Folds over the subsets of a finite set S: rest[s] is what is left of s, *)
(* step[s] what it adds to the result.                                     *)

FoldEquation(it, SS, base, rest, step) ==
    \A s \in SS : it[s] = IF s = {} THEN base ELSE step[s][it[rest[s]]]

UpTo(S, n) == {s \in SUBSET S : Cardinality(s) <= n}

\* There is a function of the subsets that satisfies such an equation.
LEMMA FoldExists ==
    ASSUME NEW S, IsFiniteSet(S), NEW V, NEW base \in V, NEW rest, NEW step,
           \A s \in SUBSET S : s # {} => rest[s] \subseteq s /\ rest[s] # s,
           \A s \in SUBSET S : s # {} => \A v \in V : step[s][v] \in V
    PROVE  \E it \in [SUBSET S -> V] : FoldEquation(it, SUBSET S, base, rest, step)
<1> DEFINE Q(n) == \E it \in [UpTo(S, n) -> V] : FoldEquation(it, UpTo(S, n), base, rest, step)
           Bad == {n \in Nat : ~Q(n)}
<1>0. \A s \in SUBSET S : Cardinality(s) \in Nat /\ Cardinality(s) <= Cardinality(S)
                          /\ (Cardinality(s) = 0 <=> s = {}) /\ IsFiniteSet(s)
  BY FS_Subset, FS_CardinalityType, FS_EmptySet
<1>1. Q(0)
  <2>1. UpTo(S, 0) = {{}}
    BY <1>0 DEF UpTo
  <2>2. [s \in {{}} |-> base] \in [{{}} -> V] /\ [s \in {{}} |-> base][{}] = base
    OBVIOUS
  <2> QED BY <2>1, <2>2 DEF FoldEquation
<1>2. ASSUME NEW n \in Nat \ {0}, Q(n - 1) PROVE Q(n)
  <2>1. PICK it \in [UpTo(S, n - 1) -> V] : FoldEquation(it, UpTo(S, n - 1), base, rest, step)
    BY <1>2
  <2> DEFINE jt == [s \in UpTo(S, n) |-> IF s = {} THEN base ELSE step[s][it[rest[s]]]]
  <2>2. \A s \in UpTo(S, n) : s # {} => rest[s] \in UpTo(S, n - 1)
    <3> TAKE s \in UpTo(S, n)
    <3> HAVE s # {}
    <3>1. s \in SUBSET S /\ Cardinality(s) <= n /\ IsFiniteSet(s) /\ Cardinality(s) \in Nat
      BY <1>0 DEF UpTo
    <3>2. rest[s] \in SUBSET s /\ rest[s] # s /\ rest[s] \in SUBSET S
      BY <3>1
    <3>3. Cardinality(rest[s]) <= Cardinality(s) /\ Cardinality(rest[s]) # Cardinality(s)
          /\ Cardinality(rest[s]) \in Nat
      BY <1>0, <3>1, <3>2, FS_Subset
    <3>4. Cardinality(rest[s]) <= n - 1
      BY <3>1, <3>3
    <3> QED BY <3>2, <3>4 DEF UpTo
  <2>3. \A s \in UpTo(S, n) : s \in SUBSET S
    BY DEF UpTo
  <2>4. jt \in [UpTo(S, n) -> V]
    BY <2>1, <2>2, <2>3
  <2>5. \A s \in UpTo(S, n - 1) : s \in UpTo(S, n)
    BY <1>0 DEF UpTo
  <2>6. \A s \in UpTo(S, n - 1) : jt[s] = it[s]
    BY <2>1, <2>5 DEF FoldEquation
  <2>7. FoldEquation(jt, UpTo(S, n), base, rest, step)
    <3> SUFFICES ASSUME NEW s \in UpTo(S, n)
                 PROVE  jt[s] = IF s = {} THEN base ELSE step[s][jt[rest[s]]]
      BY DEF FoldEquation
    <3>1. CASE s = {}
      BY <3>1
    <3>2. CASE s # {}
      <4>1. jt[rest[s]] = it[rest[s]]
        BY <2>2, <2>6, <3>2
      <4> QED BY <3>2, <4>1
    <3> QED BY <3>1, <3>2
  <2> HIDE DEF jt
  <2> QED BY <2>4, <2>7
<1> HIDE DEF Q
<1>3. Bad = {}
  <2> SUFFICES ASSUME Bad # {} PROVE FALSE
    OBVIOUS
  <2>1. PICK n \in Bad : \A m \in Bad : n <= m
    <3>1. Bad \subseteq Nat
      OBVIOUS
    <3> HIDE DEF Bad
    <3> QED BY <3>1, LeastExists
  <2>2. n # 0
    BY <1>1
  <2>3. n - 1 \in Nat /\ n - 1 \notin Bad /\ n \in Nat \ {0}
    BY <2>1, <2>2
  <2>4. Q(n - 1)
    BY <2>3
  <2>5. Q(n)
    BY <1>2, <2>3, <2>4
  <2> QED BY <2>5
<1>4. Cardinality(S) \in Nat /\ UpTo(S, Cardinality(S)) = SUBSET S
  BY <1>0 DEF UpTo
<1>5. Q(Cardinality(S))
  BY <1>3, <1>4
<1> QED BY <1>4, <1>5 DEF Q

\* A set of subsets of a finite set has a smallest one.
LEMMA SmallestSubset ==
    ASSUME NEW S, IsFiniteSet(S), NEW B, B \subseteq SUBSET S, B # {}
    PROVE  \E s \in B : \A r \in B : r \subseteq s => r = s
<1>1. IsWellFoundedOn(StrictSubsetOrdering(S), FiniteSubsetsOf(S))
  BY FS_StrictSubsetOrderingWellFounded
<1>2. B \subseteq FiniteSubsetsOf(S)
  BY FS_Subset DEF FiniteSubsetsOf
<1>3. PICK s \in B : \A r \in B : <<r, s>> \notin StrictSubsetOrdering(S)
  BY <1>1, <1>2, WFMin
<1>4. \A r \in B : r \subseteq s => r = s
  BY <1>3 DEF StrictSubsetOrdering
<1> QED BY <1>4
-----------------------------------------------------------------------------
(* Sums.                                                                   *)

SumIn(f, S) == MapThenSumSet(LAMBDA x : f[x], S)

\* One of the elements of s, the one the fold takes off.
Taken(s) == CHOOSE y \in s : TRUE

\* What the fold computes of each subset.
SumEquation(f, S, it) ==
    it = [s \in SUBSET S |-> IF s = {} THEN 0 ELSE f[Taken(s)] + it[s \ {Taken(s)}]]

LEMMA SumUnfold ==
    ASSUME NEW f, NEW S
    PROVE  SumIn(f, S) = (CHOOSE it : SumEquation(f, S, it))[S]
BY Zenon DEF SumIn, MapThenSumSet, MapThenFoldSet, SumEquation, Taken

\* A sum is the value, at the set, of a function of its subsets.
LEMMA SumIter ==
    ASSUME NEW S, IsFiniteSet(S), NEW f, \A x \in S : f[x] \in Int
    PROVE  \E it \in [SUBSET S -> Int] : SumIn(f, S) = it[S] /\ SumEquation(f, S, it)
<1> DEFINE rest == [s \in SUBSET S |-> s \ {Taken(s)}]
           step == [s \in SUBSET S |-> [v \in Int |-> f[Taken(s)] + v]]
<1>1. \A s \in SUBSET S : s # {} => Taken(s) \in s
  BY DEF Taken
<1>2. \A s \in SUBSET S : s # {} => rest[s] \subseteq s /\ rest[s] # s
  BY <1>1
<1>3. \A s \in SUBSET S : s # {} => \A v \in Int : step[s][v] \in Int
  BY <1>1
<1>4. \A s \in SUBSET S : rest[s] = s \ {Taken(s)} /\ rest[s] \in SUBSET S
  OBVIOUS
<1>5. \A s \in SUBSET S : \A v \in Int : step[s][v] = f[Taken(s)] + v
  OBVIOUS
<1> HIDE DEF rest, step
<1>6. PICK jt \in [SUBSET S -> Int] : FoldEquation(jt, SUBSET S, 0, rest, step)
  <2>1. 0 \in Int
    OBVIOUS
  <2> QED BY <1>2, <1>3, <2>1, FoldExists
<1>7. SumEquation(f, S, jt)
  <2> DEFINE kt == [s \in SUBSET S |-> IF s = {} THEN 0 ELSE f[Taken(s)] + jt[s \ {Taken(s)}]]
  <2>1. ASSUME NEW s \in SUBSET S PROVE jt[s] = kt[s]
    <3>1. jt[rest[s]] \in Int /\ rest[s] = s \ {Taken(s)}
      BY <1>4, <1>6
    <3>2. step[s][jt[rest[s]]] = f[Taken(s)] + jt[rest[s]]
      BY <1>5, <3>1
    <3>3. jt[s] = IF s = {} THEN 0 ELSE step[s][jt[rest[s]]]
      BY <1>6 DEF FoldEquation
    <3> QED BY <3>1, <3>2, <3>3
  <2>2. DOMAIN jt = SUBSET S /\ DOMAIN kt = SUBSET S
    OBVIOUS
  <2>3. jt = kt
    BY <2>1, <2>2
  <2> QED BY <2>3 DEF SumEquation
<1> DEFINE lt == CHOOSE it : SumEquation(f, S, it)
<1>8. SumEquation(f, S, lt)
  BY <1>7
<1> HIDE DEF lt
<1>9. \A s \in SUBSET S : lt[s] = IF s = {} THEN 0 ELSE f[Taken(s)] + lt[s \ {Taken(s)}]
  BY <1>8 DEF SumEquation
<1>10. \A s \in SUBSET S : lt[s] \in Int
  <2> DEFINE B == {s \in SUBSET S : lt[s] \notin Int}
  <2> SUFFICES ASSUME B # {} PROVE FALSE
    OBVIOUS
  <2>1. PICK s \in B : \A r \in B : r \subseteq s => r = s
    <3>1. B \subseteq SUBSET S /\ B # {}
      OBVIOUS
    <3> HIDE DEF B
    <3> QED BY <3>1, SmallestSubset
  <2>2. CASE s = {}
    <3>1. lt[s] = 0 /\ s \in B
      BY <1>9, <2>1, <2>2
    <3> QED BY <3>1
  <2>3. CASE s # {}
    <3>1. Taken(s) \in s /\ s \in SUBSET S
      BY <1>1, <2>3
    <3>2. s \ {Taken(s)} \subseteq s /\ s \ {Taken(s)} # s /\ s \ {Taken(s)} \in SUBSET S
      BY <3>1
    <3>3. lt[s \ {Taken(s)}] \in Int
      BY <2>1, <3>2
    <3>4. lt[s] = f[Taken(s)] + lt[s \ {Taken(s)}]
      BY <1>9, <2>3, <3>1
    <3>5. f[Taken(s)] \in Int
      BY <3>1
    <3> HIDE DEF B
    <3>6. lt[s] \in Int
      BY <3>3, <3>4, <3>5
    <3> QED BY <3>6 DEF B
  <2> QED BY <2>2, <2>3
<1>11. lt \in [SUBSET S -> Int]
  <2>1. lt = [s \in SUBSET S |-> IF s = {} THEN 0 ELSE f[Taken(s)] + lt[s \ {Taken(s)}]]
    BY <1>8 DEF SumEquation
  <2>2. lt = [s \in SUBSET S |-> lt[s]]
    BY <2>1
  <2> QED BY <1>10, <2>2
<1>12. SumIn(f, S) = lt[S]
  BY SumUnfold DEF lt
<1> QED BY <1>8, <1>11, <1>12

\* A sum over a subset is what the fold has for it on its way.
LEMMA SumOnSubset ==
    ASSUME NEW S, IsFiniteSet(S), NEW f, \A x \in S : f[x] \in Int,
           NEW it \in [SUBSET S -> Int], SumEquation(f, S, it), NEW T \in SUBSET S
    PROVE  SumIn(f, T) = it[T]
<1>1. IsFiniteSet(T) /\ \A x \in T : f[x] \in Int
  BY FS_Subset
<1>2. PICK jt \in [SUBSET T -> Int] : SumIn(f, T) = jt[T] /\ SumEquation(f, T, jt)
  BY <1>1, SumIter
<1> DEFINE B == {s \in SUBSET T : jt[s] # it[s]}
<1>3. B = {}
  <2> SUFFICES ASSUME B # {} PROVE FALSE
    OBVIOUS
  <2>1. PICK s \in B : \A r \in B : r \subseteq s => r = s
    <3>1. B \subseteq SUBSET T /\ B # {}
      OBVIOUS
    <3> HIDE DEF B
    <3> QED BY <1>1, <3>1, SmallestSubset
  <2>2. it[s] = IF s = {} THEN 0 ELSE f[Taken(s)] + it[s \ {Taken(s)}]
    BY SumEquation(f, S, it) DEF SumEquation
  <2>3. jt[s] = IF s = {} THEN 0 ELSE f[Taken(s)] + jt[s \ {Taken(s)}]
    BY <1>2 DEF SumEquation
  <2>4. s # {}
    BY <2>2, <2>3
  <2>5. Taken(s) \in s
    BY <2>4 DEF Taken
  <2>6. s \ {Taken(s)} \subseteq s /\ s \ {Taken(s)} # s /\ s \ {Taken(s)} \in SUBSET T
    BY <2>5
  <2>7. jt[s \ {Taken(s)}] = it[s \ {Taken(s)}]
    BY <2>1, <2>6
  <2> QED BY <2>2, <2>3, <2>7
<1> QED BY <1>2, <1>3

\* A sum of integers is one.
LEMMA SumType ==
    ASSUME NEW S, IsFiniteSet(S), NEW f, \A x \in S : f[x] \in Int
    PROVE  SumIn(f, S) \in Int
<1>1. PICK it \in [SUBSET S -> Int] : SumIn(f, S) = it[S]
  BY SumIter
<1> QED BY <1>1

LEMMA SumOfNone ==
    ASSUME NEW f
    PROVE  SumIn(f, {}) = 0
<1>1. IsFiniteSet({}) /\ \A x \in {} : f[x] \in Int
  BY FS_EmptySet
<1>2. PICK it \in [SUBSET {} -> Int] : SumIn(f, {}) = it[{}] /\ SumEquation(f, {}, it)
  BY <1>1, SumIter
<1>3. {} \in SUBSET {}
  OBVIOUS
<1> QED BY <1>2, <1>3 DEF SumEquation

\* Any element may be taken off.
LEMMA SumTake ==
    ASSUME NEW S, IsFiniteSet(S), NEW f, \A x \in S : f[x] \in Int, NEW a \in S
    PROVE  SumIn(f, S) = f[a] + SumIn(f, S \ {a})
<1>1. PICK it \in [SUBSET S -> Int] : SumIn(f, S) = it[S] /\ SumEquation(f, S, it)
  BY SumIter
<1>2. \A T \in SUBSET S : SumIn(f, T) = it[T]
  BY <1>1, SumOnSubset
<1> DEFINE B == {s \in SUBSET S : \E b \in s : it[s] # f[b] + it[s \ {b}]}
<1>3. \A s \in SUBSET S : s # {} => it[s] = f[Taken(s)] + it[s \ {Taken(s)}]
  BY <1>1 DEF SumEquation
<1>4. B = {}
  <2> SUFFICES ASSUME B # {} PROVE FALSE
    OBVIOUS
  <2>1. PICK s \in B : \A r \in B : r \subseteq s => r = s
    <3>1. B \subseteq SUBSET S /\ B # {}
      OBVIOUS
    <3> HIDE DEF B
    <3> QED BY <3>1, SmallestSubset
  <2>2. PICK b \in s : it[s] # f[b] + it[s \ {b}]
    BY <2>1
  <2> DEFINE c == Taken(s)
  <2>3. c \in s /\ s \in SUBSET S
    BY <2>1, <2>2 DEF Taken
  <2>4. it[s] = f[c] + it[s \ {c}]
    BY <1>3, <2>3
  <2> HIDE DEF c
  <2>5. b # c
    BY <2>2, <2>4
  <2>6. s \ {c} \notin B /\ s \ {b} \notin B
    BY <2>1, <2>2, <2>3
  <2>7. it[s \ {c}] = f[b] + it[(s \ {c}) \ {b}] /\ it[s \ {b}] = f[c] + it[(s \ {b}) \ {c}]
    BY <2>2, <2>3, <2>5, <2>6
  <2>8. (s \ {c}) \ {b} = (s \ {b}) \ {c}
    OBVIOUS
  <2> DEFINE r == (s \ {b}) \ {c}
  <2>9. r \in SUBSET S /\ it[r] \in Int /\ f[b] \in Int /\ f[c] \in Int
    BY <2>2, <2>3
  <2>10. it[s \ {c}] = f[b] + it[r] /\ it[s \ {b}] = f[c] + it[r]
    BY <2>7, <2>8
  <2> HIDE DEF r, B
  <2>11. it[s] = f[b] + it[s \ {b}]
    BY <2>4, <2>9, <2>10
  <2> QED BY <2>2, <2>11
<1>5. it[S] = f[a] + it[S \ {a}]
  BY <1>4
<1> QED BY <1>2, <1>5

\* The sum depends on nothing but the values in the set.
LEMMA SumSame ==
    ASSUME NEW S, IsFiniteSet(S), NEW f, NEW g, \A x \in S : f[x] \in Int /\ f[x] = g[x]
    PROVE  SumIn(f, S) = SumIn(g, S)
<1> DEFINE B == {s \in SUBSET S : SumIn(f, s) # SumIn(g, s)}
<1>0. \A s \in SUBSET S : IsFiniteSet(s)
  BY FS_Subset
<1> SUFFICES ASSUME B # {} PROVE FALSE
  OBVIOUS
<1>1. PICK s \in B : \A r \in B : r \subseteq s => r = s
  <2>1. B \subseteq SUBSET S /\ B # {}
    OBVIOUS
  <2> HIDE DEF B
  <2> QED BY <2>1, SmallestSubset
<1>2. s # {}
  BY <1>1, SumOfNone
<1>3. PICK a \in s : TRUE
  BY <1>2
<1>4. SumIn(f, s) = f[a] + SumIn(f, s \ {a}) /\ SumIn(g, s) = g[a] + SumIn(g, s \ {a})
  <2>1. IsFiniteSet(s) /\ a \in s /\ \A x \in s : f[x] \in Int /\ g[x] \in Int
    BY <1>0, <1>1, <1>3
  <2> HIDE DEF B
  <2> QED BY <2>1, SumTake
<1>5. s \ {a} \notin B /\ s \ {a} \in SUBSET S
  BY <1>1, <1>3
<1>6. SumIn(f, s \ {a}) = SumIn(g, s \ {a})
  BY <1>5
<1> QED BY <1>1, <1>3, <1>4, <1>6

\* An element more.
LEMMA SumAdd ==
    ASSUME NEW S, IsFiniteSet(S), NEW f, NEW a, a \notin S, \A x \in S \cup {a} : f[x] \in Int
    PROVE  SumIn(f, S \cup {a}) = SumIn(f, S) + f[a]
<1>1. IsFiniteSet(S \cup {a}) /\ (S \cup {a}) \ {a} = S
  BY FS_AddElement
<1>2. SumIn(f, S \cup {a}) = f[a] + SumIn(f, S)
  BY <1>1, SumTake
<1>3. SumIn(f, S) \in Int /\ f[a] \in Int
  BY SumType
<1> QED BY <1>2, <1>3

\* One value changes.
LEMMA SumChange ==
    ASSUME NEW S, IsFiniteSet(S), NEW f, NEW g, NEW a \in S,
           \A x \in S : f[x] \in Int /\ g[x] \in Int,
           \A x \in S \ {a} : g[x] = f[x]
    PROVE  SumIn(g, S) = SumIn(f, S) + (g[a] - f[a])
<1>1. SumIn(f, S) = f[a] + SumIn(f, S \ {a}) /\ SumIn(g, S) = g[a] + SumIn(g, S \ {a})
  BY SumTake
<1>2. IsFiniteSet(S \ {a})
  BY FS_Subset
<1>3. SumIn(f, S \ {a}) = SumIn(g, S \ {a}) /\ SumIn(f, S \ {a}) \in Int
  BY <1>2, SumSame, SumType
<1> QED BY <1>1, <1>3

\* Nothing that is not negative exceeds the sum.
LEMMA SumBound ==
    ASSUME NEW S, IsFiniteSet(S), NEW f, \A x \in S : f[x] \in Nat
    PROVE  /\ SumIn(f, S) \in Nat
           /\ \A x \in S : f[x] <= SumIn(f, S)
<1> DEFINE B == {s \in SUBSET S : SumIn(f, s) \notin Nat}
<1>0. \A s \in SUBSET S : IsFiniteSet(s)
  BY FS_Subset
<1>1. B = {}
  <2> SUFFICES ASSUME B # {} PROVE FALSE
    OBVIOUS
  <2>1. PICK s \in B : \A r \in B : r \subseteq s => r = s
    <3>1. B \subseteq SUBSET S /\ B # {}
      OBVIOUS
    <3> HIDE DEF B
    <3> QED BY <3>1, SmallestSubset
  <2>2. s # {}
    <3>1. SumIn(f, s) \notin Nat
      BY <2>1
    <3>2. SumIn(f, {}) \in Nat
      BY SumOfNone
    <3> QED BY <3>1, <3>2
  <2>3. PICK a \in s : TRUE
    BY <2>2
  <2>4. SumIn(f, s) = f[a] + SumIn(f, s \ {a})
    <3>1. IsFiniteSet(s) /\ a \in s /\ \A x \in s : f[x] \in Int
      BY <1>0, <2>1, <2>3
    <3> HIDE DEF B
    <3> QED BY <3>1, SumTake
  <2>5. s \ {a} \notin B /\ s \ {a} \in SUBSET S
    BY <2>1, <2>3
  <2>6. SumIn(f, s \ {a}) \in Nat /\ f[a] \in Nat
    BY <2>3, <2>5
  <2> QED BY <2>1, <2>4, <2>6
<1>2. ASSUME NEW x \in S PROVE f[x] <= SumIn(f, S)
  <2>1. SumIn(f, S) = f[x] + SumIn(f, S \ {x})
    BY SumTake
  <2>2. SumIn(f, S \ {x}) \in Nat /\ f[x] \in Nat
    BY <1>1
  <2> QED BY <2>1, <2>2
<1> QED BY <1>1, <1>2

\* A sum of naturals is 0 only if all of them are.
LEMMA SumZero ==
    ASSUME NEW S, IsFiniteSet(S), NEW f, \A x \in S : f[x] = 0
    PROVE  SumIn(f, S) = 0
<1> DEFINE B == {s \in SUBSET S : SumIn(f, s) # 0}
<1>0. \A s \in SUBSET S : IsFiniteSet(s)
  BY FS_Subset
<1> SUFFICES ASSUME B # {} PROVE FALSE
  OBVIOUS
<1>1. PICK s \in B : \A r \in B : r \subseteq s => r = s
  <2>1. B \subseteq SUBSET S /\ B # {}
    OBVIOUS
  <2> HIDE DEF B
  <2> QED BY <2>1, SmallestSubset
<1>2. s # {}
  BY <1>1, SumOfNone
<1>3. PICK a \in s : TRUE
  BY <1>2
<1>4. SumIn(f, s) = f[a] + SumIn(f, s \ {a})
  <2>1. IsFiniteSet(s) /\ a \in s /\ \A x \in s : f[x] \in Int
    BY <1>0, <1>1, <1>3
  <2> HIDE DEF B
  <2> QED BY <2>1, SumTake
<1>5. s \ {a} \notin B /\ s \ {a} \in SUBSET S
  BY <1>1, <1>3
<1> QED BY <1>1, <1>3, <1>4, <1>5

\* Where the rest is 0, the sum is that of a part.
LEMMA SumPart ==
    ASSUME NEW S, IsFiniteSet(S), NEW T, T \subseteq S, NEW f, \A x \in S : f[x] \in Int,
           \A x \in S : x \notin T => f[x] = 0
    PROVE  SumIn(f, S) = SumIn(f, T)
<1> DEFINE B == {s \in SUBSET S : T \subseteq s /\ SumIn(f, s) # SumIn(f, T)}
<1>0. \A s \in SUBSET S : IsFiniteSet(s)
  BY FS_Subset
<1> SUFFICES ASSUME B # {} PROVE FALSE
  OBVIOUS
<1>1. PICK s \in B : \A r \in B : r \subseteq s => r = s
  <2>1. B \subseteq SUBSET S /\ B # {}
    OBVIOUS
  <2> HIDE DEF B
  <2> QED BY <2>1, SmallestSubset
<1>2. s # T /\ T \subseteq s /\ s \subseteq S
  BY <1>1
<1>3. PICK x \in s : x \notin T
  BY <1>2
<1>4. SumIn(f, s) = f[x] + SumIn(f, s \ {x}) /\ f[x] = 0 /\ SumIn(f, s \ {x}) \in Int
  <2>1. IsFiniteSet(s) /\ IsFiniteSet(s \ {x})
    BY <1>0, <1>2
  <2>2. (\A y \in s : f[y] \in Int) /\ \A y \in s \ {x} : f[y] \in Int
    BY <1>2
  <2>3. f[x] = 0
    BY <1>2, <1>3
  <2> HIDE DEF B
  <2> QED BY <1>3, <2>1, <2>2, <2>3, SumTake, SumType
<1>5. s \ {x} \notin B /\ s \ {x} \in SUBSET S /\ T \subseteq s \ {x}
  BY <1>1, <1>2, <1>3
<1> QED BY <1>1, <1>4, <1>5

\* What holds of three numbers, and of the sum of two such triples, holds of the
\* sums of three functions.
LEMMA SumRelated ==
    ASSUME NEW S, IsFiniteSet(S), NEW f, NEW g, NEW h, NEW R, <<0, 0, 0>> \in R,
           \A x \in S : f[x] \in Int /\ g[x] \in Int /\ h[x] \in Int,
           \A x \in S : <<f[x], g[x], h[x]>> \in R,
           \A a, b, c, d, e, k \in Int :
               <<a, b, c>> \in R /\ <<d, e, k>> \in R => <<a + d, b + e, c + k>> \in R
    PROVE  <<SumIn(f, S), SumIn(g, S), SumIn(h, S)>> \in R
<1> DEFINE B == {s \in SUBSET S : <<SumIn(f, s), SumIn(g, s), SumIn(h, s)>> \notin R}
<1>0. \A s \in SUBSET S : IsFiniteSet(s)
  BY FS_Subset
<1> SUFFICES ASSUME B # {} PROVE FALSE
  OBVIOUS
<1>1. PICK s \in B : \A r \in B : r \subseteq s => r = s
  <2>1. B \subseteq SUBSET S /\ B # {}
    OBVIOUS
  <2> HIDE DEF B
  <2> QED BY <2>1, SmallestSubset
<1>2. s # {}
  BY <1>1, SumOfNone
<1>3. PICK x \in s : TRUE
  BY <1>2
<1>4. /\ IsFiniteSet(s) /\ s \subseteq S /\ IsFiniteSet(s \ {x}) /\ s \ {x} \subseteq S
      /\ x \in S /\ s \ {x} # s
  BY <1>0, <1>1, <1>3
<1>5. /\ SumIn(f, s) = f[x] + SumIn(f, s \ {x}) /\ SumIn(f, s \ {x}) \in Int
      /\ SumIn(g, s) = g[x] + SumIn(g, s \ {x}) /\ SumIn(g, s \ {x}) \in Int
      /\ SumIn(h, s) = h[x] + SumIn(h, s \ {x}) /\ SumIn(h, s \ {x}) \in Int
  <2>1. /\ \A y \in s : f[y] \in Int /\ g[y] \in Int /\ h[y] \in Int
        /\ \A y \in s \ {x} : f[y] \in Int /\ g[y] \in Int /\ h[y] \in Int
    BY <1>4
  <2> HIDE DEF B
  <2> QED BY <1>3, <1>4, <2>1, SumTake, SumType
<1>6. <<SumIn(f, s \ {x}), SumIn(g, s \ {x}), SumIn(h, s \ {x})>> \in R
  BY <1>1, <1>4
<1>7. f[x] \in Int /\ g[x] \in Int /\ h[x] \in Int /\ <<f[x], g[x], h[x]>> \in R
  BY <1>4
<1>8. <<SumIn(f, s), SumIn(g, s), SumIn(h, s)>> \in R
  <2> DEFINE p == SumIn(f, s \ {x})
             q == SumIn(g, s \ {x})
             r == SumIn(h, s \ {x})
  <2>1. p \in Int /\ q \in Int /\ r \in Int /\ <<p, q, r>> \in R
    BY <1>5, <1>6
  <2>2. SumIn(f, s) = f[x] + p /\ SumIn(g, s) = g[x] + q /\ SumIn(h, s) = h[x] + r
    BY <1>5
  <2> HIDE DEF p, q, r, B
  <2>3. <<f[x] + p, g[x] + q, h[x] + r>> \in R
    BY <1>7, <2>1
  <2> QED BY <2>2, <2>3
<1> QED BY <1>1, <1>8

-----------------------------------------------------------------------------
(* The ends of a finite set.                                               *)

HasMax(S) == \E x \in S : \A y \in S : x >= y

LEMMA MaxOf ==
    ASSUME NEW S, IsFiniteSet(S), S # {}, S \subseteq Int
    PROVE  Max(S) \in S /\ \A y \in S : y <= Max(S)
<1> DEFINE B == {s \in SUBSET S : s # {} /\ ~HasMax(s)}
<1>1. B = {}
  <2> SUFFICES ASSUME B # {} PROVE FALSE
    OBVIOUS
  <2>1. PICK s \in B : \A r \in B : r \subseteq s => r = s
    <3>1. B \subseteq SUBSET S /\ B # {}
      OBVIOUS
    <3> HIDE DEF B
    <3>2. IsFiniteSet(S)
      OBVIOUS
    <3> QED BY ONLY <3>1, <3>2, SmallestSubset
  <2>2. PICK a \in s : TRUE
    BY <2>1
  <2>3. s \ {a} \notin B /\ s \ {a} \in SUBSET S
    BY <2>1, <2>2
  <2>4. CASE s \ {a} = {}
    BY <2>1, <2>2, <2>4 DEF HasMax
  <2>5. CASE s \ {a} # {}
    <3>1. PICK x \in s \ {a} : \A y \in s \ {a} : x >= y
      BY <2>3, <2>5 DEF HasMax
    <3>2. CASE x >= a
      BY <2>1, <2>2, <3>1, <3>2 DEF HasMax
    <3>3. CASE ~(x >= a)
      <4>1. \A y \in s : a >= y
        BY <2>1, <2>2, <3>1, <3>3
      <4> QED BY <2>1, <2>2, <4>1 DEF HasMax
    <3> QED BY <3>2, <3>3
  <2> QED BY <2>4, <2>5
<1>2. \E x \in S : \A y \in S : x >= y
  BY <1>1 DEF HasMax
<1>3. Max(S) \in S /\ \A y \in S : Max(S) >= y
  BY <1>2 DEF Max
<1>4. \A y \in S : Max(S) >= y => y <= Max(S)
  BY <1>3
<1> QED BY <1>3, <1>4

LEMMA MinOf ==
    ASSUME NEW S, S # {}, S \subseteq Nat
    PROVE  Min(S) \in S /\ \A y \in S : Min(S) <= y
<1>1. \E x \in S : \A y \in S : x =< y
  BY LeastExists
<1> QED BY <1>1 DEF Min

\* One member more or less.
LEMMA CardMember ==
    ASSUME NEW S, IsFiniteSet(S), NEW T, NEW a, T \ {a} = S \ {a}
    PROVE  /\ IsFiniteSet(T) /\ Cardinality(S) \in Nat
           /\ Cardinality(T) = Cardinality(S) - (IF a \in S THEN 1 ELSE 0) + (IF a \in T THEN 1 ELSE 0)
<1> DEFINE R == S \ {a}
<1>1. /\ IsFiniteSet(R) /\ Cardinality(R) \in Nat /\ Cardinality(S) \in Nat
      /\ Cardinality(R) = IF a \in S THEN Cardinality(S) - 1 ELSE Cardinality(S)
  BY FS_RemoveElement, FS_CardinalityType
<1>2. IsFiniteSet(R \cup {a}) /\ Cardinality(R \cup {a}) = Cardinality(R) + 1
  <2>1. a \notin R
    OBVIOUS
  <2> HIDE DEF R
  <2> QED BY <1>1, <2>1, FS_AddElement
<1>3. CASE a \in T
  <2>1. T = R \cup {a}
    BY <1>3
  <2> QED BY <1>1, <1>2, <1>3, <2>1
<1>4. CASE a \notin T
  <2>1. T = R
    BY <1>4
  <2> QED BY <1>1, <1>4, <2>1
<1> QED BY <1>3, <1>4

\* One term more or less, or another one.
LEMMA SumMember ==
    ASSUME NEW S, IsFiniteSet(S), NEW T, NEW a, T \ {a} = S \ {a},
           NEW f, NEW g, \A x \in S : f[x] \in Int, \A x \in T : g[x] \in Int,
           \A x \in S \ {a} : f[x] = g[x]
    PROVE  SumIn(f, S) \in Int /\ SumIn(g, T) = SumIn(f, S) - (IF a \in S THEN f[a] ELSE 0) + (IF a \in T THEN g[a] ELSE 0)
<1> DEFINE R == S \ {a}
<1>1. IsFiniteSet(R) /\ IsFiniteSet(T)
  BY FS_RemoveElement, CardMember
<1>2. SumIn(f, R) = SumIn(g, R) /\ SumIn(f, R) \in Int
  <2>1. \A x \in R : f[x] \in Int /\ f[x] = g[x]
    OBVIOUS
  <2> HIDE DEF R
  <2> QED BY <1>1, <2>1, SumSame, SumType
<1>3. SumIn(f, S) = SumIn(f, R) + (IF a \in S THEN f[a] ELSE 0)
  <2>1. CASE a \in S
    <3>1. SumIn(f, S) = f[a] + SumIn(f, R)
      BY <2>1, SumTake
    <3>2. f[a] \in Int
      BY <2>1
    <3> HIDE DEF R
    <3> QED BY ONLY <1>2, <2>1, <3>1, <3>2
  <2>2. CASE a \notin S
    <3>1. R = S
      BY <2>2
    <3> HIDE DEF R
    <3> QED BY ONLY <1>2, <2>2, <3>1
  <2> QED BY <2>1, <2>2
<1>4. SumIn(g, T) = SumIn(g, R) + (IF a \in T THEN g[a] ELSE 0)
  <2>1. CASE a \in T
    <3>1. SumIn(g, T) = g[a] + SumIn(g, T \ {a})
      BY <1>1, <2>1, SumTake
    <3>2. g[a] \in Int /\ T \ {a} = R
      BY <2>1
    <3>3. SumIn(g, T) = g[a] + SumIn(g, R)
      BY ONLY <3>1, <3>2, Zenon
    <3> HIDE DEF R
    <3> QED BY ONLY <1>2, <2>1, <3>2, <3>3
  <2>2. CASE a \notin T
    <3>1. R = T
      BY <2>2
    <3> HIDE DEF R
    <3> QED BY ONLY <1>2, <2>2, <3>1
  <2> QED BY <2>1, <2>2
<1>5. (a \in S => f[a] \in Int) /\ (a \in T => g[a] \in Int)
  OBVIOUS
<1> HIDE DEF R
<1> QED BY <1>2, <1>3, <1>4, <1>5

\* The greatest of the values is the value of something.
LEMMA MaxValue ==
    ASSUME NEW S, IsFiniteSet(S), S # {}, NEW f, \A x \in S : f[x] \in Int
    PROVE  /\ IsFiniteSet({f[x] : x \in S})
           /\ \E a \in S : Max({f[x] : x \in S}) = f[a] /\ \A x \in S : f[x] <= f[a]
<1> DEFINE g == [x \in S |-> f[x]]
           T == {f[x] : x \in S}
<1>1. g \in Surjection(S, T)
  <2>1. g \in [S -> T] /\ \A y \in T : \E x \in S : g[x] = y
    OBVIOUS
  <2> QED BY <2>1, Zenon DEF Surjection
<1>2. T # {} /\ T \subseteq Int
  OBVIOUS
<1> HIDE DEF g
<1>3. IsFiniteSet(T)
  BY <1>1, FS_Surjection
<1>4. Max(T) \in T /\ \A y \in T : y <= Max(T)
  <2> HIDE DEF T
  <2> QED BY <1>2, <1>3, MaxOf
<1>5. PICK a \in S : Max(T) = f[a]
  BY <1>4
<1>6. \A x \in S : f[x] <= f[a]
  <2> TAKE x \in S
  <2>1. f[x] \in T
    OBVIOUS
  <2> QED BY <1>4, <1>5, <2>1
<1> QED BY <1>3, <1>5, <1>6

LEMMA GreatestAt ==
    ASSUME NEW S, IsFiniteSet(S), S # {}, NEW f, \A x \in S : f[x] \in Int
    PROVE  \E a \in S : \A x \in S : f[x] <= f[a]
BY MaxValue

\* A fold whose steps stay in a set stays there.
LEMMA FoldTyped ==
    ASSUME NEW S, IsFiniteSet(S), NEW V, NEW it, NEW rest, it[{}] \in V,
           \A s \in SUBSET S : s # {} => /\ rest[s] \subseteq s /\ rest[s] # s
                                         /\ it[rest[s]] \in V => it[s] \in V
    PROVE  it[S] \in V
<1> DEFINE B == {s \in SUBSET S : it[s] \notin V}
<1>1. B = {}
  <2> SUFFICES ASSUME B # {} PROVE FALSE
    OBVIOUS
  <2>1. PICK s \in B : \A r \in B : r \subseteq s => r = s
    <3>1. B \subseteq SUBSET S
      OBVIOUS
    <3> HIDE DEF B
    <3> QED BY <3>1, SmallestSubset
  <2>2. s \in SUBSET S /\ s # {}
    OBVIOUS
  <2>3. rest[s] \subseteq s /\ rest[s] # s /\ rest[s] \in SUBSET S
    BY <2>2
  <2>4. rest[s] \notin B
    BY <2>1, <2>3
  <2> QED BY <2>2, <2>3, <2>4
<1> QED BY <1>1
=============================================================================
