-------------------------- MODULE ExamScoreProofs ---------------------------
(***************************************************************************)
(* What CTaskExam::FinishInit computes, for any number of items and any    *)
(* weights, and the walk over the items.                                   *)
(*                                                                         *)
(* Sums are folds, and no induction rule is within the provers' reach: a   *)
(* statement about the sums of the first k numbers is proved by the least  *)
(* k that would violate it (LeastElement, Reaches).  From there: a sum is  *)
(* linear and monotone, and the sum of marks 0 and 1 counts the marked     *)
(* places (TotalMarks).                                                    *)
(*                                                                         *)
(* Why the percents add up to 100: truncation takes less than a point off  *)
(* a share and raising 0 to 1 adds at most one, so the shares of n items   *)
(* exceed 100 by at most n, and fall short of it by at most the number of  *)
(* items that have a weight (PadBound).  Ranks number the items from 0 to  *)
(* n - 1 without a gap (RankBelow), so just |nPad| of them are moved, all  *)
(* by one and in the same direction; those with a weight come first, so    *)
(* that an item of score 0, raised to 1, is never raised again.  Each      *)
(* percent then is less than two points away from the exact share.         *)
(***************************************************************************)
EXTENDS ExamScore, FiniteSetTheorems, WellFoundedInduction, SequenceTheorems, TLAPS

\* A non-empty set of naturals has a least element.
LEMMA LeastElement ==
  ASSUME NEW S \in SUBSET Nat, S # {}
  PROVE  \E x \in S : \A y \in S : x <= y
<1>1. PICK x \in S : \A y \in S : ~(<<y, x>> \in OpToRel(<, Nat))
  BY NatLessThanWellFounded, WFMin
<1>2. ASSUME NEW y \in S PROVE x <= y
  <2>1. ~(<<y, x>> \in OpToRel(<, Nat))
    BY <1>1
  <2>2. ~(y < x)
    BY <2>1 DEF OpToRel
  <2> QED BY <2>2
<1> QED BY <1>2

\* Induction up to n, for a property given by the set of the numbers that have it.
LEMMA Reaches ==
  ASSUME NEW n \in Nat, NEW G, 0 \in G, \A k \in 1..n : k - 1 \in G => k \in G
  PROVE  \A k \in 0..n : k \in G
<1> DEFINE Bad == {k \in 0..n : k \notin G}
<1> SUFFICES ASSUME Bad # {} PROVE FALSE
  OBVIOUS
<1>1. Bad \in SUBSET Nat
  OBVIOUS
<1>2. PICK k \in Bad : \A y \in Bad : k <= y
  BY <1>1, LeastElement
<1>3. k \in 1..n
  BY <1>2
<1>4. k - 1 \in 0..n /\ ~(k <= k - 1)
  BY <1>3
<1>5. k - 1 \in G
  BY <1>2, <1>4
<1> QED BY <1>2, <1>3, <1>5

\* The first n places.
LEMMA Places ==
  ASSUME NEW n \in Nat
  PROVE  /\ IsFiniteSet(1..n) /\ Cardinality(1..n) = n
         /\ IsFiniteSet(0..(n - 1)) /\ Cardinality(0..(n - 1)) = n
<1>1. IsFiniteSet(1..n) /\ Cardinality(1..n) = n
  BY FS_Interval
<1>2. 0 \in Int /\ n - 1 \in Int
  OBVIOUS
<1>3. IsFiniteSet(0..(n - 1)) /\ Cardinality(0..(n - 1)) = IF 0 > n - 1 THEN 0 ELSE n - 1 - 0 + 1
  BY ONLY <1>2, FS_Interval
<1>4. (IF 0 > n - 1 THEN 0 ELSE n - 1 - 0 + 1) = n
  OBVIOUS
<1> QED BY <1>1, <1>3, <1>4

-----------------------------------------------------------------------------
(* Sums                                                                     *)

\* Max of a set that has a greatest element.
LEMMA MaxIs ==
  ASSUME NEW S \in SUBSET Int, NEW m \in S, \A y \in S : y <= m
  PROVE  Max(S) = m
<1>1. Max(S) \in S /\ \A y \in S : y <= Max(S)
  BY DEF Max
<1>2. Max(S) \in Int /\ m \in Int
  BY <1>1
<1>3. Max(S) <= m /\ m <= Max(S)
  BY <1>1
<1> QED BY <1>2, <1>3

\* A non-empty set of numbers up to n has a greatest, which is its Max.
LEMMA MaxIsIn ==
  ASSUME NEW n \in Nat, NEW S \in SUBSET (1..n), S # {}
  PROVE  Max(S) \in S
<1> DEFINE T == {n - x : x \in S}
<1>1. T \in SUBSET Nat /\ T # {}
  <2>1. \A x \in S : n - x \in Nat
    OBVIOUS
  <2>2. PICK x \in S : TRUE
    OBVIOUS
  <2>3. n - x \in T
    OBVIOUS
  <2> QED BY <2>1, <2>3
<1>2. PICK t \in T : \A y \in T : t <= y
  BY <1>1, LeastElement
<1>3. PICK x \in S : t = n - x
  BY <1>2
<1>4. \A y \in S : n - y \in T
  OBVIOUS
<1> HIDE DEF T
<1>5. \A y \in S : n - x <= n - y
  BY <1>2, <1>3, <1>4
<1>6. \A y \in S : y <= x
  BY <1>5
<1> QED BY <1>6 DEF Max

\* F sums w over every set of places, taking the last first, as FoldLeft does.
Sums(F, w, n) ==
  /\ F \in [SUBSET (1..n) -> Int]
  /\ \A s \in SUBSET (1..n) : F[s] = IF s = {} THEN 0 ELSE F[s \ {Max(s)}] + w[Max(s)]

\* There is such a function.
LEMMA SumsExist ==
  ASSUME NEW n \in Nat, NEW w \in [1..n -> Int]
  PROVE  \E F : Sums(F, w, n)
<1> DEFINE G == {k \in 0..n : \E F : Sums(F, w, k)}
<1>1. 0 \in G
  <2> DEFINE F == [s \in SUBSET (1..0) |-> 0]
  <2>1. \A s \in SUBSET (1..0) : s = {}
    OBVIOUS
  <2>2. Sums(F, w, 0)
    BY <2>1 DEF Sums
  <2> HIDE DEF F
  <2> QED BY <2>2
<1>2. ASSUME NEW k \in 1..n, k - 1 \in G PROVE k \in G
  <2>1. PICK F : Sums(F, w, k - 1)
    BY <1>2
  <2>2. /\ F \in [SUBSET (1..(k - 1)) -> Int]
        /\ \A s \in SUBSET (1..(k - 1)) : F[s] = IF s = {} THEN 0 ELSE F[s \ {Max(s)}] + w[Max(s)]
    BY <2>1 DEF Sums
  <2> DEFINE H == [s \in SUBSET (1..k) |-> IF k \in s THEN F[s \ {k}] + w[k] ELSE F[s]]
  <2>3. \A s \in SUBSET (1..k) : s \ {k} \in SUBSET (1..(k - 1))
    OBVIOUS
  <2>4. \A s \in SUBSET (1..k) : k \notin s => s \in SUBSET (1..(k - 1))
    OBVIOUS
  <2>5. w[k] \in Int
    OBVIOUS
  <2>6. H \in [SUBSET (1..k) -> Int]
    BY <2>2, <2>3, <2>4, <2>5
  <2>7. ASSUME NEW s \in SUBSET (1..k)
        PROVE  H[s] = IF s = {} THEN 0 ELSE H[s \ {Max(s)}] + w[Max(s)]
    <3>1. CASE k \in s
      <4>1. Max(s) = k
        BY <3>1, MaxIs
      <4>2. s \ {k} \in SUBSET (1..k) /\ k \notin s \ {k}
        OBVIOUS
      <4>3. H[s \ {k}] = F[s \ {k}]
        BY <4>2
      <4>4. H[s] = F[s \ {k}] + w[k]
        BY <3>1
      <4> HIDE DEF H
      <4> QED BY <3>1, <4>1, <4>3, <4>4
    <3>2. CASE k \notin s
      <4>1. s \in SUBSET (1..(k - 1))
        BY <2>4, <3>2
      <4>2. s \ {Max(s)} \in SUBSET (1..k) /\ k \notin s \ {Max(s)}
        BY <3>2
      <4>3. H[s] = F[s] /\ H[s \ {Max(s)}] = F[s \ {Max(s)}]
        BY <3>2, <4>2
      <4> HIDE DEF H
      <4> QED BY <2>2, <4>1, <4>3
    <3> QED BY <3>1, <3>2
  <2> HIDE DEF H
  <2>8. Sums(H, w, k)
    BY <2>6, <2>7 DEF Sums
  <2> QED BY <2>8
<1> HIDE DEF G
<1>3. \A k \in 0..n : k \in G
  BY <1>1, <1>2, Reaches
<1> QED BY <1>3 DEF G

\* S[k] is the sum of the first k numbers of w.
Runs(S, w, n) ==
  /\ S \in [0..n -> Int]
  /\ S[0] = 0
  /\ \A k \in 1..n : S[k] = S[k - 1] + w[k]

\* Total is the last of the running sums.
LEMMA TotalRuns ==
  ASSUME NEW n \in Nat, NEW w \in [1..n -> Int]
  PROVE  \E S : Runs(S, w, n) /\ S[n] = Total(w)
<1> DEFINE F == CHOOSE F : F = [s \in SUBSET (1..n) |->
                                  IF s = {} THEN 0 ELSE F[s \ {Max(s)}] + w[Max(s)]]
<1>1. Total(w) = F[1..n]
  <2>1. DOMAIN w = 1..n
    OBVIOUS
  <2> QED BY <2>1 DEF Total, FoldLeft, MapThenFoldSet
<1>2. PICK H : Sums(H, w, n)
  BY SumsExist
<1>3. H = [s \in SUBSET (1..n) |-> IF s = {} THEN 0 ELSE H[s \ {Max(s)}] + w[Max(s)]]
  BY <1>2 DEF Sums
<1>4. F = [s \in SUBSET (1..n) |-> IF s = {} THEN 0 ELSE F[s \ {Max(s)}] + w[Max(s)]]
  BY <1>3
<1> HIDE DEF F
<1>5. \A s \in SUBSET (1..n) : F[s] = IF s = {} THEN 0 ELSE F[s \ {Max(s)}] + w[Max(s)]
  BY <1>4
<1> DEFINE S == [k \in 0..n |-> F[1..k]]
<1>6. F[1..0] = 0
  <2>1. 1..0 = {} /\ 1..0 \in SUBSET (1..n)
    OBVIOUS
  <2> QED BY <1>5, <2>1
<1>7. ASSUME NEW k \in 1..n PROVE F[1..k] = F[1..(k - 1)] + w[k]
  <2>1. 1..k \in SUBSET (1..n) /\ k \in 1..k /\ 1..k # {}
    OBVIOUS
  <2>2. Max(1..k) = k
    <3>1. 1..k \in SUBSET Int /\ \A y \in 1..k : y <= k
      OBVIOUS
    <3> QED BY <2>1, <3>1, MaxIs
  <2>3. (1..k) \ {k} = 1..(k - 1)
    OBVIOUS
  <2> QED BY <1>5, <2>1, <2>2, <2>3
<1>8. \A k \in 0..n : F[1..k] \in Int
  <2> DEFINE G == {k \in 0..n : F[1..k] \in Int}
  <2>1. 0 \in G
    BY <1>6
  <2>2. ASSUME NEW k \in 1..n, k - 1 \in G PROVE k \in G
    BY <1>7, <2>2
  <2> HIDE DEF G
  <2>3. \A k \in 0..n : k \in G
    BY <2>1, <2>2, Reaches
  <2> QED BY <2>3 DEF G
<1>9. Runs(S, w, n)
  BY <1>6, <1>7, <1>8 DEF Runs
<1> QED BY <1>1, <1>9

-----------------------------------------------------------------------------
(* The algebra of sums                                                      *)

\* A sum of integers is an integer.
LEMMA TotalType ==
  ASSUME NEW n \in Nat, NEW w \in [1..n -> Int]
  PROVE  Total(w) \in Int
<1>1. PICK S : Runs(S, w, n) /\ S[n] = Total(w)
  BY TotalRuns
<1>2. S \in [0..n -> Int] /\ n \in 0..n
  BY <1>1 DEF Runs
<1>3. S[n] \in Int
  BY <1>2
<1> QED BY <1>1, <1>3

\* A sum of larger numbers is larger.
LEMMA TotalMonotone ==
  ASSUME NEW n \in Nat, NEW v \in [1..n -> Int], NEW w \in [1..n -> Int],
         \A i \in 1..n : v[i] <= w[i]
  PROVE  Total(v) <= Total(w)
<1>1. PICK S : Runs(S, v, n) /\ S[n] = Total(v)
  BY TotalRuns
<1>2. PICK R : Runs(R, w, n) /\ R[n] = Total(w)
  BY TotalRuns
<1> DEFINE G == {k \in 0..n : S[k] <= R[k]}
<1>3. 0 \in G
  BY <1>1, <1>2 DEF Runs
<1>4. ASSUME NEW k \in 1..n, k - 1 \in G PROVE k \in G
  <2>1. S[k] = S[k - 1] + v[k] /\ R[k] = R[k - 1] + w[k] /\ S[k - 1] <= R[k - 1]
    BY <1>1, <1>2, <1>4 DEF Runs
  <2>2. k \in 0..n /\ k - 1 \in 0..n
    OBVIOUS
  <2>3. S[k - 1] \in Int /\ R[k - 1] \in Int /\ v[k] \in Int /\ w[k] \in Int /\ v[k] <= w[k]
    BY <1>1, <1>2, <2>2 DEF Runs
  <2>4. S[k] <= R[k]
    BY <2>1, <2>3
  <2> QED BY <2>2, <2>4
<1> HIDE DEF G
<1>5. \A k \in 0..n : k \in G
  BY <1>3, <1>4, Reaches
<1>6. n \in G
  BY <1>5
<1>7. S[n] <= R[n]
  BY <1>6 DEF G
<1> QED BY <1>1, <1>2, <1>7

\* u is v + c * w.
Linear(n, u, v, c, w) ==
  /\ n \in Nat /\ c \in Int
  /\ u \in [1..n -> Int] /\ v \in [1..n -> Int] /\ w \in [1..n -> Int]
  /\ \A i \in 1..n : u[i] = v[i] + c * w[i]

\* The sum is linear.
LEMMA TotalLinear ==
  ASSUME NEW n, NEW u, NEW v, NEW c, NEW w, Linear(n, u, v, c, w)
  PROVE  Total(u) = Total(v) + c * Total(w)
<1> USE DEF Linear
<1>1. PICK S : Runs(S, v, n) /\ S[n] = Total(v)
  BY TotalRuns
<1>2. PICK R : Runs(R, w, n) /\ R[n] = Total(w)
  BY TotalRuns
<1>3. PICK Q : Runs(Q, u, n) /\ Q[n] = Total(u)
  BY TotalRuns
<1> DEFINE G == {k \in 0..n : Q[k] = S[k] + c * R[k]}
<1>4. 0 \in G
  <2>1. S[0] = 0 /\ R[0] = 0 /\ Q[0] = 0 /\ 0 \in 0..n
    BY <1>1, <1>2, <1>3 DEF Runs
  <2>2. c * 0 = 0
    OBVIOUS
  <2> QED BY <2>1, <2>2
<1>5. ASSUME NEW k \in 1..n, k - 1 \in G PROVE k \in G
  <2>1. k \in 0..n /\ k - 1 \in 0..n
    OBVIOUS
  <2>2. S[k] = S[k - 1] + v[k] /\ R[k] = R[k - 1] + w[k] /\ Q[k] = Q[k - 1] + u[k]
    BY <1>1, <1>2, <1>3 DEF Runs
  <2>3. Q[k - 1] = S[k - 1] + c * R[k - 1] /\ u[k] = v[k] + c * w[k]
    BY <1>5
  <2>4. S[k - 1] \in Int /\ R[k - 1] \in Int /\ v[k] \in Int /\ w[k] \in Int
    BY <1>1, <1>2, <2>1 DEF Runs
  <2>5. c * (R[k - 1] + w[k]) = c * R[k - 1] + c * w[k] /\ c * R[k - 1] \in Int /\ c * w[k] \in Int
    BY ONLY <2>4, c \in Int
  <2> DEFINE x == c * R[k - 1]
             y == c * w[k]
             z == c * R[k]
  <2>6. Q[k] = (S[k - 1] + x) + (v[k] + y)
    BY <2>2, <2>3
  <2>7. z = x + y /\ x \in Int /\ y \in Int
    BY <2>2, <2>5
  <2>8. Q[k] = S[k] + z
    <3> HIDE DEF x, y, z
    <3> QED BY ONLY <2>2, <2>4, <2>6, <2>7
  <2>9. Q[k] = S[k] + c * R[k]
    BY <2>8
  <2> QED BY <2>1, <2>9
<1> HIDE DEF G
<1>6. \A k \in 0..n : k \in G
  BY <1>4, <1>5, Reaches
<1>7. n \in G
  BY <1>6
<1>8. Q[n] = S[n] + c * R[n]
  BY <1>7 DEF G
<1> QED BY <1>1, <1>2, <1>3, <1>8

\* 1 for the places of A and 0 for the others.
Marks(A, n) == [i \in 1..n |-> IF i \in A THEN 1 ELSE 0]

\* The marks of a set of places add up to its size.
LEMMA TotalMarks ==
  ASSUME NEW n \in Nat, NEW A \in SUBSET (1..n)
  PROVE  /\ Marks(A, n) \in [1..n -> Int]
         /\ Total(Marks(A, n)) = Cardinality(A)
<1> DEFINE w == Marks(A, n)
<1>1. w \in [1..n -> Int] /\ \A i \in 1..n : w[i] = IF i \in A THEN 1 ELSE 0
  BY DEF Marks
<1> HIDE DEF w
<1>2. PICK S : Runs(S, w, n) /\ S[n] = Total(w)
  BY <1>1, TotalRuns
<1> DEFINE G == {k \in 0..n : S[k] = Cardinality(A \cap (1..k))}
<1>3. 0 \in G
  <2>1. A \cap (1..0) = {} /\ 0 \in 0..n /\ S[0] = 0
    BY <1>2 DEF Runs
  <2> QED BY <2>1, FS_EmptySet
<1>4. ASSUME NEW k \in 1..n, k - 1 \in G PROVE k \in G
  <2>1. S[k] = S[k - 1] + w[k] /\ S[k - 1] = Cardinality(A \cap (1..(k - 1)))
    BY <1>2, <1>4 DEF Runs
  <2>2. IsFiniteSet(A \cap (1..(k - 1)))
    <3>1. IsFiniteSet(1..(k - 1))
      BY FS_Interval
    <3> QED BY <3>1, FS_Subset
  <2>3. CASE k \in A
    <3>1. A \cap (1..k) = (A \cap (1..(k - 1))) \cup {k} /\ k \notin A \cap (1..(k - 1))
      BY <2>3
    <3>2. Cardinality(A \cap (1..k)) = Cardinality(A \cap (1..(k - 1))) + 1
      BY <2>2, <3>1, FS_AddElement
    <3>3. w[k] = 1
      BY <1>1, <2>3
    <3> QED BY <2>1, <3>2, <3>3
  <2>4. CASE k \notin A
    <3>1. A \cap (1..k) = A \cap (1..(k - 1))
      BY <2>4
    <3>2. w[k] = 0
      BY <1>1, <2>4
    <3>3. Cardinality(A \cap (1..(k - 1))) \in Nat
      BY <2>2, FS_CardinalityType
    <3>4. S[k] = Cardinality(A \cap (1..k)) /\ k \in 0..n
      BY <2>1, <3>1, <3>2, <3>3
    <3> QED BY <3>4
  <2> QED BY <2>3, <2>4
<1> HIDE DEF G
<1>5. \A k \in 0..n : k \in G
  BY <1>3, <1>4, Reaches
<1>6. n \in G
  BY <1>5
<1>7. S[n] = Cardinality(A \cap (1..n)) /\ A \cap (1..n) = A
  BY <1>6 DEF G
<1> QED BY <1>1, <1>2, <1>7 DEF w

\* u is c * w.
Scaled(n, u, c, w) ==
  /\ n \in Nat /\ c \in Int
  /\ u \in [1..n -> Int] /\ w \in [1..n -> Int]
  /\ \A i \in 1..n : u[i] = c * w[i]

\* A common factor comes out of a sum.
LEMMA TotalScaled ==
  ASSUME NEW n, NEW u, NEW c, NEW w, Scaled(n, u, c, w)
  PROVE  Total(u) = c * Total(w)
<1>0. /\ n \in Nat /\ c \in Int /\ u \in [1..n -> Int] /\ w \in [1..n -> Int]
      /\ \A i \in 1..n : u[i] = c * w[i]
  BY DEF Scaled
<1> DEFINE e == Marks({}, n)
<1>1. e \in [1..n -> Int] /\ Total(e) = 0
  <2>1. {} \in SUBSET (1..n) /\ Cardinality({}) = 0
    BY FS_EmptySet
  <2> QED BY <1>0, <2>1, TotalMarks
<1>2. \A i \in 1..n : e[i] = 0
  BY DEF Marks
<1> HIDE DEF e
<1>3. \A i \in 1..n : c * w[i] \in Int
  BY <1>0
<1>4. \A i \in 1..n : u[i] = e[i] + c * w[i]
  BY <1>0, <1>2, <1>3
<1>5. Linear(n, u, e, c, w)
  BY <1>0, <1>1, <1>4 DEF Linear
<1>6. Total(u) = Total(e) + c * Total(w)
  BY <1>5, TotalLinear
<1>7. Total(w) \in Int
  BY <1>0, TotalType
<1>8. c * Total(w) \in Int
  BY <1>0, <1>7
<1> QED BY <1>1, <1>6, <1>8

\* A number is no more than a sum it is part of, when none is negative.
LEMMA TotalAbove ==
  ASSUME NEW n \in Nat, NEW w \in [1..n -> Nat], NEW i \in 1..n
  PROVE  w[i] <= Total(w)
<1> DEFINE v == [j \in 1..n |-> IF j = i THEN w[i] ELSE 0]
           o == Marks({i}, n)
<1>1. v \in [1..n -> Int] /\ w \in [1..n -> Int] /\ w[i] \in Int
  OBVIOUS
<1>2. o \in [1..n -> Int] /\ Total(o) = 1
  <2>1. {i} \in SUBSET (1..n) /\ Cardinality({i}) = 1
    BY FS_Singleton
  <2> QED BY <2>1, TotalMarks
<1>3. \A j \in 1..n : v[j] = w[i] * o[j]
  BY <1>1 DEF Marks
<1>4. \A j \in 1..n : v[j] <= w[j]
  BY <1>1
<1> HIDE DEF v, o
<1>5. Total(v) = w[i] * Total(o)
  <2>1. Scaled(n, v, w[i], o)
    BY <1>1, <1>2, <1>3 DEF Scaled
  <2> QED BY <2>1, TotalScaled
<1>6. Total(v) = w[i]
  BY <1>1, <1>2, <1>5
<1>7. Total(v) <= Total(w)
  BY ONLY <1>1, <1>4, n \in Nat, TotalMonotone
<1> QED BY <1>6, <1>7

-----------------------------------------------------------------------------
(* Shares                                                                   *)

\* The quotient that truncation leaves.
LEMMA Quotient ==
  ASSUME NEW a \in Nat, NEW t \in Nat, t > 0
  PROVE  /\ a \div t \in Nat
         /\ t * (a \div t) <= a
         /\ a < t * (a \div t) + t
  OBVIOUS

\* A share is at least 1, and t times it is near 100 times the score.
ShareOf(s, t) == IF (s * 100) \div t = 0 THEN 1 ELSE (s * 100) \div t

NearShare(s, t, h) ==
  /\ h \in Nat /\ h >= 1 /\ t * h \in Nat
  /\ s * 100 < t * h + t
  /\ t * h <= s * 100 + t
  /\ s > 0 => t * h < s * 100 + t
  /\ s = 0 => t * h = t

\* The share of s in t: truncation takes less than a point, raising to 1 adds at most one.
LEMMA ShareNear ==
  ASSUME NEW s \in Nat, NEW t \in Nat, t > 0
  PROVE  NearShare(s, t, ShareOf(s, t))
<1> DEFINE h == ShareOf(s, t)
           a == s * 100
           p == a \div t
           x == t * p
           y == t * h
<1>1. a \in Nat /\ (s > 0 => a > 0) /\ (s = 0 => a = 0)
  OBVIOUS
<1>2. p \in Nat /\ x \in Int /\ x <= a /\ a < x + t
  <2> HIDE DEF a
  <2>1. p \in Nat /\ x <= a /\ a < x + t
    BY <1>1, Quotient
  <2>2. x \in Int
    BY <2>1
  <2> QED BY <2>1, <2>2
<1>3. h = IF p = 0 THEN 1 ELSE p
  BY DEF ShareOf
<1> HIDE DEF h
<1>4. CASE p = 0
  <2>1. h = 1 /\ x = 0
    BY <1>3, <1>4
  <2>2. y = t
    BY <2>1
  <2> HIDE DEF a, p, x, y
  <2>3. a < t
    BY <1>1, <1>2, <2>1
  <2>4. /\ h \in Nat /\ h >= 1 /\ y \in Nat /\ a < y + t /\ y <= a + t
        /\ s > 0 => y < a + t
        /\ s = 0 => y = t
    BY <1>1, <2>1, <2>2, <2>3
  <2> QED BY <2>4 DEF a, y, h, NearShare
<1>5. CASE p # 0
  <2>1. h = p /\ x = y
    BY <1>3, <1>5
  <2>2. s = 0 => p = 0
    <3> SUFFICES ASSUME s = 0 PROVE p = 0
      OBVIOUS
    <3>1. a = 0
      BY <1>1
    <3>2. x <= 0
      BY <1>2, <3>1
    <3>3. \A q \in Nat : q >= 1 => t * q >= t
      OBVIOUS
    <3>4. p >= 1 => x >= t
      BY <1>2, <3>3
    <3> HIDE DEF a, p, x
    <3> QED BY <1>2, <3>2, <3>4
  <2> HIDE DEF a, p, x, y
  <2>3. /\ h \in Nat /\ h >= 1 /\ y \in Int /\ a < y + t /\ y <= a
    BY <1>2, <1>5, <2>1
  <2>4. y >= 0
    <3>1. y \in Nat
      BY <2>3 DEF y
    <3> QED BY <3>1
  <2>5. /\ h \in Nat /\ h >= 1 /\ y \in Nat /\ a < y + t /\ y <= a + t
        /\ s > 0 => y < a + t
        /\ s = 0 => y = t
    BY <1>1, <1>5, <2>2, <2>3, <2>4
  <2> QED BY <2>5 DEF a, y, h, NearShare
<1> QED BY <1>4, <1>5

-----------------------------------------------------------------------------
(* Ranks                                                                    *)

\* The items of a check, in the states FinishInit is called in.
Weights(items) ==
  /\ items \in Seq([score : Nat, percent : Int])
  /\ TotalScore(items) > 0

\* Item j comes before item i in vmax.
Before(items, j, i) ==
  \/ items[j].score > items[i].score
  \/ items[j].score = items[i].score /\ j < i

Above(items, i) == {j \in DOMAIN items : Before(items, j, i)}

\* The rank of an item counts the items above it.
LEMMA RankIs ==
  ASSUME NEW items, NEW i
  PROVE  Rank(items, i) = Cardinality(Above(items, i))
BY DEF Rank, Above, Before

\* The items, their number and their scores.
LEMMA ItemsAre ==
  ASSUME NEW items \in Seq([score : Nat, percent : Int])
  PROVE  /\ Len(items) \in Nat
         /\ DOMAIN items = 1..Len(items)
         /\ \A i \in 1..Len(items) : items[i].score \in Nat /\ items[i].percent \in Int
<1>1. Len(items) \in Nat /\ DOMAIN items = 1..Len(items)
  OBVIOUS
<1>2. ASSUME NEW i \in 1..Len(items) PROVE items[i].score \in Nat /\ items[i].percent \in Int
  <2>1. items[i] \in [score : Nat, percent : Int]
    BY ElementOfSeq
  <2> QED BY <2>1
<1> QED BY <1>1, <1>2

\* A set of places is finite, and no larger than the list is long.
LEMMA AboveFinite ==
  ASSUME NEW items \in Seq([score : Nat, percent : Int]), NEW A \in SUBSET DOMAIN items
  PROVE  IsFiniteSet(A) /\ Cardinality(A) \in Nat /\ Cardinality(A) <= Len(items)
<1> DEFINE n == Len(items)
<1>1. n \in Nat /\ DOMAIN items = 1..n
  OBVIOUS
<1> HIDE DEF n
<1>2. IsFiniteSet(1..n) /\ Cardinality(1..n) = n
  BY <1>1, Places
<1>3. A \in SUBSET (1..n)
  BY <1>1
<1>4. IsFiniteSet(A) /\ Cardinality(A) <= n
  BY <1>2, <1>3, FS_Subset
<1> QED BY <1>4, FS_CardinalityType DEF n

\* A rank is a place among the items.
LEMMA RankType ==
  ASSUME NEW items \in Seq([score : Nat, percent : Int]), NEW i \in DOMAIN items
  PROVE  Rank(items, i) \in 0..(Len(items) - 1)
<1> DEFINE n == Len(items)
           A == Above(items, i)
<1>1. n \in Nat /\ DOMAIN items = 1..n /\ items[i].score \in Nat
  BY ItemsAre
<1>2. A \in SUBSET DOMAIN items /\ i \notin A
  BY <1>1 DEF Above, Before
<1>3. IsFiniteSet(A) /\ Cardinality(A) \in Nat /\ Cardinality(A) <= n
  BY <1>2, AboveFinite
<1>4. Rank(items, i) = Cardinality(A)
  BY RankIs
<1>5. Cardinality(A) # n
  <2> SUFFICES ASSUME Cardinality(A) = n PROVE FALSE
    OBVIOUS
  <2> HIDE DEF n, A
  <2>1. IsFiniteSet(1..n) /\ Cardinality(1..n) = n
    BY <1>1, Places
  <2>2. 1..n = A
    BY <1>1, <1>2, <2>1, FS_Subset
  <2> QED BY <1>1, <1>2, <2>2
<1> HIDE DEF n, A
<1>6. Cardinality(A) \in 0..(n - 1)
  BY <1>1, <1>3, <1>5
<1> QED BY <1>4, <1>6 DEF n

\* An item that comes before another has a lower rank.
LEMMA RankOrder ==
  ASSUME NEW items \in Seq([score : Nat, percent : Int]),
         NEW i \in DOMAIN items, NEW j \in DOMAIN items, Before(items, j, i)
  PROVE  Rank(items, j) < Rank(items, i)
<1> DEFINE A == Above(items, i)
           B == Above(items, j)
<1>1. /\ \A k \in DOMAIN items : items[k].score \in Nat /\ k \in Int
  BY ItemsAre
<1>2. B \in SUBSET A
  <2>1. ASSUME NEW k \in DOMAIN items, Before(items, k, j) PROVE Before(items, k, i)
    <3> DEFINE a == items[k].score
               b == items[j].score
               c == items[i].score
    <3>1. a \in Nat /\ b \in Nat /\ c \in Nat /\ i \in Int /\ j \in Int /\ k \in Int
      BY <1>1
    <3>2. (a > b \/ (a = b /\ k < j)) /\ (b > c \/ (b = c /\ j < i))
      BY <2>1 DEF Before
    <3>3. a > c \/ (a = c /\ k < i)
      <4> HIDE DEF a, b, c
      <4> QED BY ONLY <3>1, <3>2
    <3> QED BY <3>3 DEF Before
  <2> QED BY <2>1 DEF Above
<1>3. j \in A /\ j \notin B
  BY <1>1 DEF Above, Before
<1>4. A \in SUBSET DOMAIN items /\ B \in SUBSET DOMAIN items
  BY DEF Above
<1> HIDE DEF A, B
<1>5. IsFiniteSet(A) /\ Cardinality(A) \in Nat /\ Cardinality(B) \in Nat
  BY <1>4, AboveFinite
<1>6. Cardinality(B) <= Cardinality(A) /\ (Cardinality(A) = Cardinality(B) => A = B)
  BY <1>2, <1>5, FS_Subset
<1>7. Cardinality(B) < Cardinality(A)
  BY <1>3, <1>5, <1>6
<1> QED BY <1>7, RankIs DEF A, B

\* There are exactly m items of rank below m.
LEMMA RankBelow ==
  ASSUME NEW items \in Seq([score : Nat, percent : Int]), NEW m \in 0..Len(items)
  PROVE  Cardinality({i \in DOMAIN items : Rank(items, i) < m}) = m
<1> DEFINE n == Len(items)
           r == [i \in 1..n |-> Rank(items, i)]
           L == {i \in 1..n : r[i] < m}
           q == [i \in L |-> r[i]]
<1>1. n \in Nat /\ DOMAIN items = 1..n /\ m \in 0..n
  OBVIOUS
<1>2. r \in [1..n -> 0..(n - 1)]
  BY <1>1, RankType
<1>3. ASSUME NEW i \in 1..n, NEW j \in 1..n, r[i] = r[j] PROVE i = j
  <2> SUFFICES ASSUME i # j PROVE FALSE
    OBVIOUS
  <2>1. items[i].score \in Nat /\ items[j].score \in Nat /\ i \in Int /\ j \in Int
    BY <1>1, ItemsAre
  <2>2. Before(items, i, j) \/ Before(items, j, i)
    <3> DEFINE a == items[i].score
               b == items[j].score
    <3>1. a \in Nat /\ b \in Nat /\ i \in Int /\ j \in Int /\ i # j
      BY <2>1
    <3>2. (a > b \/ (a = b /\ i < j)) \/ (b > a \/ (b = a /\ j < i))
      <4> HIDE DEF a, b
      <4> QED BY ONLY <3>1
    <3> QED BY <3>2 DEF Before
  <2>3. Rank(items, i) < Rank(items, j) \/ Rank(items, j) < Rank(items, i)
    BY <1>1, <2>2, RankOrder
  <2>4. Rank(items, i) = Rank(items, j) /\ Rank(items, i) \in 0..(n - 1)
    BY <1>1, <1>3, RankType
  <2> QED BY <2>3, <2>4
<1>4. {i \in DOMAIN items : Rank(items, i) < m} = L
  BY <1>1
<1> HIDE DEF n, r
<1>5. r \in Injection(1..n, 0..(n - 1))
  BY <1>2, <1>3 DEF Injection, IsInjective
<1>6. /\ IsFiniteSet(1..n) /\ Cardinality(1..n) = n
      /\ IsFiniteSet(0..(n - 1)) /\ Cardinality(0..(n - 1)) = n
  BY <1>1, Places
<1>7. r \in Surjection(1..n, 0..(n - 1))
  BY <1>5, <1>6, FS_Injection
<1>8. \A k \in 0..(n - 1) : \E i \in 1..n : r[i] = k
  BY <1>7 DEF Surjection
<1>9. q \in [L -> 0..(m - 1)]
  BY <1>1, <1>2
<1>10. \A i, j \in L : q[i] = q[j] => i = j
  BY <1>3
<1>11. \A k \in 0..(m - 1) : \E i \in L : q[i] = k
  <2> SUFFICES ASSUME NEW k \in 0..(m - 1) PROVE \E i \in L : q[i] = k
    OBVIOUS
  <2>1. k \in 0..(n - 1) /\ k < m
    BY <1>1
  <2>2. PICK i \in 1..n : r[i] = k
    BY <1>8, <2>1
  <2>3. i \in L
    BY <2>1, <2>2
  <2> QED BY <2>2, <2>3
<1>12. L \in SUBSET (1..n)
  OBVIOUS
<1> HIDE DEF L, q
<1>13. q \in Bijection(L, 0..(m - 1))
  BY <1>9, <1>10, <1>11 DEF Bijection, Injection, Surjection, IsInjective
<1>14. IsFiniteSet(L)
  BY <1>6, <1>12, FS_Subset
<1>15. Cardinality(0..(m - 1)) = Cardinality(L)
  BY <1>13, <1>14, FS_Bijection DEF ExistsBijection
<1>16. Cardinality(0..(m - 1)) = m
  BY <1>1, Places
<1> QED BY <1>4, <1>15, <1>16

-----------------------------------------------------------------------------
(* What FinishInit computes                                                 *)

ScoresOf(items) == [i \in DOMAIN items |-> items[i].score]
SharesOf(items) == [i \in DOMAIN items |-> Share(items, i)]
PercentsOf(items) == [i \in DOMAIN items |-> items[i].percent]

\* The items that have a weight.
Weighty(items) == {i \in DOMAIN items : items[i].score > 0}

\* A positive factor can be dropped.
LEMMA Divide ==
  ASSUME NEW t \in Nat, t > 0, NEW a \in Int, NEW b \in Int, t * a <= t * b
  PROVE  a <= b
<1> SUFFICES ASSUME a >= b + 1 PROVE FALSE
  OBVIOUS
<1> DEFINE d == a - b
<1>1. d \in Nat /\ d >= 1 /\ a = b + d
  OBVIOUS
<1> HIDE DEF d
<1>2. t * (b + d) = t * b + t * d /\ t * b \in Int /\ t * d \in Int
  BY <1>1
<1>3. t * d >= t
  BY <1>1
<1>4. t * a = t * b + t * d
  BY <1>1, <1>2
<1> QED BY <1>2, <1>3, <1>4

\* The shares of weights are naturals near the exact ones.
LEMMA SharesAre ==
  ASSUME NEW items, Weights(items)
  PROVE  /\ TotalScore(items) \in Nat
         /\ ScoresOf(items) \in [1..Len(items) -> Nat]
         /\ SharesOf(items) \in [1..Len(items) -> Nat]
         /\ \A i \in 1..Len(items) :
              NearShare(items[i].score, TotalScore(items), Share(items, i))
<1> DEFINE n == Len(items)
           t == TotalScore(items)
<1>1. n \in Nat /\ DOMAIN items = 1..n /\ \A i \in 1..n : items[i].score \in Nat
  BY ItemsAre DEF Weights
<1>2. ScoresOf(items) \in [1..n -> Nat] /\ ScoresOf(items) \in [1..n -> Int]
  BY <1>1 DEF ScoresOf
<1>3. t = Total(ScoresOf(items))
  BY DEF TotalScore, ScoresOf
<1> HIDE DEF n
<1>4. t \in Int /\ t > 0
  BY <1>1, <1>2, <1>3, TotalType DEF Weights
<1>5. t \in Nat
  BY <1>4
<1>6. ASSUME NEW i \in 1..n PROVE NearShare(items[i].score, t, Share(items, i))
  <2>1. items[i].score \in Nat
    BY <1>1
  <2>2. Share(items, i) = ShareOf(items[i].score, t)
    BY DEF Share, ShareOf
  <2> HIDE DEF t
  <2> QED BY <1>4, <1>5, <2>1, <2>2, ShareNear
<1>7. SharesOf(items) \in [1..n -> Nat]
  BY <1>1, <1>6 DEF SharesOf, NearShare
<1> QED BY <1>2, <1>5, <1>6, <1>7 DEF n

\* The points that are missing or too many are never more than the items
\* that may give or take one; the missing ones never more than the items
\* that have a weight.
LEMMA PadBound ==
  ASSUME NEW items, Weights(items)
  PROVE  /\ Total(SharesOf(items)) \in Int
         /\ Total(SharesOf(items)) <= 100 + Len(items)
         /\ Total(SharesOf(items)) >= 100 - Cardinality(Weighty(items))
<1> DEFINE n == Len(items)
           t == TotalScore(items)
           w == ScoresOf(items)
           h == SharesOf(items)
           A == Weighty(items)
           m == Cardinality(A)
           one == Marks(1..n, n)
           mk == Marks(A, n)
<1>1. n \in Nat /\ DOMAIN items = 1..n
  BY ItemsAre DEF Weights
<1>2. t \in Nat /\ t > 0 /\ t = Total(w)
  BY SharesAre DEF Weights, TotalScore, ScoresOf
<1>3. w \in [1..n -> Int] /\ h \in [1..n -> Int] /\ w \in [1..n -> Nat] /\ h \in [1..n -> Nat]
  BY SharesAre
<1>4. A \in SUBSET (1..n) /\ 1..n \in SUBSET (1..n)
  BY <1>1 DEF Weighty
<1>5. \A i \in 1..n : i \in A <=> w[i] > 0
  BY <1>1 DEF Weighty, ScoresOf
<1>6. ASSUME NEW i \in 1..n
      PROVE  /\ t * h[i] \in Int
             /\ w[i] * 100 < t * h[i] + t
             /\ t * h[i] <= w[i] * 100 + t
             /\ w[i] = 0 => t * h[i] = t
  <2>1. w[i] = items[i].score /\ h[i] = Share(items, i)
    BY <1>1 DEF ScoresOf, SharesOf
  <2>2. NearShare(w[i], t, h[i])
    BY <2>1, SharesAre
  <2> HIDE DEF w, t, h
  <2>3. t * h[i] \in Nat
    BY <2>2 DEF NearShare
  <2> QED BY <2>2, <2>3 DEF NearShare
<1>7. one \in [1..n -> Int] /\ Total(one) = n /\ \A i \in 1..n : one[i] = 1
  <2>1. one \in [1..n -> Int] /\ Total(one) = Cardinality(1..n)
    BY <1>1, <1>4, TotalMarks
  <2>2. Cardinality(1..n) = n
    BY <1>1, Places
  <2>3. \A i \in 1..n : one[i] = 1
    BY DEF Marks
  <2> QED BY <2>1, <2>2, <2>3
<1>8. mk \in [1..n -> Int] /\ Total(mk) = m /\ \A i \in 1..n : mk[i] = IF i \in A THEN 1 ELSE 0
  <2>1. mk \in [1..n -> Int] /\ Total(mk) = m
    BY <1>1, <1>4, TotalMarks
  <2>2. \A i \in 1..n : mk[i] = IF i \in A THEN 1 ELSE 0
    BY DEF Marks
  <2> QED BY <2>1, <2>2
<1>9. m \in Nat
  BY <1>1, <1>4, AboveFinite DEF Weights
<1> HIDE DEF n, t, w, h, A, m, one, mk
<1> DEFINE x == [i \in 1..n |-> 100 * w[i]]
           u == [i \in 1..n |-> t * h[i]]
           v == [i \in 1..n |-> x[i] + t * one[i]]
           z == [i \in 1..n |-> x[i] + (-t) * mk[i]]
<1>10. \A i \in 1..n : w[i] \in Nat /\ 100 * w[i] = w[i] * 100 /\ 100 * w[i] \in Int
  BY <1>3
<1>11. x \in [1..n -> Int] /\ \A i \in 1..n : x[i] = 100 * w[i]
  BY <1>10
<1>12. u \in [1..n -> Int] /\ \A i \in 1..n : u[i] = t * h[i]
  BY <1>6
<1>13. ASSUME NEW i \in 1..n
       PROVE  /\ v[i] = x[i] + t * one[i] /\ v[i] \in Int /\ u[i] <= v[i]
              /\ z[i] = x[i] + (-t) * mk[i] /\ z[i] \in Int /\ z[i] <= u[i]
  <2>1. v[i] = x[i] + t * one[i] /\ z[i] = x[i] + (-t) * mk[i]
    OBVIOUS
  <2> DEFINE b == x[i]
             a == u[i]
  <2>2. /\ b \in Int /\ a \in Int /\ b < a + t /\ a <= b + t
        /\ w[i] = 0 => (a = t /\ b = 0)
    BY <1>6, <1>10, <1>11, <1>12
  <2>3. one[i] = 1 /\ t * 1 = t /\ (-t) * 1 = -t /\ (-t) * 0 = 0
    BY <1>2, <1>7
  <2>4. v[i] = b + t
    BY <2>1, <2>3
  <2>5. CASE i \in A
    <3>1. z[i] = b + (-t)
      BY <1>8, <2>1, <2>3, <2>5
    <3> HIDE DEF x, u, v, z, a, b
    <3>2. v[i] \in Int /\ a <= v[i] /\ z[i] \in Int /\ z[i] <= a
      BY <1>2, <2>2, <2>4, <3>1
    <3> QED BY <2>1, <3>2 DEF a
  <2>6. CASE i \notin A
    <3>1. z[i] = b + 0
      BY <1>8, <2>1, <2>3, <2>6
    <3>2. w[i] = 0
      BY <1>5, <1>10, <2>6
    <3> HIDE DEF x, u, v, z, a, b
    <3>3. v[i] \in Int /\ a <= v[i] /\ z[i] \in Int /\ z[i] <= a
      BY <1>2, <2>2, <2>4, <3>1, <3>2
    <3> QED BY <2>1, <3>3 DEF a
  <2> QED BY <2>5, <2>6
<1>14. v \in [1..n -> Int] /\ z \in [1..n -> Int]
  BY <1>13
<1> HIDE DEF x, u, v, z
<1>15. Total(x) = 100 * t
  <2>1. Scaled(n, x, 100, w)
    BY <1>1, <1>3, <1>11 DEF Scaled
  <2> QED BY <1>2, <2>1, TotalScaled
<1>16. Total(u) = t * Total(h)
  <2>1. Scaled(n, u, t, h)
    BY <1>1, <1>2, <1>3, <1>12 DEF Scaled
  <2> QED BY <2>1, TotalScaled
<1>17. Total(v) = Total(x) + t * Total(one)
  <2>1. t \in Int /\ \A i \in 1..n : v[i] = x[i] + t * one[i]
    BY <1>2, <1>13
  <2>2. Linear(n, v, x, t, one)
    BY <1>1, <1>7, <1>11, <1>14, <2>1 DEF Linear
  <2> QED BY <2>2, TotalLinear
<1>18. Total(z) = Total(x) + (-t) * Total(mk)
  <2>1. -t \in Int /\ \A i \in 1..n : z[i] = x[i] + (-t) * mk[i]
    BY <1>2, <1>13
  <2>2. Linear(n, z, x, -t, mk)
    BY <1>1, <1>8, <1>11, <1>14, <2>1 DEF Linear
  <2> QED BY <2>2, TotalLinear
<1>19. Total(u) <= Total(v) /\ Total(z) <= Total(u)
  BY ONLY <1>1, <1>12, <1>13, <1>14, TotalMonotone
<1>20. Total(h) \in Int
  BY <1>1, <1>3, TotalType
<1>21. t * Total(h) <= t * (100 + n)
  <2>1. t * (100 + n) = 100 * t + t * n
    BY <1>1, <1>2
  <2> QED BY <1>7, <1>15, <1>16, <1>17, <1>19, <2>1
<1>22. t * (100 - m) <= t * Total(h)
  <2>1. t * (100 - m) = 100 * t + (-t) * m
    BY <1>2, <1>9
  <2> QED BY <1>8, <1>15, <1>16, <1>18, <1>19, <2>1
<1>23. Total(h) <= 100 + n
  <2>1. 100 + n \in Int
    BY <1>1
  <2> QED BY ONLY <1>2, <1>20, <1>21, <2>1, Divide
<1>24. 100 - m <= Total(h)
  <2>1. 100 - m \in Int
    BY <1>9
  <2> QED BY ONLY <1>2, <1>20, <1>22, <2>1, Divide
<1>25. Total(h) >= 100 - m
  BY <1>9, <1>20, <1>24
<1> QED BY <1>20, <1>23, <1>25 DEF h, n, m, A

\* A sum of naturals is a natural.
LEMMA TotalNat ==
  ASSUME NEW n \in Nat, NEW w \in [1..n -> Nat]
  PROVE  Total(w) \in Nat
<1> DEFINE e == Marks({}, n)
<1>1. e \in [1..n -> Int] /\ Total(e) = 0
  <2>1. {} \in SUBSET (1..n) /\ Cardinality({}) = 0
    BY FS_EmptySet
  <2> QED BY <2>1, TotalMarks
<1>2. \A i \in 1..n : e[i] <= w[i]
  BY DEF Marks
<1> HIDE DEF e
<1>3. w \in [1..n -> Int]
  OBVIOUS
<1>4. Total(e) <= Total(w) /\ Total(w) \in Int
  BY <1>1, <1>2, <1>3, TotalMonotone, TotalType
<1> QED BY <1>1, <1>4

\* The points the shares leave to give; negative when they are too many.
Missing(items) == 100 - Total(SharesOf(items))

\* The items that get or lose one of them, and what that is.
Moved(items) ==
  {i \in DOMAIN items :
     Rank(items, i) < IF Missing(items) < 0 THEN -Missing(items) ELSE Missing(items)}

Sign(items) == IF Missing(items) < 0 THEN -1 ELSE 1

Percent(items, i) ==
  IF TotalScore(items) <= 0 THEN Undefined
  ELSE Share(items, i) + Sign(items) * Marks(Moved(items), Len(items))[i]

\* FinishInit keeps the items and their scores, and sets the percents.
LEMMA FinishInitIs ==
  ASSUME NEW items \in Seq([score : Nat, percent : Int])
  PROVE  /\ TotalScore(items) \in Nat
         /\ DOMAIN FinishInit(items) = 1..Len(items)
         /\ \A i \in 1..Len(items) :
              FinishInit(items)[i] = [score |-> items[i].score, percent |-> Percent(items, i)]
<1> DEFINE n == Len(items)
           new == FinishInit(items)
           nPad == Missing(items)
           nLoop == IF nPad < 0 THEN -nPad ELSE nPad
           pad(i) == IF Rank(items, i) >= nLoop THEN 0 ELSE IF nPad < 0 THEN -1 ELSE 1
           pc(i) == IF TotalScore(items) <= 0 THEN Undefined ELSE Share(items, i) + pad(i)
<1>1. /\ n \in Nat /\ DOMAIN items = 1..n
      /\ \A i \in 1..n : items[i] \in [score : Nat, percent : Int]
  BY LenProperties, ElementOfSeq
<1>2. TotalScore(items) \in Nat
  <2>1. ScoresOf(items) \in [1..n -> Nat]
    BY <1>1 DEF ScoresOf
  <2>2. Total(ScoresOf(items)) \in Nat
    BY <1>1, <2>1, TotalNat
  <2> QED BY <2>2 DEF TotalScore, ScoresOf
<1>3. new = [i \in DOMAIN items |-> [items[i] EXCEPT !.percent = pc(i)]]
  BY DEF FinishInit, Missing, SharesOf
<1>4. ASSUME NEW i \in 1..n PROVE pc(i) = Percent(items, i)
  <2>1. CASE TotalScore(items) = 0
    BY <2>1 DEF Percent
  <2>2. CASE TotalScore(items) # 0
    <3>1. Weights(items)
      BY <1>2, <2>2 DEF Weights
    <3>2. nPad \in Int
      <4>1. Total(SharesOf(items)) \in Int
        BY <3>1, PadBound
      <4> QED BY <4>1 DEF Missing
    <3>3. Rank(items, i) \in Nat
      BY <1>1, RankType
    <3>4. nLoop \in Nat
      <4> HIDE DEF nPad
      <4> QED BY <3>2
    <3>5. i \in Moved(items) <=> Rank(items, i) < nLoop
      BY <1>1 DEF Moved
    <3>6. Sign(items) = IF nPad < 0 THEN -1 ELSE 1
      BY DEF Sign
    <3>7. Marks(Moved(items), n)[i] = IF i \in Moved(items) THEN 1 ELSE 0
      BY DEF Marks
    <3> HIDE DEF nLoop, nPad, n
    <3>8. pad(i) = Sign(items) * Marks(Moved(items), n)[i]
      <4>1. CASE i \in Moved(items)
        BY <3>2, <3>3, <3>4, <3>5, <3>6, <3>7, <4>1
      <4>2. CASE i \notin Moved(items)
        BY <3>2, <3>3, <3>4, <3>5, <3>6, <3>7, <4>2
      <4> QED BY <4>1, <4>2
    <3> HIDE DEF pad
    <3> QED BY <2>2, <3>8 DEF Percent, n
  <2> QED BY <2>1, <2>2
<1> HIDE DEF n, pc, new
<1>5. DOMAIN new = 1..n
  BY <1>1, <1>3
<1>6. ASSUME NEW i \in 1..n
      PROVE  new[i] = [score |-> items[i].score, percent |-> Percent(items, i)]
  <2>1. new[i] = [items[i] EXCEPT !.percent = pc(i)]
    BY <1>1, <1>3
  <2>2. items[i] \in [score : Nat, percent : Int]
    BY <1>1
  <2>3. [items[i] EXCEPT !.percent = pc(i)] = [score |-> items[i].score, percent |-> pc(i)]
    BY <2>2
  <2> QED BY <1>4, <2>1, <2>3
<1> QED BY <1>2, <1>5, <1>6 DEF n, new

\* FinishInit adds a percent for every missing point, or takes one for every
\* point too many, and there are as many items as it moves.
LEMMA PercentsAdd ==
  ASSUME NEW items, Weights(items)
  PROVE  /\ [i \in 1..Len(items) |-> Percent(items, i)] \in [1..Len(items) -> Nat]
         /\ Total([i \in 1..Len(items) |-> Percent(items, i)]) = 100
<1> DEFINE n == Len(items)
           h == SharesOf(items)
           d == Missing(items)
           l == IF d < 0 THEN -d ELSE d
           c == Sign(items)
           M == Moved(items)
           mk == Marks(M, n)
           q == [i \in 1..n |-> Percent(items, i)]
<1>1. n \in Nat /\ DOMAIN items = 1..n
  BY ItemsAre DEF Weights
<1>2. h \in [1..n -> Nat] /\ h \in [1..n -> Int] /\ \A i \in 1..n : h[i] >= 1
  <2>1. h \in [1..n -> Nat] /\ \A i \in 1..n : NearShare(items[i].score, TotalScore(items), Share(items, i))
    BY SharesAre
  <2>2. \A i \in 1..n : h[i] = Share(items, i)
    BY <1>1 DEF SharesOf
  <2>3. \A i \in 1..n : h[i] >= 1
    BY <2>1, <2>2 DEF NearShare
  <2> HIDE DEF h, n
  <2> QED BY <2>1, <2>3
<1>3. Cardinality(Weighty(items)) \in Nat /\ Cardinality(Weighty(items)) <= n
  <2>1. Weighty(items) \in SUBSET DOMAIN items
    BY DEF Weighty
  <2> QED BY <2>1, AboveFinite DEF Weights
<1>4. Total(h) \in Int /\ Total(h) <= 100 + n /\ Total(h) >= 100 - Cardinality(Weighty(items))
  BY PadBound
<1>5. d = 100 - Total(h)
  BY DEF Missing
<1>6. c = IF d < 0 THEN -1 ELSE 1
  BY DEF Sign
<1>7. M = {i \in DOMAIN items : Rank(items, i) < l}
  BY DEF Moved
<1>8. M \in SUBSET (1..n)
  BY <1>1 DEF Moved
<1>9. \A i \in 1..n : mk[i] = IF i \in M THEN 1 ELSE 0
  BY DEF Marks
<1>10. \A i \in 1..n : q[i] = h[i] + c * mk[i]
  <2>1. ~(TotalScore(items) <= 0)
    BY SharesAre DEF Weights
  <2> QED BY <1>1, <2>1 DEF Percent, SharesOf
<1> HIDE DEF h, d, c, M
<1>11. l \in 0..n /\ c * l = d /\ c \in Int
  <2>1. d \in Int /\ d <= n /\ -d <= n
    <3> HIDE DEF n
    <3> QED BY <1>1, <1>3, <1>4, <1>5
  <2> HIDE DEF n
  <2> QED BY <1>1, <1>6, <2>1
<1>12. Cardinality(M) = l
  <2> HIDE DEF l
  <2> QED BY <1>7, <1>11, RankBelow DEF Weights
<1>13. mk \in [1..n -> Int] /\ Total(mk) = l
  BY <1>1, <1>8, <1>12, TotalMarks
<1> HIDE DEF n, l, mk
<1>14. ASSUME NEW i \in 1..n PROVE q[i] \in Nat
  <2>1. q[i] = h[i] + c * mk[i]
    BY <1>10
  <2>2. c * mk[i] \in {-1, 0, 1}
    <3>1. c \in {-1, 1} /\ mk[i] \in {0, 1}
      BY <1>6, <1>9
    <3> QED BY <3>1
  <2>3. h[i] \in Nat /\ h[i] >= 1
    BY <1>2
  <2> HIDE DEF q
  <2> QED BY <2>1, <2>2, <2>3
<1>15. q \in [1..n -> Nat]
  BY <1>14
<1>16. Linear(n, q, h, c, mk)
  BY <1>1, <1>2, <1>10, <1>11, <1>13, <1>15 DEF Linear
<1> HIDE DEF q
<1>17. Total(q) = Total(h) + c * Total(mk)
  BY <1>16, TotalLinear
<1>18. Total(q) = Total(h) + d
  BY <1>11, <1>13, <1>17
<1>19. Total(q) = 100
  BY <1>4, <1>5, <1>18
<1> QED BY <1>15, <1>19 DEF q, n

\* An item that has no weight is never given a point: those that have one
\* come first, and no more points are missing than there are of them.
LEMMA PercentNear ==
  ASSUME NEW items, Weights(items), NEW i \in 1..Len(items)
  PROVE  LET t == TotalScore(items)
             error == Percent(items, i) * t - items[i].score * 100
         IN -2 * t < error /\ error < 2 * t
<1> DEFINE n == Len(items)
           t == TotalScore(items)
           s == items[i].score
           h == Share(items, i)
           d == Missing(items)
           l == IF d < 0 THEN -d ELSE d
           c == Sign(items)
           M == Moved(items)
           W == Weighty(items)
           A == Above(items, i)
           e == c * Marks(M, n)[i]
           y == t * h
           a == s * 100
<1>1. n \in Nat /\ DOMAIN items = 1..n /\ s \in Nat
  BY ItemsAre DEF Weights
<1>2. t \in Nat /\ t > 0 /\ NearShare(s, t, h)
  BY SharesAre DEF Weights
<1>3. Percent(items, i) = h + e
  BY <1>2 DEF Percent
<1>4. W \in SUBSET DOMAIN items /\ A \in SUBSET DOMAIN items
  BY DEF Weighty, Above
<1>5. /\ Cardinality(W) \in Nat /\ Cardinality(A) \in Nat /\ IsFiniteSet(A)
  BY <1>4, AboveFinite DEF Weights
<1>6. s = 0 => W \in SUBSET A
  <2> SUFFICES ASSUME s = 0 PROVE W \in SUBSET A
    OBVIOUS
  <2>1. \A j \in W : items[j].score > items[i].score
    BY DEF Weighty
  <2> QED BY <2>1 DEF Weighty, Above, Before
<1>7. d \in Int /\ d <= Cardinality(W)
  <2>1. Total(SharesOf(items)) \in Int /\ Total(SharesOf(items)) >= 100 - Cardinality(W)
    BY PadBound
  <2> HIDE DEF W
  <2> QED BY <1>5, <2>1 DEF Missing
<1>8. i \in M <=> Cardinality(A) < l
  BY <1>1, RankIs DEF Moved
<1>9. c = IF d < 0 THEN -1 ELSE 1
  BY DEF Sign
<1>10. e = c * (IF i \in M THEN 1 ELSE 0)
  BY DEF Marks
<1> HIDE DEF n, t, s, h, d, c, M, W, A
<1>11. s = 0 => Cardinality(W) <= Cardinality(A)
  BY <1>5, <1>6, FS_Subset
<1>12. e \in {-1, 0, 1} /\ (e = 1 => s > 0)
  <2>1. CASE i \in M
    <3>1. e = c
      BY <1>9, <1>10, <2>1
    <3>2. c = 1 => Cardinality(A) < Cardinality(W)
      BY <1>5, <1>7, <1>8, <1>9, <2>1
    <3> HIDE DEF e, l
    <3> QED BY <1>1, <1>5, <1>9, <1>11, <3>1, <3>2
  <2>2. CASE i \notin M
    <3>1. e = 0
      BY <1>9, <1>10, <2>2
    <3> HIDE DEF e
    <3> QED BY <3>1
  <2> QED BY <2>1, <2>2
<1> HIDE DEF e
<1>13. (h + e) * t = y + e * t /\ e * t \in Int /\ (h + e) * t \in Int
  BY <1>2, <1>12 DEF NearShare
<1>14. e * t = IF e = 1 THEN t ELSE IF e = 0 THEN 0 ELSE -t
  BY <1>2, <1>12
<1>15. /\ a \in Nat /\ y \in Nat /\ a < y + t /\ y <= a + t
       /\ s > 0 => y < a + t
  BY <1>1, <1>2 DEF NearShare
<1> DEFINE f == e * t
           g == (h + e) * t
<1>16. g = y + f /\ f \in Int /\ g \in Int /\ f = IF e = 1 THEN t ELSE IF e = 0 THEN 0 ELSE -t
  BY <1>13, <1>14
<1> HIDE DEF a, y, f, g
<1>17. -2 * t < g - a /\ g - a < 2 * t
  <2>1. CASE e = 1
    BY <1>2, <1>12, <1>15, <1>16, <2>1
  <2>2. CASE e = 0
    BY <1>2, <1>15, <1>16, <2>2
  <2>3. CASE e = -1
    BY <1>2, <1>15, <1>16, <2>3
  <2> QED BY <1>12, <2>1, <2>2, <2>3
<1> QED BY <1>3, <1>17 DEF a, g, s, t, h, e, c, M, n

\* What FinishInit makes of the items, all of it.
LEMMA FinishInitWeighs ==
  ASSUME NEW S, S \subseteq Nat, NEW items \in Seq([score : S, percent : Undefined..100])
  PROVE  LET new == FinishInit(items)
             t == TotalScore(new)
         IN /\ new \in Seq([score : S, percent : Undefined..100])
            /\ Len(new) = Len(items)
            /\ t > 0 => /\ Total([i \in DOMAIN new |-> new[i].percent]) = 100
                        /\ \A i \in DOMAIN new :
                             LET error == new[i].percent * t - new[i].score * 100
                             IN -2 * t < error /\ error < 2 * t
<1> DEFINE n == Len(items)
           new == FinishInit(items)
           t == TotalScore(items)
           q == [i \in 1..n |-> Percent(items, i)]
           Item0 == [score : S, percent : Undefined..100]
<1>1. n \in Nat /\ DOMAIN items = 1..n /\ \A i \in 1..n : items[i] \in Item0
  BY LenProperties, ElementOfSeq
<1>2. \A i \in 1..n : items[i].score \in S
  BY <1>1
<1>3. items \in Seq([score : Nat, percent : Int])
  <2> DEFINE R == [score : Nat, percent : Int]
  <2>1. Undefined..100 \subseteq Int
    BY DEF Undefined
  <2>2. Item0 \subseteq R
    BY <2>1
  <2>3. items = [i \in 1..n |-> items[i]]
    BY <1>1, LenProperties
  <2> HIDE DEF n, R, Item0
  <2>4. items \in [1..n -> R]
    BY <1>1, <2>2, <2>3
  <2>5. items \in Seq(R)
    BY <1>1, <2>4, SeqDef
  <2> QED BY <2>5 DEF R
<1>4. /\ t \in Nat
      /\ DOMAIN new = 1..n
      /\ \A i \in 1..n : new[i] = [score |-> items[i].score, percent |-> Percent(items, i)]
  BY <1>3, FinishInitIs
<1>5. new = [i \in 1..n |-> new[i]]
  BY <1>1 DEF FinishInit
<1>6. TotalScore(new) = t
  <2> HIDE DEF n, new
  <2>1. [i \in DOMAIN new |-> new[i].score] = [i \in DOMAIN items |-> items[i].score]
    BY <1>1, <1>4
  <2> QED BY <2>1 DEF TotalScore, t
<1>7. [i \in DOMAIN new |-> new[i].percent] = q
  <2> HIDE DEF n, new
  <2> QED BY <1>4
<1>8. t > 0 => q \in [1..n -> Nat] /\ Total(q) = 100
  BY <1>3, PercentsAdd DEF Weights
<1>9. ASSUME NEW i \in 1..n PROVE Percent(items, i) \in Undefined..100
  <2>1. CASE t = 0
    BY <2>1 DEF Percent, Undefined
  <2>2. CASE t > 0
    <3>1. q \in [1..n -> Nat] /\ Total(q) = 100 /\ q[i] = Percent(items, i)
      BY <1>8, <2>2
    <3> HIDE DEF q, n
    <3>2. q[i] <= Total(q) /\ q[i] \in Nat
      <4>1. n \in Nat /\ q \in [1..n -> Nat] /\ i \in 1..n
        BY <1>1, <3>1
      <4>2. q[i] <= Total(q)
        BY ONLY <4>1, TotalAbove
      <4> QED BY <4>1, <4>2
    <3>3. q[i] \in -1..100
      <4>1. q[i] <= 100 /\ q[i] \in Nat
        BY <3>1, <3>2
      <4>2. \A k \in Nat : k <= 100 => k \in -1..100
        OBVIOUS
      <4> QED BY ONLY <4>1, <4>2
    <3> QED BY <3>1, <3>3 DEF Undefined
  <2> QED BY <1>4, <2>1, <2>2
<1> HIDE DEF n, new, q
<1>10. new \in [1..n -> Item0]
  BY <1>2, <1>4, <1>5, <1>9
<1> HIDE DEF Item0
<1>11. new \in Seq(Item0) /\ Len(new) = n
  <2>1. new \in Seq(Item0)
    BY <1>1, <1>10, SeqDef
  <2>2. Len(new) = n
    BY <1>1, <1>4, <2>1, LenProperties
  <2> QED BY <2>1, <2>2
<1>12. ASSUME t > 0, NEW i \in 1..n
       PROVE  LET error == new[i].percent * t - new[i].score * 100
              IN -2 * t < error /\ error < 2 * t
  <2>1. new[i].percent = Percent(items, i) /\ new[i].score = items[i].score
    BY <1>4
  <2>2. Weights(items)
    BY <1>3, <1>12 DEF Weights
  <2>3. LET error == Percent(items, i) * t - items[i].score * 100
        IN -2 * t < error /\ error < 2 * t
    BY <2>2, PercentNear DEF n
  <2> QED BY <2>1, <2>3
<1> HIDE DEF t
<1>13. t > 0 => /\ Total([i \in DOMAIN new |-> new[i].percent]) = 100
                /\ \A i \in DOMAIN new :
                     LET error == new[i].percent * t - new[i].score * 100
                     IN -2 * t < error /\ error < 2 * t
  BY <1>4, <1>7, <1>8, <1>12
<1> QED BY <1>6, <1>11, <1>13 DEF new, n, Item0

-----------------------------------------------------------------------------
(* The health check                                                         *)

\* A walk has given the items up to the cursor.
WalkSoFar ==
  walked # <<>> =>
    walked = [i \in 1..(IF m_iCurrent <= Len(m_CheckItemList)
                        THEN m_iCurrent ELSE Len(m_CheckItemList)) |-> i]

ExamInv == ExamTypeOK /\ WalkSoFar /\ SumIs100 /\ NearExact

\* What an action that keeps the items as they are keeps.
LEMMA WeightsKept ==
  ASSUME SumIs100, NearExact, UNCHANGED <<m_CheckItemList, weighed>>
  PROVE  SumIs100' /\ NearExact'
BY DEF SumIs100, NearExact, Finished

\* A new item makes the weights stale and ends the walk.
LEMMA InsertKeeps == ASSUME ExamInv, NEW score \in Scores, InsertItem(score) PROVE ExamInv'
<1> DEFINE n == Len(m_CheckItemList)
           item == [score |-> score, percent |-> 0]
<1>1. /\ n < MaxItems /\ m_CheckItemList' = Append(m_CheckItemList, item)
      /\ weighed' = FALSE /\ walked' = <<>> /\ m_iCurrent' = m_iCurrent
  BY DEF InsertItem
<1>2. m_CheckItemList \in Seq(Item) /\ m_iCurrent \in 1..(n + 1)
  BY DEF ExamInv, ExamTypeOK
<1>3. item \in Item
  BY DEF Item, Undefined
<1> HIDE DEF item
<1>4. m_CheckItemList' \in Seq(Item) /\ Len(m_CheckItemList') = n + 1 /\ n \in Nat
  BY <1>1, <1>2, <1>3, AppendProperties, LenProperties
<1> HIDE DEF n
<1>5. Len(m_CheckItemList') <= MaxItems /\ m_iCurrent' \in 1..(Len(m_CheckItemList') + 1)
  BY <1>1, <1>2, <1>4, MaxItemsAssumption
<1>6. walked' \in Seq(1..MaxItems) /\ weighed' \in BOOLEAN
  <2>1. walked' \in Seq(1..MaxItems)
    BY <1>1, EmptySeq
  <2>2. weighed' \in BOOLEAN
    BY <1>1
  <2> QED BY <2>1, <2>2
<1>7. ExamTypeOK'
  BY <1>4, <1>5, <1>6 DEF ExamTypeOK, Item
<1>8. WalkSoFar' /\ SumIs100' /\ NearExact'
  BY <1>1 DEF WalkSoFar, SumIs100, NearExact, Finished
<1> QED BY <1>7, <1>8 DEF ExamInv

\* FinishInit is where the sum and the distances are established.
LEMMA WeighKeeps == ASSUME ExamInv, Weigh PROVE ExamInv'
<1> DEFINE new == FinishInit(m_CheckItemList)
           n == Len(m_CheckItemList)
<1>1. m_CheckItemList' = new /\ m_iCurrent' = 1 /\ weighed' = TRUE /\ walked' = <<>>
  BY DEF Weigh
<1>2. m_CheckItemList \in Seq(Item) /\ n <= MaxItems
  BY DEF ExamInv, ExamTypeOK
<1>3. n \in Nat
  BY <1>2, LenProperties
<1>4. /\ new \in Seq(Item)
      /\ Len(new) = n
      /\ TotalScore(new) > 0 =>
           /\ Total([i \in DOMAIN new |-> new[i].percent]) = 100
           /\ \A i \in DOMAIN new :
                LET error == new[i].percent * TotalScore(new) - new[i].score * 100
                IN -2 * TotalScore(new) < error /\ error < 2 * TotalScore(new)
  BY <1>2, ScoresAssumption, FinishInitWeighs DEF Item
<1> HIDE DEF new, n
<1>5. m_iCurrent' \in 1..(Len(m_CheckItemList') + 1) /\ Len(m_CheckItemList') <= MaxItems
  BY <1>1, <1>2, <1>3, <1>4
<1>6. walked' \in Seq(1..MaxItems) /\ weighed' \in BOOLEAN
  <2>1. walked' \in Seq(1..MaxItems)
    BY <1>1, EmptySeq
  <2>2. weighed' \in BOOLEAN
    BY <1>1
  <2> QED BY <2>1, <2>2
<1>7. ExamTypeOK'
  BY <1>1, <1>4, <1>5, <1>6 DEF ExamTypeOK, Item
<1>8. SumIs100'
  BY <1>1, <1>4 DEF SumIs100, Finished
<1>9. NearExact'
  <2>1. Finished' => TotalScore(new) > 0
    BY <1>1 DEF Finished
  <2> QED BY <1>1, <1>4, <2>1 DEF NearExact
<1>10. WalkSoFar'
  BY <1>1 DEF WalkSoFar
<1> QED BY <1>7, <1>8, <1>9, <1>10 DEF ExamInv

\* Begin starts a walk at the first item.
LEMMA BeginKeeps == ASSUME ExamInv, Begin PROVE ExamInv'
<1> DEFINE n == Len(m_CheckItemList)
<1>1. /\ m_CheckItemList' = m_CheckItemList /\ m_iCurrent' = 1 /\ weighed' = weighed
      /\ walked' = IF m_CheckItemList = <<>> THEN <<>> ELSE <<1>>
  BY DEF Begin
<1>2. m_CheckItemList \in Seq(Item) /\ n <= MaxItems /\ weighed \in BOOLEAN
  BY DEF ExamInv, ExamTypeOK
<1>3. n \in Nat /\ (m_CheckItemList # <<>> => n >= 1)
  BY <1>2, LenProperties, EmptySeq
<1>4. <<1>> = [i \in 1..1 |-> i]
  OBVIOUS
<1>5. Len(m_CheckItemList') = n
  BY <1>1
<1> HIDE DEF n
<1>6. walked' \in Seq(1..MaxItems)
  <2>1. CASE m_CheckItemList = <<>>
    BY <1>1, <2>1
  <2>2. CASE m_CheckItemList # <<>>
    <3>1. 1 \in 1..MaxItems
      BY <1>2, <1>3, <2>2, MaxItemsAssumption
    <3> QED BY <1>1, <2>2, <3>1
  <2> QED BY <2>1, <2>2
<1>7. ExamTypeOK'
  BY <1>1, <1>2, <1>3, <1>5, <1>6 DEF ExamTypeOK, Item
<1>8. WalkSoFar'
  <2>1. CASE m_CheckItemList = <<>>
    BY <1>1, <2>1 DEF WalkSoFar
  <2>2. CASE m_CheckItemList # <<>>
    BY <1>1, <1>3, <1>4, <1>5, <2>2 DEF WalkSoFar
  <2> QED BY <2>1, <2>2
<1>9. SumIs100' /\ NearExact'
  BY <1>1, WeightsKept DEF ExamInv
<1> QED BY <1>7, <1>8, <1>9 DEF ExamInv

\* Next adds the item behind the last one given, and stays at end().
LEMMA NextItemKeeps == ASSUME ExamInv, NextItem PROVE ExamInv'
<1> DEFINE n == Len(m_CheckItemList)
           cur == IF m_iCurrent <= n THEN m_iCurrent ELSE n
           moved == IF m_iCurrent <= n THEN m_iCurrent + 1 ELSE m_iCurrent
<1>1. /\ walked # <<>> /\ m_iCurrent' = moved
      /\ walked' = IF moved <= n THEN Append(walked, moved) ELSE walked
      /\ m_CheckItemList' = m_CheckItemList /\ weighed' = weighed
  BY DEF NextItem
<1>2. /\ m_CheckItemList \in Seq(Item) /\ n <= MaxItems /\ weighed \in BOOLEAN
      /\ m_iCurrent \in 1..(n + 1) /\ walked \in Seq(1..MaxItems)
  BY DEF ExamInv, ExamTypeOK
<1>3. n \in Nat /\ Len(m_CheckItemList') = n
  BY <1>1, <1>2, LenProperties
<1>4. walked = [i \in 1..cur |-> i]
  BY <1>1 DEF ExamInv, WalkSoFar
<1> HIDE DEF n
<1>5. moved \in 1..(n + 1)
  BY <1>2, <1>3
<1>6. walked' \in Seq(1..MaxItems)
  <2>1. moved <= n => moved \in 1..MaxItems
    BY <1>2, <1>3, <1>5, MaxItemsAssumption
  <2> HIDE DEF moved
  <2>2. CASE moved <= n
    <3>1. walked' = Append(walked, moved)
      BY <1>1, <2>2
    <3> QED BY <1>2, <2>1, <2>2, <3>1, AppendProperties
  <2>3. CASE ~(moved <= n)
    BY <1>1, <1>2, <2>3
  <2> QED BY <2>2, <2>3
<1>7. ExamTypeOK'
  BY <1>1, <1>2, <1>3, <1>5, <1>6 DEF ExamTypeOK, Item
<1>8. WalkSoFar'
  <2>1. CASE moved <= n
    <3>1. m_iCurrent <= n /\ moved = m_iCurrent + 1 /\ cur = m_iCurrent /\ m_iCurrent \in Nat
      BY <1>2, <1>3, <2>1
    <3>2. walked = [i \in 1..m_iCurrent |-> i]
      BY <1>4, <3>1
    <3>3. Append(walked, m_iCurrent + 1) = [i \in 1..(m_iCurrent + 1) |-> i]
      BY <3>1, <3>2
    <3> QED BY <1>1, <1>3, <2>1, <3>1, <3>3 DEF WalkSoFar
  <2>2. CASE ~(moved <= n)
    <3>1. cur = n /\ moved = n + 1
      BY <1>2, <1>3, <2>2
    <3>2. walked' = [i \in 1..n |-> i]
      BY <1>1, <1>4, <2>2, <3>1
    <3> QED BY <1>1, <1>3, <3>1, <3>2 DEF WalkSoFar
  <2> QED BY <2>1, <2>2
<1>9. SumIs100' /\ NearExact'
  BY <1>1, WeightsKept DEF ExamInv
<1> QED BY <1>7, <1>8, <1>9 DEF ExamInv

\* The invariant of CTaskExam, by one step per operation.
LEMMA ExamInvariance == ExamSpec => []ExamInv
<1>1. ExamInit => ExamInv
  <2> SUFFICES ASSUME ExamInit PROVE ExamInv
    OBVIOUS
  <2>1. m_CheckItemList = <<>> /\ m_iCurrent = 1 /\ weighed = FALSE /\ walked = <<>>
    BY DEF ExamInit
  <2>2. m_CheckItemList \in Seq(Item) /\ Len(m_CheckItemList) = 0 /\ walked \in Seq(1..MaxItems)
    BY <2>1
  <2>3. ExamTypeOK
    <3>1. Len(m_CheckItemList) <= MaxItems /\ m_iCurrent \in 1..(Len(m_CheckItemList) + 1)
      BY <2>1, <2>2, MaxItemsAssumption
    <3>2. weighed \in BOOLEAN
      BY <2>1
    <3> QED BY <2>2, <3>1, <3>2 DEF ExamTypeOK
  <2>4. WalkSoFar /\ SumIs100 /\ NearExact
    BY <2>1 DEF WalkSoFar, SumIs100, NearExact, Finished
  <2> QED BY <2>3, <2>4 DEF ExamInv
<1>2. ExamInv /\ [ExamNext]_examVars => ExamInv'
  <2> SUFFICES ASSUME ExamInv, [ExamNext]_examVars PROVE ExamInv'
    OBVIOUS
  <2>1. ASSUME UNCHANGED examVars PROVE ExamInv'
    <3>1. /\ m_CheckItemList' = m_CheckItemList /\ m_iCurrent' = m_iCurrent
          /\ weighed' = weighed /\ walked' = walked
      BY <2>1 DEF examVars
    <3>2. ExamTypeOK' /\ WalkSoFar'
      BY <3>1 DEF ExamInv, ExamTypeOK, WalkSoFar, Item
    <3>3. SumIs100' /\ NearExact'
      BY <3>1, WeightsKept DEF ExamInv
    <3> QED BY <3>2, <3>3 DEF ExamInv
  <2> QED BY <2>1, InsertKeeps, WeighKeeps, BeginKeeps, NextItemKeeps DEF ExamNext
<1> QED BY <1>1, <1>2, PTL DEF ExamSpec

(* Items, cursor and history keep their types; the cursor stays between the *)
(* first item and end(), however InsertItem, FinishInit, Begin and Next are  *)
(* called.                                                                  *)
THEOREM ExamTypes == ExamSpec => []ExamTypeOK
<1>1. ExamInv => ExamTypeOK
  BY DEF ExamInv
<1> QED BY <1>1, ExamInvariance, PTL

(* After FinishInit the percents add up to 100, for every number of items   *)
(* and all weights that are not all 0: the adjustment never runs out of     *)
(* items to move.                                                           *)
THEOREM PercentsSumTo100 == ExamSpec => []SumIs100
<1>1. ExamInv => SumIs100
  BY DEF ExamInv
<1> QED BY <1>1, ExamInvariance, PTL

(* FinishInit leaves every percent less than two points away from the exact *)
(* share, whatever the truncation and the adjustment did to it.              *)
THEOREM PercentsKeepWeights == ExamSpec => []NearExact
<1>1. ExamInv => NearExact
  BY DEF ExamInv
<1> QED BY <1>1, ExamInvariance, PTL

(* A walk with Begin and Next that reached end() gave every item of the     *)
(* health check exactly once, in order, for every length of the list.        *)
THEOREM WalksGiveEveryItem == ExamSpec => []WalkIsComplete
<1>1. ExamInv => WalkIsComplete
  <2> SUFFICES ASSUME ExamInv, walked # <<>>, m_iCurrent = Len(m_CheckItemList) + 1
               PROVE  walked = [i \in DOMAIN m_CheckItemList |-> i]
    BY DEF WalkIsComplete
  <2>1. Len(m_CheckItemList) \in Nat /\ DOMAIN m_CheckItemList = 1..Len(m_CheckItemList)
    BY LenProperties DEF ExamInv, ExamTypeOK
  <2>2. ~(m_iCurrent <= Len(m_CheckItemList))
    BY <2>1
  <2> QED BY <2>1, <2>2 DEF ExamInv, WalkSoFar
<1> QED BY <1>1, ExamInvariance, PTL
=============================================================================
