---------------------------- MODULE DhOpsProofs ----------------------------
(***************************************************************************)
(* Proofs of the safety properties of DhOps, for every width of numbers,   *)
(* all results of queries and any number of datasets. The properties       *)
(* relate a dataset to the ones it was made of, and nothing in them says   *)
(* how those were made; the invariant IInv says it of each dataset. It is  *)
(* well formed: a column holds one kind of cell, and its texts are of one  *)
(* kind, so that their keys are in a total order and a key tells which     *)
(* cells it is of. Its parent came before it. It has room for what the     *)
(* kernels may still add, so that a count or a place fits a number. And it *)
(* is what its kernel makes of its parent (Faithful), by a form that names *)
(* the columns and rows without the CHOOSE that arranged them. TypeOK      *)
(* follows from the first part; the agreements between kernels follow from *)
(* the last one and three facts about data: an order that is total         *)
(* arranges a finite set in one way, sums of Floats do not depend on how   *)
(* they are grouped, NaN and the infinities included, and neither do the   *)
(* least and the greatest. A sum begins with -0, which adds nothing, and   *)
(* then with the zero of the build; where a sum of no rows meets a count,  *)
(* and for the least and the greatest, values are equal but for the sign   *)
(* of a zero.                                                              *)
(***************************************************************************)
EXTENDS DhOps, TLAPS, FiniteSetTheorems, NaturalsInduction

-----------------------------------------------------------------------------
(***************************************************************************)
(* Floats. Addition has a zero, which is -0, commutes and associates, with *)
(* NaN and the infinities among the numbers; rounding is left out of the   *)
(* model.                                                                  *)
(***************************************************************************)
Unbounded == {NaN, Inf, MinusInf}

Special == Unbounded \cup {MinusZero}

Floats == Special \cup {FloatCell(n) : n \in Int}

LEMMA FloatCases ==
  ASSUME NEW v \in Floats
  PROVE  \/ v = NaN \/ v = Inf \/ v = MinusInf \/ v = MinusZero
         \/ v[3] \in Int /\ v = FloatCell(v[3]) /\ v[2] = 0
BY DEF Floats, Special, Unbounded, FloatCell

LEMMA FloatsDiffer ==
  /\ NaN # Inf /\ NaN # MinusInf /\ Inf # MinusInf
  /\ MinusZero # NaN /\ MinusZero # Inf /\ MinusZero # MinusInf
  /\ \A n \in Int : /\ FloatCell(n) # NaN /\ FloatCell(n) # Inf /\ FloatCell(n) # MinusInf /\ FloatCell(n) # MinusZero
                    /\ FloatCell(n)[3] = n /\ FloatCell(n)[2] = 0 /\ FloatCell(n)[1] = "float"
                    /\ FloatCell(n) \in Floats
  /\ NaN \in Floats /\ Inf \in Floats /\ MinusInf \in Floats /\ MinusZero \in Floats
BY DEF NaN, Inf, MinusInf, MinusZero, FloatCell, Floats, Special, Unbounded

LEMMA ZeroIs ==
  /\ FloatCell(0) \in Floats \ Special /\ FloatCell(0)[3] = 0 /\ FloatCell(0)[2] = 0 /\ FloatCell(0)[1] = "float"
  /\ MinusZero \in Floats \ Unbounded /\ MinusZero[3] = 0 /\ MinusZero[2] = 0 /\ MinusZero[1] = "float"
  /\ MinusZero # FloatCell(0) /\ Zeros \subseteq Floats \ Unbounded
  /\ \A v \in Zeros : v[1] = "float" /\ v[2] = 0 /\ v[3] = 0
<1>1. MinusZero[3] = 0 /\ MinusZero[2] = 0 /\ MinusZero[1] = "float"
  BY DEF MinusZero
<1> QED
  BY <1>1, FloatsDiffer DEF Special, Unbounded, Zeros

LEMMA PlusSpecial ==
  ASSUME NEW v \in Floats, NEW w \in Floats
  PROVE  /\ v = NaN \/ w = NaN \/ (v = Inf /\ w = MinusInf) \/ (v = MinusInf /\ w = Inf) => Plus(v, w) = NaN
         /\ v = Inf /\ w # NaN /\ w # MinusInf => Plus(v, w) = Inf
         /\ w = Inf /\ v # NaN /\ v # MinusInf => Plus(v, w) = Inf
         /\ v = MinusInf /\ w # NaN /\ w # Inf => Plus(v, w) = MinusInf
         /\ w = MinusInf /\ v # NaN /\ v # Inf => Plus(v, w) = MinusInf
         /\ v = MinusZero => Plus(v, w) = w
         /\ w = MinusZero => Plus(v, w) = v
<1>1. /\ NaN # Inf /\ NaN # MinusInf /\ Inf # MinusInf
      /\ MinusZero # NaN /\ MinusZero # Inf /\ MinusZero # MinusInf
  BY FloatsDiffer
<1> HIDE DEF NaN, Inf, MinusInf, MinusZero
<1> QED
  BY <1>1, Zenon DEF Plus, Infinite

LEMMA PlusPlain ==
  ASSUME NEW v \in Floats \ Special, NEW w \in Floats \ Special
  PROVE  /\ v[3] \in Int /\ w[3] \in Int /\ v = FloatCell(v[3]) /\ w = FloatCell(w[3])
         /\ Plus(v, w) = FloatCell(v[3] + w[3]) /\ Plus(v, w) \in Floats \ Special
         /\ Plus(v, w)[3] = v[3] + w[3]
<1>1. v[3] \in Int /\ w[3] \in Int /\ v = FloatCell(v[3]) /\ w = FloatCell(w[3])
  BY FloatCases DEF Special, Unbounded
<1>2. FloatCell(v[3] + w[3]) \in Floats \ Special /\ FloatCell(v[3] + w[3])[3] = v[3] + w[3]
  BY <1>1, FloatsDiffer DEF Special, Unbounded
<1>3. Plus(v, w) = FloatCell(v[3] + w[3])
  BY Zenon DEF Plus, Infinite, Special, Unbounded
<1> QED
  BY <1>1, <1>2, <1>3

LEMMA PlusType == \A v, w \in Floats : Plus(v, w) \in Floats
<1> SUFFICES ASSUME NEW v \in Floats, NEW w \in Floats PROVE Plus(v, w) \in Floats
  OBVIOUS
<1>1. CASE v \notin Special /\ w \notin Special
  BY <1>1, PlusPlain
<1>2. CASE v \in Special \/ w \in Special
  BY <1>2, PlusSpecial, FloatsDiffer DEF Special, Unbounded
<1> QED
  BY <1>1, <1>2

LEMMA PlusZero == \A v \in Floats : Plus(v, MinusZero) = v /\ Plus(MinusZero, v) = v
BY PlusSpecial, FloatsDiffer

LEMMA PlusCommutes == \A v, w \in Floats : Plus(v, w) = Plus(w, v)
<1> SUFFICES ASSUME NEW v \in Floats, NEW w \in Floats PROVE Plus(v, w) = Plus(w, v)
  OBVIOUS
<1>1. CASE v \notin Special /\ w \notin Special
  <2>1. Plus(v, w) = FloatCell(v[3] + w[3]) /\ Plus(w, v) = FloatCell(w[3] + v[3])
        /\ v[3] \in Int /\ w[3] \in Int
    BY <1>1, PlusPlain
  <2>2. v[3] + w[3] = w[3] + v[3]
    BY <2>1
  <2> QED
    BY <2>1, <2>2, Zenon
<1>2. CASE v \in Special \/ w \in Special
  BY <1>2, PlusSpecial DEF Special, Unbounded
<1> QED
  BY <1>1, <1>2

LEMMA PlusAssociates == \A u, v, w \in Floats : Plus(Plus(u, v), w) = Plus(u, Plus(v, w))
<1> SUFFICES ASSUME NEW u \in Floats, NEW v \in Floats, NEW w \in Floats
             PROVE  Plus(Plus(u, v), w) = Plus(u, Plus(v, w))
  OBVIOUS
<1>1. Plus(u, v) \in Floats /\ Plus(v, w) \in Floats /\ Plus(u, w) \in Floats
  BY PlusType
<1>2. CASE u \notin Special /\ v \notin Special /\ w \notin Special
  <2>1. /\ u[3] \in Int /\ v[3] \in Int /\ w[3] \in Int
        /\ Plus(u, v) \in Floats \ Special /\ Plus(u, v)[3] = u[3] + v[3]
        /\ Plus(v, w) \in Floats \ Special /\ Plus(v, w)[3] = v[3] + w[3]
    BY <1>2, PlusPlain
  <2>2. Plus(Plus(u, v), w) = FloatCell(Plus(u, v)[3] + w[3])
    BY <1>2, <2>1, PlusPlain
  <2>3. Plus(u, Plus(v, w)) = FloatCell(u[3] + Plus(v, w)[3])
    BY <1>2, <2>1, PlusPlain
  <2>4. Plus(u, v)[3] + w[3] = u[3] + Plus(v, w)[3]
    BY <2>1
  <2> QED
    BY <2>2, <2>3, <2>4, Zenon
<1>3. CASE u = MinusZero \/ v = MinusZero \/ w = MinusZero
  BY <1>1, <1>3, PlusZero
<1>4. CASE /\ u \in Unbounded \/ v \in Unbounded \/ w \in Unbounded
           /\ u # MinusZero /\ v # MinusZero /\ w # MinusZero
  <2>1. CASE u = NaN \/ v = NaN \/ w = NaN
    <3>1. \A x \in Floats : Plus(NaN, x) = NaN /\ Plus(x, NaN) = NaN
      BY FloatsDiffer, PlusSpecial
    <3> QED
      BY <1>1, <2>1, <3>1
  <2>2. CASE ~ (u = NaN \/ v = NaN \/ w = NaN)
    <3>1. \A x \in Floats \ Special : Plus(Inf, x) = Inf /\ Plus(x, Inf) = Inf
                          /\ Plus(MinusInf, x) = MinusInf /\ Plus(x, MinusInf) = MinusInf
      BY FloatsDiffer, PlusSpecial DEF Special, Unbounded
    <3>2. /\ Plus(Inf, Inf) = Inf /\ Plus(MinusInf, MinusInf) = MinusInf
          /\ Plus(Inf, MinusInf) = NaN /\ Plus(MinusInf, Inf) = NaN
          /\ \A x \in Floats : Plus(NaN, x) = NaN /\ Plus(x, NaN) = NaN
      BY FloatsDiffer, PlusSpecial
    <3>3. \A x, y \in Floats \ Special : Plus(x, y) \in Floats \ Special
      BY PlusPlain
    <3> QED
      BY <1>4, <2>2, <3>1, <3>2, <3>3, FloatsDiffer DEF Special, Unbounded
  <2> QED
    BY <2>1, <2>2
<1> QED
  BY <1>2, <1>3, <1>4 DEF Special

\* A zero added twice is added once; 0, but not -0, takes the sign of the other zero.
LEMMA ZerosAbsorb ==
  /\ \A v \in Floats \ {MinusZero} : Plus(FloatCell(0), v) = v
  /\ \A z \in Zeros : z \in Floats /\ Plus(z, z) = z /\ Plus(FloatCell(0), z) = FloatCell(0)
<1>1. ASSUME NEW v \in Floats, v # MinusZero PROVE Plus(FloatCell(0), v) = v
  <2>1. CASE v \in Unbounded
    BY <2>1, ZeroIs, PlusSpecial, FloatsDiffer DEF Special, Unbounded
  <2>2. CASE v \notin Unbounded
    <3>1. Plus(FloatCell(0), v) = FloatCell(FloatCell(0)[3] + v[3]) /\ v[3] \in Int /\ v = FloatCell(v[3])
      BY <1>1, <2>2, ZeroIs, PlusPlain DEF Special
    <3>2. FloatCell(0)[3] + v[3] = v[3]
      BY <3>1, ZeroIs
    <3> QED
      BY <3>1, <3>2, Zenon
  <2> QED
    BY <2>1, <2>2
<1>2. Plus(MinusZero, MinusZero) = MinusZero /\ Plus(FloatCell(0), MinusZero) = FloatCell(0)
  BY PlusZero, ZeroIs
<1>3. Plus(FloatCell(0), FloatCell(0)) = FloatCell(0)
  BY <1>1, ZeroIs
<1> QED
  BY <1>1, <1>2, <1>3, ZeroIs DEF Zeros

LEMMA UnsignedIs ==
  ASSUME NEW v \in Floats
  PROVE  Unsigned(v) = Plus(FloatCell(0), v) /\ Unsigned(v) \in Floats
BY ZerosAbsorb, ZeroIs, FloatsDiffer DEF Unsigned, Zeros

-----------------------------------------------------------------------------
(***************************************************************************)
(* Sums. Sum is a recursive function inside a LET, which the provers do    *)
(* not open: SumBy names its graph, SumByExists that it has one, and       *)
(* SumStep is the recursion that every other fact about sums rests on.     *)
(***************************************************************************)
LEMMA LeastIndex ==
  ASSUME NEW S \in SUBSET Nat, S # {}
  PROVE  \E i \in S : \A j \in S : i <= j
<1>1. \A j, k \in Nat : j < k => <<j, k>> \in OpToRel(<, Nat)
  BY DEF OpToRel
<1>2. PICK i \in S : \A j \in S : ~ (<<j, i>> \in OpToRel(<, Nat))
  BY NatLessThanWellFounded, WFMin
<1>3. \A j \in S : ~ (j < i)
  BY <1>1, <1>2
<1> QED
  BY <1>3

\* The function that Sum is defined by.
SumBy(f, v, n) ==
  f = [k \in 0..n |-> IF k = 0 THEN MinusZero ELSE Plus(f[k - 1], v[k])]

LEMMA SumByGrows ==
  ASSUME NEW v, NEW n \in Nat, NEW f, SumBy(f, v, n)
  PROVE  \E g : SumBy(g, v, n + 1)
<1> DEFINE More(h, k) == IF k = 0 THEN MinusZero ELSE Plus(h[k - 1], v[k])
           g == [k \in 0..(n + 1) |-> IF k = n + 1 THEN More(f, k) ELSE f[k]]
<1>1. \A k \in 0..n : f[k] = More(f, k)
  BY DEF SumBy
<1>2. ASSUME NEW k \in 0..(n + 1) PROVE g[k] = More(g, k)
  <2>1. CASE k = 0
    BY <1>1, <2>1
  <2>2. CASE k > 0
    <3>1. k - 1 \in 0..n /\ g[k - 1] = f[k - 1]
      BY <2>2
    <3>2. g[k] = More(f, k)
      BY <1>1, <2>2
    <3> QED
      BY <2>2, <3>1, <3>2
  <2> QED
    BY <2>1, <2>2
<1>3. g = [k \in 0..(n + 1) |-> More(g, k)]
  <2> HIDE DEF More
  <2> QED
    BY <1>2
<1> QED
  BY <1>3 DEF SumBy

LEMMA SumByExists ==
  ASSUME NEW v, NEW n \in Nat
  PROVE  \E f : SumBy(f, v, n)
<1> DEFINE Bad == {m \in Nat : ~ \E f : SumBy(f, v, m)}
<1>1. SUFFICES ASSUME n \in Bad PROVE FALSE
  OBVIOUS
<1>2. PICK m \in Bad : \A j \in Bad : m <= j
  BY <1>1, LeastIndex
<1>3. m # 0
  <2> DEFINE f == [k \in 0..0 |-> MinusZero]
  <2>1. f = [k \in 0..0 |-> IF k = 0 THEN MinusZero ELSE Plus(f[k - 1], v[k])]
    OBVIOUS
  <2>2. SumBy(f, v, 0)
    BY <2>1 DEF SumBy
  <2> QED
    BY <2>2
<1>4. m - 1 \in Nat /\ (m - 1) \notin Bad
  BY <1>2, <1>3
<1>5. PICK f : SumBy(f, v, m - 1)
  BY <1>4
<1>6. \E g : SumBy(g, v, (m - 1) + 1)
  BY <1>4, <1>5, SumByGrows
<1> QED
  BY <1>2, <1>6

LEMMA SumBySame ==
  ASSUME NEW v, NEW n \in Nat, NEW m \in Nat, n <= m,
         NEW f, SumBy(f, v, n), NEW g, SumBy(g, v, m)
  PROVE  f[n] = g[n]
<1> DEFINE Bad == {k \in Nat : k <= n /\ f[k] # g[k]}
<1>1. SUFFICES ASSUME Bad # {} PROVE FALSE
  OBVIOUS
<1>2. PICK k \in Bad : \A j \in Bad : k <= j
  BY <1>1, LeastIndex
<1>3. /\ f[k] = IF k = 0 THEN MinusZero ELSE Plus(f[k - 1], v[k])
      /\ g[k] = IF k = 0 THEN MinusZero ELSE Plus(g[k - 1], v[k])
  BY DEF SumBy
<1>4. k # 0
  BY <1>3
<1>5. k - 1 \in 0..n /\ (k - 1) \notin Bad
  BY <1>2, <1>4
<1> QED
  BY <1>3, <1>5

LEMMA SumIs ==
  ASSUME NEW v, NEW n \in Nat
  PROVE  \E f : SumBy(f, v, n) /\ Sum(v, n) = f[n]
<1> DEFINE f == CHOOSE h : SumBy(h, v, n)
<1>1. SumBy(f, v, n)
  BY SumByExists
<1>2. Sum(v, n) = f[n]
  BY DEF Sum, SumBy
<1> QED
  BY <1>1, <1>2

LEMMA SumStep ==
  ASSUME NEW v, NEW n \in Nat
  PROVE  Sum(v, 0) = MinusZero /\ Sum(v, n + 1) = Plus(Sum(v, n), v[n + 1])
<1>1. PICK z : SumBy(z, v, 0) /\ Sum(v, 0) = z[0]
  BY SumIs
<1>2. PICK f : SumBy(f, v, n) /\ Sum(v, n) = f[n]
  BY SumIs
<1>3. PICK g : SumBy(g, v, n + 1) /\ Sum(v, n + 1) = g[n + 1]
  BY SumIs
<1>4. z[0] = MinusZero
  BY <1>1 DEF SumBy
<1>5. n + 1 # 0 /\ n + 1 \in 0..(n + 1) /\ (n + 1) - 1 = n
  OBVIOUS
<1>6. g[n + 1] = Plus(g[n], v[n + 1])
  BY <1>3, <1>5 DEF SumBy
<1>7. f[n] = g[n]
  BY <1>2, <1>3, SumBySame
<1> QED
  BY <1>1, <1>2, <1>3, <1>4, <1>6, <1>7

\* Columns of n Floats.
Vectors(n) == [1..n -> Floats]

\* Two vectors whose sums would first differ at some place have a step there.
LEMMA SumType ==
  ASSUME NEW n \in Nat, NEW v \in Vectors(n), NEW k \in 0..n
  PROVE  Sum(v, k) \in Floats
<1> DEFINE Bad == {i \in Nat : i <= n /\ Sum(v, i) \notin Floats}
<1>1. SUFFICES ASSUME Bad # {} PROVE FALSE
  OBVIOUS
<1>2. PICK i \in Bad : \A j \in Bad : i <= j
  BY <1>1, LeastIndex
<1>3. i # 0
  BY SumStep, ZeroIs
<1>4. i - 1 \in Nat /\ (i - 1) \notin Bad /\ i - 1 \in 0..n /\ (i - 1) + 1 = i /\ i \in 1..n
  BY <1>2, <1>3
<1>5. Sum(v, i) = Plus(Sum(v, i - 1), v[i])
  BY <1>4, SumStep
<1>6. v[i] \in Floats
  BY <1>4 DEF Vectors
<1> QED
  BY <1>4, <1>5, <1>6, PlusType

LEMMA SumEqual ==
  ASSUME NEW n \in Nat, NEW v, NEW w, \A k \in 1..n : v[k] = w[k]
  PROVE  Sum(v, n) = Sum(w, n)
<1> DEFINE Bad == {i \in Nat : i <= n /\ Sum(v, i) # Sum(w, i)}
<1>1. SUFFICES ASSUME Bad # {} PROVE FALSE
  OBVIOUS
<1>2. PICK i \in Bad : \A j \in Bad : i <= j
  BY <1>1, LeastIndex
<1>3. i # 0
  BY SumStep
<1>4. i - 1 \in Nat /\ (i - 1) \notin Bad /\ i - 1 \in 0..n /\ (i - 1) + 1 = i /\ i \in 1..n
  BY <1>2, <1>3
<1>5. Sum(v, i) = Plus(Sum(v, i - 1), v[i]) /\ Sum(w, i) = Plus(Sum(w, i - 1), w[i])
  BY <1>4, SumStep
<1> QED
  BY <1>4, <1>5

LEMMA SumZeros ==
  ASSUME NEW n \in Nat, NEW v, \A k \in 1..n : v[k] = MinusZero
  PROVE  Sum(v, n) = MinusZero
<1> DEFINE Bad == {i \in Nat : i <= n /\ Sum(v, i) # MinusZero}
<1>1. SUFFICES ASSUME Bad # {} PROVE FALSE
  OBVIOUS
<1>2. PICK i \in Bad : \A j \in Bad : i <= j
  BY <1>1, LeastIndex
<1>3. i # 0
  BY SumStep
<1>4. i - 1 \in Nat /\ (i - 1) \notin Bad /\ i - 1 \in 0..n /\ (i - 1) + 1 = i /\ i \in 1..n
  BY <1>2, <1>3
<1>5. Sum(v, i) = Plus(Sum(v, i - 1), v[i])
  BY <1>4, SumStep
<1> QED
  BY <1>4, <1>5, PlusZero, ZeroIs

LEMMA PlusSwaps ==
  ASSUME NEW a \in Floats, NEW b \in Floats, NEW c \in Floats, NEW d \in Floats
  PROVE  Plus(Plus(a, b), Plus(c, d)) = Plus(Plus(a, c), Plus(b, d))
<1>1. Plus(Plus(a, b), Plus(c, d)) = Plus(a, Plus(b, Plus(c, d)))
  BY PlusType, PlusAssociates
<1>2. Plus(b, Plus(c, d)) = Plus(Plus(b, c), d)
  BY PlusType, PlusAssociates
<1>3. Plus(b, c) = Plus(c, b)
  BY PlusCommutes
<1>4. Plus(Plus(c, b), d) = Plus(c, Plus(b, d))
  BY PlusType, PlusAssociates
<1>5. Plus(a, Plus(c, Plus(b, d))) = Plus(Plus(a, c), Plus(b, d))
  BY PlusType, PlusAssociates
<1> QED
  BY <1>1, <1>2, <1>3, <1>4, <1>5

LEMMA SumOfSums ==
  ASSUME NEW n \in Nat, NEW u \in Vectors(n), NEW v \in Vectors(n), NEW w,
         \A k \in 1..n : w[k] = Plus(u[k], v[k])
  PROVE  Sum(w, n) = Plus(Sum(u, n), Sum(v, n))
<1> DEFINE Bad == {i \in Nat : i <= n /\ Sum(w, i) # Plus(Sum(u, i), Sum(v, i))}
<1>1. SUFFICES ASSUME Bad # {} PROVE FALSE
  OBVIOUS
<1>2. PICK i \in Bad : \A j \in Bad : i <= j
  BY <1>1, LeastIndex
<1>3. i # 0
  BY SumStep, PlusZero, ZeroIs
<1>4. i - 1 \in Nat /\ (i - 1) \notin Bad /\ i - 1 \in 0..n /\ (i - 1) + 1 = i /\ i \in 1..n
  BY <1>2, <1>3
<1>5. /\ Sum(w, i) = Plus(Sum(w, i - 1), w[i])
      /\ Sum(u, i) = Plus(Sum(u, i - 1), u[i])
      /\ Sum(v, i) = Plus(Sum(v, i - 1), v[i])
  BY <1>4, SumStep
<1>6. Sum(u, i - 1) \in Floats /\ Sum(v, i - 1) \in Floats /\ u[i] \in Floats /\ v[i] \in Floats
  BY <1>4, SumType DEF Vectors
<1>7. Sum(w, i) = Plus(Plus(Sum(u, i - 1), Sum(v, i - 1)), Plus(u[i], v[i]))
  BY <1>4, <1>5
<1> QED
  BY <1>5, <1>6, <1>7, PlusSwaps

\* One value and otherwise zeros.
LEMMA SumSingle ==
  ASSUME NEW n \in Nat, NEW k \in 1..n, NEW v \in Vectors(n),
         \A j \in 1..n : j # k => v[j] = MinusZero
  PROVE  Sum(v, n) = v[k]
<1> DEFINE Bad == {i \in Nat : i <= n /\ Sum(v, i) # (IF i < k THEN MinusZero ELSE v[k])}
<1>1. SUFFICES ASSUME Bad # {} PROVE FALSE
  OBVIOUS
<1>2. PICK i \in Bad : \A j \in Bad : i <= j
  BY <1>1, LeastIndex
<1>3. i # 0
  BY SumStep
<1>4. i - 1 \in Nat /\ (i - 1) \notin Bad /\ i - 1 \in 0..n /\ (i - 1) + 1 = i /\ i \in 1..n
  BY <1>2, <1>3
<1>5. Sum(v, i) = Plus(Sum(v, i - 1), v[i]) /\ v[i] \in Floats /\ v[k] \in Floats
  BY <1>4, SumStep DEF Vectors
<1>6. CASE i < k
  BY <1>4, <1>5, <1>6, PlusZero, ZeroIs
<1>7. CASE i = k
  BY <1>4, <1>5, <1>7, PlusZero, ZeroIs
<1>8. CASE i > k
  BY <1>4, <1>5, <1>8, PlusZero, ZeroIs
<1> QED
  BY <1>4, <1>6, <1>7, <1>8

(***************************************************************************)
(* A table of Floats has the same sum by its rows as by its columns.       *)
(***************************************************************************)
LEMMA SumTransposed ==
  ASSUME NEW a \in Nat, NEW b \in Nat, NEW M \in [1..a -> Vectors(b)]
  PROVE  Sum([i \in 1..a |-> Sum(M[i], b)], a)
           = Sum([j \in 1..b |-> Sum([i \in 1..a |-> M[i][j]], a)], b)
<1> DEFINE Down(j) == [i \in 1..a |-> M[i][j]]
           Across == [i \in 1..a |-> Sum(M[i], b)]
           Part(k) == [j \in 1..b |-> Sum(Down(j), k)]
           Bad == {k \in Nat : k <= a /\ Sum(Across, k) # Sum(Part(k), b)}
<1> SUFFICES Sum(Across, a) = Sum(Part(a), b)
  OBVIOUS
<1> SUFFICES ASSUME a \in Bad PROVE FALSE
  OBVIOUS
<1>1. \A j \in 1..b : Down(j) \in Vectors(a)
  BY DEF Vectors
<1>2. PICK k \in Bad : \A j \in Bad : k <= j
  BY LeastIndex
<1> HIDE DEF Down
<1>3. k # 0
  <2>1. \A j \in 1..b : Part(0)[j] = MinusZero
    BY SumStep
  <2>2. Sum(Part(0), b) = MinusZero
    BY <2>1, SumZeros
  <2> QED
    BY <2>2, SumStep
<1>4. k - 1 \in Nat /\ (k - 1) \notin Bad /\ k - 1 \in 0..a /\ (k - 1) + 1 = k /\ k \in 1..a
  BY <1>2, <1>3
<1>5. Sum(Across, k) = Plus(Sum(Across, k - 1), Sum(M[k], b))
  BY <1>4, SumStep
<1>6. Part(k - 1) \in Vectors(b) /\ M[k] \in Vectors(b)
  BY <1>1, <1>4, SumType DEF Vectors
<1>7. \A j \in 1..b : Part(k)[j] = Plus(Part(k - 1)[j], M[k][j])
  <2> TAKE j \in 1..b
  <2>1. Sum(Down(j), k) = Plus(Sum(Down(j), k - 1), Down(j)[k])
    BY <1>4, SumStep
  <2>2. Down(j)[k] = M[k][j]
    BY <1>4 DEF Down
  <2> QED
    BY <2>1, <2>2
<1>8. Sum(Part(k), b) = Plus(Sum(Part(k - 1), b), Sum(M[k], b))
  <2> HIDE DEF Part
  <2> QED
    BY <1>6, <1>7, SumOfSums
<1> QED
  BY <1>4, <1>5, <1>8

(***************************************************************************)
(* The sums of groups add up to the sum of all, where each value that is   *)
(* not zero is in one group.                                               *)
(***************************************************************************)
SharedOut(v, n, G, g) ==
  \A r \in 1..n : v[r] # MinusZero => \E i \in 1..g : \A j \in 1..g : r \in G[j] <=> j = i

GroupSums(u, v, n, G, g) ==
  \A i \in 1..g : u[i] = Sum([r \in 1..n |-> IF r \in G[i] THEN v[r] ELSE MinusZero], n)

LEMMA SumGrouped ==
  ASSUME NEW n \in Nat, NEW g \in Nat, NEW v \in Vectors(n), NEW G, NEW u,
         SharedOut(v, n, G, g), GroupSums(u, v, n, G, g)
  PROVE  Sum(u, g) = Sum(v, n)
<1> DEFINE Row(i) == [r \in 1..n |-> IF r \in G[i] THEN v[r] ELSE MinusZero]
           M == [i \in 1..g |-> Row(i)]
           Col(r) == [i \in 1..g |-> M[i][r]]
           across == [i \in 1..g |-> Sum(M[i], n)]
           down == [r \in 1..n |-> Sum(Col(r), g)]
<1>1. \A i \in 1..g : Row(i) \in Vectors(n)
  BY ZeroIs DEF Vectors
<1>2. M \in [1..g -> Vectors(n)]
  <2> HIDE DEF Row
  <2> QED
    BY <1>1
<1>3. \A i \in 1..g, r \in 1..n : M[i][r] = IF r \in G[i] THEN v[r] ELSE MinusZero
  OBVIOUS
<1>4. Sum(across, g) = Sum(down, n)
  <2> HIDE DEF M
  <2> QED
    BY <1>2, SumTransposed
<1>5. Sum(across, g) = Sum(u, g)
  <2>1. \A i \in 1..g : across[i] = u[i]
    BY DEF GroupSums
  <2> HIDE DEF across
  <2> QED
    BY <2>1, SumEqual
<1>6. \A r \in 1..n : down[r] = v[r]
  <2> SUFFICES ASSUME NEW r \in 1..n PROVE Sum(Col(r), g) = v[r]
    OBVIOUS
  <2>1. \A i \in 1..g : Col(r)[i] = IF r \in G[i] THEN v[r] ELSE MinusZero
    BY <1>3
  <2>2. v[r] \in Floats
    BY DEF Vectors
  <2>3. Col(r) \in Vectors(g)
    BY <2>1, <2>2, ZeroIs DEF Vectors
  <2> HIDE DEF Col
  <2>4. CASE v[r] = MinusZero
    BY <2>1, <2>4, SumZeros
  <2>5. CASE v[r] # MinusZero
    <3>1. PICK i \in 1..g : \A j \in 1..g : r \in G[j] <=> j = i
      BY <2>5 DEF SharedOut
    <3>2. Sum(Col(r), g) = Col(r)[i]
      BY <2>1, <2>3, <3>1, SumSingle
    <3> QED
      BY <2>1, <3>1, <3>2
  <2> QED
    BY <2>4, <2>5
<1>7. Sum(down, n) = Sum(v, n)
  <2> HIDE DEF down
  <2> QED
    BY <1>6, SumEqual
<1> QED
  BY <1>4, <1>5, <1>7

\* So many ones.
Tally(R) == IF R = {} THEN MinusZero ELSE FloatCell(Cardinality(R))

LEMMA CountIsSum ==
  ASSUME NEW n \in Nat, NEW R \in SUBSET (1..n), NEW v,
         \A r \in 1..n : v[r] = IF r \in R THEN FloatCell(1) ELSE MinusZero
  PROVE  Sum(v, n) = Tally(R) /\ Cardinality(R) \in Nat
<1> DEFINE Upto(k) == R \cap 1..k
           Bad == {k \in Nat : k <= n /\ Sum(v, k) # Tally(Upto(k))}
<1>1. \A k \in Nat : IsFiniteSet(Upto(k)) /\ Cardinality(Upto(k)) \in Nat
  <2> TAKE k \in Nat
  <2>1. IsFiniteSet(1..k)
    BY FS_Interval
  <2>2. Upto(k) \in SUBSET (1..k)
    OBVIOUS
  <2>3. IsFiniteSet(Upto(k))
    BY <2>1, <2>2, FS_Subset
  <2> QED
    BY <2>3, FS_CardinalityType
<1>2. Upto(n) = R
  OBVIOUS
<1>3. SUFFICES ASSUME n \in Bad PROVE FALSE
  BY <1>1, <1>2
<1>4. PICK k \in Bad : \A j \in Bad : k <= j
  BY <1>3, LeastIndex
<1>5. k # 0
  <2>1. Upto(0) = {}
    OBVIOUS
  <2> QED
    BY <2>1, SumStep DEF Tally
<1>6. k - 1 \in Nat /\ (k - 1) \notin Bad /\ (k - 1) + 1 = k /\ k \in 1..n
  BY <1>4, <1>5
<1>7. Sum(v, k) = Plus(Tally(Upto(k - 1)), v[k])
  BY <1>6, SumStep
<1>8. \A i \in Nat : FloatCell(i) \in Floats \ Special /\ FloatCell(i)[3] = i
  BY FloatsDiffer DEF Special, Unbounded
<1> DEFINE T == Upto(k - 1)
           c == Cardinality(T)
<1>9. c \in Nat /\ IsFiniteSet(T)
  BY <1>1, <1>6
<1>10. CASE k \in R
  <2>1. Upto(k) = T \cup {k} /\ k \notin T
    BY <1>6, <1>10
  <2>2. Cardinality(Upto(k)) = c + 1
    BY <1>9, <2>1, FS_AddElement
  <2>3. Tally(Upto(k)) = FloatCell(c + 1)
    BY <2>1, <2>2 DEF Tally
  <2>4. Sum(v, k) = Plus(Tally(T), FloatCell(1))
    BY <1>6, <1>7, <1>10
  <2> HIDE DEF T
  <2>5. CASE T = {}
    BY <1>4, <1>8, <2>3, <2>4, <2>5, PlusZero, FS_EmptySet DEF Tally
  <2>6. CASE T # {}
    <3> HIDE DEF c
    <3>1. /\ FloatCell(c) \in Floats \ Special /\ FloatCell(c)[3] = c
          /\ FloatCell(1) \in Floats \ Special /\ FloatCell(1)[3] = 1
      BY <1>8, <1>9
    <3>2. Plus(FloatCell(c), FloatCell(1)) = FloatCell(FloatCell(c)[3] + FloatCell(1)[3])
      BY <3>1, PlusPlain
    <3> QED
      BY <1>4, <2>3, <2>4, <2>6, <3>1, <3>2 DEF Tally, c
  <2> QED
    BY <2>5, <2>6
<1>11. CASE k \notin R
  <2>1. Upto(k) = T
    BY <1>6, <1>11
  <2>2. Tally(T) \in Floats
    BY <1>8, <1>9, ZeroIs DEF Tally
  <2> QED
    BY <1>4, <1>6, <1>7, <1>11, <2>1, <2>2, PlusZero
<1> QED
  BY <1>10, <1>11

(***************************************************************************)
(* Sums to which a zero is added do not tell apart values that do not      *)
(* differ with that zero added.                                            *)
(***************************************************************************)
LEMMA SumsAlike ==
  ASSUME NEW n \in Nat, NEW u \in Vectors(n), NEW w \in Vectors(n), NEW z \in Zeros,
         \A k \in 1..n : Plus(z, u[k]) = Plus(z, w[k])
  PROVE  Plus(z, Sum(u, n)) = Plus(z, Sum(w, n))
<1> DEFINE Bad == {i \in Nat : i <= n /\ Plus(z, Sum(u, i)) # Plus(z, Sum(w, i))}
<1>1. SUFFICES ASSUME Bad # {} PROVE FALSE
  OBVIOUS
<1>2. PICK i \in Bad : \A j \in Bad : i <= j
  BY <1>1, LeastIndex
<1>3. i # 0
  BY SumStep
<1>4. i - 1 \in Nat /\ (i - 1) \notin Bad /\ i - 1 \in 0..n /\ (i - 1) + 1 = i /\ i \in 1..n
  BY <1>2, <1>3
<1>5. Sum(u, i) = Plus(Sum(u, i - 1), u[i]) /\ Sum(w, i) = Plus(Sum(w, i - 1), w[i])
  BY <1>4, SumStep
<1>6. /\ Sum(u, i - 1) \in Floats /\ Sum(w, i - 1) \in Floats /\ u[i] \in Floats /\ w[i] \in Floats
      /\ z \in Floats /\ Plus(z, z) = z
  BY <1>4, SumType, ZerosAbsorb DEF Vectors
<1>7. \A x, y \in Floats : Plus(z, Plus(x, y)) = Plus(Plus(z, x), Plus(z, y))
  BY <1>6, PlusSwaps
<1> QED
  BY <1>4, <1>5, <1>6, <1>7

-----------------------------------------------------------------------------
(***************************************************************************)
(* Where the elements of a finite set are in a total order, of which B[x]  *)
(* are those before x, exactly one element has i - 1 before it.            *)
(***************************************************************************)
TotalOrder(S, B) ==
  /\ B \in [S -> SUBSET S]
  /\ \A x \in S : x \notin B[x]
  /\ \A x, y \in S : x \in B[y] => B[x] \subseteq B[y]
  /\ \A x, y \in S : x = y \/ x \in B[y] \/ y \in B[x]

LEMMA Positions ==
  ASSUME NEW S, IsFiniteSet(S), NEW B, TotalOrder(S, B)
  PROVE  /\ Cardinality(S) \in Nat
         /\ \A x \in S : Cardinality(B[x]) \in 0..(Cardinality(S) - 1)
         /\ \A x, y \in S : Cardinality(B[x]) = Cardinality(B[y]) => x = y
         /\ \A i \in 1..Cardinality(S) : \E x \in S : Cardinality(B[x]) = i - 1
<1>1. Cardinality(S) \in Nat
  BY FS_CardinalityType
<1>2. \A x \in S : IsFiniteSet(B[x]) /\ Cardinality(B[x]) \in Nat /\ Cardinality(B[x]) < Cardinality(S)
  <2> TAKE x \in S
  <2>1. B[x] \subseteq S /\ B[x] # S
    BY DEF TotalOrder
  <2>2. IsFiniteSet(B[x]) /\ Cardinality(B[x]) <= Cardinality(S) /\ Cardinality(B[x]) # Cardinality(S)
    BY <2>1, FS_Subset
  <2> QED
    BY <1>1, <2>2, FS_CardinalityType
<1>3. \A x, y \in S : x \in B[y] => Cardinality(B[x]) < Cardinality(B[y])
  <2> SUFFICES ASSUME NEW x \in S, NEW y \in S, x \in B[y] PROVE Cardinality(B[x]) < Cardinality(B[y])
    OBVIOUS
  <2>1. B[x] \subseteq B[y] /\ B[x] # B[y]
    BY DEF TotalOrder
  <2>2. IsFiniteSet(B[y]) /\ Cardinality(B[x]) \in Nat /\ Cardinality(B[y]) \in Nat
    BY <1>2
  <2>3. Cardinality(B[x]) <= Cardinality(B[y]) /\ Cardinality(B[x]) # Cardinality(B[y])
    BY <2>1, <2>2, FS_Subset
  <2> QED
    BY <2>2, <2>3
<1>4. \A x, y \in S : Cardinality(B[x]) = Cardinality(B[y]) => x = y
  <2> SUFFICES ASSUME NEW x \in S, NEW y \in S, Cardinality(B[x]) = Cardinality(B[y]), x # y PROVE FALSE
    OBVIOUS
  <2>1. x \in B[y] \/ y \in B[x]
    BY DEF TotalOrder
  <2>2. Cardinality(B[x]) \in Nat /\ Cardinality(B[y]) \in Nat
    BY <1>2
  <2> QED
    BY <1>3, <2>1, <2>2
<1>5. \A i \in 1..Cardinality(S) : \E x \in S : Cardinality(B[x]) = i - 1
  <2> DEFINE n == Cardinality(S)
             f == [x \in S |-> Cardinality(B[x]) + 1]
  <2>1. f \in [S -> 1..n]
    BY <1>1, <1>2
  <2>2. \A x, y \in S : f[x] = f[y] => x = y
    BY <1>2, <1>4
  <2>3. IsFiniteSet(1..n) /\ Cardinality(1..n) = n
    BY <1>1, FS_Interval
  <2>4. f \in Injection(S, 1..n)
    BY <2>1, <2>2 DEF Injection, IsInjective
  <2>5. f \in Surjection(S, 1..n)
    BY <2>3, <2>4, FS_Injection
  <2>6. \A i \in 1..n : \E x \in S : f[x] = i
    BY <2>5 DEF Surjection
  <2> SUFFICES ASSUME NEW i \in 1..n PROVE \E x \in S : Cardinality(B[x]) = i - 1
    OBVIOUS
  <2>7. PICK x \in S : f[x] = i
    BY <2>6
  <2> QED
    BY <1>2, <2>7
<1> QED
  BY <1>1, <1>2, <1>4, <1>5

\* The elements in the order of B.
InOrder(S, B, s) ==
  /\ s = [i \in 1..Cardinality(S) |-> s[i]]
  /\ \A i \in 1..Cardinality(S) : s[i] \in S /\ Cardinality(B[s[i]]) = i - 1

Enumerates(s, S) ==
  /\ s \in Seq(S) /\ Len(s) = Cardinality(S) /\ DOMAIN s = 1..Len(s) /\ Len(s) \in Nat
  /\ \A i \in 1..Len(s) : s[i] \in S
  /\ \A i, j \in 1..Len(s) : s[i] = s[j] => i = j
  /\ \A x \in S : \E i \in 1..Len(s) : s[i] = x

LEMMA InOrderIs ==
  ASSUME NEW S, IsFiniteSet(S), NEW B, TotalOrder(S, B), NEW s, InOrder(S, B, s)
  PROVE  Enumerates(s, S)
<1>1. Cardinality(S) \in Nat
  BY Positions
<1>2. \A i \in 1..Cardinality(S) : s[i] \in S /\ Cardinality(B[s[i]]) = i - 1
  BY DEF InOrder
<1>3. s \in Seq(S) /\ Len(s) = Cardinality(S) /\ DOMAIN s = 1..Len(s)
  BY <1>1, <1>2 DEF InOrder
<1>4. \A i, j \in 1..Cardinality(S) : s[i] = s[j] => i = j
  <2> SUFFICES ASSUME NEW i \in 1..Cardinality(S), NEW j \in 1..Cardinality(S), s[i] = s[j] PROVE i = j
    OBVIOUS
  <2>1. i - 1 = j - 1
    BY <1>2
  <2> QED
    BY <2>1
<1>5. \A x \in S : \E i \in 1..Cardinality(S) : s[i] = x
  <2> TAKE x \in S
  <2>1. Cardinality(B[x]) + 1 \in 1..Cardinality(S) /\ (Cardinality(B[x]) + 1) - 1 = Cardinality(B[x])
    BY <1>1, Positions
  <2>2. Cardinality(B[s[Cardinality(B[x]) + 1]]) = Cardinality(B[x]) /\ s[Cardinality(B[x]) + 1] \in S
    BY <1>2, <2>1
  <2>3. s[Cardinality(B[x]) + 1] = x
    BY <2>2, Positions
  <2> QED
    BY <2>1, <2>3
<1> QED
  BY <1>1, <1>2, <1>3, <1>4, <1>5 DEF Enumerates

-----------------------------------------------------------------------------
\* The texts of a column: the empty one and some of one kind.
Texts(t) == {Empty} \cup {<<t, k, n>> : k \in Int, n \in Int}

LEMMA TextOrder ==
  ASSUME NEW t
  PROVE  /\ \A v, w \in Texts(t) : v = w \/ TextBefore(v, w) \/ TextBefore(w, v)
         /\ \A u, v, w \in Texts(t) : TextBefore(u, v) /\ TextBefore(v, w) => TextBefore(u, w)
         /\ \A v, w \in Texts(t) : TextBefore(v, w) => v # w /\ ~ TextBefore(w, v)
<1>1. \A v \in Texts(t) : v # Empty => v = <<t, v[2], v[3]>> /\ v[2] \in Int /\ v[3] \in Int
  BY DEF Texts
<1>2. ASSUME NEW v \in Texts(t), NEW w \in Texts(t), v # Empty, w # Empty
      PROVE  v = w \/ Below(v, w) \/ Below(w, v)
  BY <1>1, <1>2 DEF Below
<1>3. ASSUME NEW u \in Texts(t), NEW v \in Texts(t), NEW w \in Texts(t), u # Empty, v # Empty, w # Empty,
             Below(u, v), Below(v, w)
      PROVE  Below(u, w)
  BY <1>1, <1>3 DEF Below
<1>4. ASSUME NEW v \in Texts(t), NEW w \in Texts(t), v # Empty, w # Empty, Below(v, w)
      PROVE  v # w /\ ~ Below(w, v)
  BY <1>1, <1>4 DEF Below
<1>5. \A v, w \in Texts(t) : v = w \/ TextBefore(v, w) \/ TextBefore(w, v)
  BY <1>2 DEF TextBefore
<1>6. \A u, v, w \in Texts(t) : TextBefore(u, v) /\ TextBefore(v, w) => TextBefore(u, w)
  BY <1>3, <1>4 DEF TextBefore
<1>7. \A v, w \in Texts(t) : TextBefore(v, w) => v # w /\ ~ TextBefore(w, v)
  BY <1>4 DEF TextBefore
<1> QED
  BY <1>5, <1>6, <1>7

LEMMA TextTotal ==
  ASSUME NEW t, NEW S \in SUBSET Texts(t)
  PROVE  TotalOrder(S, [x \in S |-> {y \in S : TextBefore(y, x)}])
<1> DEFINE B == [x \in S |-> {y \in S : TextBefore(y, x)}]
<1>1. B \in [S -> SUBSET S]
  OBVIOUS
<1>2. \A x, y \in S : x \in B[y] <=> TextBefore(x, y)
  OBVIOUS
<1>3. \A x \in S : x \notin B[x]
  BY <1>2, TextOrder
<1>4. \A x, y \in S : x \in B[y] => B[x] \subseteq B[y]
  BY <1>2, TextOrder
<1>5. \A x, y \in S : x = y \/ x \in B[y] \/ y \in B[x]
  BY <1>2, TextOrder
<1> QED
  BY <1>1, <1>3, <1>4, <1>5 DEF TotalOrder

\* A sequence of keys, one of each of the columns whose texts are of the kinds t.
Keyed(k, t, n) == k = [j \in 1..n |-> k[j]] /\ \A j \in 1..n : k[j] \in Texts(t[j])

LEMMA KeyOrder ==
  ASSUME NEW n \in Nat, NEW t, NEW S, \A k \in S : Keyed(k, t, n)
  PROVE  TotalOrder(S, [x \in S |-> {y \in S : KeyBefore(y, x)}])
<1> DEFINE B == [x \in S |-> {y \in S : KeyBefore(y, x)}]
<1>1. B \in [S -> SUBSET S]
  OBVIOUS
<1>2. \A x, y \in S : x \in B[y] <=> KeyBefore(x, y)
  OBVIOUS
<1>3. \A k \in S : DOMAIN k = 1..n /\ \A j \in 1..n : k[j] \in Texts(t[j])
  BY DEF Keyed
<1>4. \A k, l \in S : KeyBefore(k, l) <=>
        \E j \in 1..n : TextBefore(k[j], l[j]) /\ \A i \in 1..(j - 1) : k[i] = l[i]
  BY <1>3 DEF KeyBefore
<1>5. \A k \in S : ~ KeyBefore(k, k)
  BY <1>3, <1>4, TextOrder
<1>6. ASSUME NEW k \in S, NEW l \in S, NEW m \in S, KeyBefore(k, l), KeyBefore(l, m)
      PROVE  KeyBefore(k, m)
  <2>1. PICK a \in 1..n : TextBefore(k[a], l[a]) /\ \A i \in 1..(a - 1) : k[i] = l[i]
    BY <1>4, <1>6
  <2>2. PICK b \in 1..n : TextBefore(l[b], m[b]) /\ \A i \in 1..(b - 1) : l[i] = m[i]
    BY <1>4, <1>6
  <2>3. CASE a < b
    <3>1. l[a] = m[a] /\ \A i \in 1..(a - 1) : k[i] = m[i]
      BY <2>1, <2>2, <2>3
    <3> QED
      BY <1>4, <2>1, <3>1
  <2>4. CASE a = b
    <3>1. TextBefore(k[a], m[a])
      BY <1>3, <2>1, <2>2, <2>4, TextOrder
    <3> QED
      BY <1>4, <2>1, <2>2, <2>4, <3>1
  <2>5. CASE a > b
    <3>1. k[b] = l[b] /\ \A i \in 1..(b - 1) : k[i] = m[i]
      BY <2>1, <2>2, <2>5
    <3> QED
      BY <1>4, <2>2, <3>1
  <2> QED
    BY <2>3, <2>4, <2>5
<1>7. ASSUME NEW k \in S, NEW l \in S, k # l PROVE KeyBefore(k, l) \/ KeyBefore(l, k)
  <2> DEFINE D == {j \in 1..n : k[j] # l[j]}
  <2>1. D # {}
    BY <1>7 DEF Keyed
  <2>2. D \in SUBSET Nat
    OBVIOUS
  <2>3. PICK j \in D : \A i \in D : j <= i
    BY <2>1, <2>2, LeastIndex
  <2>4. \A i \in 1..(j - 1) : k[i] = l[i]
    BY <2>3
  <2>5. TextBefore(k[j], l[j]) \/ TextBefore(l[j], k[j])
    BY <1>3, TextOrder
  <2>6. j \in 1..n
    OBVIOUS
  <2>7. \A i \in 1..(j - 1) : l[i] = k[i]
    BY <2>4
  <2> QED
    BY <1>4, <2>4, <2>5, <2>6, <2>7
<1>8. \A x, y \in S : x \in B[y] => B[x] \subseteq B[y]
  BY <1>2, <1>6
<1> QED
  BY <1>1, <1>2, <1>5, <1>7, <1>8 DEF TotalOrder

LEMMA NumberOrder ==
  ASSUME NEW S \in SUBSET Int
  PROVE  TotalOrder(S, [x \in S |-> {y \in S : y < x}])
<1> DEFINE B == [x \in S |-> {y \in S : y < x}]
<1>1. B \in [S -> SUBSET S]
  OBVIOUS
<1>2. \A x, y \in S : x \in B[y] <=> x < y
  OBVIOUS
<1>3. \A x \in S : x \notin B[x]
  BY <1>2
<1>4. \A x, y \in S : x \in B[y] => B[x] \subseteq B[y]
  <2> SUFFICES ASSUME NEW x \in S, NEW y \in S, x \in B[y], NEW z \in B[x] PROVE z \in B[y]
    OBVIOUS
  <2>1. z \in S /\ z \in Int /\ x \in Int /\ y \in Int /\ z < x /\ x < y
    BY <1>2
  <2>2. z < y
    BY <2>1
  <2> QED
    BY <1>2, <2>1, <2>2
<1>5. \A x, y \in S : x = y \/ x \in B[y] \/ y \in B[x]
  BY <1>2
<1> QED
  BY <1>1, <1>3, <1>4, <1>5 DEF TotalOrder

LEMMA AscendingIs ==
  ASSUME NEW S \in SUBSET Int, IsFiniteSet(S)
  PROVE  Enumerates(Ascending(S), S)
<1> DEFINE B == [x \in S |-> {y \in S : y < x}]
           s == Ascending(S)
<1>1. TotalOrder(S, B)
  BY NumberOrder
<1>2. \A j \in 1..Cardinality(S) : \E x \in S : Cardinality(B[x]) = j - 1
  <2> HIDE DEF B
  <2>1. \A T, C : IsFiniteSet(T) /\ TotalOrder(T, C) =>
          \A j \in 1..Cardinality(T) : \E x \in T : Cardinality(C[x]) = j - 1
    BY Positions
  <2> QED
    BY <1>1, <2>1
<1>3. s = [i \in 1..Cardinality(S) |-> CHOOSE x \in S : Cardinality({y \in S : y < x}) = i - 1]
  BY DEF Ascending, Arranged
<1>4. \A i \in 1..Cardinality(S) : s[i] \in S /\ Cardinality({y \in S : y < s[i]}) = i - 1
  <2> TAKE i \in 1..Cardinality(S)
  <2>1. PICK x \in S : Cardinality(B[x]) = i - 1
    BY <1>2
  <2>2. Cardinality({y \in S : y < x}) = i - 1
    BY <2>1
  <2> QED
    BY <1>3, <2>2
<1>5. InOrder(S, B, s)
  BY <1>3, <1>4 DEF InOrder
<1> QED
  BY <1>1, <1>5, InOrderIs

LEMMA KeysInOrder ==
  ASSUME NEW n \in Nat, NEW t, NEW S, IsFiniteSet(S), \A k \in S : Keyed(k, t, n)
  PROVE  Enumerates(Arranged(S, KeyBefore), S)
<1> DEFINE B == [x \in S |-> {y \in S : KeyBefore(y, x)}]
           s == Arranged(S, KeyBefore)
<1>1. TotalOrder(S, B)
  BY KeyOrder
<1>2. s = [i \in 1..Cardinality(S) |-> CHOOSE x \in S : Cardinality({y \in S : KeyBefore(y, x)}) = i - 1]
  BY DEF Arranged
<1>3. \A i \in 1..Cardinality(S) : s[i] \in S /\ Cardinality({y \in S : KeyBefore(y, s[i])}) = i - 1
  <2> TAKE i \in 1..Cardinality(S)
  <2>1. PICK x \in S : Cardinality(B[x]) = i - 1
    BY <1>1, Positions
  <2>2. Cardinality({y \in S : KeyBefore(y, x)}) = i - 1
    BY <2>1
  <2> QED
    BY <1>2, <2>2
<1>4. InOrder(S, B, s)
  BY <1>2, <1>3 DEF InOrder
<1> QED
  BY <1>1, <1>4, InOrderIs

LEMMA TextsInOrder ==
  ASSUME NEW t, NEW S \in SUBSET Texts(t), IsFiniteSet(S)
  PROVE  Enumerates(Arranged(S, TextBefore), S)
<1> DEFINE B == [x \in S |-> {y \in S : TextBefore(y, x)}]
           s == Arranged(S, TextBefore)
<1>1. TotalOrder(S, B)
  BY TextTotal
<1>2. s = [i \in 1..Cardinality(S) |-> CHOOSE x \in S : Cardinality({y \in S : TextBefore(y, x)}) = i - 1]
  BY DEF Arranged
<1>3. \A i \in 1..Cardinality(S) : s[i] \in S /\ Cardinality({y \in S : TextBefore(y, s[i])}) = i - 1
  <2> TAKE i \in 1..Cardinality(S)
  <2>1. PICK x \in S : Cardinality(B[x]) = i - 1
    BY <1>1, Positions
  <2>2. Cardinality({y \in S : TextBefore(y, x)}) = i - 1
    BY <2>1
  <2> QED
    BY <1>2, <2>2
<1>4. InOrder(S, B, s)
  BY <1>2, <1>3 DEF InOrder
<1> QED
  BY <1>1, <1>4, InOrderIs

-----------------------------------------------------------------------------
LEMMA Listed ==
  ASSUME NEW n \in Nat, NEW s, s = [i \in 1..n |-> s[i]]
  PROVE  IsSequence(s) /\ Len(s) = n /\ DOMAIN s = 1..n
<1>1. DOMAIN s = 1..n /\ \A i \in 1..n : s[i] \in ToSet(s)
  BY DEF ToSet
<1>2. s \in Seq(ToSet(s)) /\ Len(s) = n
  BY <1>1
<1> QED
  BY <1>1, <1>2 DEF IsSequence

LEMMA SequenceIs ==
  ASSUME NEW s, IsSequence(s)
  PROVE  Len(s) \in Nat /\ DOMAIN s = 1..Len(s) /\ s = [i \in 1..Len(s) |-> s[i]]
BY DEF IsSequence

LEMMA Joined ==
  ASSUME NEW s, IsSequence(s), NEW t, IsSequence(t)
  PROVE  /\ IsSequence(s \o t) /\ Len(s \o t) = Len(s) + Len(t)
         /\ \A i \in 1..Len(s) : (s \o t)[i] = s[i]
         /\ \A i \in 1..Len(t) : (s \o t)[Len(s) + i] = t[i]
<1> DEFINE U == ToSet(s) \cup ToSet(t)
           u == s \o t
<1>1. s \in Seq(U) /\ t \in Seq(U)
  BY DEF IsSequence
<1> HIDE DEF U
<1>2. /\ u \in Seq(U) /\ Len(u) = Len(s) + Len(t) /\ Len(s) \in Nat /\ Len(t) \in Nat
      /\ \A i \in 1..Len(s) : u[i] = s[i]
      /\ \A i \in 1..Len(t) : u[Len(s) + i] = t[i]
  BY <1>1
<1>3. IsSequence(u)
  <2> HIDE DEF u
  <2>1. u = [i \in 1..Len(u) |-> u[i]] /\ Len(u) \in Nat
    BY <1>2
  <2> QED
    BY <2>1, Listed
<1> QED
  BY <1>2, <1>3

LEMMA Short ==
  ASSUME NEW a, NEW b
  PROVE  /\ IsSequence(<< >>) /\ Len(<< >>) = 0
         /\ IsSequence(<<a>>) /\ Len(<<a>>) = 1
         /\ IsSequence(<<a, b>>) /\ Len(<<a, b>>) = 2
<1>1. << >> = [i \in 1..0 |-> << >>[i]]
  OBVIOUS
<1>2. <<a>> = [i \in 1..1 |-> <<a>>[i]]
  OBVIOUS
<1>3. <<a, b>> = [i \in 1..2 |-> <<a, b>>[i]]
  OBVIOUS
<1> QED
  BY <1>1, <1>2, <1>3, Listed

TextKinds == {"str", "intkey", "floatkey", "quarter", "year", "digits"}

Ints == {IntCell(n) : n \in (-Half)..(Half - 1)}

\* The cells of a column whose data are of that kind and whose texts are of kind t.
Family(kind, t) ==
  {Null} \cup (IF kind = "int" THEN Ints ELSE IF kind = "float" THEN Floats ELSE Texts(t))

\* The kind of the keys of such a column.
KeyKind(kind, t) == IF kind = "int" THEN "intkey" ELSE IF kind = "float" THEN "floatkey" ELSE t

Kinds == {"int", "float", "str"}

LEMMA CellKinds ==
  /\ \A v \in Floats : v[1] = "float" /\ v # Null /\ v[2] \in Int /\ v[3] \in Int
                       /\ (v # MinusZero => v = <<"float", v[2], v[3]>>)
  /\ \A v \in Ints : v[1] = "int" /\ v # Null /\ v = IntCell(v[3]) /\ v[3] \in (-Half)..(Half - 1)
  /\ \A t \in TextKinds : \A v \in Texts(t) : v[1] \in TextKinds /\ v # Null
<1>1. \A v \in Floats : v[1] = "float" /\ v # Null /\ v[2] \in Int /\ v[3] \in Int
                        /\ (v # MinusZero => v = <<"float", v[2], v[3]>>)
  BY DEF Floats, Special, Unbounded, NaN, Inf, MinusInf, MinusZero, FloatCell, Null
<1>2. \A v \in Ints : v[1] = "int" /\ v # Null /\ v = IntCell(v[3]) /\ v[3] \in (-Half)..(Half - 1)
  <2> HIDE DEF Half
  <2> QED
    BY DEF Ints, IntCell, Null
<1>3. \A t \in TextKinds : \A v \in Texts(t) : v[1] \in TextKinds /\ v # Null
  BY DEF TextKinds, Texts, Empty, Text, Null
<1> QED
  BY <1>1, <1>2, <1>3

LEMMA KeyOfText ==
  ASSUME NEW t \in TextKinds, NEW v \in Texts(t)
  PROVE  Key(v) = v
<1>1. v[1] \in TextKinds /\ v # Null
  BY CellKinds
<1>2. v[1] # "int" /\ v[1] # "float"
  BY <1>1 DEF TextKinds
<1> QED
  BY <1>1, <1>2 DEF Key

LEMMA KeyType ==
  ASSUME NEW kind \in Kinds, NEW t \in TextKinds, NEW v \in Family(kind, t)
  PROVE  /\ Key(v) \in Texts(KeyKind(kind, t)) /\ KeyKind(kind, t) \in TextKinds
         /\ Key(Key(v)) = Key(v)
<1>1. KeyKind(kind, t) \in TextKinds
  BY DEF KeyKind, TextKinds
<1>2. Key(v) \in Texts(KeyKind(kind, t))
  <2>1. CASE v = Null
    <3>1. v[1] # "int" /\ v[1] # "float"
      BY <2>1 DEF Null
    <3>2. Key(v) = Empty
      BY <2>1, <3>1 DEF Key
    <3> QED
      BY <3>2 DEF Texts
  <2>2. CASE v # Null /\ kind = "int"
    <3>1. v \in Ints
      BY <2>2 DEF Family
    <3>2. v[1] = "int" /\ v[3] \in Int
      BY <3>1, CellKinds, OpsConstantsOK DEF Ints
    <3>3. (v[3] + Half) % (2 * Half) \in Int
      BY <3>2, OpsConstantsOK
    <3>4. Key(v) = <<"intkey", 0, (v[3] + Half) % (2 * Half)>>
      BY <2>2, <3>2 DEF Key
    <3> QED
      BY <2>2, <3>3, <3>4 DEF Texts, KeyKind
  <2>3. CASE v # Null /\ kind = "float"
    <3>1. v \in Floats
      BY <2>3 DEF Family
    <3>2. v[1] = "float" /\ v[2] \in Int /\ v[3] \in Int
      BY <3>1, CellKinds
    <3>3. Key(v) = <<"floatkey", v[2], FloatDigits(v)>>
      BY <2>3, <3>2 DEF Key
    <3>4. FloatDigits(v) \in Int
      BY <3>2 DEF FloatDigits
    <3> QED
      BY <2>3, <3>2, <3>3, <3>4 DEF Texts, KeyKind
  <2>4. CASE v # Null /\ kind = "str"
    <3>1. v \in Texts(t)
      BY <2>4 DEF Family
    <3> QED
      BY <2>4, <3>1, KeyOfText DEF KeyKind
  <2> QED
    BY <2>1, <2>2, <2>3, <2>4 DEF Kinds
<1> QED
  BY <1>1, <1>2, KeyOfText

-----------------------------------------------------------------------------
\* A dataset as the kernels make it.
DatasetOK(ds) ==
  /\ IsSequence(ds.cols) /\ IsSequence(ds.rows)
  /\ \A r \in Rows(ds) : IsSequence(ds.rows[r]) /\ Len(ds.rows[r]) = Len(ds.cols)
  /\ \A c \in Cols(ds) : /\ ds.cols[c] = Column(ds.cols[c].name, ds.cols[c].dtype, ds.cols[c].kind)
                         /\ ds.cols[c].kind \in Kinds
  /\ \A c \in Cols(ds) : \E t \in TextKinds : \A r \in Rows(ds) : ds.rows[r][c] \in Family(ds.cols[c].kind, t)

\* A sequence of columns of the dataset.
ColumnsOf(ds, by) == IsSequence(by) /\ \A j \in 1..Len(by) : by[j] \in Cols(ds)

KeySet(ds, by) == {KeyAt(ds, by, r) : r \in Rows(ds)}

LEMMA RowsFinite ==
  ASSUME NEW ds, DatasetOK(ds)
  PROVE  /\ IsFiniteSet(Rows(ds)) /\ Cardinality(Rows(ds)) = Len(ds.rows) /\ Len(ds.rows) \in Nat
         /\ Rows(ds) \in SUBSET Int /\ Rows(ds) = 1..Len(ds.rows) /\ Cols(ds) = 1..Len(ds.cols)
         /\ Len(ds.cols) \in Nat
<1>1. Len(ds.rows) \in Nat /\ Len(ds.cols) \in Nat
  BY SequenceIs DEF DatasetOK
<1>2. Rows(ds) = 1..Len(ds.rows) /\ Cols(ds) = 1..Len(ds.cols)
  BY DEF Rows, Cols
<1> DEFINE n == Len(ds.rows)
<1> HIDE DEF n
<1>3. n \in Nat => IsFiniteSet(1..n) /\ Cardinality(1..n) = n /\ 1..n \in SUBSET Int
  BY FS_Interval
<1> QED
  BY <1>1, <1>2, <1>3 DEF n

LEMMA ImageFinite ==
  ASSUME NEW S, IsFiniteSet(S), NEW f, DOMAIN f = S
  PROVE  IsFiniteSet({f[x] : x \in S}) /\ Cardinality({f[x] : x \in S}) <= Cardinality(S)
<1> DEFINE T == {f[x] : x \in S}
           g == [x \in S |-> f[x]]
<1>1. g \in Surjection(S, T)
  BY DEF Surjection
<1> QED
  BY <1>1, FS_Surjection

\* The kinds of the texts of every column.
LEMMA TextKindsOf ==
  ASSUME NEW ds, DatasetOK(ds)
  PROVE  \E t \in [Cols(ds) -> TextKinds] : \A c \in Cols(ds), r \in Rows(ds) :
           ds.rows[r][c] \in Family(ds.cols[c].kind, t[c])
<1> DEFINE t == [c \in Cols(ds) |-> CHOOSE k \in TextKinds :
                   \A r \in Rows(ds) : ds.rows[r][c] \in Family(ds.cols[c].kind, k)]
<1>1. \A c \in Cols(ds) : t[c] \in TextKinds /\ \A r \in Rows(ds) : ds.rows[r][c] \in Family(ds.cols[c].kind, t[c])
  BY DEF DatasetOK
<1>2. t \in [Cols(ds) -> TextKinds]
  BY <1>1
<1> QED
  BY <1>1, <1>2

LEMMA KeysKeyed ==
  ASSUME NEW ds, DatasetOK(ds), NEW by, ColumnsOf(ds, by)
  PROVE  \E t : \A k \in KeySet(ds, by) : Keyed(k, t, Len(by))
<1>1. PICK t \in [Cols(ds) -> TextKinds] : \A c \in Cols(ds), r \in Rows(ds) :
           ds.rows[r][c] \in Family(ds.cols[c].kind, t[c])
  BY TextKindsOf
<1> DEFINE u == [j \in 1..Len(by) |-> KeyKind(ds.cols[by[j]].kind, t[by[j]])]
<1>2. DOMAIN by = 1..Len(by) /\ Len(by) \in Nat
  BY SequenceIs DEF ColumnsOf
<1>3. ASSUME NEW r \in Rows(ds)
      PROVE  Keyed(KeyAt(ds, by, r), u, Len(by))
  <2>1. \A j \in 1..Len(by) : Key(ds.rows[r][by[j]]) \in Texts(u[j])
    <3> TAKE j \in 1..Len(by)
    <3>1. by[j] \in Cols(ds)
      BY DEF ColumnsOf
    <3>2. ds.cols[by[j]].kind \in Kinds /\ t[by[j]] \in TextKinds /\ ds.rows[r][by[j]] \in Family(ds.cols[by[j]].kind, t[by[j]])
      BY <1>1, <3>1 DEF DatasetOK
    <3> QED
      BY <3>2, KeyType
  <2> HIDE DEF u
  <2> QED
    BY <1>2, <2>1 DEF Keyed, KeyAt
<1> QED
  BY <1>3 DEF KeySet

LEMMA KeySetFinite ==
  ASSUME NEW ds, DatasetOK(ds), NEW by
  PROVE  IsFiniteSet(KeySet(ds, by)) /\ Cardinality(KeySet(ds, by)) <= Len(ds.rows)
<1> DEFINE f == [r \in Rows(ds) |-> KeyAt(ds, by, r)]
<1>1. KeySet(ds, by) = {f[r] : r \in Rows(ds)}
  BY DEF KeySet
<1>2. DOMAIN f = Rows(ds)
  OBVIOUS
<1> HIDE DEF f
<1> QED
  BY <1>1, <1>2, RowsFinite, ImageFinite

LEMMA KeysAre ==
  ASSUME NEW ds, DatasetOK(ds), NEW by, ColumnsOf(ds, by)
  PROVE  /\ Enumerates(KeysOf(ds, by), KeySet(ds, by))
         /\ Len(KeysOf(ds, by)) <= Len(ds.rows)
<1>1. PICK t : \A k \in KeySet(ds, by) : Keyed(k, t, Len(by))
  BY KeysKeyed
<1>2. Len(by) \in Nat
  BY SequenceIs DEF ColumnsOf
<1>3. Enumerates(Arranged(KeySet(ds, by), KeyBefore), KeySet(ds, by))
  BY <1>1, <1>2, KeySetFinite, KeysInOrder
<1>4. KeysOf(ds, by) = Arranged(KeySet(ds, by), KeyBefore)
  BY DEF KeysOf, KeySet
<1> QED
  BY <1>3, <1>4, KeySetFinite DEF Enumerates

-----------------------------------------------------------------------------
(***************************************************************************)
(* The least and the greatest, of places and of Floats, NaN left aside.    *)
(***************************************************************************)
LEMMA MinIs ==
  ASSUME NEW S \in SUBSET Nat, S # {}
  PROVE  Min(S) \in S /\ \A x \in S : Min(S) <= x
BY LeastIndex DEF Min

LEMMA MaxIs ==
  ASSUME NEW n \in Nat, NEW S \in SUBSET (1..n), S # {}
  PROVE  Max(S) \in S /\ \A x \in S : x <= Max(S)
<1> DEFINE T == {n - x : x \in S}
<1>1. T \in SUBSET Nat /\ T # {}
  <2>1. \A x \in S : n - x \in Nat
    OBVIOUS
  <2> QED
    BY <2>1
<1>2. PICK i \in T : \A j \in T : i <= j
  BY <1>1, LeastIndex
<1>3. PICK m \in S : i = n - m
  BY <1>2
<1>4. \A x \in S : x <= m
  <2> TAKE x \in S
  <2>1. n - m <= n - x /\ x \in Int /\ m \in Int
    BY <1>2, <1>3
  <2> QED
    BY <2>1
<1> QED
  BY <1>4 DEF Max

LEMMA BelowOrder ==
  /\ \A v, w \in Floats : Unsigned(v) = Unsigned(w) \/ Below(v, w) \/ Below(w, v)
  /\ \A u, v, w \in Floats : Below(u, v) /\ ~ Below(w, v) => Below(u, w)
  /\ \A u, v, w \in Floats : Below(u, v) /\ ~ Below(u, w) => Below(w, v)
  /\ \A v, w \in Floats : Below(v, w) => Unsigned(v) # Unsigned(w) /\ ~ Below(w, v)
  /\ \A v, w \in Floats : Below(v, w) <=> Below(Unsigned(v), Unsigned(w))
<1>1. \A v \in Floats : Unsigned(v) = <<"float", v[2], v[3]>> /\ v[2] \in Int /\ v[3] \in Int
  BY CellKinds, ZeroIs DEF Unsigned, FloatCell
<1>2. ASSUME NEW v \in Floats, NEW w \in Floats PROVE Unsigned(v) = Unsigned(w) \/ Below(v, w) \/ Below(w, v)
  BY <1>1 DEF Below
<1>3. ASSUME NEW u \in Floats, NEW v \in Floats, NEW w \in Floats, Below(u, v), ~ Below(w, v)
      PROVE  Below(u, w)
  BY <1>1, <1>3 DEF Below
<1>4. ASSUME NEW u \in Floats, NEW v \in Floats, NEW w \in Floats, Below(u, v), ~ Below(u, w)
      PROVE  Below(w, v)
  BY <1>1, <1>4 DEF Below
<1>5. ASSUME NEW v \in Floats, NEW w \in Floats, Below(v, w) PROVE Unsigned(v) # Unsigned(w) /\ ~ Below(w, v)
  BY <1>1, <1>5 DEF Below
<1>6. ASSUME NEW v \in Floats, NEW w \in Floats PROVE Below(v, w) <=> Below(Unsigned(v), Unsigned(w))
  BY <1>1 DEF Below
<1> QED
  BY <1>2, <1>3, <1>4, <1>5, <1>6

\* The order of Floats with -0 before 0, which leaves no ties.
Under(v, w) == Below(v, w) \/ (v = MinusZero /\ w = FloatCell(0))

LEMMA UnderOrder ==
  /\ \A v, w \in Floats : v = w \/ Under(v, w) \/ Under(w, v)
  /\ \A u, v, w \in Floats : Under(u, v) /\ Under(v, w) => Under(u, w)
  /\ \A v \in Floats : ~ Under(v, v)
<1>1. \A v \in Floats : v[2] \in Int /\ v[3] \in Int /\ (v # MinusZero => v = <<"float", v[2], v[3]>>)
  BY CellKinds
<1>2. /\ MinusZero[2] = 0 /\ MinusZero[3] = 0 /\ FloatCell(0)[2] = 0 /\ FloatCell(0)[3] = 0
      /\ MinusZero # FloatCell(0) /\ FloatCell(0) = <<"float", 0, 0>>
  BY ZeroIs DEF FloatCell
<1> HIDE DEF FloatCell, MinusZero
<1>3. ASSUME NEW v \in Floats, NEW w \in Floats PROVE v = w \/ Under(v, w) \/ Under(w, v)
  BY <1>1, <1>2 DEF Under, Below
<1>4. ASSUME NEW u \in Floats, NEW v \in Floats, NEW w \in Floats, Under(u, v), Under(v, w)
      PROVE  Under(u, w)
  BY <1>1, <1>2, <1>4 DEF Under, Below
<1>5. ASSUME NEW v \in Floats PROVE ~ Under(v, v)
  BY <1>1, <1>2 DEF Under, Below
<1> QED
  BY <1>3, <1>4, <1>5

LEMMA Extremes ==
  ASSUME NEW S \in SUBSET Floats, IsFiniteSet(S), S # {}
  PROVE  /\ \E v \in S : \A w \in S : ~ Below(w, v)
         /\ \E v \in S : \A w \in S : ~ Below(v, w)
<1>1. Cardinality(S) \in Nat /\ Cardinality(S) # 0
  BY FS_CardinalityType, FS_EmptySet
<1>2. \E v \in S : \A w \in S : ~ Below(w, v)
  <2> DEFINE B == [x \in S |-> {y \in S : Under(y, x)}]
  <2>1. B \in [S -> SUBSET S] /\ \A x, y \in S : x \in B[y] <=> Under(x, y)
    OBVIOUS
  <2>2. \A x, y \in S : x \in B[y] => B[x] \subseteq B[y]
    BY UnderOrder
  <2>3. (\A x \in S : x \notin B[x]) /\ \A x, y \in S : x = y \/ x \in B[y] \/ y \in B[x]
    BY <2>1, UnderOrder
  <2>4. TotalOrder(S, B)
    BY <2>1, <2>2, <2>3 DEF TotalOrder
  <2> HIDE DEF B
  <2>5. PICK v \in S : Cardinality(B[v]) = 1 - 1
    BY <1>1, <2>4, Positions
  <2>6. B[v] = {}
    <3>1. IsFiniteSet(B[v])
      BY <2>1, FS_Subset
    <3> QED
      BY <2>5, <3>1, FS_EmptySet
  <2> QED
    BY <2>1, <2>6 DEF Under
<1>3. \E v \in S : \A w \in S : ~ Below(v, w)
  <2> DEFINE B == [x \in S |-> {y \in S : Under(x, y)}]
  <2>1. B \in [S -> SUBSET S] /\ \A x, y \in S : x \in B[y] <=> Under(y, x)
    OBVIOUS
  <2>2. \A x, y \in S : x \in B[y] => B[x] \subseteq B[y]
    BY UnderOrder
  <2>3. (\A x \in S : x \notin B[x]) /\ \A x, y \in S : x = y \/ x \in B[y] \/ y \in B[x]
    BY <2>1, UnderOrder
  <2>4. TotalOrder(S, B)
    BY <2>1, <2>2, <2>3 DEF TotalOrder
  <2> HIDE DEF B
  <2>5. PICK v \in S : Cardinality(B[v]) = 1 - 1
    BY <1>1, <2>4, Positions
  <2>6. B[v] = {}
    <3>1. IsFiniteSet(B[v])
      BY <2>1, FS_Subset
    <3> QED
      BY <2>5, <3>1, FS_EmptySet
  <2> QED
    BY <2>1, <2>6 DEF Under
<1> QED
  BY <1>2, <1>3

LEMMA EitherIs == \A f, ds, c, R : EitherZero(f, ds, c, R) \in Zeros
BY DEF EitherZero, Zeros

LEMMA LeastIs ==
  ASSUME NEW V \in SUBSET Floats, IsFiniteSet(V), NEW zero \in Zeros
  PROVE  /\ Least(V, zero) \in Floats
         /\ V \ {NaN} = {} => Least(V, zero) = NaN
         /\ V \ {NaN} # {} => Least(V, zero) \in V \ {NaN} /\ \A w \in V \ {NaN} : ~ Below(w, Least(V, zero))
         /\ \A v \in V \ {NaN} : (\A w \in V \ {NaN} : ~ Below(w, v)) => Unsigned(v) = Unsigned(Least(V, zero))
<1>1. CASE V \ {NaN} = {}
  BY <1>1, FloatsDiffer DEF Least
<1>2. CASE V \ {NaN} # {}
  <2> DEFINE S == V \ {NaN}
             v0 == CHOOSE v \in S : \A w \in S : ~ Below(w, v)
  <2>1. S \in SUBSET Floats /\ IsFiniteSet(S) /\ S # {} /\ NaN \notin S /\ S \subseteq V
    BY <1>2, FS_Subset
  <2>2. Least(V, zero) = Settled(v0, V, zero)
    BY <1>2 DEF Least
  <2>3. \E v \in S : \A w \in S : ~ Below(w, v)
    <3> HIDE DEF S
    <3> QED
      BY <2>1, Extremes
  <2>4. v0 \in S /\ \A w \in S : ~ Below(w, v0)
    <3> HIDE DEF S
    <3> QED
      BY <2>3
  <2> HIDE DEF v0
  <2>5. /\ Settled(v0, V, zero) \in S
        /\ Settled(v0, V, zero)[2] = v0[2] /\ Settled(v0, V, zero)[3] = v0[3]
    <3>1. Zeros \subseteq V => zero \in S
      BY ZeroIs DEF Unbounded
    <3>2. zero[2] = 0 /\ zero[3] = 0 /\ (v0 \in Zeros => v0[2] = 0 /\ v0[3] = 0)
      BY ZeroIs
    <3> QED
      BY <2>4, <3>1, <3>2 DEF Settled
  <2>6. \A w \in S : ~ Below(w, Least(V, zero))
    BY <2>2, <2>4, <2>5 DEF Below
  <2>7. Least(V, zero) \in S /\ Least(V, zero) \in Floats
    BY <2>1, <2>2, <2>5
  <2> HIDE DEF S
  <2>8. \A v \in S : (\A w \in S : ~ Below(w, v)) => Unsigned(v) = Unsigned(Least(V, zero))
    BY <2>1, <2>6, <2>7, BelowOrder
  <2> QED
    BY <2>1, <2>6, <2>7, <2>8 DEF S
<1> QED
  BY <1>1, <1>2

LEMMA GreatestIs ==
  ASSUME NEW V \in SUBSET Floats, IsFiniteSet(V), NEW zero \in Zeros
  PROVE  /\ Greatest(V, zero) \in Floats
         /\ V \ {NaN} = {} => Greatest(V, zero) = NaN
         /\ V \ {NaN} # {} => Greatest(V, zero) \in V \ {NaN} /\ \A w \in V \ {NaN} : ~ Below(Greatest(V, zero), w)
         /\ \A v \in V \ {NaN} : (\A w \in V \ {NaN} : ~ Below(v, w)) => Unsigned(v) = Unsigned(Greatest(V, zero))
<1>1. CASE V \ {NaN} = {}
  BY <1>1, FloatsDiffer DEF Greatest
<1>2. CASE V \ {NaN} # {}
  <2> DEFINE S == V \ {NaN}
             v0 == CHOOSE v \in S : \A w \in S : ~ Below(v, w)
  <2>1. S \in SUBSET Floats /\ IsFiniteSet(S) /\ S # {} /\ NaN \notin S /\ S \subseteq V
    BY <1>2, FS_Subset
  <2>2. Greatest(V, zero) = Settled(v0, V, zero)
    BY <1>2 DEF Greatest
  <2>3. \E v \in S : \A w \in S : ~ Below(v, w)
    <3> HIDE DEF S
    <3> QED
      BY <2>1, Extremes
  <2>4. v0 \in S /\ \A w \in S : ~ Below(v0, w)
    <3> HIDE DEF S
    <3> QED
      BY <2>3
  <2> HIDE DEF v0
  <2>5. /\ Settled(v0, V, zero) \in S
        /\ Settled(v0, V, zero)[2] = v0[2] /\ Settled(v0, V, zero)[3] = v0[3]
    <3>1. Zeros \subseteq V => zero \in S
      BY ZeroIs DEF Unbounded
    <3>2. zero[2] = 0 /\ zero[3] = 0 /\ (v0 \in Zeros => v0[2] = 0 /\ v0[3] = 0)
      BY ZeroIs
    <3> QED
      BY <2>4, <3>1, <3>2 DEF Settled
  <2>6. \A w \in S : ~ Below(Greatest(V, zero), w)
    BY <2>2, <2>4, <2>5 DEF Below
  <2>7. Greatest(V, zero) \in S /\ Greatest(V, zero) \in Floats
    BY <2>1, <2>2, <2>5
  <2> HIDE DEF S
  <2>8. \A v \in S : (\A w \in S : ~ Below(v, w)) => Unsigned(v) = Unsigned(Greatest(V, zero))
    BY <2>1, <2>6, <2>7, BelowOrder
  <2> QED
    BY <2>1, <2>6, <2>7, <2>8 DEF S
<1> QED
  BY <1>1, <1>2

-----------------------------------------------------------------------------
(***************************************************************************)
(* What the functions of an aggregate give: the total of a group is the    *)
(* sum over all rows of what each counts for.                              *)
(***************************************************************************)
LEMMA NumberType ==
  ASSUME NEW ds, DatasetOK(ds), NEW r \in Rows(ds), NEW c \in Cols(ds)
  PROVE  /\ IsNumber(ds.rows[r][c]) => AsFloat(ds.rows[r][c]) \in Floats
         /\ ~ IsNumber(ds.rows[r][c]) <=> ds.rows[r][c] = Null \/ ds.cols[c].kind = "str"
         /\ ds.cols[c].kind = "float" /\ ds.rows[r][c] # Null =>
              ds.rows[r][c] \in Floats /\ AsFloat(ds.rows[r][c]) = ds.rows[r][c]
<1> DEFINE v == ds.rows[r][c]
           k == ds.cols[c].kind
<1>1. PICK t \in TextKinds : v \in Family(k, t)
  BY DEF DatasetOK
<1>2. k \in Kinds
  BY DEF DatasetOK
<1> HIDE DEF v, k
<1>3. CASE v = Null
  <2>1. Null[1] = "null" /\ Null \notin Floats
    BY CellKinds DEF Null
  <2> QED
    BY <1>3, <2>1 DEF IsNumber, v, k
<1>4. CASE v # Null /\ k = "int"
  <2>1. v \in Ints
    BY <1>1, <1>4 DEF Family
  <2>2. v[1] = "int" /\ v = IntCell(v[3]) /\ v[3] \in Int
    BY <2>1, CellKinds, OpsConstantsOK
  <2>3. AsFloat(v) = FloatCell(v[3]) /\ FloatCell(v[3]) \in Floats
    BY <2>2, FloatsDiffer DEF AsFloat, IntCell, FloatCell
  <2> QED
    BY <1>4, <2>2, <2>3 DEF IsNumber, v, k
<1>5. CASE v # Null /\ k = "float"
  <2>1. v \in Floats
    BY <1>1, <1>5 DEF Family
  <2>2. v[1] = "float"
    BY <2>1, CellKinds
  <2> QED
    BY <1>5, <2>1, <2>2 DEF IsNumber, AsFloat, v, k
<1>6. CASE v # Null /\ k = "str"
  <2>1. v \in Texts(t)
    BY <1>1, <1>6 DEF Family
  <2>2. v[1] \in TextKinds
    BY <2>1, CellKinds
  <2> QED
    BY <1>6, <2>2 DEF IsNumber, TextKinds, v, k
<1> QED
  BY <1>2, <1>3, <1>4, <1>5, <1>6 DEF Kinds

\* What a row counts for in a total, and what all of them come to.
Share(ds, c, R, r) == IF r \in R /\ IsNumber(ds.rows[r][c]) THEN AsFloat(ds.rows[r][c]) ELSE MinusZero

Shares(ds, c, R) == [r \in Rows(ds) |-> Share(ds, c, R, r)]

Raised(ds, c, R) == Sum(Shares(ds, c, R), Len(ds.rows))

LEMMA TotalIs ==
  ASSUME NEW ds, DatasetOK(ds), NEW c \in Cols(ds), NEW R
  PROVE  /\ Total(ds, c, R) = Plus(SumStart, Raised(ds, c, R))
         /\ Shares(ds, c, R) \in Vectors(Len(ds.rows))
         /\ Raised(ds, c, R) \in Floats /\ Total(ds, c, R) \in Floats
<1>1. \A r \in Rows(ds) : (IF r \in Numbered(ds, c, R) THEN AsFloat(ds.rows[r][c]) ELSE MinusZero)
                             = Share(ds, c, R, r)
  BY DEF Numbered, Share
<1>2. [r \in Rows(ds) |-> IF r \in Numbered(ds, c, R) THEN AsFloat(ds.rows[r][c]) ELSE MinusZero]
        = Shares(ds, c, R)
  BY <1>1 DEF Shares
<1>3. Total(ds, c, R) = Plus(SumStart, Raised(ds, c, R))
  BY <1>2 DEF Total, Raised
<1>4. \A r \in Rows(ds) : Share(ds, c, R, r) \in Floats
  BY NumberType, ZeroIs DEF Share
<1>5. Shares(ds, c, R) \in Vectors(Len(ds.rows))
  BY <1>4, RowsFinite DEF Shares, Vectors
<1>6. Raised(ds, c, R) \in Floats
  BY <1>5, RowsFinite, SumType DEF Raised
<1>7. SumStart \in Floats
  BY OpsConstantsOK, ZerosAbsorb
<1> QED
  BY <1>3, <1>5, <1>6, <1>7, PlusType

LEMMA NumbersAre ==
  ASSUME NEW ds, DatasetOK(ds), NEW c \in Cols(ds), NEW R \in SUBSET Rows(ds)
  PROVE  /\ Numbers(ds, c, R) \in SUBSET Floats /\ IsFiniteSet(Numbers(ds, c, R))
         /\ IsFiniteSet(R) /\ Cardinality(R) \in Nat
         /\ IsFiniteSet(Numbered(ds, c, R)) /\ Cardinality(Numbered(ds, c, R)) \in Nat
         /\ IsFiniteSet({Key(ds.rows[r][c]) : r \in R}) /\ Cardinality({Key(ds.rows[r][c]) : r \in R}) \in Nat
<1>1. IsFiniteSet(R) /\ Numbered(ds, c, R) \in SUBSET R
  BY RowsFinite, FS_Subset DEF Numbered
<1>2. IsFiniteSet(Numbered(ds, c, R))
  BY <1>1, FS_Subset
<1>3. Numbers(ds, c, R) \in SUBSET Floats
  BY NumberType DEF Numbers, Numbered
<1>4. IsFiniteSet(Numbers(ds, c, R))
  <2> DEFINE f == [r \in Numbered(ds, c, R) |-> AsFloat(ds.rows[r][c])]
  <2>1. DOMAIN f = Numbered(ds, c, R) /\ Numbers(ds, c, R) = {f[r] : r \in Numbered(ds, c, R)}
    BY DEF Numbers
  <2> HIDE DEF f
  <2> QED
    BY <1>2, <2>1, ImageFinite
<1>5. IsFiniteSet({Key(ds.rows[r][c]) : r \in R})
  <2> DEFINE f == [r \in R |-> Key(ds.rows[r][c])]
  <2>1. DOMAIN f = R /\ {Key(ds.rows[r][c]) : r \in R} = {f[r] : r \in R}
    OBVIOUS
  <2> HIDE DEF f
  <2>2. IsFiniteSet({f[r] : r \in R})
    BY <1>1, <2>1, ImageFinite
  <2> QED
    BY <2>1, <2>2, Zenon
<1> QED
  BY <1>1, <1>2, <1>3, <1>4, <1>5, FS_CardinalityType

LEMMA AggValueType ==
  ASSUME NEW ds, DatasetOK(ds), NEW c \in Cols(ds), NEW R \in SUBSET Rows(ds), NEW f \in AggFns
  PROVE  AggValue(f, ds, c, R) \in Floats \cup {Null}
<1>1. f \in {"sum", "min", "max", "count", "count_distinct"}
  BY OpsConstantsOK
<1>2. \A n \in Nat : FloatCell(n) \in Floats
  BY FloatsDiffer
<1>3. CASE f = "count"
  BY <1>2, <1>3, NumbersAre DEF AggValue
<1>4. CASE f = "count_distinct"
  BY <1>2, <1>4, NumbersAre DEF AggValue
<1>5. CASE f = "sum"
  BY <1>5, TotalIs DEF AggValue
<1>6. CASE f = "min"
  BY <1>6, NumbersAre, LeastIs, EitherIs DEF AggValue
<1>7. CASE f = "max"
  BY <1>7, NumbersAre, GreatestIs, EitherIs DEF AggValue
<1> QED
  BY <1>1, <1>3, <1>4, <1>5, <1>6, <1>7

-----------------------------------------------------------------------------
(***************************************************************************)
(* aggregate: its rows are the keys in order, each with the value of its   *)
(* group.                                                                  *)
(***************************************************************************)
LEMMA GroupsAre ==
  ASSUME NEW ds, DatasetOK(ds), NEW by, ColumnsOf(ds, by), NEW i \in 1..Len(KeysOf(ds, by))
  PROVE  LET R == GroupOf(ds, by, KeysOf(ds, by)[i]) IN
           R \in SUBSET Rows(ds) /\ R # {} /\ Min(R) \in R /\ Min(R) \in Rows(ds)
<1> DEFINE R == GroupOf(ds, by, KeysOf(ds, by)[i])
<1>1. KeysOf(ds, by)[i] \in KeySet(ds, by)
  BY KeysAre DEF Enumerates
<1>2. R \in SUBSET Rows(ds) /\ R # {}
  BY <1>1 DEF KeySet, GroupOf
<1>3. R \in SUBSET Nat
  BY <1>2, RowsFinite
<1> HIDE DEF R
<1>4. Min(R) \in R
  BY <1>2, <1>3, MinIs
<1> QED
  BY <1>2, <1>4 DEF R

\* What aggregate makes, without the arrangement of the keys.
AggregateForm(A, ds, by, f, m) ==
  LET keys == KeysOf(ds, by)  n == Len(by)  R(i) == GroupOf(ds, by, keys[i]) IN
    /\ IsSequence(A.cols) /\ Len(A.cols) = n + 1
    /\ \A j \in 1..n : A.cols[j] = ShownColumn(ds, by[j])
    /\ A.cols[n + 1] = FloatColumn(<<f>> \o ds.cols[m].name)
    /\ IsSequence(A.rows) /\ Len(A.rows) = Len(keys)
    /\ \A i \in 1..Len(keys) :
         /\ IsSequence(A.rows[i]) /\ Len(A.rows[i]) = n + 1
         /\ \A j \in 1..n : A.rows[i][j] = Shown(ds, by[j], Min(R(i)))
         /\ A.rows[i][n + 1] = AggValue(f, ds, m, R(i))

LEMMA AppendedIs ==
  ASSUME NEW n \in Nat, NEW s, s = [i \in 1..n |-> s[i]], NEW v
  PROVE  /\ IsSequence(s \o <<v>>) /\ Len(s \o <<v>>) = n + 1
         /\ \A i \in 1..n : (s \o <<v>>)[i] = s[i]
         /\ (s \o <<v>>)[n + 1] = v
<1>1. IsSequence(s) /\ Len(s) = n
  BY Listed
<1>2. IsSequence(<<v>>) /\ Len(<<v>>) = 1 /\ <<v>>[1] = v
  BY Short
<1>3. 1 \in 1..Len(<<v>>)
  BY <1>2
<1> QED
  BY <1>1, <1>2, <1>3, Joined

LEMMA AggregateIs ==
  ASSUME NEW ds, DatasetOK(ds), NEW by, ColumnsOf(ds, by), NEW f, NEW m
  PROVE  AggregateForm(Aggregated(ds, by, f, m), ds, by, f, m)
<1> DEFINE A == Aggregated(ds, by, f, m)
           keys == KeysOf(ds, by)
           n == Len(by)
           R(i) == GroupOf(ds, by, keys[i])
           shown == [j \in DOMAIN by |-> ShownColumn(ds, by[j])]
           left(i) == [j \in DOMAIN by |-> Shown(ds, by[j], Min(R(i)))]
           row(i) == left(i) \o <<AggValue(f, ds, m, R(i))>>
<1>1. n \in Nat /\ DOMAIN by = 1..n
  BY SequenceIs DEF ColumnsOf
<1>2. DOMAIN keys = 1..Len(keys) /\ Len(keys) \in Nat
  BY KeysAre DEF Enumerates
<1>3. A.cols = shown \o <<FloatColumn(<<f>> \o ds.cols[m].name)>>
  BY DEF Aggregated
<1>4. A.rows = [i \in 1..Len(keys) |-> row(i)]
  BY <1>2 DEF Aggregated
<1>5. /\ IsSequence(A.cols) /\ Len(A.cols) = n + 1
      /\ \A j \in 1..n : A.cols[j] = ShownColumn(ds, by[j])
      /\ A.cols[n + 1] = FloatColumn(<<f>> \o ds.cols[m].name)
  <2>1. shown = [j \in 1..n |-> shown[j]] /\ \A j \in 1..n : shown[j] = ShownColumn(ds, by[j])
    BY <1>1
  <2> HIDE DEF shown, n, A
  <2> QED
    BY <1>1, <1>3, <2>1, AppendedIs
<1>6. IsSequence(A.rows) /\ Len(A.rows) = Len(keys)
  <2>1. A.rows = [i \in 1..Len(keys) |-> A.rows[i]]
    BY <1>4
  <2> HIDE DEF A
  <2> QED
    BY <1>2, <2>1, Listed
<1>7. ASSUME NEW i \in 1..Len(keys)
      PROVE  /\ IsSequence(A.rows[i]) /\ Len(A.rows[i]) = n + 1
             /\ \A j \in 1..n : A.rows[i][j] = Shown(ds, by[j], Min(R(i)))
             /\ A.rows[i][n + 1] = AggValue(f, ds, m, R(i))
  <2>1. left(i) = [j \in 1..n |-> left(i)[j]] /\ \A j \in 1..n : left(i)[j] = Shown(ds, by[j], Min(R(i)))
    BY <1>1
  <2>2. A.rows[i] = left(i) \o <<AggValue(f, ds, m, R(i))>>
    BY <1>4
  <2> DEFINE s == left(i)
             v == AggValue(f, ds, m, R(i))
  <2>3. s = [j \in 1..n |-> s[j]]
    BY <2>1
  <2> HIDE DEF s, v
  <2>4. /\ IsSequence(s \o <<v>>) /\ Len(s \o <<v>>) = n + 1
        /\ \A j \in 1..n : (s \o <<v>>)[j] = s[j]
        /\ (s \o <<v>>)[n + 1] = v
    <3> HIDE DEF n
    <3>1. n \in Nat
      BY <1>1 DEF n
    <3> QED
      BY <2>3, <3>1, AppendedIs
  <2> QED
    BY <2>1, <2>2, <2>4 DEF s, v
<1> HIDE DEF A
<1>8. \A i \in 1..Len(keys) :
         /\ IsSequence(A.rows[i]) /\ Len(A.rows[i]) = n + 1
         /\ \A j \in 1..n : A.rows[i][j] = Shown(ds, by[j], Min(R(i)))
         /\ A.rows[i][n + 1] = AggValue(f, ds, m, R(i))
  BY <1>7
<1>9. AggregateForm(A, ds, by, f, m)
  BY <1>5, <1>6, <1>8 DEF AggregateForm
<1> QED
  BY <1>9 DEF A

LEMMA ShownIs ==
  ASSUME NEW ds, DatasetOK(ds), NEW c \in Cols(ds)
  PROVE  /\ ShownColumn(ds, c) = Column(ds.cols[c].name, ds.cols[c].dtype, "str")
         /\ ShownColumn(ds, c).kind = "str" /\ ShownColumn(ds, c).name = ds.cols[c].name
         /\ \E t \in TextKinds : \A r \in Rows(ds) : Shown(ds, c, r) \in Family("str", t)
         /\ \A r \in Rows(ds) : Key(Shown(ds, c, r)) = Key(ds.rows[r][c])
<1>1. ds.cols[c] = Column(ds.cols[c].name, ds.cols[c].dtype, ds.cols[c].kind) /\ ds.cols[c].kind \in Kinds
  BY DEF DatasetOK
<1>2. ShownColumn(ds, c) = Column(ds.cols[c].name, ds.cols[c].dtype, "str")
  BY <1>1 DEF ShownColumn, Column
<1>3. PICK t \in TextKinds : \A r \in Rows(ds) : ds.rows[r][c] \in Family(ds.cols[c].kind, t)
  BY DEF DatasetOK
<1>4. CASE ds.cols[c].kind = "str"
  <2>1. \A r \in Rows(ds) : Shown(ds, c, r) = ds.rows[r][c]
    BY <1>4 DEF Shown
  <2> QED
    BY <1>2, <1>3, <1>4, <2>1 DEF Column
<1>5. CASE ds.cols[c].kind # "str"
  <2>1. \A r \in Rows(ds) : Shown(ds, c, r) = Key(ds.rows[r][c])
    BY <1>5 DEF Shown
  <2>2. KeyKind(ds.cols[c].kind, t) \in TextKinds
    BY DEF KeyKind, TextKinds
  <2>3. \A r \in Rows(ds) : /\ Key(ds.rows[r][c]) \in Texts(KeyKind(ds.cols[c].kind, t))
                            /\ Key(Key(ds.rows[r][c])) = Key(ds.rows[r][c])
    BY <1>1, <1>3, KeyType
  <2>4. \A r \in Rows(ds) : Shown(ds, c, r) \in Family("str", KeyKind(ds.cols[c].kind, t))
    BY <2>1, <2>3 DEF Family
  <2> QED
    BY <1>2, <2>1, <2>2, <2>3, <2>4 DEF Column
<1> QED
  BY <1>4, <1>5

\* The keys that the rows of an aggregate show are those of its groups.
LEMMA GroupKey ==
  ASSUME NEW ds, DatasetOK(ds), NEW by, ColumnsOf(ds, by), NEW f, NEW m, NEW A, AggregateForm(A, ds, by, f, m),
         NEW i \in 1..Len(KeysOf(ds, by)), NEW j \in 1..Len(by)
  PROVE  Key(A.rows[i][j]) = KeysOf(ds, by)[i][j]
<1> DEFINE key == KeysOf(ds, by)[i]
           R == GroupOf(ds, by, key)
           r == Min(R)
<1>1. r \in R /\ r \in Rows(ds)
  BY GroupsAre
<1>2. KeyAt(ds, by, r) = key
  <2> HIDE DEF r
  <2> QED
    BY <1>1 DEF GroupOf
<1>3. A.rows[i][j] = Shown(ds, by[j], r)
  BY DEF AggregateForm
<1> HIDE DEF r, R, key
<1>4. by[j] \in Cols(ds) /\ DOMAIN by = 1..Len(by)
  BY SequenceIs DEF ColumnsOf
<1>5. Key(Shown(ds, by[j], r)) = Key(ds.rows[r][by[j]])
  BY <1>1, <1>4, ShownIs
<1>6. key[j] = Key(ds.rows[r][by[j]])
  BY <1>2, <1>4 DEF KeyAt
<1> QED
  BY <1>3, <1>5, <1>6 DEF key

LEMMA FloatColumnIs ==
  ASSUME NEW name
  PROVE  FloatColumn(name) = Column(FloatColumn(name).name, FloatColumn(name).dtype, FloatColumn(name).kind)
         /\ FloatColumn(name).kind = "float" /\ FloatColumn(name).name = name
BY DEF FloatColumn, Column

LEMMA FloatFamily ==
  \A v \in Floats \cup {Null} : v \in Family("float", "str")
BY DEF Family

LEMMA AggregateOK ==
  ASSUME NEW ds, DatasetOK(ds), NEW by, ColumnsOf(ds, by), NEW f \in AggFns, NEW m \in Cols(ds)
  PROVE  /\ DatasetOK(Aggregated(ds, by, f, m))
         /\ Len(Aggregated(ds, by, f, m).rows) <= Len(ds.rows)
         /\ Len(Aggregated(ds, by, f, m).cols) = Len(by) + 1
<1> DEFINE A == Aggregated(ds, by, f, m)
           n == Len(by)
           keys == KeysOf(ds, by)
<1>1. AggregateForm(A, ds, by, f, m)
  BY AggregateIs
<1> HIDE DEF A
<1>2. n \in Nat /\ Len(keys) \in Nat
  BY KeysAre, SequenceIs DEF Enumerates, ColumnsOf
<1>3. Rows(A) = 1..Len(keys) /\ Cols(A) = 1..(n + 1)
  BY <1>1 DEF AggregateForm, Rows, Cols
<1>4. ASSUME NEW j \in 1..n
      PROVE  /\ A.cols[j] = Column(A.cols[j].name, A.cols[j].dtype, A.cols[j].kind) /\ A.cols[j].kind \in Kinds
             /\ \E t \in TextKinds : \A i \in Rows(A) : A.rows[i][j] \in Family(A.cols[j].kind, t)
  <2>1. by[j] \in Cols(ds) /\ A.cols[j] = ShownColumn(ds, by[j])
    BY <1>1 DEF AggregateForm, ColumnsOf
  <2>2. A.cols[j] = Column(A.cols[j].name, A.cols[j].dtype, A.cols[j].kind) /\ A.cols[j].kind = "str"
    BY <2>1, ShownIs DEF Column
  <2>3. PICK t \in TextKinds : \A r \in Rows(ds) : Shown(ds, by[j], r) \in Family("str", t)
    BY <2>1, ShownIs
  <2>4. \A i \in Rows(A) : A.rows[i][j] \in Family("str", t)
    <3> TAKE i \in Rows(A)
    <3>1. i \in 1..Len(keys)
      BY <1>3
    <3>2. Min(GroupOf(ds, by, keys[i])) \in Rows(ds)
      BY <3>1, GroupsAre
    <3>3. A.rows[i][j] = Shown(ds, by[j], Min(GroupOf(ds, by, keys[i])))
      BY <1>1, <3>1 DEF AggregateForm
    <3> QED
      BY <2>3, <3>2, <3>3
  <2> QED
    BY <2>2, <2>4 DEF Kinds
<1>5. /\ A.cols[n + 1] = Column(A.cols[n + 1].name, A.cols[n + 1].dtype, A.cols[n + 1].kind)
      /\ A.cols[n + 1].kind = "float"
      /\ \A i \in Rows(A) : A.rows[i][n + 1] \in Family("float", "str")
  <2>1. A.cols[n + 1] = FloatColumn(<<f>> \o ds.cols[m].name)
    BY <1>1 DEF AggregateForm
  <2>2. \A i \in Rows(A) : A.rows[i][n + 1] \in Floats \cup {Null}
    <3> TAKE i \in Rows(A)
    <3>1. i \in 1..Len(keys)
      BY <1>3
    <3>2. GroupOf(ds, by, keys[i]) \in SUBSET Rows(ds)
      BY <3>1, GroupsAre
    <3>3. A.rows[i][n + 1] = AggValue(f, ds, m, GroupOf(ds, by, keys[i]))
      BY <1>1, <3>1 DEF AggregateForm
    <3> QED
      BY <3>2, <3>3, AggValueType
  <2> QED
    BY <2>1, <2>2, FloatColumnIs, FloatFamily
<1>6. \A c \in Cols(A) : c \in 1..n \/ c = n + 1
  BY <1>2, <1>3
<1>7. IsSequence(A.cols) /\ IsSequence(A.rows) /\ \A i \in Rows(A) : IsSequence(A.rows[i]) /\ Len(A.rows[i]) = Len(A.cols)
  BY <1>1, <1>3 DEF AggregateForm
<1>8. DatasetOK(A)
  <2>1. \A c \in Cols(A) : A.cols[c] = Column(A.cols[c].name, A.cols[c].dtype, A.cols[c].kind) /\ A.cols[c].kind \in Kinds
    BY <1>4, <1>5, <1>6 DEF Kinds
  <2>2. \A c \in Cols(A) : \E t \in TextKinds : \A r \in Rows(A) : A.rows[r][c] \in Family(A.cols[c].kind, t)
    <3>1. "str" \in TextKinds
      BY DEF TextKinds
    <3> QED
      BY <1>4, <1>5, <1>6, <3>1
  <2> QED
    BY <1>7, <2>1, <2>2 DEF DatasetOK
<1>9. Len(A.rows) <= Len(ds.rows) /\ Len(A.cols) = n + 1
  BY <1>1, KeysAre DEF AggregateForm
<1> QED
  BY <1>8, <1>9 DEF A

-----------------------------------------------------------------------------
(***************************************************************************)
(* filter, sort and top_n keep some of the rows. The order of sort is      *)
(* total, also when keys are equal.                                        *)
(***************************************************************************)
LEMMA SelectedOK ==
  ASSUME NEW ds, DatasetOK(ds), NEW S \in SUBSET Rows(ds), NEW R, Enumerates(R, S)
  PROVE  /\ DatasetOK(Selected(ds, R))
         /\ Len(Selected(ds, R).rows) = Cardinality(S) /\ Len(Selected(ds, R).rows) <= Len(ds.rows)
         /\ Selected(ds, R).cols = ds.cols
         /\ \A i \in 1..Len(R) : Selected(ds, R).rows[i] = ds.rows[R[i]]
<1> DEFINE D == Selected(ds, R)
<1>1. DOMAIN R = 1..Len(R) /\ Len(R) \in Nat /\ Len(R) = Cardinality(S) /\ \A i \in 1..Len(R) : R[i] \in S
  BY DEF Enumerates
<1>2. D.cols = ds.cols /\ D.rows = [i \in 1..Len(R) |-> ds.rows[R[i]]]
  BY <1>1 DEF Selected
<1>3. IsSequence(D.rows) /\ Len(D.rows) = Len(R) /\ \A i \in 1..Len(R) : D.rows[i] = ds.rows[R[i]]
  <2>1. D.rows = [i \in 1..Len(R) |-> D.rows[i]]
    BY <1>2
  <2> HIDE DEF D
  <2> QED
    BY <1>1, <1>2, <2>1, Listed
<1>4. Cardinality(S) <= Len(ds.rows)
  BY RowsFinite, FS_Subset
<1> HIDE DEF D
<1>5. Rows(D) = 1..Len(R) /\ Cols(D) = Cols(ds)
  BY <1>2, <1>3 DEF Rows, Cols
<1>6. \A i \in Rows(D) : R[i] \in Rows(ds) /\ D.rows[i] = ds.rows[R[i]]
  BY <1>1, <1>3, <1>5
<1>7. DatasetOK(D)
  BY <1>2, <1>3, <1>5, <1>6 DEF DatasetOK
<1> QED
  BY <1>1, <1>2, <1>3, <1>4, <1>7 DEF D

LEMMA PickedOK ==
  ASSUME NEW ds, DatasetOK(ds), NEW S \in SUBSET Rows(ds)
  PROVE  /\ DatasetOK(Selected(ds, Ascending(S)))
         /\ Len(Selected(ds, Ascending(S)).rows) = Cardinality(S)
         /\ Len(Selected(ds, Ascending(S)).rows) <= Len(ds.rows)
         /\ Selected(ds, Ascending(S)).cols = ds.cols
<1>1. S \in SUBSET Int /\ IsFiniteSet(S)
  BY RowsFinite, FS_Subset
<1>2. Enumerates(Ascending(S), S)
  BY <1>1, AscendingIs
<1> QED
  BY <1>2, SelectedOK

\* Keys to sort by.
SortKeys(ds, keys, n) ==
  DOMAIN keys = 1..n /\ \A k \in 1..n : keys[k].col \in Cols(ds) /\ keys[k].desc \in BOOLEAN

\* That a comes before b by the key k.
ByKey(ds, keys, k, a, b) ==
  IF keys[k].desc THEN TextBefore(Key(ds.rows[b][keys[k].col]), Key(ds.rows[a][keys[k].col]))
  ELSE TextBefore(Key(ds.rows[a][keys[k].col]), Key(ds.rows[b][keys[k].col]))

\* That a and b have the same first n keys.
TiesUpTo(ds, keys, n, a, b) ==
  \A k \in 1..n : Key(ds.rows[a][keys[k].col]) = Key(ds.rows[b][keys[k].col])

LEMMA SortBeforeIs ==
  ASSUME NEW ds, DatasetOK(ds), NEW n \in Nat, NEW keys, SortKeys(ds, keys, n),
         NEW a \in Rows(ds), NEW b \in Rows(ds)
  PROVE  SortBefore(ds, keys, a, b) <=>
           \/ TiesUpTo(ds, keys, n, a, b) /\ a < b
           \/ \E k \in 1..n : TiesUpTo(ds, keys, k - 1, a, b) /\ ByKey(ds, keys, k, a, b)
<1> DEFINE At(k, r) == Key(ds.rows[r][keys[k].col])
           differ == {k \in 1..n : At(k, a) # At(k, b)}
<1>1. DOMAIN keys = 1..n
  BY DEF SortKeys
<1>2. PICK t \in [Cols(ds) -> TextKinds] : \A c \in Cols(ds), r \in Rows(ds) :
           ds.rows[r][c] \in Family(ds.cols[c].kind, t[c])
  BY TextKindsOf
<1>3. \A k \in 1..n : ByKey(ds, keys, k, a, b) => At(k, a) # At(k, b)
  <2> TAKE k \in 1..n
  <2> DEFINE c == keys[k].col
  <2>1. c \in Cols(ds)
    BY DEF SortKeys
  <2>2. ds.cols[c].kind \in Kinds /\ t[c] \in TextKinds
    BY <1>2, <2>1 DEF DatasetOK
  <2> DEFINE u == KeyKind(ds.cols[c].kind, t[c])
  <2>3. At(k, a) \in Texts(u) /\ At(k, b) \in Texts(u)
    BY <1>2, <2>1, <2>2, KeyType
  <2> QED
    BY <2>3, TextOrder DEF ByKey
<1>4. CASE differ = {}
  <2>1. TiesUpTo(ds, keys, n, a, b)
    BY <1>4 DEF TiesUpTo
  <2>2. SortBefore(ds, keys, a, b) <=> a < b
    BY <1>1, <1>4 DEF SortBefore
  <2>3. \A k \in 1..n : ~ ByKey(ds, keys, k, a, b)
    BY <1>3, <1>4
  <2> QED
    BY <2>1, <2>2, <2>3
<1>5. CASE differ # {}
  <2> DEFINE k1 == Min(differ)
  <2>1. differ \in SUBSET Nat
    OBVIOUS
  <2>2. k1 \in differ /\ \A x \in differ : k1 <= x
    BY <1>5, <2>1, MinIs
  <2>3. SortBefore(ds, keys, a, b) <=> ByKey(ds, keys, k1, a, b)
    BY <1>1, <1>5 DEF SortBefore, ByKey
  <2>4. ~ TiesUpTo(ds, keys, n, a, b)
    BY <2>2 DEF TiesUpTo
  <2>5. TiesUpTo(ds, keys, k1 - 1, a, b)
    <3> HIDE DEF k1
    <3> SUFFICES ASSUME NEW k \in 1..(k1 - 1) PROVE At(k, a) = At(k, b)
      BY DEF TiesUpTo
    <3>1. k \in 1..n /\ ~ (k1 <= k)
      BY <2>2
    <3> QED
      BY <2>2, <3>1
  <2>6. \A k \in 1..n : TiesUpTo(ds, keys, k - 1, a, b) /\ ByKey(ds, keys, k, a, b) => k = k1
    <3> HIDE DEF k1
    <3> SUFFICES ASSUME NEW k \in 1..n, TiesUpTo(ds, keys, k - 1, a, b), ByKey(ds, keys, k, a, b) PROVE k = k1
      OBVIOUS
    <3>1. k \in differ
      BY <1>3
    <3>2. k1 <= k
      BY <2>2, <3>1
    <3>3. ~ (k1 < k)
      <4> SUFFICES ASSUME k1 < k PROVE FALSE
        OBVIOUS
      <4>1. k1 \in 1..(k - 1)
        BY <2>2
      <4>2. At(k1, a) = At(k1, b)
        BY <4>1 DEF TiesUpTo
      <4> QED
        BY <2>2, <4>2
    <3> QED
      BY <2>2, <3>2, <3>3
  <2>7. k1 \in 1..n
    BY <2>2
  <2> HIDE DEF k1
  <2> QED
    BY <2>3, <2>4, <2>5, <2>6, <2>7
<1> QED
  BY <1>4, <1>5

LEMMA SortTotal ==
  ASSUME NEW ds, DatasetOK(ds), NEW n \in Nat, NEW keys, SortKeys(ds, keys, n)
  PROVE  TotalOrder(Rows(ds), [x \in Rows(ds) |-> {y \in Rows(ds) : SortBefore(ds, keys, y, x)}])
<1> DEFINE S == Rows(ds)
           At(k, r) == Key(ds.rows[r][keys[k].col])
           Less(a, b) == SortBefore(ds, keys, a, b)
           B == [x \in S |-> {y \in S : Less(y, x)}]
<1>1. S \in SUBSET Int
  BY RowsFinite
<1>2. PICK t \in [Cols(ds) -> TextKinds] : \A c \in Cols(ds), r \in Rows(ds) :
           ds.rows[r][c] \in Family(ds.cols[c].kind, t[c])
  BY TextKindsOf
<1>3. ASSUME NEW k \in 1..n
      PROVE  /\ \A a, b \in S : At(k, a) = At(k, b) \/ ByKey(ds, keys, k, a, b) \/ ByKey(ds, keys, k, b, a)
             /\ \A a, b, c \in S : ByKey(ds, keys, k, a, b) /\ ByKey(ds, keys, k, b, c) => ByKey(ds, keys, k, a, c)
             /\ \A a, b \in S : ByKey(ds, keys, k, a, b) => At(k, a) # At(k, b)
             /\ \A a, b, c \in S : ByKey(ds, keys, k, a, b) /\ At(k, b) = At(k, c) => ByKey(ds, keys, k, a, c)
             /\ \A a, b, c \in S : At(k, a) = At(k, b) /\ ByKey(ds, keys, k, b, c) => ByKey(ds, keys, k, a, c)
  <2> DEFINE c == keys[k].col
             u == KeyKind(ds.cols[c].kind, t[c])
  <2>1. c \in Cols(ds)
    BY DEF SortKeys
  <2>2. ds.cols[c].kind \in Kinds /\ t[c] \in TextKinds
    BY <1>2, <2>1 DEF DatasetOK
  <2>3. \A a \in S : At(k, a) \in Texts(u)
    BY <1>2, <2>1, <2>2, KeyType
  <2>4. \A a, b \in S : ByKey(ds, keys, k, a, b) <=>
           IF keys[k].desc THEN TextBefore(At(k, b), At(k, a)) ELSE TextBefore(At(k, a), At(k, b))
    BY DEF ByKey
  <2> HIDE DEF u, At
  <2> QED
    BY <2>3, <2>4, TextOrder
<1>4. \A a, b \in S : Less(a, b) <=>
           \/ TiesUpTo(ds, keys, n, a, b) /\ a < b
           \/ \E k \in 1..n : TiesUpTo(ds, keys, k - 1, a, b) /\ ByKey(ds, keys, k, a, b)
  BY SortBeforeIs
<1> HIDE DEF Less
<1>5. \A m \in Nat : m <= n => \A a, b \in S : TiesUpTo(ds, keys, m, a, b) <=> \A k \in 1..m : At(k, a) = At(k, b)
  BY DEF TiesUpTo
<1> HIDE DEF At
<1>6. \A a \in S : ~ Less(a, a)
  BY <1>1, <1>3, <1>4
<1>7. ASSUME NEW a \in S, NEW b \in S, NEW c \in S, Less(a, b), Less(b, c)
      PROVE  Less(a, c)
  <2>1. CASE TiesUpTo(ds, keys, n, a, b) /\ a < b
    <3>1. CASE TiesUpTo(ds, keys, n, b, c) /\ b < c
      <4>1. TiesUpTo(ds, keys, n, a, c)
        BY <1>5, <2>1, <3>1
      <4> QED
        BY <1>1, <1>4, <2>1, <3>1, <4>1
    <3>2. CASE \E k \in 1..n : TiesUpTo(ds, keys, k - 1, b, c) /\ ByKey(ds, keys, k, b, c)
      <4>1. PICK k \in 1..n : TiesUpTo(ds, keys, k - 1, b, c) /\ ByKey(ds, keys, k, b, c)
        BY <3>2
      <4>2. At(k, a) = At(k, b) /\ \A i \in 1..(k - 1) : At(i, a) = At(i, b)
        BY <1>5, <2>1
      <4>3. TiesUpTo(ds, keys, k - 1, a, c)
        BY <1>5, <4>1, <4>2
      <4>4. ByKey(ds, keys, k, a, c)
        BY <1>3, <4>1, <4>2
      <4> QED
        BY <1>4, <4>3, <4>4
    <3> QED
      BY <1>4, <1>7, <3>1, <3>2
  <2>2. CASE \E k \in 1..n : TiesUpTo(ds, keys, k - 1, a, b) /\ ByKey(ds, keys, k, a, b)
    <3>1. PICK k \in 1..n : TiesUpTo(ds, keys, k - 1, a, b) /\ ByKey(ds, keys, k, a, b)
      BY <2>2
    <3>2. CASE TiesUpTo(ds, keys, n, b, c) /\ b < c
      <4>1. At(k, b) = At(k, c) /\ \A i \in 1..(k - 1) : At(i, b) = At(i, c)
        BY <1>5, <3>2
      <4>2. TiesUpTo(ds, keys, k - 1, a, c)
        BY <1>5, <3>1, <4>1
      <4>3. ByKey(ds, keys, k, a, c)
        BY <1>3, <3>1, <4>1
      <4> QED
        BY <1>4, <4>2, <4>3
    <3>3. CASE \E l \in 1..n : TiesUpTo(ds, keys, l - 1, b, c) /\ ByKey(ds, keys, l, b, c)
      <4>1. PICK l \in 1..n : TiesUpTo(ds, keys, l - 1, b, c) /\ ByKey(ds, keys, l, b, c)
        BY <3>3
      <4>2. CASE k < l
        <5>1. At(k, b) = At(k, c) /\ \A i \in 1..(k - 1) : At(i, b) = At(i, c)
          BY <1>5, <4>1, <4>2
        <5>2. TiesUpTo(ds, keys, k - 1, a, c)
          BY <1>5, <3>1, <5>1
        <5>3. ByKey(ds, keys, k, a, c)
          BY <1>3, <3>1, <5>1
        <5> QED
          BY <1>4, <5>2, <5>3
      <4>3. CASE k = l
        <5>1. TiesUpTo(ds, keys, k - 1, a, c)
          BY <1>5, <3>1, <4>1, <4>3
        <5>2. ByKey(ds, keys, k, a, c)
          BY <1>3, <3>1, <4>1, <4>3
        <5> QED
          BY <1>4, <5>1, <5>2
      <4>4. CASE k > l
        <5>1. At(l, a) = At(l, b) /\ \A i \in 1..(l - 1) : At(i, a) = At(i, b)
          BY <1>5, <3>1, <4>4
        <5>2. TiesUpTo(ds, keys, l - 1, a, c)
          BY <1>5, <4>1, <5>1
        <5>3. ByKey(ds, keys, l, a, c)
          BY <1>3, <4>1, <5>1
        <5> QED
          BY <1>4, <5>2, <5>3
      <4> QED
        BY <4>2, <4>3, <4>4
    <3> QED
      BY <1>4, <1>7, <3>2, <3>3
  <2> QED
    BY <1>4, <1>7, <2>1, <2>2
<1>8. ASSUME NEW a \in S, NEW b \in S, a # b PROVE Less(a, b) \/ Less(b, a)
  <2> DEFINE D == {k \in 1..n : At(k, a) # At(k, b)}
  <2>1. CASE D = {}
    <3>1. TiesUpTo(ds, keys, n, a, b) /\ TiesUpTo(ds, keys, n, b, a)
      BY <1>5, <2>1
    <3>2. a < b \/ b < a
      BY <1>1, <1>8
    <3> QED
      BY <1>4, <3>1, <3>2
  <2>2. CASE D # {}
    <3>1. D \in SUBSET Nat
      OBVIOUS
    <3>2. PICK k \in D : \A i \in D : k <= i
      BY <2>2, <3>1, LeastIndex
    <3>3. \A i \in 1..(k - 1) : At(i, a) = At(i, b)
      <4> TAKE i \in 1..(k - 1)
      <4>1. i \in 1..n /\ ~ (k <= i)
        OBVIOUS
      <4> QED
        BY <3>2, <4>1
    <3>4. TiesUpTo(ds, keys, k - 1, a, b) /\ TiesUpTo(ds, keys, k - 1, b, a)
      <4>1. k - 1 \in Nat /\ k - 1 <= n
        OBVIOUS
      <4> QED
        BY <1>5, <3>3, <4>1
    <3>5. ByKey(ds, keys, k, a, b) \/ ByKey(ds, keys, k, b, a)
      BY <1>3, <3>2
    <3> QED
      BY <1>4, <3>4, <3>5
  <2> QED
    BY <2>1, <2>2
<1>9. B \in [S -> SUBSET S] /\ \A x, y \in S : x \in B[y] <=> Less(x, y)
  OBVIOUS
<1>10. \A x, y \in S : x \in B[y] => B[x] \subseteq B[y]
  BY <1>7
<1>11. TotalOrder(S, B)
  <2> HIDE DEF B
  <2> QED
    BY <1>6, <1>8, <1>9, <1>10 DEF TotalOrder
<1> QED
  BY <1>11 DEF Less

-----------------------------------------------------------------------------
(***************************************************************************)
(* Where a set is in a total order, the rows are those places; top_n       *)
(* without a NaN likewise.                                                 *)
(***************************************************************************)
LEMMA PositionExists ==
  \A S, B : IsFiniteSet(S) /\ TotalOrder(S, B) =>
    \A i \in 1..Cardinality(S) : \E x \in S : Cardinality(B[x]) = i - 1
BY Positions

LEMMA SortOrderIs ==
  ASSUME NEW ds, DatasetOK(ds), NEW n \in Nat, NEW keys, SortKeys(ds, keys, n)
  PROVE  Enumerates(SortOrder(ds, keys), Rows(ds))
<1> DEFINE S == Rows(ds)
           Less(a, b) == SortBefore(ds, keys, a, b)
           B == [x \in S |-> {y \in S : Less(y, x)}]
           s == SortOrder(ds, keys)
           at(i) == CHOOSE x \in S : Cardinality({y \in S : Less(y, x)}) = i - 1
<1>1. TotalOrder(S, B)
  BY SortTotal
<1>2. s = [i \in 1..Cardinality(S) |-> CHOOSE x \in S : Cardinality({y \in S : Less(y, x)}) = i - 1]
  BY DEF SortOrder, Arranged
<1>3. IsFiniteSet(S)
  BY RowsFinite
<1> HIDE DEF S, Less
<1>4. \A i \in 1..Cardinality(S) : s[i] \in S /\ Cardinality({y \in S : Less(y, s[i])}) = i - 1
  <2> TAKE i \in 1..Cardinality(S)
  <2>1. PICK x \in S : Cardinality(B[x]) = i - 1
    BY <1>3, <1>1, Positions
  <2>2. Cardinality({y \in S : Less(y, x)}) = i - 1
    BY <2>1
  <2> HIDE DEF s
  <2> QED
    BY <1>2, <2>2
<1>5. InOrder(S, B, s)
  <2>1. s = [i \in 1..Cardinality(S) |-> s[i]]
    <3>1. s = [i \in 1..Cardinality(S) |-> at(i)]
      BY <1>2
    <3> HIDE DEF s, at
    <3> QED
      BY <3>1
  <2> HIDE DEF s
  <2>2. \A i \in 1..Cardinality(S) : Cardinality(B[s[i]]) = i - 1
    BY <1>4
  <2> QED
    BY <1>4, <2>1, <2>2 DEF InOrder
<1>6. Enumerates(s, S)
  BY <1>3, <1>1, <1>5, InOrderIs
<1> QED
  BY <1>6 DEF s, S

LEMMA ScoreType ==
  ASSUME NEW ds, DatasetOK(ds), NEW c \in Cols(ds), NEW r \in Rows(ds)
  PROVE  Score(ds, c, r) \in Floats
BY NumberType, FloatsDiffer DEF Score

LEMMA OutranksOrder ==
  ASSUME NEW ds, DatasetOK(ds), NEW c \in Cols(ds), NEW bottom \in BOOLEAN
  PROVE  /\ \A a \in Rows(ds) : ~ Outranks(ds, c, bottom, a, a)
         /\ \A a, b \in Rows(ds) : a = b \/ Outranks(ds, c, bottom, a, b) \/ Outranks(ds, c, bottom, b, a)
<1>1. \A a \in Rows(ds) : Score(ds, c, a) \in Floats /\ a \in Int
  BY ScoreType, RowsFinite
<1> QED
  BY <1>1, BelowOrder DEF Outranks, Same

LEMMA TopRowsType ==
  ASSUME NEW ds, DatasetOK(ds), NEW c \in Cols(ds), NEW bottom \in BOOLEAN, NEW n \in Nat,
         NEW R \in TopRows(ds, c, bottom, n)
  PROVE  R \in SUBSET Rows(ds)
<1> DEFINE S == Rows(ds)
           Above(a, b) == Outranks(ds, c, bottom, a, b)
           size == Min({n, Len(ds.rows)})
           order == [i \in 1..Cardinality(S) |-> CHOOSE x \in S : Cardinality({y \in S : Above(y, x)}) = i - 1]
           transitive == \A a1, a2, a3 \in S : Above(a1, a2) /\ Above(a2, a3) => Above(a1, a3)
           B == [x \in S |-> {y \in S : Above(y, x)}]
<1>1. TopRows(ds, c, bottom, n) =
        IF transitive THEN {{order[i] : i \in 1..size}} ELSE kSubset(size, S)
  BY DEF TopRows, Arranged
<1>2. Len(ds.rows) \in Nat /\ Cardinality(S) = Len(ds.rows) /\ IsFiniteSet(S)
  BY RowsFinite
<1>3. size \in Nat /\ size <= Len(ds.rows)
  <2> DEFINE T == {n, Len(ds.rows)}
  <2>1. T \in SUBSET Nat /\ T # {} /\ Len(ds.rows) \in T
    BY <1>2
  <2> HIDE DEF T
  <2>2. Min(T) \in T /\ Min(T) <= Len(ds.rows)
    BY <2>1, MinIs
  <2> QED
    BY <2>1, <2>2 DEF T
<1>4. CASE ~ transitive
  <2>1. R \in kSubset(size, S)
    BY <1>1, <1>4
  <2> QED
    BY <2>1 DEF kSubset
<1>5. CASE transitive
  <2>1. R = {order[i] : i \in 1..size}
    BY <1>1, <1>5
  <2>2. (\A a \in S : ~ Above(a, a)) /\ \A a, b \in S : a = b \/ Above(a, b) \/ Above(b, a)
    BY OutranksOrder
  <2> HIDE DEF Above, S, size
  <2>3. TotalOrder(S, B)
    <3>1. B \in [S -> SUBSET S] /\ \A x, y \in S : x \in B[y] <=> Above(x, y)
      OBVIOUS
    <3>2. \A x, y \in S : x \in B[y] => B[x] \subseteq B[y]
      BY <1>5
    <3> HIDE DEF B
    <3> QED
      BY <2>2, <3>1, <3>2 DEF TotalOrder
  <2>4. \A i \in 1..Cardinality(S) : order[i] \in S
    <3> TAKE i \in 1..Cardinality(S)
    <3>1. PICK x \in S : Cardinality(B[x]) = i - 1
      <4> HIDE DEF B
      <4> QED
        BY <1>2, <2>3, PositionExists
    <3>2. Cardinality({y \in S : Above(y, x)}) = i - 1
      BY <3>1
    <3>3. order[i] = CHOOSE z \in S : Cardinality({y \in S : Above(y, z)}) = i - 1
      OBVIOUS
    <3> HIDE DEF order
    <3> QED
      BY <3>2, <3>3
  <2> HIDE DEF order
  <2>5. \A i \in 1..size : order[i] \in S
    BY <1>2, <1>3, <2>4
  <2> QED
    BY <2>1, <2>5 DEF S
<1> QED
  BY <1>4, <1>5

-----------------------------------------------------------------------------
(***************************************************************************)
(* pivot: a row for each key of one column, a column for each of the       *)
(* other.                                                                  *)
(***************************************************************************)
LEMMA PivotCellType ==
  ASSUME NEW ds, DatasetOK(ds), NEW c \in Cols(ds), NEW R \in SUBSET Rows(ds), NEW f
  PROVE  PivotCell(f, ds, c, R) \in Floats \cup {Null}
<1> DEFINE V == Numbers(ds, c, R)
<1>1. V \in SUBSET Floats /\ IsFiniteSet(V)
  BY NumbersAre
<1>2. FloatCell(Cardinality(Numbered(ds, c, R))) \in Floats
  <2>1. Cardinality(Numbered(ds, c, R)) \in Nat
    BY NumbersAre
  <2>2. \A n \in Nat : FloatCell(n) \in Floats
    BY FloatsDiffer
  <2> QED
    BY <2>1, <2>2
<1>3. Total(ds, c, R) \in Floats
  BY TotalIs
<1> HIDE DEF V
<1>4. /\ V \cup {Inf} \in SUBSET Floats /\ IsFiniteSet(V \cup {Inf})
      /\ V \cup {MinusInf} \in SUBSET Floats /\ IsFiniteSet(V \cup {MinusInf})
  BY <1>1, FloatsDiffer, FS_AddElement
<1>5. \A zero \in Zeros : Least(V \cup {Inf}, zero) \in Floats /\ Greatest(V \cup {MinusInf}, zero) \in Floats
  BY <1>4, LeastIs, GreatestIs
<1>6. CASE V = {}
  BY <1>6 DEF PivotCell, V
<1>7. CASE V # {} /\ f = "sum"
  BY <1>3, <1>7 DEF PivotCell, V
<1>8. CASE V # {} /\ f = "min"
  BY <1>5, <1>8, EitherIs DEF PivotCell, V
<1>9. CASE V # {} /\ f = "max"
  BY <1>5, <1>9, EitherIs DEF PivotCell, V
<1>10. CASE V # {} /\ f \notin {"sum", "min", "max"}
  <2>1. PivotCell(f, ds, c, R) = FloatCell(Cardinality(Numbered(ds, c, R)))
    BY <1>10 DEF PivotCell, V
  <2> QED
    BY <1>2, <2>1
<1> QED
  BY <1>6, <1>7, <1>8, <1>9, <1>10

LEMMA OneColumn ==
  ASSUME NEW ds, NEW c \in Cols(ds)
  PROVE  ColumnsOf(ds, <<c>>) /\ Len(<<c>>) = 1 /\ DOMAIN <<c>> = 1..1 /\ <<c>>[1] = c
<1> DEFINE s == <<c>>
<1>1. IsSequence(s) /\ Len(s) = 1 /\ s[1] = c /\ DOMAIN s = 1..1
  <2>1. IsSequence(s) /\ Len(s) = 1
    BY Short
  <2>2. s[1] = c
    OBVIOUS
  <2> HIDE DEF s
  <2> QED
    BY <2>1, <2>2, SequenceIs
<1> HIDE DEF s
<1>2. ColumnsOf(ds, s)
  BY <1>1 DEF ColumnsOf
<1> QED
  BY <1>1, <1>2 DEF s

\* What pivot makes.
PivotForm(P, ds, row, col, m, f) ==
  LET down == KeysOf(ds, <<row>>)
      across == KeysOf(ds, <<col>>)
      R(i, j) == GroupOf(ds, <<row>>, down[i]) \cap GroupOf(ds, <<col>>, across[j])
  IN
    /\ IsSequence(P.cols) /\ Len(P.cols) = 1 + Len(across)
    /\ P.cols[1] = ShownColumn(ds, row)
    /\ \A j \in 1..Len(across) : P.cols[1 + j] = FloatColumn(<<"pivot">> \o across[j][1])
    /\ IsSequence(P.rows) /\ Len(P.rows) = Len(down)
    /\ \A i \in 1..Len(down) :
         /\ IsSequence(P.rows[i]) /\ Len(P.rows[i]) = 1 + Len(across)
         /\ P.rows[i][1] = down[i][1]
         /\ \A j \in 1..Len(across) : P.rows[i][1 + j] = PivotCell(f, ds, m, R(i, j))

LEMMA PrependedIs ==
  ASSUME NEW a, IsSequence(a), NEW b, IsSequence(b), Len(b) = 1
  PROVE  /\ IsSequence(b \o a) /\ Len(b \o a) = 1 + Len(a)
         /\ (b \o a)[1] = b[1]
         /\ \A i \in 1..Len(a) : (b \o a)[1 + i] = a[i]
<1> DEFINE u == b \o a
<1>1. /\ IsSequence(u) /\ Len(u) = Len(b) + Len(a)
      /\ \A i \in 1..Len(b) : u[i] = b[i]
      /\ \A i \in 1..Len(a) : u[Len(b) + i] = a[i]
  BY ONLY IsSequence(a), IsSequence(b), Joined
<1>2. 1 \in 1..Len(b)
  OBVIOUS
<1> HIDE DEF u
<1>3. \A i \in 1..Len(a) : u[1 + i] = a[i]
  BY <1>1
<1> QED
  BY <1>1, <1>2, <1>3 DEF u

LEMMA PivotIs ==
  ASSUME NEW ds, DatasetOK(ds), NEW row \in Cols(ds), NEW col \in Cols(ds), NEW m, NEW f
  PROVE  PivotForm(Pivoted(ds, row, col, m, f), ds, row, col, m, f)
<1> DEFINE P == Pivoted(ds, row, col, m, f)
           down == KeysOf(ds, <<row>>)
           across == KeysOf(ds, <<col>>)
           R(i, j) == GroupOf(ds, <<row>>, down[i]) \cap GroupOf(ds, <<col>>, across[j])
           names == [j \in DOMAIN across |-> FloatColumn(<<"pivot">> \o across[j][1])]
           cells(i) == [j \in DOMAIN across |-> PivotCell(f, ds, m, R(i, j))]
<1>1. P.cols = <<ShownColumn(ds, row)>> \o names /\ P.rows = [i \in DOMAIN down |-> down[i] \o cells(i)]
  BY DEF Pivoted
<1>2. /\ DOMAIN down = 1..Len(down) /\ Len(down) \in Nat
      /\ DOMAIN across = 1..Len(across) /\ Len(across) \in Nat
      /\ \A i \in 1..Len(down) : down[i] \in KeySet(ds, <<row>>)
  BY OneColumn, KeysAre DEF Enumerates
<1>3. /\ IsSequence(P.cols) /\ Len(P.cols) = 1 + Len(across)
      /\ P.cols[1] = ShownColumn(ds, row)
      /\ \A j \in 1..Len(across) : P.cols[1 + j] = FloatColumn(<<"pivot">> \o across[j][1])
  <2>1. names = [j \in 1..Len(across) |-> names[j]]
        /\ \A j \in 1..Len(across) : names[j] = FloatColumn(<<"pivot">> \o across[j][1])
    BY <1>2
  <2> DEFINE u == <<ShownColumn(ds, row)>>
  <2>2. IsSequence(u) /\ Len(u) = 1 /\ u[1] = ShownColumn(ds, row)
    BY Short
  <2> DEFINE n == Len(across)
  <2>3. n \in Nat /\ names = [j \in 1..n |-> names[j]]
    BY <1>2, <2>1
  <2> HIDE DEF u, names, P, n
  <2>4. /\ IsSequence(u \o names) /\ Len(u \o names) = 1 + n
        /\ (u \o names)[1] = u[1]
        /\ \A j \in 1..n : (u \o names)[1 + j] = names[j]
    <3>1. IsSequence(names) /\ Len(names) = n
      BY <2>3, Listed
    <3> QED
      BY <2>2, <3>1, PrependedIs
  <2>5. /\ IsSequence(u \o names) /\ Len(u \o names) = 1 + Len(across)
        /\ (u \o names)[1] = u[1]
        /\ \A j \in 1..Len(across) : (u \o names)[1 + j] = names[j]
    BY <2>4 DEF n
  <2> QED
    BY <1>1, <2>1, <2>2, <2>5 DEF u
<1>4. IsSequence(P.rows) /\ Len(P.rows) = Len(down)
  <2>1. P.rows = [i \in 1..Len(down) |-> P.rows[i]]
    BY <1>1, <1>2
  <2> HIDE DEF P
  <2> QED
    BY <1>2, <2>1, Listed
<1>5. \A i \in 1..Len(down) :
         /\ IsSequence(P.rows[i]) /\ Len(P.rows[i]) = 1 + Len(across)
         /\ P.rows[i][1] = down[i][1]
         /\ \A j \in 1..Len(across) : P.rows[i][1 + j] = PivotCell(f, ds, m, R(i, j))
  <2> TAKE i \in 1..Len(down)
  <2> DEFINE s == cells(i)
             u == down[i]
  <2>1. s = [j \in 1..Len(across) |-> s[j]]
        /\ \A j \in 1..Len(across) : s[j] = PivotCell(f, ds, m, R(i, j))
    BY <1>2
  <2>2. P.rows[i] = u \o s
    BY <1>1, <1>2
  <2>3. IsSequence(u) /\ Len(u) = 1
    <3>1. PICK r \in Rows(ds) : u = KeyAt(ds, <<row>>, r)
      BY <1>2 DEF KeySet
    <3>2. u = [j \in 1..1 |-> u[j]]
      <4> HIDE DEF u
      <4> QED
        BY <3>1, OneColumn DEF KeyAt
    <3> HIDE DEF u
    <3> QED
      BY <3>2, Listed
  <2> DEFINE n == Len(across)
  <2>4. n \in Nat /\ s = [j \in 1..n |-> s[j]]
    BY <1>2, <2>1
  <2> HIDE DEF s, u, P, n
  <2>5. /\ IsSequence(u \o s) /\ Len(u \o s) = 1 + n
        /\ (u \o s)[1] = u[1]
        /\ \A j \in 1..n : (u \o s)[1 + j] = s[j]
    <3>1. IsSequence(s) /\ Len(s) = n
      BY <2>4, Listed
    <3> QED
      BY <2>3, <3>1, PrependedIs
  <2>6. /\ IsSequence(u \o s) /\ Len(u \o s) = 1 + Len(across)
        /\ (u \o s)[1] = u[1]
        /\ \A j \in 1..Len(across) : (u \o s)[1 + j] = s[j]
    BY <2>5 DEF n
  <2> QED
    BY <2>1, <2>2, <2>6 DEF u
<1> HIDE DEF P
<1>6. PivotForm(P, ds, row, col, m, f)
  BY <1>3, <1>4, <1>5 DEF PivotForm
<1> QED
  BY <1>6 DEF P

LEMMA PivotOK ==
  ASSUME NEW ds, DatasetOK(ds), NEW row \in Cols(ds), NEW col \in Cols(ds), NEW m \in Cols(ds), NEW f
  PROVE  /\ DatasetOK(Pivoted(ds, row, col, m, f))
         /\ Len(Pivoted(ds, row, col, m, f).rows) <= Len(ds.rows)
         /\ Len(Pivoted(ds, row, col, m, f).cols) <= Len(ds.rows) + 1
<1> DEFINE P == Pivoted(ds, row, col, m, f)
           down == KeysOf(ds, <<row>>)
           across == KeysOf(ds, <<col>>)
           n == Len(across)
           R(i, j) == GroupOf(ds, <<row>>, down[i]) \cap GroupOf(ds, <<col>>, across[j])
<1>1. PivotForm(P, ds, row, col, m, f)
  BY PivotIs
<1>2. /\ Len(down) \in Nat /\ Len(down) <= Len(ds.rows) /\ \A i \in 1..Len(down) : down[i] \in KeySet(ds, <<row>>)
      /\ n \in Nat /\ n <= Len(ds.rows)
  BY OneColumn, KeysAre DEF Enumerates
<1> HIDE DEF P
<1>3. Rows(P) = 1..Len(down) /\ Cols(P) = 1..(1 + n)
  BY <1>1 DEF PivotForm, Rows, Cols
<1>4. /\ P.cols[1] = Column(P.cols[1].name, P.cols[1].dtype, P.cols[1].kind) /\ P.cols[1].kind = "str"
      /\ \E t \in TextKinds : \A i \in Rows(P) : P.rows[i][1] \in Family("str", t)
  <2>1. P.cols[1] = ShownColumn(ds, row)
    BY <1>1 DEF PivotForm
  <2>2. PICK t \in TextKinds : \A r \in Rows(ds) : ds.rows[r][row] \in Family(ds.cols[row].kind, t)
    BY DEF DatasetOK
  <2> DEFINE u == KeyKind(ds.cols[row].kind, t)
  <2>3. u \in TextKinds /\ \A r \in Rows(ds) : Key(ds.rows[r][row]) \in Texts(u)
    <3>1. ds.cols[row].kind \in Kinds
      BY DEF DatasetOK
    <3>2. u \in TextKinds
      BY DEF KeyKind, TextKinds
    <3> QED
      BY <2>2, <3>1, <3>2, KeyType
  <2>4. \A i \in Rows(P) : P.rows[i][1] \in Texts(u)
    <3> TAKE i \in Rows(P)
    <3>1. P.rows[i][1] = down[i][1] /\ down[i] \in KeySet(ds, <<row>>)
      BY <1>1, <1>2, <1>3 DEF PivotForm
    <3>2. PICK r \in Rows(ds) : down[i] = KeyAt(ds, <<row>>, r)
      BY <3>1 DEF KeySet
    <3>3. down[i][1] = Key(ds.rows[r][row])
      BY <3>2, OneColumn DEF KeyAt
    <3> QED
      BY <2>3, <3>1, <3>3
  <2>5. \A i \in Rows(P) : P.rows[i][1] \in Family("str", u)
    BY <2>4 DEF Family
  <2> QED
    BY <2>1, <2>3, <2>5, ShownIs DEF Column
<1>5. ASSUME NEW j \in 1..n
      PROVE  /\ P.cols[1 + j] = Column(P.cols[1 + j].name, P.cols[1 + j].dtype, P.cols[1 + j].kind)
             /\ P.cols[1 + j].kind = "float"
             /\ \A i \in Rows(P) : P.rows[i][1 + j] \in Family("float", "str")
  <2>1. P.cols[1 + j] = FloatColumn(<<"pivot">> \o across[j][1])
    BY <1>1 DEF PivotForm
  <2>2. \A i \in Rows(P) : P.rows[i][1 + j] \in Floats \cup {Null}
    <3> TAKE i \in Rows(P)
    <3>1. P.rows[i][1 + j] = PivotCell(f, ds, m, R(i, j))
      BY <1>1, <1>3 DEF PivotForm
    <3>2. R(i, j) \in SUBSET Rows(ds)
      BY DEF GroupOf
    <3> HIDE DEF R
    <3> QED
      BY <3>1, <3>2, PivotCellType
  <2> QED
    BY <2>1, <2>2, FloatColumnIs, FloatFamily
<1>6. \A c \in Cols(P) : c = 1 \/ (c - 1 \in 1..n /\ 1 + (c - 1) = c)
  BY <1>2, <1>3
<1>7. IsSequence(P.cols) /\ IsSequence(P.rows) /\ \A i \in Rows(P) : IsSequence(P.rows[i]) /\ Len(P.rows[i]) = Len(P.cols)
  BY <1>1, <1>3 DEF PivotForm
<1>8. DatasetOK(P)
  <2>1. ASSUME NEW c \in Cols(P)
        PROVE  /\ P.cols[c] = Column(P.cols[c].name, P.cols[c].dtype, P.cols[c].kind) /\ P.cols[c].kind \in Kinds
               /\ \E t \in TextKinds : \A r \in Rows(P) : P.rows[r][c] \in Family(P.cols[c].kind, t)
    <3>1. CASE c = 1
      BY <1>4, <3>1 DEF Kinds
    <3>2. CASE c # 1
      <4> DEFINE j == c - 1
      <4>1. j \in 1..n /\ 1 + j = c
        BY <1>6, <3>2
      <4> HIDE DEF j
      <4>2. "str" \in TextKinds
        BY DEF TextKinds
      <4> QED
        BY <1>5, <4>1, <4>2 DEF Kinds
    <3> QED
      BY <3>1, <3>2
  <2> QED
    BY <1>7, <2>1 DEF DatasetOK
<1>9. Len(P.rows) <= Len(ds.rows) /\ Len(P.cols) <= Len(ds.rows) + 1
  BY <1>1, <1>2, RowsFinite DEF PivotForm
<1> QED
  BY <1>8, <1>9 DEF P

-----------------------------------------------------------------------------
(***************************************************************************)
(* Subtraction and percentages.                                            *)
(***************************************************************************)
LEMMA NegatedIs ==
  /\ Negated(NaN) = NaN /\ Negated(Inf) = MinusInf /\ Negated(MinusInf) = Inf
  /\ Negated(FloatCell(0)) = MinusZero /\ Negated(MinusZero) = FloatCell(0)
  /\ \A n \in Int \ {0} : Negated(FloatCell(n)) = FloatCell(-n)
<1>1. Negated(NaN) = NaN
  BY FloatsDiffer DEF Negated
<1>2. Negated(FloatCell(0)) = MinusZero
  BY ZeroIs, FloatsDiffer DEF Negated
<1>3. ASSUME NEW v, v # NaN, v # FloatCell(0), NEW i \in Int, NEW j \in Int,
             v[2] + i = 0, v[3] + j = 0, v[2] \in Int, v[3] \in Int
      PROVE  Negated(v) = <<"float", i, j>>
  <2>1. -v[2] = i /\ -v[3] = j
    <3>1. \A m, n \in Int : m + n = 0 => -m = n
      OBVIOUS
    <3> QED
      BY <1>3, <3>1
  <2>2. Negated(v) = <<"float", -v[2], -v[3]>>
    BY <1>3 DEF Negated
  <2> QED
    BY <2>1, <2>2
<1>4. Negated(MinusZero) = FloatCell(0)
  BY <1>3, ZeroIs, FloatsDiffer DEF FloatCell
<1>5. ASSUME NEW n \in Int \ {0}
      PROVE  Negated(FloatCell(n)) = FloatCell(-n)
  <2>1. FloatCell(n)[2] = 0 /\ FloatCell(n)[3] = n /\ FloatCell(n) # NaN /\ FloatCell(n) # FloatCell(0)
    BY FloatsDiffer
  <2> DEFINE m == -n
  <2>2. m \in Int /\ n + m = 0
    OBVIOUS
  <2> HIDE DEF m
  <2> DEFINE v == FloatCell(n)
  <2>3. v # NaN /\ v # FloatCell(0) /\ v[2] \in Int /\ v[3] \in Int /\ v[2] + 0 = 0 /\ v[3] + m = 0
    BY <2>1, <2>2
  <2> HIDE DEF v
  <2>4. Negated(v) = <<"float", 0, m>>
    BY <1>3, <2>2, <2>3
  <2>5. Negated(v) = FloatCell(m)
    BY <2>4 DEF FloatCell
  <2> QED
    BY <2>5 DEF m, v
<1>6. Negated(Inf) = MinusInf
  <2>1. Inf[2] = 1 /\ Inf[3] = 0 /\ Inf # NaN /\ Inf # FloatCell(0)
    BY FloatsDiffer DEF Inf
  <2> QED
    BY <1>3, <2>1 DEF MinusInf
<1>7. Negated(MinusInf) = Inf
  <2>1. MinusInf[2] = -1 /\ MinusInf[3] = 0 /\ MinusInf # NaN /\ MinusInf # FloatCell(0)
    BY FloatsDiffer DEF MinusInf
  <2> QED
    BY <1>3, <2>1 DEF Inf
<1> QED
  BY <1>1, <1>2, <1>4, <1>5, <1>6, <1>7

LEMMA NegatedType == \A v \in Floats : Negated(v) \in Floats
<1> SUFFICES ASSUME NEW v \in Floats PROVE Negated(v) \in Floats
  OBVIOUS
<1>1. CASE v \in {NaN, Inf, MinusInf, MinusZero, FloatCell(0)}
  BY <1>1, NegatedIs, FloatsDiffer
<1>2. CASE v \notin {NaN, Inf, MinusInf, MinusZero, FloatCell(0)}
  <2>1. PICK n \in Int : v = FloatCell(n)
    BY <1>2, FloatCases
  <2>2. n # 0 /\ -n \in Int
    BY <1>2, <2>1
  <2>3. Negated(v) = FloatCell(-n)
    BY <2>1, <2>2, NegatedIs
  <2> QED
    BY <2>2, <2>3, FloatsDiffer
<1> QED
  BY <1>1, <1>2

LEMMA MinusType == \A v, w \in Floats : Minus(v, w) \in Floats /\ (v = NaN \/ w = NaN => Minus(v, w) = NaN)
<1> SUFFICES ASSUME NEW v \in Floats, NEW w \in Floats
             PROVE  Minus(v, w) \in Floats /\ (v = NaN \/ w = NaN => Minus(v, w) = NaN)
  OBVIOUS
<1>1. Negated(w) \in Floats /\ (w = NaN => Negated(w) = NaN)
  BY NegatedType, NegatedIs
<1> QED
  BY <1>1, PlusType, PlusSpecial DEF Minus

LEMMA PercentType ==
  ASSUME NEW v \in Floats, NEW w \in Floats, w \notin Zeros, w = NaN => v = NaN
  PROVE  Percent(v, w) \in Floats
<1>1. CASE v = NaN \/ Infinite(w)
  BY <1>1, FloatsDiffer DEF Percent
<1>2. CASE v # NaN /\ ~ Infinite(w) /\ (Infinite(v) \/ v \in Zeros)
  <2>1. Percent(v, w) = IF w[3] > 0 THEN v ELSE Negated(v)
    BY <1>2 DEF Percent
  <2> QED
    BY <2>1, NegatedType
<1>3. CASE v # NaN /\ ~ Infinite(w) /\ ~ Infinite(v) /\ v \notin Zeros
  <2>1. v[3] \in Int /\ w[3] \in Int /\ w = FloatCell(w[3]) /\ w # FloatCell(0)
    BY <1>3, FloatCases DEF Infinite, Zeros
  <2>2. w[3] # 0
    BY <2>1
  <2>3. Percent(v, w) = FloatCell(IF w[3] > 0 THEN (v[3] * 100) \div w[3] ELSE (-v[3] * 100) \div (-w[3]))
    BY <1>3 DEF Percent
  <2> DEFINE a == v[3]
             b == w[3]
  <2>4. a * 100 \in Int /\ -a * 100 \in Int /\ a \in Int /\ b \in Int /\ b # 0
    BY <2>1, <2>2
  <2> HIDE DEF a, b
  <2>5. CASE b > 0
    <3>1. \A x \in Int : x \div b \in Int
      BY <2>4, <2>5
    <3>2. (a * 100) \div b \in Int
      BY <2>4, <3>1
    <3> QED
      BY <2>3, <2>5, <3>2, FloatsDiffer DEF a, b
  <2>6. CASE ~ (b > 0)
    <3>1. -b \in Int /\ -b > 0
      BY <2>4, <2>6
    <3>2. \A x \in Int : x \div (-b) \in Int
      BY <3>1
    <3>3. (-a * 100) \div (-b) \in Int
      BY <2>4, <3>2
    <3> QED
      BY <2>3, <2>6, <3>3, FloatsDiffer DEF a, b
  <2> QED
    BY <2>5, <2>6
<1> QED
  BY <1>1, <1>2, <1>3

-----------------------------------------------------------------------------
(***************************************************************************)
(* describe: a row of statistics for each column.                          *)
(***************************************************************************)
LEMMA ColIdxIs ==
  ASSUME NEW ds, DatasetOK(ds), NEW name
  PROVE  /\ ColIdx(ds, name) \in Cols(ds) \cup {0}
         /\ ColIdx(ds, name) # 0 =>
              /\ ColIdx(ds, name) \in Cols(ds) /\ ds.cols[ColIdx(ds, name)].name = name
              /\ ColIdx(ds, name) \in Named(ds)
         /\ ColIdx(ds, name) = 0 => \A c \in Cols(ds) : ds.cols[c].name # name
<1> DEFINE at == {c \in Cols(ds) : ds.cols[c].name = name}
<1>1. ColIdx(ds, name) = IF at = {} THEN 0 ELSE Min(at)
  BY DEF ColIdx
<1>2. at \in SUBSET Nat /\ 0 \notin Cols(ds)
  BY RowsFinite
<1>3. at # {} => Min(at) \in at
  BY <1>2, MinIs
<1>4. ColIdx(ds, name) # 0 => ColIdx(ds, name) \in at
  <2> HIDE DEF at
  <2> QED
    BY <1>1, <1>3
<1>5. ColIdx(ds, name) = 0 => at = {}
  BY <1>1, <1>2, <1>3
<1> QED
  BY <1>4, <1>5 DEF Named

LEMMA NamedIs ==
  ASSUME NEW ds, DatasetOK(ds), NEW c \in Named(ds)
  PROVE  c \in Cols(ds) /\ ColIdx(ds, ds.cols[c].name) = c
BY DEF Named

LEMMA Five ==
  ASSUME NEW a, NEW b, NEW c, NEW d, NEW e
  PROVE  IsSequence(<<a, b, c, d, e>>) /\ Len(<<a, b, c, d, e>>) = 5
<1> DEFINE s == <<a, b, c, d, e>>
<1>1. s = [i \in 1..5 |-> s[i]]
  OBVIOUS
<1> HIDE DEF s
<1>2. IsSequence(s) /\ Len(s) = 5
  BY <1>1, Listed
<1> QED
  BY <1>2 DEF s

LEMMA OneAndFour ==
  ASSUME NEW a, NEW b, NEW c, NEW d, NEW e
  PROVE  <<a>> \o <<b, c, d, e>> = <<a, b, c, d, e>>
<1> DEFINE s == <<a>>
           t == <<b, c, d, e>>
           u == s \o t
<1>1. t = [i \in 1..4 |-> t[i]] /\ t[1] = b /\ t[2] = c /\ t[3] = d /\ t[4] = e /\ s[1] = a
  OBVIOUS
<1>2. IsSequence(s) /\ Len(s) = 1
  BY Short
<1> HIDE DEF s, t
<1>3. IsSequence(t) /\ Len(t) = 4
  BY <1>1, Listed
<1>4. IsSequence(s) /\ IsSequence(t)
  BY <1>2, <1>3
<1>5. /\ IsSequence(u) /\ Len(u) = Len(s) + Len(t)
      /\ \A i \in 1..Len(s) : u[i] = s[i]
      /\ \A i \in 1..Len(t) : u[Len(s) + i] = t[i]
  BY ONLY <1>4, Joined
<1>6. IsSequence(u) /\ Len(u) = 1 + Len(t) /\ u[1] = s[1] /\ \A i \in 1..Len(t) : u[1 + i] = t[i]
  <2> HIDE DEF u
  <2>1. 1 \in 1..Len(s)
    BY <1>2
  <2> QED
    BY <1>2, <1>5, <2>1
<1> HIDE DEF u
<1>7. u[1] = a /\ u[2] = b /\ u[3] = c /\ u[4] = d /\ u[5] = e
  <2>1. \A i \in 1..4 : u[1 + i] = t[i]
    BY <1>3, <1>6
  <2>2. u[1 + 1] = t[1] /\ u[1 + 2] = t[2] /\ u[1 + 3] = t[3] /\ u[1 + 4] = t[4]
    BY <2>1
  <2> QED
    BY <1>1, <1>6, <2>2
<1>8. u = [i \in 1..5 |-> u[i]]
  BY <1>3, <1>6, SequenceIs
<1>9. u = <<a, b, c, d, e>>
  BY <1>7, <1>8
<1> QED
  BY <1>9 DEF s, t, u

LEMMA TwoAndThree ==
  ASSUME NEW a, NEW b, NEW c, NEW d, NEW e
  PROVE  <<a, b>> \o <<c, d, e>> = <<a, b, c, d, e>>
<1> DEFINE s == <<a, b>>
           t == <<c, d, e>>
           u == s \o t
<1>1. t = [i \in 1..3 |-> t[i]] /\ t[1] = c /\ t[2] = d /\ t[3] = e /\ s[1] = a /\ s[2] = b
  OBVIOUS
<1>2. IsSequence(s) /\ Len(s) = 2
  BY Short
<1> HIDE DEF s, t
<1>3. IsSequence(t) /\ Len(t) = 3
  BY <1>1, Listed
<1>4. IsSequence(s) /\ IsSequence(t)
  BY <1>2, <1>3
<1>5. /\ IsSequence(u) /\ Len(u) = Len(s) + Len(t)
      /\ \A i \in 1..Len(s) : u[i] = s[i]
      /\ \A i \in 1..Len(t) : u[Len(s) + i] = t[i]
  BY ONLY <1>4, Joined
<1> HIDE DEF u
<1>6. u[1] = a /\ u[2] = b /\ u[3] = c /\ u[4] = d /\ u[5] = e
  <2>1. (\A i \in 1..2 : u[i] = s[i]) /\ \A i \in 1..3 : u[2 + i] = t[i]
    BY <1>2, <1>3, <1>5
  <2>2. u[1] = s[1] /\ u[2] = s[2] /\ u[2 + 1] = t[1] /\ u[2 + 2] = t[2] /\ u[2 + 3] = t[3]
    BY <2>1
  <2> QED
    BY <1>1, <2>2
<1>7. u = [i \in 1..5 |-> u[i]]
  BY <1>2, <1>3, <1>5, SequenceIs
<1>8. u = <<a, b, c, d, e>>
  BY <1>6, <1>7
<1> QED
  BY <1>8 DEF s, t, u

LEMMA FiveOK ==
  ASSUME NEW ds, ds.cols = <<ds.cols[1], ds.cols[2], ds.cols[3], ds.cols[4], ds.cols[5]>>,
         IsSequence(ds.rows),
         \A c \in 1..5 : ds.cols[c] = Column(ds.cols[c].name, ds.cols[c].dtype, ds.cols[c].kind) /\ ds.cols[c].kind \in Kinds,
         \A r \in Rows(ds) : ds.rows[r] = <<ds.rows[r][1], ds.rows[r][2], ds.rows[r][3], ds.rows[r][4], ds.rows[r][5]>>,
         \A c \in 1..5 : \E t \in TextKinds : \A r \in Rows(ds) : ds.rows[r][c] \in Family(ds.cols[c].kind, t)
  PROVE  DatasetOK(ds) /\ Len(ds.cols) = 5
<1>1. IsSequence(ds.cols) /\ Len(ds.cols) = 5
  <2> DEFINE s == <<ds.cols[1], ds.cols[2], ds.cols[3], ds.cols[4], ds.cols[5]>>
  <2>1. IsSequence(s) /\ Len(s) = 5
    BY Five
  <2> HIDE DEF s
  <2>2. ds.cols = s
    BY DEF s
  <2> QED
    BY <2>1, <2>2
<1>2. \A r \in Rows(ds) : IsSequence(ds.rows[r]) /\ Len(ds.rows[r]) = 5
  BY Five
<1>3. Cols(ds) = 1..5
  BY <1>1 DEF Cols
<1> QED
  BY <1>1, <1>2, <1>3 DEF DatasetOK

LEMMA StatsType ==
  ASSUME NEW ds, DatasetOK(ds), Len(ds.rows) < Half, NEW c \in Cols(ds)
  PROVE  \E a, b, s \in Floats \cup {Null}, d \in Ints : Stats(ds, c) = <<a, b, s, d>>
<1> DEFINE all == Numbers(ds, c, Rows(ds))
           cells == {ds.rows[r][c] : r \in Rows(ds)}
           distinct == IntCell(Cardinality(cells))
<1>1. Cardinality(cells) \in Nat /\ Cardinality(cells) <= Len(ds.rows)
  <2> DEFINE f == [r \in Rows(ds) |-> ds.rows[r][c]]
  <2>1. DOMAIN f = Rows(ds) /\ cells = {f[r] : r \in Rows(ds)}
    OBVIOUS
  <2> HIDE DEF f, cells
  <2>2. IsFiniteSet({f[r] : r \in Rows(ds)}) /\ Cardinality({f[r] : r \in Rows(ds)}) <= Len(ds.rows)
    BY <2>1, RowsFinite, ImageFinite
  <2> QED
    BY <2>1, <2>2, FS_CardinalityType
<1>2. distinct \in Ints /\ IntCell(0) \in Ints
  <2> DEFINE n == Cardinality(cells)
  <2>1. n \in (-Half)..(Half - 1) /\ 0 \in (-Half)..(Half - 1)
    <3> HIDE DEF n, Half
    <3>1. n \in Nat /\ n <= Len(ds.rows) /\ Len(ds.rows) \in Nat /\ Half \in Nat
      BY <1>1, RowsFinite, OpsConstantsOK DEF n
    <3> QED
      BY <3>1
  <2> HIDE DEF n, Half
  <2> QED
    BY <2>1 DEF Ints, n
<1>3. all \in SUBSET Floats /\ IsFiniteSet(all)
  BY NumbersAre
<1>4. Total(ds, c, Rows(ds)) \in Floats
  BY TotalIs
<1> DEFINE low == Least(all \cup {Inf}, EitherZero("min", ds, c, Rows(ds)))
           high == Greatest(all \cup {MinusInf}, EitherZero("max", ds, c, Rows(ds)))
<1> HIDE DEF all, cells
<1>5. /\ all \cup {Inf} \in SUBSET Floats /\ IsFiniteSet(all \cup {Inf})
      /\ all \cup {MinusInf} \in SUBSET Floats /\ IsFiniteSet(all \cup {MinusInf})
  BY <1>3, FloatsDiffer, FS_AddElement
<1>6. low \in Floats /\ high \in Floats
  BY <1>5, LeastIs, GreatestIs, EitherIs
<1>7. \/ Stats(ds, c) = <<Null, Null, Null, IntCell(0)>>
      \/ Stats(ds, c) = <<Null, Null, Null, distinct>>
      \/ Stats(ds, c) = <<low, high, Total(ds, c, Rows(ds)), distinct>>
  <2>1. CASE ds.cols[c].dtype # ds.cols[c].kind
    BY <2>1 DEF Stats
  <2>2. CASE ds.cols[c].dtype = ds.cols[c].kind /\ all = {}
    BY <2>2 DEF Stats, all, cells
  <2>3. CASE ds.cols[c].dtype = ds.cols[c].kind /\ all # {}
    BY <2>3 DEF Stats, all, cells
  <2> QED
    BY <2>1, <2>2, <2>3
<1> HIDE DEF distinct, low, high
<1> QED
  BY <1>2, <1>4, <1>6, <1>7, Zenon

LEMMA DescribeOK ==
  ASSUME NEW ds, DatasetOK(ds), Len(ds.rows) < Half
  PROVE  /\ DatasetOK(Described(ds)) /\ Len(Described(ds).cols) = 5
         /\ Len(Described(ds).rows) = Len(ds.cols)
<1> DEFINE D == Described(ds)
<1>1. /\ D.cols[1] = Column(<<"col_name">>, "str", "str") /\ D.cols[2] = FloatColumn(<<"min">>)
      /\ D.cols[3] = FloatColumn(<<"max">>) /\ D.cols[4] = FloatColumn(<<"sum">>)
      /\ D.cols[5] = Column(<<"distinct">>, "int", "int")
      /\ D.cols = <<D.cols[1], D.cols[2], D.cols[3], D.cols[4], D.cols[5]>>
  BY DEF Described
<1>2. D.rows = [c \in 1..Len(ds.cols) |-> <<Text(c)>> \o Stats(ds, c)] /\ Cols(ds) = 1..Len(ds.cols) /\ Len(ds.cols) \in Nat
  BY RowsFinite DEF Described
<1>3. IsSequence(D.rows) /\ Len(D.rows) = Len(ds.cols)
  <2>1. D.rows = [c \in 1..Len(ds.cols) |-> D.rows[c]]
    BY <1>2
  <2> HIDE DEF D
  <2> QED
    BY <1>2, <2>1, Listed
<1> HIDE DEF D
<1>4. Rows(D) = Cols(ds)
  BY <1>2, <1>3 DEF Rows
<1>5. ASSUME NEW r \in Rows(D)
      PROVE  /\ D.rows[r] = <<D.rows[r][1], D.rows[r][2], D.rows[r][3], D.rows[r][4], D.rows[r][5]>>
             /\ D.rows[r][1] \in Texts("str") /\ D.rows[r][5] \in Ints
             /\ \A c \in 2..4 : D.rows[r][c] \in Floats \cup {Null}
  <2>1. r \in Cols(ds) /\ r \in Int
    BY <1>2, <1>4
  <2>2. PICK a, b, s \in Floats \cup {Null}, d \in Ints : Stats(ds, r) = <<a, b, s, d>>
    BY <2>1, StatsType
  <2>3. D.rows[r] = <<Text(r)>> \o <<a, b, s, d>>
    BY <1>2, <2>1, <2>2
  <2>4. D.rows[r] = <<Text(r), a, b, s, d>>
    BY <2>3, OneAndFour
  <2>5. Text(r) \in Texts("str")
    BY <2>1 DEF Texts, Text
  <2> HIDE DEF Text
  <2> QED
    BY <2>4, <2>5
<1>6. \A c \in 1..5 : D.cols[c] = Column(D.cols[c].name, D.cols[c].dtype, D.cols[c].kind) /\ D.cols[c].kind \in Kinds
  <2>1. \A c \in 1..5 : c = 1 \/ c = 2 \/ c = 3 \/ c = 4 \/ c = 5
    OBVIOUS
  <2> QED
    BY <1>1, <2>1, FloatColumnIs DEF Kinds, Column
<1>7. \A c \in 1..5 : \E t \in TextKinds : \A r \in Rows(D) : D.rows[r][c] \in Family(D.cols[c].kind, t)
  <2> TAKE c \in 1..5
  <2>1. "str" \in TextKinds
    BY DEF TextKinds
  <2>2. CASE c = 1
    <3>1. D.cols[c].kind = "str"
      BY <1>1, <2>2 DEF Column
    <3> QED
      BY <1>5, <2>1, <2>2, <3>1 DEF Family
  <2>3. CASE c \in 2..4
    <3>1. c = 2 \/ c = 3 \/ c = 4
      BY <2>3
    <3>2. D.cols[c].kind = "float"
      BY <1>1, <3>1, FloatColumnIs
    <3> QED
      BY <1>5, <2>1, <2>3, <3>2, FloatFamily
  <2>4. CASE c = 5
    <3>1. D.cols[c].kind = "int"
      BY <1>1, <2>4 DEF Column
    <3> QED
      BY <1>5, <2>1, <2>4, <3>1 DEF Family
  <2> QED
    BY <2>2, <2>3, <2>4
<1>8. DatasetOK(D) /\ Len(D.cols) = 5
  BY <1>1, <1>3, <1>5, <1>6, <1>7, FiveOK
<1> QED
  BY <1>3, <1>8 DEF D

-----------------------------------------------------------------------------
(***************************************************************************)
(* compare: each row beside the last one with its key.                     *)
(***************************************************************************)
LEMMA ChangeType ==
  ASSUME NEW v \in Floats \cup {Null}, NEW w \in Floats \cup {Null}
  PROVE  /\ Change(v, w) \in Floats \cup {Null} /\ PctChange(v, w) \in Floats \cup {Null}
         /\ Change(v, w) # Null => v \in Floats /\ w \in Floats /\ Change(v, w) = Minus(w, v)
         /\ v \in Floats /\ w \in Floats => Change(v, w) = Minus(w, v)
<1>1. Null \notin Floats
  BY CellKinds
<1>2. CASE v = Null \/ w = Null
  <2>1. Change(v, w) = Null /\ PctChange(v, w) = Null
    BY <1>2 DEF Change, PctChange
  <2> QED
    BY <1>1, <1>2, <2>1
<1>3. CASE v # Null /\ w # Null
  <2>1. v \in Floats /\ w \in Floats /\ Change(v, w) = Minus(w, v)
    BY <1>3 DEF Change
  <2>2. Minus(w, v) \in Floats /\ (v = NaN => Minus(w, v) = NaN)
    BY <2>1, MinusType
  <2>3. v \notin Zeros => Percent(Minus(w, v), v) \in Floats
    BY <2>1, <2>2, PercentType
  <2>4. PctChange(v, w) \in Floats
    BY <1>1, <2>1, <2>2, <2>3, FloatsDiffer DEF PctChange
  <2> QED
    BY <2>1, <2>2, <2>4
<1> QED
  BY <1>2, <1>3

LEMMA FoundType ==
  ASSUME NEW ds, DatasetOK(ds), NEW names, NEW m \in Cols(ds) \cup {0}, NEW k
  PROVE  Found(ds, names, m, k) \in Floats \cup {Null}
<1> DEFINE R == {r \in Rows(ds) : KeyByName(ds, names, r) = k}
           N == IF m = 0 THEN {} ELSE Numbered(ds, m, R)
<1>1. Found(ds, names, m, k) = IF N = {} THEN Null ELSE AsFloat(ds.rows[Max(N)][m])
  BY DEF Found
<1>2. N \in SUBSET Rows(ds) /\ Rows(ds) = 1..Len(ds.rows) /\ Len(ds.rows) \in Nat
  BY RowsFinite DEF Numbered
<1>3. CASE N # {}
  <2>1. m \in Cols(ds) /\ N = Numbered(ds, m, R)
    BY <1>3
  <2>2. Max(N) \in N
    <3> HIDE DEF N
    <3> QED
      BY <1>2, <1>3, MaxIs
  <2>3. Max(N) \in Rows(ds) /\ IsNumber(ds.rows[Max(N)][m])
    <3> DEFINE x == Max(N)
    <3>1. x \in Numbered(ds, m, R)
      BY <2>1, <2>2
    <3> HIDE DEF x, N
    <3>2. x \in Rows(ds) /\ IsNumber(ds.rows[x][m])
      BY <3>1 DEF Numbered
    <3> QED
      BY <3>2 DEF x
  <2> HIDE DEF N
  <2>4. AsFloat(ds.rows[Max(N)][m]) \in Floats
    BY <2>1, <2>3, NumberType
  <2> QED
    BY <1>1, <1>3, <2>4
<1> QED
  BY <1>1, <1>3

\* The number of a row, null for none.
NumberOf(ds, m, r) == IF IsNumber(ds.rows[r][m]) THEN AsFloat(ds.rows[r][m]) ELSE Null

LEMMA NumberOfType ==
  ASSUME NEW ds, DatasetOK(ds), NEW r \in Rows(ds), NEW c \in Cols(ds)
  PROVE  NumberOf(ds, c, r) \in Floats \cup {Null}
BY NumberType DEF NumberOf

\* What compare makes.
CompareForm(C, da, db, c, names, m, measure) ==
  /\ C.cols = <<ShownColumn(da, c), FloatColumn(measure \o <<"a">>), FloatColumn(measure \o <<"b">>),
                FloatColumn(<<"delta">>), FloatColumn(<<"pct_change">>)>>
  /\ IsSequence(C.rows) /\ Len(C.rows) = Len(da.rows)
  /\ \A r \in Rows(da) :
       LET v == NumberOf(da, m, r)
           w == Found(db, names, ColIdx(db, measure), KeyByName(da, names, r))
       IN C.rows[r] = <<Shown(da, c, r), v, w, Change(v, w), PctChange(v, w)>>

LEMMA CompareIs ==
  ASSUME NEW da, DatasetOK(da), NEW db, NEW c \in Named(da), NEW m \in Named(da),
         NEW names, names = <<da.cols[c].name>>, NEW measure, measure = da.cols[m].name
  PROVE  CompareForm(Compared(da, db, names, measure), da, db, c, names, m, measure)
<1> DEFINE C == Compared(da, db, names, measure)
           key == [j \in DOMAIN names |-> ColIdx(da, names[j])]
           ma == ColIdx(da, measure)
           v(r) == IF IsNumber(da.rows[r][ma]) THEN AsFloat(da.rows[r][ma]) ELSE Null
           w(r) == Found(db, names, ColIdx(db, measure), KeyAt(da, key, r))
           Row(r) == [j \in DOMAIN key |-> Shown(da, key[j], r)] \o <<v(r), w(r), Change(v(r), w(r)), PctChange(v(r), w(r))>>
           four == <<FloatColumn(measure \o <<"a">>), FloatColumn(measure \o <<"b">>),
                      FloatColumn(<<"delta">>), FloatColumn(<<"pct_change">>)>>
<1>1. c \in Cols(da) /\ m \in Cols(da) /\ ma = m /\ ColIdx(da, da.cols[c].name) = c /\ c # 0
  BY NamedIs, RowsFinite
<1>2. DOMAIN names = 1..1 /\ names[1] = da.cols[c].name
  BY Short
<1>3. key = <<c>>
  <2>1. key = [j \in 1..1 |-> c]
    BY <1>1, <1>2
  <2> HIDE DEF key
  <2> QED
    BY <2>1
<1>4. C.cols = [j \in DOMAIN key |-> ShownColumn(da, key[j])] \o four
      /\ C.rows = [r \in Rows(da) |-> Row(r)]
  BY DEF Compared
<1>5. \A r \in Rows(da) : KeyAt(da, key, r) = KeyByName(da, names, r)
  <2> TAKE r \in Rows(da)
  <2>1. KeyAt(da, key, r) = [j \in 1..1 |-> Key(da.rows[r][c])]
    BY <1>3 DEF KeyAt
  <2>2. KeyByName(da, names, r) = [j \in 1..1 |-> Key(da.rows[r][c])]
    BY <1>1, <1>2 DEF KeyByName
  <2> QED
    BY <2>1, <2>2
<1>6. [j \in DOMAIN key |-> ShownColumn(da, key[j])] = <<ShownColumn(da, c)>>
  BY <1>3
<1>7. \A r \in Rows(da) : [j \in DOMAIN key |-> Shown(da, key[j], r)] = <<Shown(da, c, r)>>
  BY <1>3
<1>8. C.cols = <<ShownColumn(da, c)>> \o four
  BY <1>4, <1>6
<1>9. C.cols = <<ShownColumn(da, c), FloatColumn(measure \o <<"a">>), FloatColumn(measure \o <<"b">>),
                FloatColumn(<<"delta">>), FloatColumn(<<"pct_change">>)>>
  <2> HIDE DEF C
  <2> QED
    BY <1>8, OneAndFour
<1>10. IsSequence(C.rows) /\ Len(C.rows) = Len(da.rows)
  <2>1. Rows(da) = 1..Len(da.rows) /\ Len(da.rows) \in Nat
    BY RowsFinite
  <2>2. C.rows = [r \in 1..Len(da.rows) |-> C.rows[r]]
    BY <1>4, <2>1
  <2> HIDE DEF C
  <2> QED
    BY <2>1, <2>2, Listed
<1>11. ASSUME NEW r \in Rows(da)
       PROVE  LET x == NumberOf(da, m, r)
                  y == Found(db, names, ColIdx(db, measure), KeyByName(da, names, r))
              IN C.rows[r] = <<Shown(da, c, r), x, y, Change(x, y), PctChange(x, y)>>
  <2> DEFINE x == NumberOf(da, m, r)
             y == Found(db, names, ColIdx(db, measure), KeyByName(da, names, r))
  <2>1. v(r) = x /\ w(r) = y
    BY <1>1, <1>5 DEF NumberOf
  <2>2. C.rows[r] = [j \in DOMAIN key |-> Shown(da, key[j], r)] \o <<v(r), w(r), Change(v(r), w(r)), PctChange(v(r), w(r))>>
    BY <1>4
  <2> HIDE DEF v, w, C, key
  <2>3. C.rows[r] = <<Shown(da, c, r)>> \o <<x, y, Change(x, y), PctChange(x, y)>>
    BY <1>7, <2>1, <2>2
  <2> HIDE DEF x, y
  <2>4. C.rows[r] = <<Shown(da, c, r), x, y, Change(x, y), PctChange(x, y)>>
    BY <2>3, OneAndFour
  <2> QED
    BY <2>4 DEF x, y
<1> HIDE DEF C
<1>12. CompareForm(C, da, db, c, names, m, measure)
  BY <1>9, <1>10, <1>11 DEF CompareForm
<1> QED
  BY <1>12 DEF C

LEMMA CompareOK ==
  ASSUME NEW da, DatasetOK(da), NEW db, DatasetOK(db), NEW c \in Named(da), NEW m \in Named(da),
         NEW names, names = <<da.cols[c].name>>, NEW measure, measure = da.cols[m].name
  PROVE  /\ DatasetOK(Compared(da, db, names, measure))
         /\ Len(Compared(da, db, names, measure).cols) = 5
         /\ Len(Compared(da, db, names, measure).rows) = Len(da.rows)
<1> DEFINE C == Compared(da, db, names, measure)
<1>1. CompareForm(C, da, db, c, names, m, measure)
  BY CompareIs
<1> HIDE DEF C
<1>2. c \in Cols(da) /\ m \in Cols(da)
  BY NamedIs
<1>3. /\ C.cols[1] = ShownColumn(da, c) /\ C.cols[2] = FloatColumn(measure \o <<"a">>)
      /\ C.cols[3] = FloatColumn(measure \o <<"b">>) /\ C.cols[4] = FloatColumn(<<"delta">>)
      /\ C.cols[5] = FloatColumn(<<"pct_change">>)
      /\ C.cols = <<C.cols[1], C.cols[2], C.cols[3], C.cols[4], C.cols[5]>>
  BY <1>1 DEF CompareForm
<1>4. Rows(C) = Rows(da) /\ IsSequence(C.rows) /\ Len(C.rows) = Len(da.rows)
  BY <1>1 DEF CompareForm, Rows
<1>5. ASSUME NEW r \in Rows(C)
      PROVE  /\ C.rows[r] = <<C.rows[r][1], C.rows[r][2], C.rows[r][3], C.rows[r][4], C.rows[r][5]>>
             /\ C.rows[r][1] = Shown(da, c, r)
             /\ \A d \in 2..5 : C.rows[r][d] \in Floats \cup {Null}
  <2> DEFINE x == NumberOf(da, m, r)
             y == Found(db, names, ColIdx(db, measure), KeyByName(da, names, r))
  <2>1. C.rows[r] = <<Shown(da, c, r), x, y, Change(x, y), PctChange(x, y)>>
    BY <1>1, <1>4 DEF CompareForm
  <2>2. x \in Floats \cup {Null}
    BY <1>2, <1>4, NumberOfType
  <2>3. y \in Floats \cup {Null}
    BY ColIdxIs, FoundType
  <2> HIDE DEF x, y
  <2>4. Change(x, y) \in Floats \cup {Null} /\ PctChange(x, y) \in Floats \cup {Null}
    BY <2>2, <2>3, ChangeType
  <2>5. \A d \in 2..5 : d = 2 \/ d = 3 \/ d = 4 \/ d = 5
    OBVIOUS
  <2> QED
    BY <2>1, <2>2, <2>3, <2>4, <2>5
<1>6. \A d \in 1..5 : d = 1 \/ d = 2 \/ d = 3 \/ d = 4 \/ d = 5
  OBVIOUS
<1>7. \A d \in 2..5 : C.cols[d].kind = "float" /\ C.cols[d] = Column(C.cols[d].name, C.cols[d].dtype, C.cols[d].kind)
  <2>1. \A d \in 2..5 : d = 2 \/ d = 3 \/ d = 4 \/ d = 5
    OBVIOUS
  <2> QED
    BY <1>3, <2>1, FloatColumnIs
<1>8. C.cols[1].kind = "str" /\ C.cols[1] = Column(C.cols[1].name, C.cols[1].dtype, C.cols[1].kind)
  BY <1>2, <1>3, ShownIs DEF Column
<1>9. \A d \in 1..5 : C.cols[d] = Column(C.cols[d].name, C.cols[d].dtype, C.cols[d].kind) /\ C.cols[d].kind \in Kinds
  <2>1. \A d \in 1..5 : d = 1 \/ d \in 2..5
    OBVIOUS
  <2> QED
    BY <1>7, <1>8, <2>1 DEF Kinds
<1>10. \A d \in 1..5 : \E t \in TextKinds : \A r \in Rows(C) : C.rows[r][d] \in Family(C.cols[d].kind, t)
  <2> TAKE d \in 1..5
  <2>1. CASE d = 1
    <3>1. PICK t \in TextKinds : \A r \in Rows(da) : Shown(da, c, r) \in Family("str", t)
      BY <1>2, ShownIs
    <3> QED
      BY <1>4, <1>5, <1>8, <2>1, <3>1
  <2>2. CASE d \in 2..5
    <3>1. "str" \in TextKinds
      BY DEF TextKinds
    <3> QED
      BY <1>5, <1>7, <2>2, <3>1, FloatFamily
  <2> QED
    BY <2>1, <2>2
<1>11. DatasetOK(C) /\ Len(C.cols) = 5
  BY <1>3, <1>4, <1>5, <1>9, <1>10, FiveOK
<1> QED
  BY <1>4, <1>11 DEF C

-----------------------------------------------------------------------------
\* What a row of JSON can hold in a column whose texts are of kind t.
Raw(t) == {Null} \cup Ints \cup Floats \cup Texts(t)

TableOK(table) ==
  /\ IsSequence(table.names) /\ IsSequence(table.rows)
  /\ \A r \in 1..Len(table.rows) : IsSequence(table.rows[r]) /\ Len(table.rows[r]) = Len(table.names)
  /\ \A c \in 1..Len(table.names) : \E t \in TextKinds :
       \A r \in 1..Len(table.rows) : table.rows[r][c] \in Raw(t)

KindAt(table, c) == KindOf({table.rows[r][c] : r \in DOMAIN table.rows})

LEMMA RawKinds ==
  ASSUME NEW t \in TextKinds, NEW v \in Raw(t)
  PROVE  \/ v = Null /\ v[1] = "null"
         \/ v \in Ints /\ v[1] = "int" /\ v # Null /\ AsFloat(v) \in Floats
         \/ v \in Floats /\ v[1] = "float" /\ v # Null /\ AsFloat(v) = v
         \/ v \in Texts(t) /\ v[1] \in TextKinds /\ v # Null
<1>1. CASE v = Null
  BY <1>1 DEF Null
<1>2. CASE v \in Ints
  <2>1. v[1] = "int" /\ v # Null /\ v = IntCell(v[3]) /\ v[3] \in Int
    BY <1>2, CellKinds, OpsConstantsOK
  <2>2. AsFloat(v) = FloatCell(v[3]) /\ FloatCell(v[3]) \in Floats
    BY <2>1, FloatsDiffer DEF AsFloat, IntCell, FloatCell
  <2> QED
    BY <1>2, <2>1, <2>2
<1>3. CASE v \in Floats
  <2>1. v[1] = "float" /\ v # Null
    BY <1>3, CellKinds
  <2>2. AsFloat(v) = v
    BY <2>1 DEF AsFloat
  <2> QED
    BY <1>3, <2>1, <2>2
<1>4. CASE v \in Texts(t)
  BY <1>4, CellKinds
<1> QED
  BY <1>1, <1>2, <1>3, <1>4 DEF Raw

LEMMA BuiltColumn ==
  ASSUME NEW n \in Nat, NEW col, NEW t \in TextKinds, \A r \in 1..n : col[r] \in Raw(t),
         NEW kind, kind = KindOf({col[r] : r \in 1..n})
  PROVE  /\ kind \in Kinds
         /\ \A r \in 1..n : BuiltCell(kind, col[r]) \in Family(kind, t)
         /\ n # 0 /\ (\A r \in 1..n : col[r] \in Floats) =>
              kind = "float" /\ \A r \in 1..n : BuiltCell(kind, col[r]) = col[r]
<1> DEFINE values == {col[r] : r \in 1..n}
           types == {v[1] : v \in values} \ {"null"}
<1>1. kind = (CASE types = {"int"} -> "int"
                [] types # {"int"} /\ types \cap {"int", "float"} # {} -> "float"
                [] OTHER -> "str")
  BY DEF KindOf
<1>2. \A r \in 1..n : col[r][1] = "null" \/ col[r][1] \in types
  OBVIOUS
<1>3. \A x \in types : \E r \in 1..n : col[r][1] = x
  OBVIOUS
<1> HIDE DEF types
<1>4. CASE types = {"int"}
  <2>1. kind = "int"
    BY <1>1, <1>4
  <2>2. \A r \in 1..n : col[r] \in {Null} \cup Ints
    <3> TAKE r \in 1..n
    <3>1. col[r][1] = "null" \/ col[r][1] = "int"
      BY <1>2, <1>4
    <3>2. col[r] \in Raw(t)
      OBVIOUS
    <3> DEFINE v == col[r]
    <3> HIDE DEF v
    <3>3. v[1] = "null" \/ v[1] = "int"
      BY <3>1 DEF v
    <3>4. v \in Raw(t)
      BY <3>2 DEF v
    <3>5. v \in {Null} \cup Ints
      BY <3>3, <3>4, RawKinds DEF TextKinds
    <3> QED
      BY <3>5 DEF v
  <2>3. \A r \in 1..n : BuiltCell(kind, col[r]) = col[r]
    BY <2>1 DEF BuiltCell
  <2>4. n # 0 => ~ \A r \in 1..n : col[r] \in Floats
    <3>1. PICK r \in 1..n : col[r][1] = "int"
      BY <1>3, <1>4
    <3> QED
      BY <3>1, CellKinds
  <2> QED
    BY <2>1, <2>2, <2>3, <2>4 DEF Kinds, Family
<1>5. CASE types # {"int"} /\ types \cap {"int", "float"} # {}
  <2>1. kind = "float"
    BY <1>1, <1>5
  <2>2. ASSUME NEW r \in 1..n
        PROVE  BuiltCell(kind, col[r]) \in {Null} \cup Floats /\ (col[r] \in Floats => BuiltCell(kind, col[r]) = col[r])
    <3> DEFINE v == col[r]
    <3>1. v \in Raw(t)
      OBVIOUS
    <3> HIDE DEF v
    <3>2. CASE IsNumber(v)
      <4>1. BuiltCell(kind, v) = AsFloat(v)
        BY <2>1, <3>2 DEF BuiltCell
      <4>2. AsFloat(v) \in Floats /\ (v \in Floats => AsFloat(v) = v)
        <5>1. v[1] = "int" \/ v[1] = "float"
          BY <3>2 DEF IsNumber
        <5>2. v \in Floats => v[1] = "float"
          BY CellKinds
        <5> QED
          BY <3>1, <5>1, <5>2, RawKinds DEF TextKinds
      <4> QED
        BY <4>1, <4>2 DEF v
    <3>3. CASE ~ IsNumber(v)
      <4>1. BuiltCell(kind, v) = Null
        BY <2>1, <3>3 DEF BuiltCell
      <4>2. v \notin Floats
        BY <3>3, CellKinds DEF IsNumber
      <4> QED
        BY <4>1, <4>2 DEF v
    <3> QED
      BY <3>2, <3>3
  <2> QED
    BY <2>1, <2>2 DEF Kinds, Family
<1>6. CASE types # {"int"} /\ types \cap {"int", "float"} = {}
  <2>1. kind = "str"
    BY <1>1, <1>6
  <2>2. ASSUME NEW r \in 1..n
        PROVE  col[r] \in {Null} \cup Texts(t) /\ col[r] \notin Floats
    <3> DEFINE v == col[r]
    <3>1. v[1] # "int" /\ v[1] # "float"
      BY <1>2, <1>6
    <3>2. v \in Raw(t)
      OBVIOUS
    <3> HIDE DEF v
    <3>3. v \in {Null} \cup Texts(t) /\ v \notin Floats
      BY <3>1, <3>2, RawKinds, CellKinds
    <3> QED
      BY <3>3 DEF v
  <2>3. \A r \in 1..n : BuiltCell(kind, col[r]) = col[r]
    BY <2>1 DEF BuiltCell
  <2>4. n # 0 => ~ \A r \in 1..n : col[r] \in Floats
    BY <2>2
  <2> QED
    BY <2>1, <2>2, <2>3, <2>4 DEF Kinds, Family
<1> QED
  BY <1>4, <1>5, <1>6

LEMMA BuiltOK ==
  ASSUME NEW table, TableOK(table), NEW D, D = Built(table)
  PROVE  /\ DatasetOK(D)
         /\ Len(D.rows) = Len(table.rows) /\ Len(D.cols) <= Len(table.names)
         /\ Len(table.rows) # 0 =>
              /\ Len(D.cols) = Len(table.names)
              /\ \A r \in 1..Len(table.rows), c \in 1..Len(table.names) :
                   D.rows[r][c] = BuiltCell(KindAt(table, c), table.rows[r][c])
<1> DEFINE n == Len(table.rows)
           w == Len(table.names)
           kind == [c \in DOMAIN table.names |-> KindOf({table.rows[r][c] : r \in DOMAIN table.rows})]
<1>1. DOMAIN table.rows = 1..n /\ n \in Nat /\ DOMAIN table.names = 1..w /\ w \in Nat
  BY SequenceIs DEF TableOK
<1>2. CASE table.rows = << >>
  <2>1. D = [cols |-> << >>, rows |-> << >>]
    BY <1>2 DEF Built
  <2>2. D.cols = << >> /\ D.rows = << >>
    BY <2>1
  <2>3. IsSequence(D.cols) /\ IsSequence(D.rows) /\ Len(D.cols) = 0 /\ Len(D.rows) = 0
    BY <2>2, Short
  <2>4. Rows(D) = {} /\ Cols(D) = {}
    BY <2>3 DEF Rows, Cols
  <2>5. DatasetOK(D)
    BY <2>3, <2>4 DEF DatasetOK
  <2>6. n = 0
    BY <1>2, Short
  <2> QED
    BY <1>1, <2>3, <2>5, <2>6
<1>3. CASE table.rows # << >>
  <2>1. D = [cols |-> [c \in DOMAIN table.names |-> Column(table.names[c], kind[c], kind[c])],
             rows |-> [r \in DOMAIN table.rows |-> [c \in DOMAIN table.names |-> BuiltCell(kind[c], table.rows[r][c])]]]
    BY <1>3 DEF Built
  <2>2. /\ D.cols = [c \in 1..w |-> Column(table.names[c], kind[c], kind[c])]
        /\ D.rows = [r \in 1..n |-> [c \in 1..w |-> BuiltCell(kind[c], table.rows[r][c])]]
    BY <1>1, <2>1
  <2>3. \A c \in 1..w : kind[c] = KindAt(table, c)
    BY <1>1 DEF KindAt
  <2> HIDE DEF kind
  <2>4. \A c \in 1..w : D.cols[c] = Column(table.names[c], kind[c], kind[c])
    BY <2>2
  <2>5. \A r \in 1..n : \A c \in 1..w : D.rows[r][c] = BuiltCell(kind[c], table.rows[r][c])
    BY <2>2
  <2>6. IsSequence(D.cols) /\ Len(D.cols) = w /\ IsSequence(D.rows) /\ Len(D.rows) = n
    <3>1. D.cols = [c \in 1..w |-> D.cols[c]] /\ D.rows = [r \in 1..n |-> D.rows[r]]
      BY <2>2
    <3> HIDE DEF n, w
    <3> QED
      BY <1>1, <3>1, Listed
  <2>7. \A r \in 1..n : IsSequence(D.rows[r]) /\ Len(D.rows[r]) = w
    <3> TAKE r \in 1..n
    <3> DEFINE s == D.rows[r]
    <3>1. s = [c \in 1..w |-> s[c]]
      BY <2>2
    <3> HIDE DEF s, w
    <3>2. IsSequence(s) /\ Len(s) = w
      BY <1>1, <3>1, Listed
    <3> QED
      BY <3>2 DEF s
  <2>8. Rows(D) = 1..n /\ Cols(D) = 1..w
    BY <2>6 DEF Rows, Cols
  <2>9. ASSUME NEW c \in 1..w
        PROVE  /\ D.cols[c] = Column(D.cols[c].name, D.cols[c].dtype, D.cols[c].kind) /\ D.cols[c].kind \in Kinds
               /\ \E t \in TextKinds : \A r \in 1..n : D.rows[r][c] \in Family(D.cols[c].kind, t)
    <3>1. PICK t \in TextKinds : \A r \in 1..n : table.rows[r][c] \in Raw(t)
      BY DEF TableOK
    <3> DEFINE col == [r \in 1..n |-> table.rows[r][c]]
    <3>2. {col[r] : r \in 1..n} = {table.rows[r][c] : r \in DOMAIN table.rows}
      BY <1>1
    <3>3. kind[c] = KindOf({col[r] : r \in 1..n}) /\ \A r \in 1..n : col[r] \in Raw(t)
      BY <2>3, <3>1, <3>2 DEF KindAt
    <3>4. \A r \in 1..n : col[r] = table.rows[r][c]
      OBVIOUS
    <3> DEFINE k == kind[c]
    <3> HIDE DEF col, n, k
    <3>5. n \in Nat /\ k = KindOf({col[r] : r \in 1..n}) /\ \A r \in 1..n : col[r] \in Raw(t)
      BY <1>1, <3>3 DEF k
    <3>6. k \in Kinds /\ \A r \in 1..n : BuiltCell(k, col[r]) \in Family(k, t)
      BY <3>5, BuiltColumn
    <3>7. D.cols[c] = Column(table.names[c], k, k)
      BY <2>4 DEF k
    <3>8. D.cols[c].kind = k /\ D.cols[c] = Column(D.cols[c].name, D.cols[c].dtype, D.cols[c].kind)
      BY <3>7 DEF Column
    <3>9. \A r \in 1..n : D.rows[r][c] = BuiltCell(k, col[r])
      BY <2>5, <3>4 DEF k, n
    <3> QED
      BY <3>6, <3>8, <3>9
  <2>10. DatasetOK(D)
    BY <2>6, <2>7, <2>8, <2>9 DEF DatasetOK
  <2> QED
    BY <2>3, <2>5, <2>6, <2>10
<1> QED
  BY <1>2, <1>3

-----------------------------------------------------------------------------
(***************************************************************************)
(* dataset_period_over_period: a row for each bucket, in order.            *)
(***************************************************************************)
BucketAt(ds, date, period, r) == Bucket(DateOf(ds.rows[r][date]), period)

BucketSet(ds, date, period) == {BucketAt(ds, date, period, r) : r \in Rows(ds)}

BucketsOf(ds, date, period) == Arranged(BucketSet(ds, date, period), TextBefore)

\* The rows of a bucket that count.
Counted(ds, date, period, m, b) ==
  {r \in Rows(ds) : BucketAt(ds, date, period, r) = b /\ IsNumber(Json(ds.rows[r][m]))}

LEMMA BucketType ==
  ASSUME NEW t \in TextKinds, NEW v \in Texts(t), NEW period \in Periods
  PROVE  Bucket(v, period) \in Texts(IF t # "str" THEN "digits" ELSE IF period = "month" THEN "str" ELSE period)
<1>1. period \in {"month", "quarter", "year"}
  BY OpsConstantsOK
<1>2. v # Empty => v = <<t, v[2], v[3]>> /\ v[1] = t /\ v[2] \in Int /\ v[3] \in Int
  BY DEF Texts
<1>3. CASE v = Empty
  BY <1>3 DEF Bucket, Texts
<1>4. CASE v # Empty /\ t # "str"
  <2>1. Bucket(v, period) = <<"digits", 0, 0>>
    BY <1>2, <1>4 DEF Bucket
  <2> QED
    BY <1>4, <2>1 DEF Texts
<1>5. CASE v # Empty /\ t = "str" /\ period = "month"
  BY <1>2, <1>5 DEF Bucket
<1>6. CASE v # Empty /\ t = "str" /\ period = "quarter"
  <2>1. Bucket(v, period) = <<"quarter", 0, (v[3] + 2) \div 3>>
    BY <1>2, <1>6 DEF Bucket
  <2>2. (v[3] + 2) \div 3 \in Int
    BY <1>2, <1>6
  <2> QED
    BY <1>6, <2>1, <2>2 DEF Texts
<1>7. CASE v # Empty /\ t = "str" /\ period = "year"
  <2>1. Bucket(v, period) = <<"year", 0, (v[3] + 11) \div 12>>
    BY <1>2, <1>7 DEF Bucket
  <2>2. (v[3] + 11) \div 12 \in Int
    BY <1>2, <1>7
  <2> QED
    BY <1>7, <2>1, <2>2 DEF Texts
<1> QED
  BY <1>1, <1>3, <1>4, <1>5, <1>6, <1>7

LEMMA BucketsAre ==
  ASSUME NEW ds, DatasetOK(ds), NEW date \in Cols(ds), NEW period \in Periods
  PROVE  /\ Enumerates(BucketsOf(ds, date, period), BucketSet(ds, date, period))
         /\ Len(BucketsOf(ds, date, period)) <= Len(ds.rows)
         /\ \E t \in TextKinds : BucketSet(ds, date, period) \in SUBSET Texts(t)
<1> DEFINE S == BucketSet(ds, date, period)
           kind == ds.cols[date].kind
<1>1. PICK t \in TextKinds : \A r \in Rows(ds) : ds.rows[r][date] \in Family(kind, t)
  BY DEF DatasetOK
<1> DEFINE u == IF kind = "str" /\ t = "str" THEN IF period = "month" THEN "str" ELSE period ELSE "digits"
<1>2. u \in TextKinds
  BY OpsConstantsOK DEF TextKinds
<1>3. ASSUME NEW r \in Rows(ds)
      PROVE  BucketAt(ds, date, period, r) \in Texts(u)
  <2> DEFINE v == ds.rows[r][date]
  <2>1. v \in Family(kind, t) /\ kind \in Kinds
    BY <1>1 DEF DatasetOK
  <2> HIDE DEF v, kind
  <2>2. CASE IsText(v)
    <3>1. v \in Texts(t) /\ kind = "str"
      <4>1. v # Null /\ v \notin Ints /\ v \notin Floats
        BY <2>2, CellKinds DEF IsText, Null
      <4> QED
        BY <2>1, <4>1 DEF Family, Kinds
    <3>2. BucketAt(ds, date, period, r) = Bucket(v, period)
      BY <2>2 DEF BucketAt, DateOf, v
    <3> QED
      BY <3>1, <3>2, BucketType
  <2>3. CASE ~ IsText(v)
    <3>1. BucketAt(ds, date, period, r) = Bucket(Empty, period)
      BY <2>3 DEF BucketAt, DateOf, v
    <3>2. Bucket(Empty, period) = Empty
      BY DEF Bucket
    <3> QED
      BY <3>1, <3>2 DEF Texts
  <2> QED
    BY <2>2, <2>3
<1>4. S \in SUBSET Texts(u)
  <2> HIDE DEF u
  <2> QED
    BY <1>3 DEF BucketSet
<1>5. IsFiniteSet(S) /\ Cardinality(S) <= Len(ds.rows)
  <2> DEFINE f == [r \in Rows(ds) |-> BucketAt(ds, date, period, r)]
  <2>1. DOMAIN f = Rows(ds) /\ S = {f[r] : r \in Rows(ds)}
    BY DEF BucketSet
  <2> HIDE DEF f, S
  <2> QED
    BY <2>1, RowsFinite, ImageFinite
<1> HIDE DEF S, u
<1>6. Enumerates(Arranged(S, TextBefore), S)
  BY <1>4, <1>5, TextsInOrder
<1> QED
  BY <1>2, <1>4, <1>5, <1>6 DEF BucketsOf, S, Enumerates

\* What period-over-period makes.
PeriodForm(P, ds, date, period, m) ==
  LET buckets == BucketsOf(ds, date, period) IN
    /\ Len(P.rows) = Len(buckets)
    /\ \A i \in 1..Len(buckets) : P.rows[i][2] = Total(ds, m, Counted(ds, date, period, m, buckets[i]))

LEMMA PeriodOK ==
  ASSUME NEW ds, DatasetOK(ds), NEW date \in Cols(ds), NEW period \in Periods, NEW m \in Cols(ds)
  PROVE  LET P == PeriodOverPeriod(ds, date, period, m) IN
           /\ DatasetOK(P) /\ Len(P.rows) <= Len(ds.rows) /\ Len(P.cols) <= 5
           /\ Len(P.rows) # 0 => Len(P.cols) = 5
           /\ PeriodForm(P, ds, date, period, m)
<1> DEFINE buckets == BucketsOf(ds, date, period)
           Of(i) == Total(ds, m, Counted(ds, date, period, m, buckets[i]))
           Since(i) == Minus(Of(i), Of(i - 1))
           name == ds.cols[m].name
           names == <<<<"period_bucket">>, name, name \o <<"prior">>, name \o <<"delta">>, name \o <<"pct_delta">>>>
           Rest(i) == IF i = 1 THEN <<Null, Null, Null>>
                      ELSE <<Of(i - 1), Since(i),
                             IF Of(i - 1) \in Zeros THEN Null ELSE Percent(Since(i), Of(i - 1))>>
           Row(i) == <<buckets[i], Of(i)>> \o Rest(i)
           n == Len(buckets)
           table == [names |-> names, rows |-> [i \in 1..n |-> Row(i)]]
           P == PeriodOverPeriod(ds, date, period, m)
<1>1. /\ n \in Nat /\ DOMAIN buckets = 1..n /\ n <= Len(ds.rows)
      /\ \A i \in 1..n : buckets[i] \in BucketSet(ds, date, period)
  BY BucketsAre DEF Enumerates
<1>2. P = Built(table)
  BY <1>1 DEF PeriodOverPeriod, BucketsOf, BucketSet, BucketAt, Counted
<1> HIDE DEF P
<1>3. \A i \in 1..n : Of(i) \in Floats
  <2> TAKE i \in 1..n
  <2> DEFINE R == Counted(ds, date, period, m, buckets[i])
  <2> HIDE DEF R
  <2> QED
    BY TotalIs DEF R
<1> HIDE DEF Of
<1>4. ASSUME NEW i \in 1..n
      PROVE  \E a, b, c \in Floats \cup {Null} : Row(i) = <<buckets[i], Of(i), a, b, c>>
  <2>1. CASE i = 1
    <3>1. Row(i) = <<buckets[i], Of(i)>> \o <<Null, Null, Null>>
      BY <2>1
    <3> HIDE DEF Row
    <3> QED
      BY <3>1, TwoAndThree
  <2>2. CASE i # 1
    <3>1. i - 1 \in 1..n
      BY <1>1, <2>2
    <3> DEFINE x == Of(i)
               y == Of(i - 1)
               z == IF y \in Zeros THEN Null ELSE Percent(Minus(x, y), y)
    <3>2. x \in Floats /\ y \in Floats
      BY <1>3, <3>1
    <3>3. Row(i) = <<buckets[i], x>> \o <<y, Minus(x, y), z>>
      BY <2>2
    <3> HIDE DEF x, y, Row
    <3>4. Minus(x, y) \in Floats /\ (y = NaN => Minus(x, y) = NaN)
      BY <3>2, MinusType
    <3>5. z \in Floats \cup {Null}
      BY <3>2, <3>4, PercentType
    <3> HIDE DEF z
    <3>6. Row(i) = <<buckets[i], x, y, Minus(x, y), z>>
      BY <3>3, TwoAndThree
    <3> QED
      BY <3>2, <3>4, <3>5, <3>6 DEF x
  <2> QED
    BY <2>1, <2>2
<1> HIDE DEF Row, names, buckets
<1>5. table.names = names /\ table.rows = [i \in 1..n |-> Row(i)]
  OBVIOUS
<1>6. IsSequence(names) /\ Len(names) = 5
  BY Five DEF names
<1>7. IsSequence(table.rows) /\ Len(table.rows) = n /\ DOMAIN table.rows = 1..n
  <2>1. table.rows = [i \in 1..n |-> table.rows[i]]
    BY <1>5
  <2> HIDE DEF table, n
  <2> QED
    BY <1>1, <2>1, Listed
<1>8. \A i \in 1..n : table.rows[i] = Row(i)
  BY <1>5
<1> HIDE DEF table, n
<1>9. PICK t \in TextKinds : BucketSet(ds, date, period) \in SUBSET Texts(t)
  BY BucketsAre
<1>10. ASSUME NEW i \in 1..n
       PROVE  /\ IsSequence(table.rows[i]) /\ Len(table.rows[i]) = 5
              /\ table.rows[i][1] \in Texts(t) /\ table.rows[i][2] = Of(i)
              /\ \A c \in 2..5 : table.rows[i][c] \in Floats \cup {Null}
  <2>1. PICK a, b, c \in Floats \cup {Null} : Row(i) = <<buckets[i], Of(i), a, b, c>>
    BY <1>4
  <2>2. table.rows[i] = <<buckets[i], Of(i), a, b, c>>
    BY <1>8, <2>1
  <2>3. \A d \in 2..5 : d = 2 \/ d = 3 \/ d = 4 \/ d = 5
    OBVIOUS
  <2>4. buckets[i] \in Texts(t)
    BY <1>1, <1>9
  <2> QED
    BY <1>3, <2>2, <2>3, <2>4, Five
<1>11. TableOK(table)
  <2>1. \A c \in 1..5 : \A i \in 1..n : table.rows[i][c] \in Raw(t)
    <3>1. \A c \in 1..5 : c = 1 \/ c \in 2..5
      OBVIOUS
    <3> QED
      BY <1>10, <3>1 DEF Raw
  <2> QED
    BY <1>5, <1>6, <1>7, <1>10, <2>1 DEF TableOK
<1>12. /\ DatasetOK(P) /\ Len(P.rows) = n /\ Len(P.cols) <= 5
       /\ n # 0 => /\ Len(P.cols) = 5
                   /\ \A r \in 1..n, c \in 1..5 : P.rows[r][c] = BuiltCell(KindAt(table, c), table.rows[r][c])
  <2>1. /\ DatasetOK(P)
        /\ Len(P.rows) = Len(table.rows) /\ Len(P.cols) <= Len(table.names)
        /\ Len(table.rows) # 0 =>
             /\ Len(P.cols) = Len(table.names)
             /\ \A r \in 1..Len(table.rows), c \in 1..Len(table.names) :
                  P.rows[r][c] = BuiltCell(KindAt(table, c), table.rows[r][c])
    BY ONLY <1>2, <1>11, BuiltOK
  <2> HIDE DEF Built, TableOK, KindAt
  <2>2. Len(table.rows) = n /\ Len(table.names) = 5
    BY ONLY <1>5, <1>6, <1>7
  <2> QED
    BY ONLY <2>1, <2>2
<1>13. \A i \in 1..n : P.rows[i][2] = Of(i)
  <2> SUFFICES ASSUME NEW i \in 1..n PROVE P.rows[i][2] = Of(i)
    OBVIOUS
  <2> DEFINE col == [r \in 1..n |-> table.rows[r][2]]
             k == KindAt(table, 2)
  <2>1. \A r \in 1..n : col[r] = Of(r) /\ col[r] \in Floats /\ col[r] = table.rows[r][2]
    BY <1>3, <1>10
  <2>2. k = KindOf({col[r] : r \in 1..n})
    BY <1>7 DEF KindAt
  <2>3. n # 0
    BY <1>1
  <2>4. P.rows[i][2] = BuiltCell(k, table.rows[i][2])
    BY <1>12, <2>3
  <2> HIDE DEF col, k
  <2>5. \A r \in 1..n : col[r] \in Raw(t)
    BY <2>1 DEF Raw
  <2>6. n \in Nat
    BY <1>1
  <2>7. k = "float" /\ \A r \in 1..n : BuiltCell(k, col[r]) = col[r]
    <3>1. \A r \in 1..n : col[r] \in Floats
      BY <2>1
    <3> QED
      BY ONLY <2>2, <2>3, <2>5, <2>6, <3>1, t \in TextKinds, BuiltColumn
  <2> QED
    BY <2>1, <2>4, <2>7
<1>14. PeriodForm(P, ds, date, period, m)
  BY <1>12, <1>13 DEF PeriodForm, Of, n, buckets
<1> QED
  BY <1>1, <1>12, <1>14 DEF P, n

-----------------------------------------------------------------------------
\* What each kernel has made of the dataset it was given.
AggregateMade(s, i) ==
  LET p == s[s[i].parent]  op == s[i].op IN
    /\ s[i].parent # 0 /\ ColumnsOf(p, op.by) /\ \A j \in 1..Len(op.by) : op.by[j] \in Named(p)
    /\ op.f \in AggFns /\ op.m \in Named(p)
    /\ AggregateForm(s[i], p, op.by, op.f, op.m)

TopMade(s, i) ==
  LET p == s[s[i].parent]  op == s[i].op IN
    /\ s[i].parent # 0 /\ op.c \in Named(p) /\ op.bottom \in BOOLEAN /\ op.n \in Nat
    /\ \E R \in TopRows(p, op.c, op.bottom, op.n) : s[i].rows = Selected(p, Ascending(R)).rows

PivotMade(s, i) ==
  LET p == s[s[i].parent]  op == s[i].op IN
    /\ s[i].parent # 0 /\ op.row \in Cols(p) /\ op.col \in Cols(p) /\ op.m \in Cols(p)
    /\ PivotForm(s[i], p, op.row, op.col, op.m, op.f)

CompareMade(s, i) ==
  LET p == s[s[i].parent]  op == s[i].op IN
    /\ s[i].parent # 0 /\ op.other \in 1..(i - 1)
    /\ \E c, m \in Named(p) :
         /\ op.names = <<p.cols[c].name>> /\ op.measure = p.cols[m].name
         /\ CompareForm(s[i], p, s[op.other], c, op.names, m, op.measure)

PeriodMade(s, i) ==
  LET p == s[s[i].parent]  op == s[i].op IN
    /\ s[i].parent # 0 /\ op.m \in Cols(p)
    /\ Len(s[i].rows) # 0 => Len(s[i].cols) = 5
    /\ \E date \in Cols(p), period \in Periods : PeriodForm(s[i], p, date, period, op.m)

DrillMade(s, i) ==
  LET op == s[i].op  g == s[op.of] IN
    /\ s[i].parent # 0 /\ op.of \in 1..(i - 1) /\ op.r \in Rows(g)
    /\ g.parent # 0 /\ Len(s[g.parent].rows) > Len(g.rows) => s[i].parent = g.parent
    /\ s[i].rows = Drilled(s[s[i].parent], GroupRow(g, op.r)).rows

\* What each dataset is to its parent, by the kernel that made it.
Faithful(s, i) ==
  /\ s[i].op.name = "aggregate" => AggregateMade(s, i)
  /\ s[i].op.name = "top_n" => TopMade(s, i)
  /\ s[i].op.name = "pivot" => PivotMade(s, i)
  /\ s[i].op.name = "compare" => CompareMade(s, i)
  /\ s[i].op.name = "period" => PeriodMade(s, i)
  /\ s[i].op.name = "drill" => DrillMade(s, i)

\* A kernel adds at most one row or column to what it was given.
Roomy(s, i) ==
  /\ Len(s[i].rows) + (MaxSets + 1 - i) < Half
  /\ Len(s[i].cols) + (MaxSets + 1 - i) < Half

\* What holds of the dataset at place i.
SetOK(s, i) == DatasetOK(s[i]) /\ s[i].parent \in 0..(i - 1) /\ Roomy(s, i) /\ Faithful(s, i)

\* The inductive invariant.
IInv == IsSequence(sets) /\ Len(sets) <= MaxSets + 1 /\ \A i \in 1..Len(sets) : SetOK(sets, i)

LEMMA Appended ==
  ASSUME NEW s, IsSequence(s), NEW e
  PROVE  /\ IsSequence(Append(s, e)) /\ Len(Append(s, e)) = Len(s) + 1 /\ Len(s) \in Nat
         /\ \A i \in 1..Len(s) : Append(s, e)[i] = s[i]
         /\ Append(s, e)[Len(s) + 1] = e
<1> DEFINE U == ToSet(s) \cup {e}
           u == Append(s, e)
<1>1. s \in Seq(U) /\ e \in U
  BY SequenceIs DEF IsSequence, ToSet
<1> HIDE DEF U
<1>2. /\ u \in Seq(U) /\ Len(u) = Len(s) + 1 /\ Len(s) \in Nat
      /\ \A i \in 1..Len(s) : u[i] = s[i]
      /\ u[Len(s) + 1] = e
  BY <1>1
<1>3. IsSequence(u)
  <2> HIDE DEF u
  <2>1. u = [i \in 1..Len(u) |-> u[i]] /\ Len(u) \in Nat
    BY <1>2
  <2> QED
    BY <2>1, Listed
<1> QED
  BY <1>2, <1>3

\* What was said of a dataset stays true when others are added.
LEMMA SetStays ==
  ASSUME NEW s, NEW u, NEW i \in Nat, i # 0, \A j \in 1..i : u[j] = s[j] /\ SetOK(s, j)
  PROVE  SetOK(u, i)
<1>1. u[i] = s[i] /\ s[i].parent \in 0..(i - 1) /\ SetOK(s, i)
  BY DEF SetOK
<1>2. s[i].parent # 0 => u[s[i].parent] = s[s[i].parent]
  BY <1>1
<1>3. \A j \in 1..(i - 1) : u[j] = s[j]
  OBVIOUS
<1>4. AggregateMade(s, i) => AggregateMade(u, i)
  BY <1>1, <1>2, Zenon DEF AggregateMade
<1>5. TopMade(s, i) => TopMade(u, i)
  BY <1>1, <1>2, Zenon DEF TopMade
<1>6. PivotMade(s, i) => PivotMade(u, i)
  BY <1>1, <1>2, Zenon DEF PivotMade
<1>7. CompareMade(s, i) => CompareMade(u, i)
  BY <1>1, <1>2, <1>3, Zenon DEF CompareMade
<1>8. PeriodMade(s, i) => PeriodMade(u, i)
  BY <1>1, <1>2, Zenon DEF PeriodMade
<1>9. DrillMade(s, i) => DrillMade(u, i)
  <2> SUFFICES ASSUME DrillMade(s, i) PROVE DrillMade(u, i)
    OBVIOUS
  <2> DEFINE o == s[i].op.of
  <2>1. o \in 1..(i - 1)
    BY DEF DrillMade
  <2>2. u[o] = s[o]
    BY <1>3, <2>1
  <2>3. s[o].parent \in 0..(o - 1)
    BY <2>1 DEF SetOK
  <2>4. s[o].parent # 0 => u[s[o].parent] = s[s[o].parent]
    <3> HIDE DEF o
    <3> QED
      BY <1>3, <2>1, <2>3
  <2> QED
    BY <1>1, <1>2, <2>1, <2>2, <2>4, Zenon DEF DrillMade
<1>10. Faithful(u, i)
  BY <1>1, <1>4, <1>5, <1>6, <1>7, <1>8, <1>9 DEF SetOK, Faithful
<1> QED
  BY <1>1, <1>10 DEF SetOK, Roomy
-----------------------------------------------------------------------------
\* Parents come before their children.
(***************************************************************************)
(* The dataset that drill goes back to. DetailOf is a recursive function   *)
(* too: Climbs names its graph.                                            *)
(***************************************************************************)
Parented(s) == \A j \in 1..Len(s) : s[j].parent \in 0..(j - 1)

\* The search for a dataset of more than l rows, from each of the first n.
Climbs(f, s, l, n) ==
  f = [j \in 0..n |-> IF j = 0 \/ Len(s[j].rows) > l THEN j ELSE f[s[j].parent]]

LEMMA ClimbGrows ==
  ASSUME NEW s, Len(s) \in Nat, Parented(s), NEW l, NEW n \in Nat, n < Len(s), NEW f, Climbs(f, s, l, n)
  PROVE  \E g : Climbs(g, s, l, n + 1)
<1> DEFINE More(h, j) == IF j = 0 \/ Len(s[j].rows) > l THEN j ELSE h[s[j].parent]
           g == [j \in 0..(n + 1) |-> IF j = n + 1 THEN More(f, j) ELSE f[j]]
<1>1. \A j \in 0..n : f[j] = More(f, j)
  BY DEF Climbs
<1>2. ASSUME NEW j \in 0..(n + 1) PROVE g[j] = More(g, j)
  <2>1. CASE j = 0
    BY <1>1, <2>1
  <2>2. CASE j > 0
    <3> DEFINE p == s[j].parent
    <3>1. p \in 0..(j - 1)
      BY <2>2 DEF Parented
    <3> HIDE DEF p
    <3>2. p \in 0..n /\ p # n + 1
      BY <3>1
    <3>3. g[p] = f[p]
      BY <3>2
    <3>4. g[j] = More(f, j)
      BY <1>1, <2>2
    <3> QED
      BY <2>2, <3>3, <3>4 DEF p
  <2> QED
    BY <2>1, <2>2
<1>3. g = [j \in 0..(n + 1) |-> More(g, j)]
  <2> HIDE DEF More
  <2> QED
    BY <1>2
<1> QED
  BY <1>3 DEF Climbs

LEMMA ClimbExists ==
  ASSUME NEW s, Len(s) \in Nat, Parented(s), NEW l
  PROVE  \E f : Climbs(f, s, l, Len(s))
<1> DEFINE n == Len(s)
           Bad == {m \in Nat : m <= n /\ ~ \E f : Climbs(f, s, l, m)}
<1> HIDE DEF n
<1>1. n \in Nat
  BY DEF n
<1>2. SUFFICES ASSUME n \in Bad PROVE FALSE
  BY <1>1 DEF n
<1>3. PICK m \in Bad : \A j \in Bad : m <= j
  BY <1>2, LeastIndex
<1>4. m # 0
  <2> DEFINE f == [j \in 0..0 |-> 0]
  <2>1. f = [j \in 0..0 |-> IF j = 0 \/ Len(s[j].rows) > l THEN j ELSE f[s[j].parent]]
    OBVIOUS
  <2>2. Climbs(f, s, l, 0)
    BY <2>1 DEF Climbs
  <2> QED
    BY <2>2
<1>5. m - 1 \in Nat /\ (m - 1) \notin Bad /\ m - 1 < n
  BY <1>1, <1>3, <1>4
<1>6. PICK f : Climbs(f, s, l, m - 1)
  BY <1>1, <1>5
<1>7. \E g : Climbs(g, s, l, (m - 1) + 1)
  BY <1>5, <1>6, ClimbGrows DEF n
<1> QED
  BY <1>3, <1>7

\* The search ends at an earlier dataset, or at none.
LEMMA ClimbIs ==
  ASSUME NEW s, Len(s) \in Nat, Parented(s), NEW l, NEW f, Climbs(f, s, l, Len(s)), NEW j \in 0..Len(s)
  PROVE  f[j] \in 0..j
<1> DEFINE Bad == {k \in Nat : k <= Len(s) /\ f[k] \notin 0..k}
<1>1. SUFFICES ASSUME Bad # {} PROVE FALSE
  OBVIOUS
<1>2. PICK k \in Bad : \A i \in Bad : k <= i
  BY <1>1, LeastIndex
<1>3. f[k] = IF k = 0 \/ Len(s[k].rows) > l THEN k ELSE f[s[k].parent]
  BY DEF Climbs
<1>4. k # 0 /\ f[k] = f[s[k].parent]
  BY <1>2, <1>3
<1> DEFINE p == s[k].parent
<1>5. p \in 0..(k - 1)
  BY <1>4 DEF Parented
<1> HIDE DEF p
<1>6. p \notin Bad /\ p <= Len(s) /\ p \in Nat
  BY <1>2, <1>5
<1>7. f[p] \in 0..p
  BY <1>6
<1> QED
  BY <1>2, <1>4, <1>5, <1>7 DEF p

LEMMA DetailIs ==
  ASSUME Len(sets) \in Nat, Parented(sets), NEW i \in 1..Len(sets)
  PROVE  /\ DetailOf(i) \in 0..(i - 1)
         /\ sets[i].parent # 0 /\ Len(sets[sets[i].parent].rows) > Len(sets[i].rows) =>
              DetailOf(i) = sets[i].parent
<1> DEFINE l == Len(sets[i].rows)
           f == CHOOSE h : Climbs(h, sets, l, Len(sets))
           p == sets[i].parent
<1>1. Climbs(f, sets, l, Len(sets))
  BY ClimbExists
<1>2. DetailOf(i) = f[p]
  BY DEF DetailOf, Climbs
<1>3. p \in 0..(i - 1)
  BY DEF Parented
<1> HIDE DEF f, p, l
<1>4. p \in 0..Len(sets)
  BY <1>3
<1>5. f[p] \in 0..p
  BY <1>1, <1>4, ClimbIs
<1>6. f[p] = IF p = 0 \/ Len(sets[p].rows) > l THEN p ELSE f[sets[p].parent]
  BY <1>1, <1>4 DEF Climbs
<1>7. DetailOf(i) \in 0..(i - 1)
  BY <1>2, <1>3, <1>5
<1>8. p # 0 /\ Len(sets[p].rows) > l => DetailOf(i) = p
  BY <1>2, <1>6
<1> QED
  BY <1>7, <1>8 DEF p, l

-----------------------------------------------------------------------------
\* The dataset that a step adds.
(***************************************************************************)
(* Datasets are only added; what was said of the earlier ones stays true.  *)
(***************************************************************************)
LEMMA AddedIs ==
  ASSUME IInv, NEW ds, NEW parent \in 0..Len(sets), NEW op, Added(ds, parent, op)
  PROVE  LET n == Len(sets) + 1 IN
           /\ IsSequence(sets') /\ Len(sets') = n /\ Len(sets) \in Nat
           /\ \A i \in 1..(n - 1) : sets'[i] = sets[i]
           /\ sets'[n].cols = ds.cols /\ sets'[n].rows = ds.rows
           /\ sets'[n].parent = parent /\ sets'[n].op = op
           /\ sets'[parent] = IF parent = 0 THEN sets'[0] ELSE sets[parent]
<1> DEFINE e == [cols |-> ds.cols, rows |-> ds.rows, parent |-> parent, op |-> op]
<1>1. sets' = Append(sets, e) /\ IsSequence(sets)
  BY DEF Added, IInv
<1>2. e.cols = ds.cols /\ e.rows = ds.rows /\ e.parent = parent /\ e.op = op
  OBVIOUS
<1> HIDE DEF e
<1>3. /\ IsSequence(sets') /\ Len(sets') = Len(sets) + 1 /\ Len(sets) \in Nat
      /\ \A i \in 1..Len(sets) : sets'[i] = sets[i]
      /\ sets'[Len(sets) + 1] = e
  BY <1>1, Appended
<1>4. parent # 0 => sets'[parent] = sets[parent]
  BY <1>3
<1>5. (Len(sets) + 1) - 1 = Len(sets)
  BY <1>3
<1> QED
  BY <1>2, <1>3, <1>4, <1>5

LEMMA SameData ==
  ASSUME NEW d, NEW ds, d.cols = ds.cols, d.rows = ds.rows, DatasetOK(ds)
  PROVE  DatasetOK(d)
BY Zenon DEF DatasetOK, Rows, Cols

LEMMA AddedOK ==
  ASSUME IInv, Len(sets) <= MaxSets, NEW ds, DatasetOK(ds), NEW parent \in 0..Len(sets), NEW op, Added(ds, parent, op),
         Len(ds.rows) + (MaxSets - Len(sets)) < Half, Len(ds.cols) + (MaxSets - Len(sets)) < Half,
         Faithful(sets', Len(sets) + 1)
  PROVE  IInv'
<1> DEFINE n == Len(sets) + 1
<1>1. /\ IsSequence(sets') /\ Len(sets') = n /\ Len(sets) \in Nat
      /\ \A i \in 1..(n - 1) : sets'[i] = sets[i]
      /\ sets'[n].cols = ds.cols /\ sets'[n].rows = ds.rows
      /\ sets'[n].parent = parent
  BY AddedIs
<1>2. ASSUME NEW i \in 1..Len(sets)
      PROVE  SetOK(sets', i)
  <2>1. \A j \in 1..i : sets'[j] = sets[j] /\ SetOK(sets, j)
    BY <1>1 DEF IInv
  <2>2. i \in Nat /\ i # 0
    BY <1>1
  <2> QED
    BY <2>1, <2>2, SetStays
<1>3. SetOK(sets', n)
  <2>1. DatasetOK(sets'[n])
    BY <1>1, SameData
  <2>2. Roomy(sets', n)
    <3>1. MaxSets + 1 - n = MaxSets - Len(sets)
      BY <1>1, OpsConstantsOK
    <3> QED
      BY <1>1, <3>1 DEF Roomy
  <2>3. parent \in 0..(n - 1)
    BY <1>1
  <2> QED
    BY <1>1, <2>1, <2>2, <2>3 DEF SetOK
<1>4. \A i \in 1..n : i = n \/ i \in 1..Len(sets)
  BY <1>1
<1>5. n <= MaxSets + 1
  BY <1>1, OpsConstantsOK
<1> QED
  BY <1>1, <1>2, <1>3, <1>4, <1>5 DEF IInv

LEMMA ChildOK ==
  ASSUME IInv, Len(sets) <= MaxSets, NEW i \in 1..Len(sets), NEW ds, DatasetOK(ds), NEW op, Added(ds, i, op),
         Len(ds.rows) <= Len(sets[i].rows) + 1 \/ Len(ds.rows) <= Len(sets[i].cols),
         Len(ds.cols) <= Len(sets[i].cols) \/ Len(ds.cols) <= Len(sets[i].rows) + 1 \/ Len(ds.cols) <= 5,
         Faithful(sets', Len(sets) + 1)
  PROVE  IInv'
<1> DEFINE n == Len(sets)
           a == Len(sets[i].rows)
           b == Len(sets[i].cols)
           x == Len(ds.rows)
           y == Len(ds.cols)
<1>1. n \in Nat /\ i \in 1..n /\ n <= MaxSets /\ SetOK(sets, i)
  BY SequenceIs DEF IInv
<1>2. a \in Nat /\ b \in Nat /\ x \in Nat /\ y \in Nat
  BY <1>1, SequenceIs DEF SetOK, DatasetOK
<1>3. a + (MaxSets + 1 - i) < Half /\ b + (MaxSets + 1 - i) < Half
  BY <1>1 DEF SetOK, Roomy
<1>4. (x <= a + 1 \/ x <= b) /\ (y <= b \/ y <= a + 1 \/ y <= 5)
  OBVIOUS
<1> HIDE DEF n, a, b, x, y
<1>5. x + (MaxSets - n) < Half /\ y + (MaxSets - n) < Half
  BY <1>1, <1>2, <1>3, <1>4, OpsConstantsOK
<1> QED
  BY <1>1, <1>5, AddedOK DEF n, x, y

\* What the invariant says of one dataset.
LEMMA OneOK ==
  ASSUME IInv, NEW i \in 1..Len(sets)
  PROVE  /\ SetOK(sets, i) /\ DatasetOK(sets[i]) /\ Len(sets[i].rows) \in Nat /\ Len(sets[i].cols) \in Nat
         /\ sets[i].parent \in 0..(i - 1)
         /\ Len(sets) \in Nat /\ Len(sets) <= MaxSets => Len(sets[i].rows) < Half
<1>1. Len(sets) \in Nat /\ SetOK(sets, i)
  BY SequenceIs DEF IInv
<1>2. Len(sets[i].rows) \in Nat /\ Len(sets[i].cols) \in Nat
  BY <1>1, SequenceIs DEF SetOK, DatasetOK
<1>3. Len(sets[i].rows) + (MaxSets + 1 - i) < Half
  BY <1>1 DEF SetOK, Roomy
<1> DEFINE a == Len(sets[i].rows)
           n == Len(sets)
<1>4. a \in Nat /\ n \in Nat /\ i \in 1..n /\ a + (MaxSets + 1 - i) < Half
  BY <1>1, <1>2, <1>3
<1> HIDE DEF a, n
<1>5. n <= MaxSets => a < Half
  BY <1>4, OpsConstantsOK
<1> QED
  BY <1>1, <1>2, <1>5 DEF SetOK, a, n

LEMMA TablesAre ==
  ASSUME NEW t \in Tables
  PROVE  TableOK(t) /\ Len(t.names) \in Nat /\ Len(t.rows) \in Nat
         /\ Len(t.names) + MaxSets < Half /\ Len(t.rows) + MaxSets < Half
<1>1. /\ IsSequence(t.names) /\ IsSequence(t.rows)
      /\ Len(t.names) + MaxSets < Half /\ Len(t.rows) + MaxSets < Half
  BY TablesOK
<1>2. /\ Len(t.names) \in Nat /\ Len(t.rows) \in Nat
      /\ DOMAIN t.names = 1..Len(t.names) /\ DOMAIN t.rows = 1..Len(t.rows)
  BY <1>1, SequenceIs
<1>3. \A r \in 1..Len(t.rows) : IsSequence(t.rows[r]) /\ Len(t.rows[r]) = Len(t.names)
  BY <1>2, TablesOK
<1>4. ASSUME NEW r \in 1..Len(t.rows), NEW c \in 1..Len(t.names)
      PROVE  t.rows[r][c] \in Raw("str")
  <2> DEFINE v == t.rows[r][c]
  <2>1. \/ v = Null
        \/ v = Text(v[3]) /\ v[3] \in Nat
        \/ v = FloatCell(v[3]) /\ v[3] \in Int
        \/ v = MinusZero
        \/ v = IntCell(v[3]) /\ v[3] \in (-Half)..(Half - 1)
    BY <1>2, TablesOK
  <2> HIDE DEF v
  <2>2. CASE v = Null
    BY <2>2 DEF Raw, v
  <2>3. CASE v = Text(v[3]) /\ v[3] \in Nat
    <3>1. v \in Texts("str")
      BY <2>3 DEF Texts, Text
    <3> QED
      BY <3>1 DEF Raw, v
  <2>4. CASE v = FloatCell(v[3]) /\ v[3] \in Int
    BY <2>4 DEF Raw, Floats, v
  <2>5. CASE v = IntCell(v[3]) /\ v[3] \in (-Half)..(Half - 1)
    BY <2>5 DEF Raw, Ints, v
  <2>6. CASE v = MinusZero
    BY <2>6, ZeroIs DEF Raw, v
  <2> QED
    BY <2>1, <2>2, <2>3, <2>4, <2>5, <2>6
<1>5. "str" \in TextKinds
  BY DEF TextKinds
<1> QED
  BY <1>1, <1>2, <1>3, <1>4, <1>5 DEF TableOK

LEMMA QueryOK ==
  ASSUME IInv, Len(sets) < MaxSets, Query
  PROVE  IInv'
<1>1. PICK t \in Tables : Added(Built(t), 0, [name |-> "query"])
  BY DEF Query
<1> DEFINE D == Built(t)
           op == [name |-> "query"]
<1>2. DatasetOK(D) /\ Len(D.rows) = Len(t.rows) /\ Len(D.cols) <= Len(t.names)
  BY TablesAre, BuiltOK
<1>3. Added(D, 0, op) /\ op.name = "query"
  BY <1>1
<1> HIDE DEF D, op
<1>4. Len(sets) \in Nat
  BY SequenceIs DEF IInv
<1>5. 0 \in 0..Len(sets)
  BY <1>4
<1>6. sets'[Len(sets) + 1].op = op
  BY <1>3, <1>5, AddedIs
<1>7. Faithful(sets', Len(sets) + 1)
  BY <1>3, <1>6 DEF Faithful
<1> DEFINE x == Len(D.rows)
           y == Len(D.cols)
           n == Len(sets)
<1>8. x \in Nat /\ y \in Nat
  BY <1>2, SequenceIs DEF DatasetOK
<1>9. x + MaxSets < Half /\ y <= Len(t.names) /\ Len(t.names) + MaxSets < Half /\ Len(t.names) \in Nat
  BY <1>2, TablesAre
<1>10. n \in Nat /\ n <= MaxSets
  BY <1>4, OpsConstantsOK
<1> HIDE DEF x, y, n
<1>11. x + (MaxSets - n) < Half /\ y + (MaxSets - n) < Half
  BY <1>8, <1>9, <1>10, OpsConstantsOK
<1> QED
  BY <1>2, <1>3, <1>7, <1>10, <1>11, <1>5, AddedOK DEF n, x, y
-----------------------------------------------------------------------------
(***************************************************************************)
(* Each kernel keeps the invariant.                                        *)
(***************************************************************************)
LEMMA ChildIs ==
  ASSUME IInv, NEW i \in 1..Len(sets), NEW ds, NEW op, Added(ds, i, op), NEW n, n = Len(sets) + 1
  PROVE  /\ sets'[n].cols = ds.cols /\ sets'[n].rows = ds.rows /\ sets'[n].op = op
         /\ sets'[n].parent = i /\ sets'[n].parent # 0 /\ sets'[sets'[n].parent] = sets[i]
         /\ \A j \in 1..Len(sets) : sets'[j] = sets[j]
         /\ Len(sets) \in Nat /\ n - 1 = Len(sets)
<1>1. Len(sets) \in Nat
  BY SequenceIs DEF IInv
<1>2. i \in 0..Len(sets) /\ i # 0 /\ n - 1 = Len(sets)
  BY <1>1
<1> QED
  BY <1>1, <1>2, AddedIs

\* A step of a kernel of which nothing is remembered.
LEMMA PlainFaithful ==
  ASSUME NEW s, NEW i, s[i].op.name \in {"query", "filter", "sort", "describe"}
  PROVE  Faithful(s, i)
BY DEF Faithful

LEMMA GroupingsAre ==
  ASSUME NEW ds, DatasetOK(ds), NEW by \in Groupings(ds)
  PROVE  ColumnsOf(ds, by) /\ Len(by) <= 2 /\ \A j \in 1..Len(by) : by[j] \in Named(ds)
<1>1. CASE by = << >>
  <2>1. IsSequence(by) /\ Len(by) = 0
    BY <1>1, Short
  <2> QED
    BY <2>1 DEF ColumnsOf
<1>2. CASE \E c \in Named(ds) : by = <<c>>
  <2>1. PICK c \in Named(ds) : by = <<c>>
    BY <1>2
  <2>2. c \in Cols(ds)
    BY NamedIs
  <2>3. ColumnsOf(ds, <<c>>) /\ Len(<<c>>) = 1 /\ <<c>>[1] = c
    BY <2>2, OneColumn
  <2> QED
    BY <2>1, <2>3
<1>3. CASE by \in Named(ds) \X Named(ds)
  <2>1. PICK c \in Named(ds), d \in Named(ds) : by = <<c, d>>
    BY <1>3
  <2>2. c \in Cols(ds) /\ d \in Cols(ds)
    BY NamedIs
  <2>3. IsSequence(by) /\ Len(by) = 2 /\ by[1] = c /\ by[2] = d
    BY <2>1, Short
  <2>4. \A j \in 1..Len(by) : j = 1 \/ j = 2
    BY <2>3
  <2> QED
    BY <2>2, <2>3, <2>4 DEF ColumnsOf
<1> QED
  BY <1>1, <1>2, <1>3 DEF Groupings

LEMMA AggregateStep ==
  ASSUME IInv, Len(sets) < MaxSets, NEW i \in 1..Len(sets), Aggregate(i)
  PROVE  IInv'
<1> DEFINE p == sets[i]
           n == Len(sets) + 1
<1>1. PICK by \in Groupings(p), f \in AggFns, m \in Named(p) :
        Added(Aggregated(p, by, f, m), i, [name |-> "aggregate", by |-> by, f |-> f, m |-> m])
  BY DEF Aggregate
<1> DEFINE D == Aggregated(p, by, f, m)
           op == [name |-> "aggregate", by |-> by, f |-> f, m |-> m]
<1>2. DatasetOK(p) /\ Len(p.rows) \in Nat /\ Len(sets) \in Nat
  BY OneOK
<1>3. ColumnsOf(p, by) /\ Len(by) <= 2 /\ (\A j \in 1..Len(by) : by[j] \in Named(p)) /\ m \in Cols(p) /\ Len(by) \in Nat
  BY <1>2, GroupingsAre, NamedIs, SequenceIs DEF ColumnsOf
<1>4. DatasetOK(D) /\ Len(D.rows) <= Len(p.rows) /\ Len(D.cols) = Len(by) + 1 /\ AggregateForm(D, p, by, f, m)
  BY <1>2, <1>3, AggregateOK, AggregateIs
<1>5. op.name = "aggregate" /\ op.by = by /\ op.f = f /\ op.m = m /\ Added(D, i, op)
  BY <1>1
<1> HIDE DEF D, op
<1>6. /\ sets'[n].cols = D.cols /\ sets'[n].rows = D.rows /\ sets'[n].op = op
      /\ sets'[n].parent # 0 /\ sets'[sets'[n].parent] = p
  BY <1>5, ChildIs
<1>7. AggregateForm(sets'[n], p, by, f, m)
  BY <1>4, <1>6, Zenon DEF AggregateForm
<1>8. Faithful(sets', n)
  BY <1>3, <1>5, <1>6, <1>7 DEF Faithful, AggregateMade
<1>9. Len(D.rows) \in Nat
  BY <1>4, SequenceIs DEF DatasetOK
<1>10. Len(D.rows) <= Len(p.rows) + 1 /\ Len(D.cols) <= 5
  BY <1>2, <1>3, <1>4, <1>9
<1>11. Len(sets) <= MaxSets
  BY <1>2, OpsConstantsOK
<1> QED
  BY <1>4, <1>5, <1>8, <1>10, <1>11, ChildOK

LEMMA FilterStep ==
  ASSUME IInv, Len(sets) < MaxSets, NEW i \in 1..Len(sets), Filter(i)
  PROVE  IInv'
<1> DEFINE p == sets[i]
           n == Len(sets) + 1
<1>1. PICK any \in BOOLEAN, a, b \in Predicates(p) : Added(Filtered(p, any, {a, b}), i, [name |-> "filter"])
  BY DEF Filter
<1> DEFINE S == {r \in Rows(p) : IF any THEN \E q \in {a, b} : Holds(p, q, r) ELSE \A q \in {a, b} : Holds(p, q, r)}
           D == Selected(p, Ascending(S))
           op == [name |-> "filter"]
<1>2. Added(D, i, op) /\ S \in SUBSET Rows(p) /\ op.name = "filter"
  BY <1>1 DEF Filtered
<1> HIDE DEF S, op
<1>3. DatasetOK(p) /\ Len(p.rows) \in Nat /\ Len(p.cols) \in Nat /\ Len(sets) \in Nat
  BY OneOK
<1>4. DatasetOK(D) /\ Len(D.rows) <= Len(p.rows) /\ D.cols = p.cols
  BY <1>2, <1>3, PickedOK
<1> HIDE DEF D
<1>5. sets'[n].op = op
  BY <1>2, ChildIs
<1>6. Faithful(sets', n)
  BY <1>2, <1>5, PlainFaithful
<1>7. Len(D.rows) \in Nat
  BY <1>4, SequenceIs DEF DatasetOK
<1>8. Len(D.rows) <= Len(p.rows) + 1 /\ Len(D.cols) <= Len(p.cols) /\ Len(sets) <= MaxSets
  BY <1>3, <1>4, <1>7, OpsConstantsOK
<1> QED
  BY <1>2, <1>4, <1>6, <1>8, ChildOK

LEMMA SortStep ==
  ASSUME IInv, Len(sets) < MaxSets, NEW i \in 1..Len(sets), Sort(i)
  PROVE  IInv'
<1> DEFINE p == sets[i]
           n == Len(sets) + 1
<1>1. PICK c, d \in Named(p), desc \in BOOLEAN :
        Added(Selected(p, SortOrder(p, <<[col |-> c, desc |-> desc], [col |-> d, desc |-> ~desc]>>)), i, [name |-> "sort"])
  BY DEF Sort
<1> DEFINE keys == <<[col |-> c, desc |-> desc], [col |-> d, desc |-> ~desc]>>
           R == SortOrder(p, keys)
           D == Selected(p, R)
           op == [name |-> "sort"]
<1>2. Added(D, i, op) /\ op.name = "sort"
  BY <1>1
<1>3. DatasetOK(p) /\ Len(p.rows) \in Nat /\ Len(p.cols) \in Nat /\ Len(sets) \in Nat
  BY OneOK
<1>4. SortKeys(p, keys, 2)
  <2>1. c \in Cols(p) /\ d \in Cols(p)
    BY <1>3, NamedIs
  <2>2. DOMAIN keys = 1..2
    OBVIOUS
  <2>3. keys[1].col = c /\ keys[1].desc = desc /\ keys[2].col = d /\ keys[2].desc = ~desc
    OBVIOUS
  <2>4. \A k \in 1..2 : k = 1 \/ k = 2
    OBVIOUS
  <2> HIDE DEF keys
  <2> QED
    BY <2>1, <2>2, <2>3, <2>4 DEF SortKeys
<1> HIDE DEF keys, op
<1>5. Enumerates(R, Rows(p))
  BY <1>3, <1>4, SortOrderIs
<1> HIDE DEF R
<1>6. DatasetOK(D) /\ Len(D.rows) <= Len(p.rows) /\ D.cols = p.cols
  BY <1>3, <1>5, SelectedOK
<1> HIDE DEF D
<1>7. sets'[n].op = op
  BY <1>2, ChildIs
<1>8. Faithful(sets', n)
  BY <1>2, <1>7, PlainFaithful
<1>9. Len(D.rows) \in Nat
  BY <1>6, SequenceIs DEF DatasetOK
<1>10. Len(D.rows) <= Len(p.rows) + 1 /\ Len(D.cols) <= Len(p.cols) /\ Len(sets) <= MaxSets
  BY <1>3, <1>6, <1>9, OpsConstantsOK
<1> QED
  BY <1>2, <1>6, <1>8, <1>10, ChildOK

LEMMA TopNStep ==
  ASSUME IInv, Len(sets) < MaxSets, NEW i \in 1..Len(sets), TopN(i)
  PROVE  IInv'
<1> DEFINE p == sets[i]
           n == Len(sets) + 1
<1>1. PICK c \in Named(p), bottom \in BOOLEAN, k \in TopSizes : \E R \in TopRows(p, c, bottom, k) :
        Added(Selected(p, Ascending(R)), i, [name |-> "top_n", c |-> c, bottom |-> bottom, n |-> k])
  BY DEF TopN
<1>2. PICK R \in TopRows(p, c, bottom, k) :
        Added(Selected(p, Ascending(R)), i, [name |-> "top_n", c |-> c, bottom |-> bottom, n |-> k])
  BY <1>1
<1> DEFINE D == Selected(p, Ascending(R))
           op == [name |-> "top_n", c |-> c, bottom |-> bottom, n |-> k]
<1>3. Added(D, i, op) /\ op.name = "top_n" /\ op.c = c /\ op.bottom = bottom /\ op.n = k
  BY <1>2
<1>4. DatasetOK(p) /\ Len(p.rows) \in Nat /\ Len(p.cols) \in Nat /\ Len(sets) \in Nat /\ k \in Nat
  BY OneOK, OpsConstantsOK
<1>5. c \in Cols(p)
  BY <1>4, NamedIs
<1>6. R \in SUBSET Rows(p)
  BY <1>4, <1>5, TopRowsType
<1>7. DatasetOK(D) /\ Len(D.rows) <= Len(p.rows) /\ D.cols = p.cols
  BY <1>4, <1>6, PickedOK
<1> HIDE DEF op
<1>8. sets'[n].rows = D.rows /\ sets'[n].op = op /\ sets'[n].parent # 0 /\ sets'[sets'[n].parent] = p
  BY <1>3, ChildIs
<1>9. TopMade(sets', n)
  BY <1>2, <1>3, <1>4, <1>8 DEF TopMade
<1> HIDE DEF D
<1>10. Faithful(sets', n)
  BY <1>3, <1>8, <1>9 DEF Faithful
<1>11. Len(D.rows) \in Nat
  BY <1>7, SequenceIs DEF DatasetOK
<1>12. Len(D.rows) <= Len(p.rows) + 1 /\ Len(D.cols) <= Len(p.cols) /\ Len(sets) <= MaxSets
  BY <1>4, <1>7, <1>11, OpsConstantsOK
<1> QED
  BY <1>3, <1>7, <1>10, <1>12, ChildOK

LEMMA PivotStep ==
  ASSUME IInv, Len(sets) < MaxSets, NEW i \in 1..Len(sets), Pivot(i)
  PROVE  IInv'
<1> DEFINE p == sets[i]
           n == Len(sets) + 1
<1>1. PICK row, col, m \in Named(p), f \in AggFns :
        Added(Pivoted(p, row, col, m, f), i, [name |-> "pivot", row |-> row, col |-> col, m |-> m, f |-> f])
  BY DEF Pivot
<1> DEFINE D == Pivoted(p, row, col, m, f)
           op == [name |-> "pivot", row |-> row, col |-> col, m |-> m, f |-> f]
<1>2. Added(D, i, op) /\ op.name = "pivot" /\ op.row = row /\ op.col = col /\ op.m = m /\ op.f = f
  BY <1>1
<1>3. DatasetOK(p) /\ Len(p.rows) \in Nat /\ Len(p.cols) \in Nat /\ Len(sets) \in Nat
  BY OneOK
<1>4. row \in Cols(p) /\ col \in Cols(p) /\ m \in Cols(p)
  BY <1>3, NamedIs
<1>5. DatasetOK(D) /\ Len(D.rows) <= Len(p.rows) /\ Len(D.cols) <= Len(p.rows) + 1 /\ PivotForm(D, p, row, col, m, f)
  BY <1>3, <1>4, PivotOK, PivotIs
<1> HIDE DEF D, op
<1>6. /\ sets'[n].cols = D.cols /\ sets'[n].rows = D.rows /\ sets'[n].op = op
      /\ sets'[n].parent # 0 /\ sets'[sets'[n].parent] = p
  BY <1>2, ChildIs
<1>7. PivotForm(sets'[n], p, row, col, m, f)
  BY <1>5, <1>6, Zenon DEF PivotForm
<1>8. Faithful(sets', n)
  BY <1>2, <1>4, <1>6, <1>7 DEF Faithful, PivotMade
<1>9. Len(D.rows) \in Nat
  BY <1>5, SequenceIs DEF DatasetOK
<1>10. Len(D.rows) <= Len(p.rows) + 1 /\ Len(sets) <= MaxSets
  BY <1>3, <1>5, <1>9, OpsConstantsOK
<1> QED
  BY <1>2, <1>5, <1>8, <1>10, ChildOK

LEMMA CompareStep ==
  ASSUME IInv, Len(sets) < MaxSets, NEW i \in 1..Len(sets), NEW j \in 1..Len(sets), Compare(i, j)
  PROVE  IInv'
<1> DEFINE p == sets[i]
           q == sets[j]
           n == Len(sets) + 1
<1>1. PICK c, m \in Named(p) :
        Added(Compared(p, q, <<p.cols[c].name>>, p.cols[m].name), i,
              [name |-> "compare", other |-> j, names |-> <<p.cols[c].name>>, measure |-> p.cols[m].name])
  BY DEF Compare
<1> DEFINE names == <<p.cols[c].name>>
           measure == p.cols[m].name
           D == Compared(p, q, names, measure)
           op == [name |-> "compare", other |-> j, names |-> names, measure |-> measure]
<1>2. Added(D, i, op) /\ op.name = "compare" /\ op.other = j /\ op.names = names /\ op.measure = measure
  BY <1>1
<1>3. DatasetOK(p) /\ DatasetOK(q) /\ Len(p.rows) \in Nat /\ Len(sets) \in Nat
  BY OneOK
<1>4. names = <<p.cols[c].name>> /\ measure = p.cols[m].name
  OBVIOUS
<1> HIDE DEF p, q, names, measure
<1>5. DatasetOK(D) /\ Len(D.cols) = 5 /\ Len(D.rows) = Len(p.rows) /\ CompareForm(D, p, q, c, names, m, measure)
  <2>1. c \in Named(p) /\ m \in Named(p)
    OBVIOUS
  <2>2. CompareForm(D, p, q, c, names, m, measure)
    BY ONLY <1>3, <1>4, <2>1, CompareIs
  <2>3. DatasetOK(D) /\ Len(D.cols) = 5 /\ Len(D.rows) = Len(p.rows)
    BY ONLY <1>3, <1>4, <2>1, CompareOK
  <2> QED
    BY <2>2, <2>3
<1> USE DEF p, q
<1> HIDE DEF D, op
<1>6. /\ sets'[n].cols = D.cols /\ sets'[n].rows = D.rows /\ sets'[n].op = op
      /\ sets'[n].parent # 0 /\ sets'[sets'[n].parent] = p /\ sets'[j] = q
  BY <1>2, ChildIs
<1>7. CompareForm(sets'[n], p, q, c, names, m, measure)
  BY <1>5, <1>6, Zenon DEF CompareForm
<1>8. j \in 1..(n - 1)
  BY <1>3
<1>9. CompareMade(sets', n)
  BY <1>2, <1>4, <1>6, <1>7, <1>8 DEF CompareMade
<1>10. Faithful(sets', n)
  BY <1>2, <1>6, <1>9 DEF Faithful
<1>11. Len(D.rows) <= Len(p.rows) + 1 /\ Len(D.cols) <= 5 /\ Len(sets) <= MaxSets
  BY <1>3, <1>5, OpsConstantsOK
<1> QED
  BY <1>2, <1>5, <1>10, <1>11, ChildOK

LEMMA PeriodicStep ==
  ASSUME IInv, Len(sets) < MaxSets, NEW i \in 1..Len(sets), Periodic(i)
  PROVE  IInv'
<1> DEFINE p == sets[i]
           n == Len(sets) + 1
<1>1. PICK date, m \in Latest(p), period \in Periods :
        Added(PeriodOverPeriod(p, date, period, m), i, [name |-> "period", m |-> m])
  BY DEF Periodic
<1> DEFINE D == PeriodOverPeriod(p, date, period, m)
           op == [name |-> "period", m |-> m]
<1>2. Added(D, i, op) /\ op.name = "period" /\ op.m = m
  BY <1>1
<1>3. DatasetOK(p) /\ Len(p.rows) \in Nat /\ Len(p.cols) \in Nat /\ Len(sets) \in Nat
  BY OneOK
<1>4. date \in Cols(p) /\ m \in Cols(p)
  BY DEF Latest
<1>5. /\ DatasetOK(D) /\ Len(D.rows) <= Len(p.rows) /\ Len(D.cols) <= 5
      /\ Len(D.rows) # 0 => Len(D.cols) = 5
      /\ PeriodForm(D, p, date, period, m)
  BY <1>3, <1>4, PeriodOK
<1> HIDE DEF D, op
<1>6. /\ sets'[n].cols = D.cols /\ sets'[n].rows = D.rows /\ sets'[n].op = op
      /\ sets'[n].parent # 0 /\ sets'[sets'[n].parent] = p
  BY <1>2, ChildIs
<1>7. PeriodForm(sets'[n], p, date, period, m)
  BY <1>5, <1>6, Zenon DEF PeriodForm
<1>8. PeriodMade(sets', n)
  BY <1>2, <1>4, <1>5, <1>6, <1>7 DEF PeriodMade
<1>9. Faithful(sets', n)
  BY <1>2, <1>6, <1>8 DEF Faithful
<1>10. Len(D.rows) \in Nat
  BY <1>5, SequenceIs DEF DatasetOK
<1>11. Len(D.rows) <= Len(p.rows) + 1 /\ Len(sets) <= MaxSets
  BY <1>3, <1>5, <1>10, OpsConstantsOK
<1> QED
  BY <1>2, <1>5, <1>9, <1>11, ChildOK

LEMMA DescribeStep ==
  ASSUME IInv, Len(sets) < MaxSets, NEW i \in 1..Len(sets), Describe(i)
  PROVE  IInv'
<1> DEFINE p == sets[i]
           n == Len(sets) + 1
           D == Described(p)
           op == [name |-> "describe"]
<1>1. Added(D, i, op) /\ op.name = "describe"
  BY DEF Describe
<1>2. DatasetOK(p) /\ Len(p.rows) \in Nat /\ Len(p.cols) \in Nat /\ Len(sets) \in Nat
  BY OneOK
<1>3. Len(sets) <= MaxSets
  BY <1>2, OpsConstantsOK
<1>4. Len(p.rows) < Half
  BY <1>3, OneOK
<1>5. DatasetOK(D) /\ Len(D.cols) = 5 /\ Len(D.rows) = Len(p.cols)
  BY <1>2, <1>4, DescribeOK
<1> HIDE DEF D, op
<1>6. sets'[n].op = op
  BY <1>1, ChildIs
<1>7. Faithful(sets', n)
  BY <1>1, <1>6, PlainFaithful
<1>8. Len(D.rows) <= Len(p.cols) /\ Len(D.cols) <= 5
  BY <1>2, <1>5
<1> QED
  BY <1>1, <1>3, <1>5, <1>7, <1>8, ChildOK

LEMMA DrillStep ==
  ASSUME IInv, Len(sets) <= MaxSets, NEW i \in 1..Len(sets), Drill(i)
  PROVE  IInv'
<1> DEFINE d == DetailOf(i)
           n == Len(sets) + 1
<1>1. PICK r \in Rows(sets[i]) :
        d # 0 /\ Added(Drilled(sets[d], GroupRow(sets[i], r)), d, [name |-> "drill", of |-> i, r |-> r])
  BY DEF Drill
<1>2. Len(sets) \in Nat /\ Parented(sets)
  BY OneOK, SequenceIs DEF IInv, Parented
<1>3. d \in 0..(i - 1) /\ (sets[i].parent # 0 /\ Len(sets[sets[i].parent].rows) > Len(sets[i].rows) => d = sets[i].parent)
  BY <1>2, DetailIs
<1> HIDE DEF d
<1>4. d \in 1..Len(sets)
  BY <1>1, <1>2, <1>3
<1> DEFINE p == sets[d]
           asked == GroupRow(sets[i], r)
           S == {q \in Rows(p) : \A a \in asked : LET c == ColIdx(p, a.name) IN c # 0 /\ Same(Json(p.rows[q][c]), a.val)}
           D == Drilled(p, asked)
           op == [name |-> "drill", of |-> i, r |-> r]
<1>5. Added(D, d, op) /\ op.name = "drill" /\ op.of = i /\ op.r = r
  BY <1>1
<1>6. D = Selected(p, Ascending(S)) /\ S \in SUBSET Rows(p)
  BY DEF Drilled
<1> HIDE DEF S, op
<1>7. DatasetOK(p) /\ Len(p.rows) \in Nat /\ Len(p.cols) \in Nat
  BY <1>4, OneOK
<1>8. DatasetOK(D) /\ Len(D.rows) <= Len(p.rows) /\ D.cols = p.cols
  BY <1>6, <1>7, PickedOK
<1>9. /\ sets'[n].rows = D.rows /\ sets'[n].op = op /\ sets'[n].parent = d /\ sets'[d] = sets[d]
      /\ \A j \in 1..Len(sets) : sets'[j] = sets[j]
  BY <1>4, <1>5, ChildIs
<1>10. sets'[i] = sets[i] /\ i \in 1..(n - 1)
  BY <1>2, <1>9
<1>11. sets[i].parent # 0 => sets'[sets[i].parent] = sets[sets[i].parent]
  <2>1. sets[i].parent \in 0..(i - 1)
    BY <1>2 DEF Parented
  <2> QED
    BY <1>2, <1>9, <2>1
<1>12. DrillMade(sets', n)
  BY <1>1, <1>3, <1>5, <1>9, <1>10, <1>11, Zenon DEF DrillMade
<1> HIDE DEF D
<1>13. Faithful(sets', n)
  BY <1>5, <1>9, <1>12 DEF Faithful
<1>14. Len(D.rows) \in Nat
  BY <1>8, SequenceIs DEF DatasetOK
<1>15. Len(D.rows) <= Len(p.rows) + 1 /\ Len(D.cols) <= Len(p.cols)
  BY <1>7, <1>8, <1>14
<1> QED
  BY <1>4, <1>5, <1>8, <1>13, <1>15, ChildOK

LEMMA InitOK == Init => IInv
<1> SUFFICES ASSUME Init PROVE IInv
  OBVIOUS
<1>1. IsSequence(sets) /\ Len(sets) = 0
  BY Short DEF Init
<1>2. \A i \in 1..Len(sets) : SetOK(sets, i)
  BY <1>1
<1> QED
  BY <1>1, <1>2, OpsConstantsOK DEF IInv

\* Each kernel makes a dataset of which the invariant says what it says.
LEMMA NextOK == IInv /\ [Next]_vars => IInv'
<1> SUFFICES ASSUME IInv, [Next]_vars PROVE IInv'
  OBVIOUS
<1>1. DOMAIN sets = 1..Len(sets) /\ Len(sets) \in Nat
  BY SequenceIs DEF IInv
<1>2. CASE Len(sets) < MaxSets /\ Query
  BY <1>2, QueryOK
<1>3. ASSUME Len(sets) < MaxSets, NEW i \in 1..Len(sets),
             \/ Aggregate(i) \/ Filter(i) \/ Sort(i) \/ TopN(i) \/ Pivot(i)
             \/ Periodic(i) \/ Describe(i)
      PROVE  IInv'
  BY <1>3, AggregateStep, FilterStep, SortStep, TopNStep, PivotStep, PeriodicStep, DescribeStep
<1>4. ASSUME Len(sets) < MaxSets, NEW i \in 1..Len(sets), NEW j \in 1..Len(sets), Compare(i, j)
      PROVE  IInv'
  BY <1>4, CompareStep
<1>5. ASSUME Len(sets) <= MaxSets, NEW i \in 1..Len(sets), Drill(i)
      PROVE  IInv'
  BY <1>5, DrillStep
<1>6. Len(sets) < MaxSets => Len(sets) <= MaxSets
  BY <1>1, OpsConstantsOK
<1>7. Len(sets) = MaxSets => MaxSets \in 1..Len(sets) /\ Len(sets) <= MaxSets
  BY <1>1, OpsConstantsOK
<1>8. CASE UNCHANGED vars
  <2>1. sets' = sets
    BY <1>8 DEF vars
  <2>2. IsSequence(sets') /\ Len(sets') = Len(sets)
    BY <2>1 DEF IInv
  <2>3. \A i \in 1..Len(sets) : SetOK(sets', i)
    BY <2>1 DEF IInv
  <2> QED
    BY <2>2, <2>3 DEF IInv
<1>9. CASE Next
  <2>1. \/ Len(sets) < MaxSets /\ Query
        \/ Len(sets) < MaxSets /\ \E i \in 1..Len(sets) :
             \/ Aggregate(i) \/ Filter(i) \/ Sort(i) \/ TopN(i) \/ Pivot(i)
             \/ Periodic(i) \/ Describe(i) \/ Drill(i)
             \/ \E j \in 1..Len(sets) : Compare(i, j)
        \/ Len(sets) = MaxSets /\ Drill(MaxSets)
    BY <1>1, <1>9, Zenon DEF Next
  <2> QED
    BY <1>2, <1>3, <1>4, <1>5, <1>6, <1>7, <2>1
<1> QED
  BY <1>8, <1>9

(***************************************************************************)
(* Whatever the kernels have been called with, each dataset is well formed *)
(* and is what its kernel made of its parent.                              *)
(***************************************************************************)
THEOREM Inductive == Spec => []IInv
<1>1. Init => IInv
  BY InitOK
<1>2. IInv /\ [Next]_vars => IInv'
  BY NextOK
<1> QED
  BY <1>1, <1>2, PTL DEF Spec

LEMMA TypesFollow == IInv => TypeOK
<1> SUFFICES ASSUME IInv PROVE TypeOK
  OBVIOUS
<1>1. DOMAIN sets = 1..Len(sets)
  BY SequenceIs DEF IInv
<1>2. ASSUME NEW i \in 1..Len(sets), NEW r \in Rows(sets[i])
      PROVE  /\ Len(sets[i].rows[r]) = Len(sets[i].cols)
             /\ \A c \in Cols(sets[i]) :
                  LET v == sets[i].rows[r][c]  kind == sets[i].cols[c].kind IN
                    v = Null \/ v[1] = kind \/ (kind = "str" /\ IsText(v))
  <2>1. DatasetOK(sets[i])
    BY OneOK
  <2>2. Len(sets[i].rows[r]) = Len(sets[i].cols)
    BY <2>1 DEF DatasetOK
  <2>3. ASSUME NEW c \in Cols(sets[i])
        PROVE  LET v == sets[i].rows[r][c]  kind == sets[i].cols[c].kind IN
                 v = Null \/ v[1] = kind \/ (kind = "str" /\ IsText(v))
    <3> DEFINE v == sets[i].rows[r][c]
               kind == sets[i].cols[c].kind
    <3>1. PICK t \in TextKinds : v \in Family(kind, t)
      BY <2>1 DEF DatasetOK
    <3>2. kind \in Kinds
      BY <2>1 DEF DatasetOK
    <3> HIDE DEF v, kind
    <3>3. v = Null \/ (kind = "int" /\ v \in Ints) \/ (kind = "float" /\ v \in Floats) \/ (kind = "str" /\ v \in Texts(t))
      BY <3>1, <3>2 DEF Family, Kinds
    <3>4. v = Null \/ v[1] = kind \/ (kind = "str" /\ IsText(v))
      BY <3>3, CellKinds DEF IsText, TextKinds
    <3> QED
      BY <3>4 DEF v, kind
  <2> QED
    BY <2>2, <2>3
<1> QED
  BY <1>1, <1>2 DEF TypeOK

(***************************************************************************)
(* What Dataset::new demands of every kernel: each row has a cell for each *)
(* column, of the type of the column's data or null.                       *)
(***************************************************************************)
THEOREM TypeCorrect == Spec => []TypeOK
<1>1. IInv => TypeOK
  BY TypesFollow
<1> QED
  BY <1>1, Inductive, PTL
-----------------------------------------------------------------------------
(***************************************************************************)
(* top_n compares numbers, sort compares the texts of keys. The bias of an *)
(* integer's key and the flipped bits of a Float's keep the order, so both *)
(* put the same rows first.                                                *)
(***************************************************************************)
LEMMA SmallMod ==
  ASSUME NEW x \in Nat, NEW m \in Nat, x < m
  PROVE  x % m = x
OBVIOUS

\* The numbers of keys follow those of cells.
Follows(d) == d \in [Int -> Int] /\ \A i, j \in Int : i < j <=> d[i] < d[j]

\* What a cell without NaN and infinity is, as a key and as a number, where
\* one of the zeros is missing.
NumbersAs(v, k, d) ==
  \/ v = Null /\ Key(v) = Empty /\ ~ IsNumber(v)
  \/ \E n \in Int : Key(v) = <<k, 0, d[n]>> /\ IsNumber(v) /\ Unsigned(AsFloat(v)) = FloatCell(n)

LEMMA KeyAndNumber ==
  ASSUME NEW kind \in {"int", "float"}, NEW zero \in Zeros
  PROVE  \E d, k : /\ Follows(d) /\ k \in {"intkey", "floatkey"}
                   /\ \A t \in TextKinds : \A v \in Family(kind, t) :
                        v # NaN /\ ~ Infinite(v) /\ v # zero => NumbersAs(v, k, d)
<1>1. ASSUME NEW v, v = Null
      PROVE  Key(v) = Empty /\ ~ IsNumber(v)
  BY <1>1 DEF Key, Null, IsNumber
<1>2. CASE kind = "int"
  <2> DEFINE d == [n \in Int |-> n + Half]
  <2>1. ASSUME NEW v \in Ints
        PROVE  \E n \in Int : Key(v) = <<"intkey", 0, d[n]>> /\ IsNumber(v) /\ Unsigned(AsFloat(v)) = FloatCell(n)
    <3>1. v[1] = "int" /\ v # Null /\ v = IntCell(v[3]) /\ v[3] \in (-Half)..(Half - 1)
      BY CellKinds
    <3> DEFINE n == v[3]
    <3>2. n \in Int /\ n + Half \in Nat /\ n + Half < 2 * Half /\ 2 * Half \in Nat
      BY <3>1, OpsConstantsOK
    <3>3. (n + Half) % (2 * Half) = n + Half
      BY <3>2, SmallMod
    <3>4. Key(v) = <<"intkey", 0, (n + Half) % (2 * Half)>>
      BY <3>1 DEF Key
    <3>5. AsFloat(v) = FloatCell(n) /\ IsNumber(v)
      BY <3>1 DEF AsFloat, FloatCell, IntCell, IsNumber
    <3>6. d[n] = n + Half
      BY <3>2
    <3>7. Unsigned(AsFloat(v)) = FloatCell(n)
      BY <3>2, <3>5, FloatsDiffer DEF Unsigned
    <3> HIDE DEF n, d
    <3> QED
      BY <3>2, <3>3, <3>4, <3>5, <3>6, <3>7
  <2>2. Follows(d)
    <3>1. Half \in Int
      BY OpsConstantsOK
    <3>2. \A i, j \in Int : i < j <=> i + Half < j + Half
      BY <3>1
    <3> QED
      BY <3>1, <3>2 DEF Follows
  <2>3. \A t \in TextKinds : Family(kind, t) = {Null} \cup Ints
    BY <1>2 DEF Family
  <2> HIDE DEF d
  <2>4. \A t \in TextKinds : \A v \in Family(kind, t) : NumbersAs(v, "intkey", d)
    BY <1>1, <2>1, <2>3 DEF NumbersAs
  <2> QED
    BY <2>2, <2>4
<1>3. CASE kind = "float"
  <2> DEFINE d == [n \in Int |-> IF n < 0 \/ (n = 0 /\ zero # MinusZero) THEN n - 1 ELSE n]
  <2>1. ASSUME NEW v \in Floats, v # NaN, ~ Infinite(v), v # zero
        PROVE  \E n \in Int : Key(v) = <<"floatkey", 0, d[n]>> /\ IsNumber(v) /\ Unsigned(AsFloat(v)) = FloatCell(n)
    <3>1. v[1] = "float" /\ v # Null
      BY <2>1, CellKinds
    <3>2. AsFloat(v) = v /\ IsNumber(v)
      BY <3>1 DEF AsFloat, IsNumber
    <3>3. Key(v) = <<"floatkey", v[2], FloatDigits(v)>>
      BY <3>1 DEF Key
    <3>4. CASE v = MinusZero
      <4>1. v[2] = 0 /\ FloatDigits(v) = 0 - 1
        BY <3>4, ZeroIs DEF FloatDigits
      <4>2. zero # MinusZero
        BY <2>1, <3>4
      <4>3. d[0] = 0 - 1
        BY <4>2
      <4>4. Unsigned(AsFloat(v)) = FloatCell(0)
        BY <3>2, <3>4 DEF Unsigned
      <4> HIDE DEF d
      <4> QED
        BY <3>2, <3>3, <4>1, <4>3, <4>4
    <3>5. CASE v # MinusZero
      <4>1. PICK n \in Int : v = FloatCell(n)
        BY <2>1, <3>5, FloatCases DEF Infinite
      <4>2. v[2] = 0 /\ v[3] = n
        BY <4>1 DEF FloatCell
      <4>3. FloatDigits(v) = IF n < 0 THEN n - 1 ELSE n
        BY <3>5, <4>2 DEF FloatDigits
      <4>4. n = 0 => zero = MinusZero
        BY <2>1, <4>1 DEF Zeros
      <4>5. d[n] = FloatDigits(v)
        BY <4>3, <4>4
      <4>6. Unsigned(AsFloat(v)) = FloatCell(n)
        BY <3>2, <3>5, <4>1 DEF Unsigned
      <4> HIDE DEF d
      <4> QED
        BY <3>2, <3>3, <4>2, <4>5, <4>6
    <3> QED
      BY <3>4, <3>5
  <2>2. Follows(d)
    BY DEF Follows
  <2>3. \A t \in TextKinds : Family(kind, t) = {Null} \cup Floats
    BY <1>3 DEF Family
  <2> HIDE DEF d
  <2>4. \A t \in TextKinds : \A v \in Family(kind, t) : v # NaN /\ ~ Infinite(v) /\ v # zero => NumbersAs(v, "floatkey", d)
    BY <1>1, <2>1, <2>3 DEF NumbersAs
  <2> QED
    BY <2>2, <2>4
<1> QED
  BY <1>2, <1>3

\* The order of keys is that of numbers, null the lowest of either.
LEMMA RanksAsKeys ==
  ASSUME NEW ds, DatasetOK(ds), NEW c \in Cols(ds), ds.cols[c].kind # "str", Finite(ds, c), OneZero(ds, c)
  PROVE  \A a, b \in Rows(ds) :
           LET x == Score(ds, c, a)  y == Score(ds, c, b)
               k == Key(ds.rows[a][c])  l == Key(ds.rows[b][c]) IN
             x # NaN /\ y # NaN /\ (Same(x, y) <=> k = l) /\ (Below(x, y) <=> TextBefore(k, l))
<1> DEFINE kind == ds.cols[c].kind
<1>1. kind \in {"int", "float"}
  BY DEF DatasetOK, Kinds
<1>2. PICK t \in TextKinds : \A r \in Rows(ds) : ds.rows[r][c] \in Family(kind, t)
  BY DEF DatasetOK
<1>3. PICK zero \in Zeros : \A r \in Rows(ds) : ds.rows[r][c] # NaN /\ ~ Infinite(ds.rows[r][c]) /\ ds.rows[r][c] # zero
  BY DEF Finite, OneZero
<1> HIDE DEF kind
<1>4. PICK d, k : /\ Follows(d) /\ k \in {"intkey", "floatkey"}
                  /\ \A u \in TextKinds : \A v \in Family(kind, u) :
                       v # NaN /\ ~ Infinite(v) /\ v # zero => NumbersAs(v, k, d)
  BY <1>1, KeyAndNumber
<1>5. k # "str" /\ \A i \in Int : d[i] \in Int
  BY <1>4 DEF Follows
<1>6. \A i, j \in Int : (i < j <=> d[i] < d[j]) /\ (i = j <=> d[i] = d[j])
  <2>1. \A i, j \in Int : i < j <=> d[i] < d[j]
    BY <1>4 DEF Follows
  <2>2. \A i, j \in Int : d[i] = d[j] => ~ (i < j) /\ ~ (j < i)
    BY <1>5, <2>1
  <2> QED
    BY <2>1, <2>2
<1>7. \A r \in Rows(ds) : Score(ds, c, r) \in Floats
  BY ScoreType
<1>8. \A r \in Rows(ds) :
        \/ Key(ds.rows[r][c]) = Empty /\ Unsigned(Score(ds, c, r)) = MinusInf
        \/ \E n \in Int : Key(ds.rows[r][c]) = <<k, 0, d[n]>> /\ Unsigned(Score(ds, c, r)) = FloatCell(n)
  <2>1. Unsigned(MinusInf) = MinusInf
    BY FloatsDiffer DEF Unsigned
  <2> QED
    BY <1>2, <1>3, <1>4, <2>1 DEF Score, NumbersAs
<1>9. ASSUME NEW a \in Rows(ds), NEW b \in Rows(ds)
      PROVE  LET x == Score(ds, c, a)  y == Score(ds, c, b)
                 l == Key(ds.rows[a][c])  m == Key(ds.rows[b][c]) IN
               x # NaN /\ y # NaN /\ (Same(x, y) <=> l = m) /\ (Below(x, y) <=> TextBefore(l, m))
  <2> DEFINE x == Score(ds, c, a)
             y == Score(ds, c, b)
             p == Unsigned(x)
             q == Unsigned(y)
             l == Key(ds.rows[a][c])
             m == Key(ds.rows[b][c])
  <2>1. (l = Empty /\ p = MinusInf) \/ \E n \in Int : l = <<k, 0, d[n]>> /\ p = FloatCell(n)
    BY <1>8
  <2>2. (m = Empty /\ q = MinusInf) \/ \E n \in Int : m = <<k, 0, d[n]>> /\ q = FloatCell(n)
    BY <1>8
  <2>3. (Below(x, y) <=> Below(p, q)) /\ (x = NaN => p = NaN) /\ (y = NaN => q = NaN) /\ (Same(x, y) <=> p = q)
    <3>1. NaN # MinusZero
      BY FloatsDiffer
    <3> QED
      BY <1>7, <3>1, BelowOrder DEF Same, Unsigned
  <2> HIDE DEF x, y, p, q, l, m
  <2>4. ASSUME l = Empty, p = MinusInf, m = Empty, q = MinusInf
        PROVE  p # NaN /\ q # NaN /\ (p = q <=> l = m) /\ (Below(p, q) <=> TextBefore(l, m))
    BY <2>4 DEF Below, MinusInf, TextBefore, NaN
  <2>5. ASSUME l = Empty, p = MinusInf, NEW n \in Int, m = <<k, 0, d[n]>>, q = FloatCell(n)
        PROVE  p # NaN /\ q # NaN /\ (p = q <=> l = m) /\ (Below(p, q) <=> TextBefore(l, m))
    BY <1>5, <2>5 DEF Below, MinusInf, TextBefore, NaN, FloatCell, Empty, Text
  <2>6. ASSUME m = Empty, q = MinusInf, NEW n \in Int, l = <<k, 0, d[n]>>, p = FloatCell(n)
        PROVE  p # NaN /\ q # NaN /\ (p = q <=> l = m) /\ (Below(p, q) <=> TextBefore(l, m))
    BY <1>5, <2>6 DEF Below, MinusInf, TextBefore, NaN, FloatCell, Empty, Text
  <2>7. ASSUME NEW i \in Int, l = <<k, 0, d[i]>>, p = FloatCell(i),
               NEW j \in Int, m = <<k, 0, d[j]>>, q = FloatCell(j)
        PROVE  p # NaN /\ q # NaN /\ (p = q <=> l = m) /\ (Below(p, q) <=> TextBefore(l, m))
    <3>1. p = q <=> i = j
      BY <2>7 DEF FloatCell
    <3>2. l = m <=> d[i] = d[j]
      BY <2>7
    <3>3. Below(p, q) <=> i < j
      BY <2>7 DEF FloatCell, Below
    <3>4. l # Empty /\ m # Empty
      BY <1>5, <2>7 DEF Empty, Text
    <3>5. TextBefore(l, m) <=> d[i] < d[j]
      BY <1>5, <2>7, <3>2, <3>4 DEF TextBefore, Below
    <3>6. p # NaN /\ q # NaN
      BY <2>7, FloatsDiffer
    <3> QED
      BY <1>6, <3>1, <3>2, <3>3, <3>5, <3>6
  <2>8. p # NaN /\ q # NaN /\ (p = q <=> l = m) /\ (Below(p, q) <=> TextBefore(l, m))
    BY <2>1, <2>2, <2>4, <2>5, <2>6, <2>7
  <2> QED
    BY <2>3, <2>8 DEF x, y, l, m
<1> QED
  BY <1>9

LEMMA RankIsSort ==
  ASSUME NEW ds, DatasetOK(ds), NEW c \in Cols(ds), ds.cols[c].kind # "str", Finite(ds, c), OneZero(ds, c),
         NEW bottom \in BOOLEAN, NEW keys, keys = <<[col |-> c, desc |-> ~bottom]>>
  PROVE  /\ SortKeys(ds, keys, 1)
         /\ \A a, b \in Rows(ds) : Outranks(ds, c, bottom, a, b) <=> SortBefore(ds, keys, a, b)
<1>1. DOMAIN keys = 1..1 /\ keys[1].col = c /\ keys[1].desc = ~bottom /\ \A k \in 1..1 : k = 1
  OBVIOUS
<1>2. SortKeys(ds, keys, 1)
  BY <1>1 DEF SortKeys
<1>3. ASSUME NEW a \in Rows(ds), NEW b \in Rows(ds)
      PROVE  Outranks(ds, c, bottom, a, b) <=> SortBefore(ds, keys, a, b)
  <2> DEFINE x == Score(ds, c, a)
             y == Score(ds, c, b)
             k == Key(ds.rows[a][c])
             l == Key(ds.rows[b][c])
  <2>1. x # NaN /\ y # NaN /\ (Same(x, y) <=> k = l) /\ (Below(x, y) <=> TextBefore(k, l))
    BY RanksAsKeys
  <2>2. Below(y, x) <=> TextBefore(l, k)
    BY RanksAsKeys
  <2>3. ~ TextBefore(k, k)
    BY DEF TextBefore
  <2>4. Outranks(ds, c, bottom, a, b) <=> IF x = NaN \/ y = NaN \/ Same(x, y) THEN a < b
                                          ELSE IF bottom THEN Below(x, y) ELSE Below(y, x)
    BY DEF Outranks
  <2>5. SortBefore(ds, keys, a, b) <=>
          \/ TiesUpTo(ds, keys, 1, a, b) /\ a < b
          \/ \E j \in 1..1 : TiesUpTo(ds, keys, j - 1, a, b) /\ ByKey(ds, keys, j, a, b)
    BY <1>2, SortBeforeIs
  <2>6. TiesUpTo(ds, keys, 1, a, b) <=> k = l
    BY <1>1 DEF TiesUpTo
  <2>7. TiesUpTo(ds, keys, 1 - 1, a, b)
    BY DEF TiesUpTo
  <2>8. ByKey(ds, keys, 1, a, b) <=> IF bottom THEN TextBefore(k, l) ELSE TextBefore(l, k)
    BY <1>1 DEF ByKey
  <2> HIDE DEF x, y, k, l
  <2>9. SortBefore(ds, keys, a, b) <=> (k = l /\ a < b) \/ (IF bottom THEN TextBefore(k, l) ELSE TextBefore(l, k))
    BY <1>1, <2>5, <2>6, <2>7, <2>8
  <2>10. TextBefore(k, l) => k # l
    BY DEF TextBefore
  <2>11. TextBefore(l, k) => k # l
    BY DEF TextBefore
  <2> QED
    BY <2>1, <2>2, <2>4, <2>9, <2>10, <2>11
<1> QED
  BY <1>2, <1>3

\* Two arrangements by one order are the same.
LEMMA SamePlaces ==
  ASSUME NEW S, IsFiniteSet(S), NEW B, TotalOrder(S, B), NEW s, NEW u,
         \A i \in 1..Cardinality(S) : s[i] \in S /\ Cardinality(B[s[i]]) = i - 1,
         \A i \in 1..Cardinality(S) : u[i] \in S /\ Cardinality(B[u[i]]) = i - 1
  PROVE  \A i \in 1..Cardinality(S) : s[i] = u[i]
BY Positions

LEMMA TopIsSorted ==
  ASSUME NEW ds, DatasetOK(ds), NEW c \in Cols(ds), ds.cols[c].kind # "str", Finite(ds, c), OneZero(ds, c),
         NEW bottom \in BOOLEAN, NEW n \in Nat, NEW R \in TopRows(ds, c, bottom, n)
  PROVE  R = {SortOrder(ds, <<[col |-> c, desc |-> ~bottom]>>)[i] : i \in 1..Min({n, Len(ds.rows)})}
<1> DEFINE keys == <<[col |-> c, desc |-> ~bottom]>>
           S == Rows(ds)
           Above(a, b) == Outranks(ds, c, bottom, a, b)
           Less(a, b) == SortBefore(ds, keys, a, b)
           size == Min({n, Len(ds.rows)})
           order == [i \in 1..Cardinality(S) |-> CHOOSE x \in S : Cardinality({y \in S : Above(y, x)}) = i - 1]
           sorted == [i \in 1..Cardinality(S) |-> CHOOSE x \in S : Cardinality({y \in S : Less(y, x)}) = i - 1]
           transitive == \A a1, a2, a3 \in S : Above(a1, a2) /\ Above(a2, a3) => Above(a1, a3)
           B == [x \in S |-> {y \in S : Less(y, x)}]
<1>1. TopRows(ds, c, bottom, n) =
        IF transitive THEN {{order[i] : i \in 1..size}} ELSE kSubset(size, S)
  BY DEF TopRows, Arranged
<1>2. SortOrder(ds, keys) = sorted
  BY DEF SortOrder, Arranged
<1>3. Len(ds.rows) \in Nat /\ Cardinality(S) = Len(ds.rows) /\ IsFiniteSet(S)
  BY RowsFinite
<1>4. size \in Nat /\ size <= Len(ds.rows)
  <2> DEFINE T == {n, Len(ds.rows)}
  <2>1. T \in SUBSET Nat /\ T # {} /\ Len(ds.rows) \in T
    BY <1>3
  <2> HIDE DEF T
  <2>2. Min(T) \in T /\ Min(T) <= Len(ds.rows)
    BY <2>1, MinIs
  <2> QED
    BY <2>1, <2>2 DEF T
<1>5. SortKeys(ds, keys, 1) /\ \A a, b \in S : Above(a, b) <=> Less(a, b)
  <2>1. keys = <<[col |-> c, desc |-> ~bottom]>>
    OBVIOUS
  <2> HIDE DEF keys
  <2> QED
    BY <2>1, RankIsSort
<1>6. TotalOrder(S, B)
  <2> HIDE DEF keys
  <2> QED
    BY <1>5, SortTotal
<1> HIDE DEF keys, S, size, Above, Less
<1>7. B \in [S -> SUBSET S] /\ \A x, y \in S : x \in B[y] <=> Less(x, y)
  OBVIOUS
<1>8. \A x \in S : B[x] = {y \in S : Less(y, x)} /\ B[x] = {y \in S : Above(y, x)}
  BY <1>5
<1> HIDE DEF B
<1>9. transitive
  <2>1. \A x, y \in S : x \in B[y] => B[x] \subseteq B[y]
    BY <1>6 DEF TotalOrder
  <2> QED
    BY <1>5, <1>7, <2>1
<1>10. R = {order[i] : i \in 1..size}
  BY <1>1, <1>9
<1> HIDE DEF transitive
<1>11. \A i \in 1..Cardinality(S) : \E x \in S : Cardinality(B[x]) = i - 1
  BY <1>3, <1>6, PositionExists
<1>12. \A i \in 1..Cardinality(S) : order[i] \in S /\ Cardinality(B[order[i]]) = i - 1
  <2> TAKE i \in 1..Cardinality(S)
  <2>1. PICK x \in S : Cardinality(B[x]) = i - 1
    BY <1>11
  <2>2. Cardinality({y \in S : Above(y, x)}) = i - 1
    BY <1>8, <2>1
  <2>3. order[i] = CHOOSE z \in S : Cardinality({y \in S : Above(y, z)}) = i - 1
    OBVIOUS
  <2> HIDE DEF order
  <2>4. order[i] \in S /\ Cardinality({y \in S : Above(y, order[i])}) = i - 1
    BY <2>2, <2>3
  <2> QED
    BY <1>8, <2>4
<1>13. \A i \in 1..Cardinality(S) : sorted[i] \in S /\ Cardinality(B[sorted[i]]) = i - 1
  <2> TAKE i \in 1..Cardinality(S)
  <2>1. PICK x \in S : Cardinality(B[x]) = i - 1
    BY <1>11
  <2>2. Cardinality({y \in S : Less(y, x)}) = i - 1
    BY <1>8, <2>1
  <2>3. sorted[i] = CHOOSE z \in S : Cardinality({y \in S : Less(y, z)}) = i - 1
    OBVIOUS
  <2> HIDE DEF sorted
  <2>4. sorted[i] \in S /\ Cardinality({y \in S : Less(y, sorted[i])}) = i - 1
    BY <2>2, <2>3
  <2> QED
    BY <1>8, <2>4
<1> HIDE DEF order, sorted
<1>14. \A i \in 1..Cardinality(S) : order[i] = sorted[i]
  BY <1>3, <1>6, <1>12, <1>13, SamePlaces
<1>15. \A i \in 1..size : i \in 1..Cardinality(S)
  BY <1>3, <1>4
<1>16. R = {sorted[i] : i \in 1..size}
  BY <1>10, <1>14, <1>15
<1> QED
  BY <1>2, <1>16 DEF keys, size

\* The newest dataset, and what it was made of.
LEMMA NewestIs ==
  ASSUME IInv, NEW name, Made(name)
  PROVE  /\ Len(sets) \in Nat /\ Len(sets) \in 1..Len(sets)
         /\ Newest = sets[Len(sets)] /\ Newest.op.name = name
         /\ SetOK(sets, Len(sets)) /\ DatasetOK(Newest)
         /\ Newest.parent # 0 => Newest.parent \in 1..(Len(sets) - 1) /\ Source = sets[Newest.parent] /\ DatasetOK(Source)
<1>1. Len(sets) \in Nat /\ DOMAIN sets = 1..Len(sets) /\ sets # << >>
  BY SequenceIs DEF IInv, Made
<1>2. Len(sets) # 0
  <2>1. sets = [i \in 1..Len(sets) |-> sets[i]]
    BY SequenceIs DEF IInv
  <2>2. ASSUME Len(sets) = 0
        PROVE  FALSE
    <3>1. sets = [i \in 1..0 |-> sets[i]]
      BY <2>1, <2>2
    <3> QED
      BY <1>1, <3>1
  <2> QED
    BY <2>2
<1>3. Len(sets) \in 1..Len(sets)
  BY <1>1, <1>2
<1>4. Newest = sets[Len(sets)] /\ Newest.op.name = name
  BY DEF Newest, Made
<1>5. SetOK(sets, Len(sets)) /\ DatasetOK(Newest) /\ Newest.parent \in 0..(Len(sets) - 1)
  BY <1>3, <1>4, OneOK
<1>6. ASSUME Newest.parent # 0
      PROVE  Newest.parent \in 1..(Len(sets) - 1) /\ Source = sets[Newest.parent] /\ DatasetOK(Source)
  <2>1. Newest.parent \in 1..(Len(sets) - 1) /\ Newest.parent \in 1..Len(sets)
    BY <1>1, <1>5, <1>6
  <2> QED
    BY <2>1, OneOK DEF Source
<1> QED
  BY <1>1, <1>3, <1>4, <1>5, <1>6

(***************************************************************************)
(* The rows at the first places of one order are those at the first places *)
(* of the other.                                                           *)
(***************************************************************************)
LEMMA RanksFollow == IInv => RanksAgree
<1> SUFFICES ASSUME IInv, Made("top_n"), Source.cols[Newest.op.c].kind # "str",
                    Finite(Source, Newest.op.c), OneZero(Source, Newest.op.c)
             PROVE  LET op == Newest.op
                        order == SortOrder(Source, <<[col |-> op.c, desc |-> ~op.bottom]>>)
                        first == {order[i] : i \in 1..Min({op.n, Len(Source.rows)})}
                    IN Newest.rows = Selected(Source, Ascending(first)).rows
  BY DEF RanksAgree
<1> DEFINE c == Newest.op.c
           bottom == Newest.op.bottom
           n == Newest.op.n
<1>1. SetOK(sets, Len(sets)) /\ Newest = sets[Len(sets)] /\ Newest.op.name = "top_n"
      /\ (Newest.parent # 0 => Source = sets[Newest.parent] /\ DatasetOK(Source))
  BY NewestIs
<1>2. TopMade(sets, Len(sets))
  BY <1>1 DEF SetOK, Faithful
<1>3. Newest.parent # 0
  BY <1>1, <1>2 DEF TopMade
<1>4. DatasetOK(Source) /\ c \in Named(Source) /\ bottom \in BOOLEAN /\ n \in Nat
      /\ \E R \in TopRows(Source, c, bottom, n) : Newest.rows = Selected(Source, Ascending(R)).rows
  BY <1>1, <1>2, <1>3 DEF TopMade
<1>5. PICK R \in TopRows(Source, c, bottom, n) : Newest.rows = Selected(Source, Ascending(R)).rows
  BY <1>4
<1>6. c \in Cols(Source)
  BY <1>4, NamedIs
<1> HIDE DEF c, bottom, n
<1>7. Source.cols[c].kind # "str" /\ Finite(Source, c) /\ OneZero(Source, c)
  BY DEF c
<1>8. R = {SortOrder(Source, <<[col |-> c, desc |-> ~bottom]>>)[i] : i \in 1..Min({n, Len(Source.rows)})}
  BY <1>4, <1>6, <1>7, TopIsSorted
<1> QED
  BY <1>5, <1>8 DEF c, bottom, n

(***************************************************************************)
(* top_n, which compares numbers, keeps the rows that sort, which compares *)
(* the texts of as_sort_key, puts first, ties and nulls included, in a     *)
(* column of numbers that has not both zeros.                              *)
(***************************************************************************)
THEOREM TopMatchesSort == Spec => []RanksAgree
<1>1. IInv => RanksAgree
  BY RanksFollow
<1> QED
  BY <1>1, Inductive, PTL
-----------------------------------------------------------------------------
(***************************************************************************)
(* compare, the other way round.                                           *)
(***************************************************************************)
\* A finite Float and the integer it stands for.
Figure(v, n) == v \in Floats \ Unbounded /\ n \in Int /\ Unsigned(v) = FloatCell(n)

LEMMA FigureIs ==
  /\ \A v \in Floats \ Unbounded : \E n \in Int : Figure(v, n)
  /\ \A v : Figure(v, 0) <=> v \in Zeros
  /\ \A v, n : Figure(v, n) /\ v # MinusZero => v = FloatCell(n)
  /\ \A n \in Int : Figure(FloatCell(n), n)
<1>1. \A v : v # MinusZero => Unsigned(v) = v
  BY DEF Unsigned
<1>2. Unsigned(MinusZero) = FloatCell(0)
  BY DEF Unsigned
<1>3. \A v \in Floats \ Unbounded : v = MinusZero \/ \E n \in Int : v = FloatCell(n)
  BY FloatCases DEF Unbounded
<1>4. \A n \in Int : Figure(FloatCell(n), n)
  BY <1>1, FloatsDiffer DEF Figure, Unbounded
<1>5. \A v : Figure(v, 0) <=> v \in Zeros
  BY <1>1, <1>2, ZeroIs DEF Figure, Zeros
<1> QED
  BY <1>1, <1>2, <1>3, <1>4, <1>5 DEF Figure

LEMMA FigurePlus ==
  ASSUME NEW v, NEW w, NEW i, NEW j, Figure(v, i), Figure(w, j)
  PROVE  Figure(Plus(v, w), i + j)
<1>1. v \in Floats \ Unbounded /\ w \in Floats \ Unbounded /\ i \in Int /\ j \in Int /\ i + j \in Int
  BY DEF Figure
<1>2. CASE v = MinusZero
  <2>1. Plus(v, w) = w
    BY <1>1, <1>2, PlusZero
  <2>2. Figure(v, 0)
    BY <1>2, FigureIs DEF Zeros
  <2>3. FloatCell(i) = FloatCell(0)
    BY <2>2 DEF Figure
  <2>4. i = 0
    BY <1>1, <2>3, FloatsDiffer
  <2>5. i + j = j
    BY <1>1, <2>4
  <2> QED
    BY <2>1, <2>5
<1>3. CASE w = MinusZero
  <2>1. Plus(v, w) = v
    BY <1>1, <1>3, PlusZero
  <2>2. Figure(w, 0)
    BY <1>3, FigureIs DEF Zeros
  <2>3. FloatCell(j) = FloatCell(0)
    BY <2>2 DEF Figure
  <2>4. j = 0
    BY <1>1, <2>3, FloatsDiffer
  <2>5. i + j = i
    BY <1>1, <2>4
  <2> QED
    BY <2>1, <2>5
<1>4. CASE v # MinusZero /\ w # MinusZero
  <2>1. v = FloatCell(i) /\ w = FloatCell(j)
    BY <1>4, FigureIs
  <2>2. v \in Floats \ Special /\ w \in Floats \ Special /\ v[3] = i /\ w[3] = j
    BY <1>1, <1>4, <2>1, FloatsDiffer DEF Special
  <2>3. Plus(v, w) = FloatCell(i + j)
    BY <2>2, PlusPlain
  <2> QED
    BY <1>1, <2>3, FigureIs
<1> QED
  BY <1>2, <1>3, <1>4

LEMMA FigureNegated ==
  ASSUME NEW v, NEW n, Figure(v, n)
  PROVE  Figure(Negated(v), -n)
<1>1. n \in Int /\ -n \in Int
  BY DEF Figure
<1>2. CASE n = 0
  <2>1. Negated(v) \in Zeros
    BY <1>2, FigureIs, NegatedIs DEF Zeros
  <2>2. -n = 0
    <3>1. \A m \in Int : m >= 0 /\ m <= 0 => -m >= 0 /\ -m <= 0
      OBVIOUS
    <3>2. -n >= 0 /\ -n <= 0
      BY <1>1, <1>2, <3>1
    <3> QED
      BY <1>1, <3>2
  <2> QED
    BY <2>1, <2>2, FigureIs
<1>3. CASE n # 0
  <2>1. v # MinusZero
    <3>1. FloatCell(n) # FloatCell(0)
      BY <1>1, <1>3, FloatsDiffer
    <3> QED
      BY <3>1 DEF Figure, Unsigned
  <2>2. v = FloatCell(n)
    BY <2>1, FigureIs
  <2>3. Negated(v) = FloatCell(-n)
    BY <1>1, <1>3, <2>2, NegatedIs
  <2> QED
    BY <1>1, <2>3, FigureIs
<1> QED
  BY <1>2, <1>3

\* A change the other way round.
LEMMA ChangeReversed ==
  ASSUME NEW v \in Floats, NEW w \in Floats
  PROVE  Same(Minus(w, v), Negated(Minus(v, w)))
<1> DEFINE a == Negated(v)
           b == Negated(w)
<1>1. a \in Floats /\ b \in Floats /\ Minus(w, v) = Plus(w, a) /\ Minus(v, w) = Plus(v, b)
  BY NegatedType DEF Minus
<1>2. /\ Negated(NaN) = NaN /\ Negated(Inf) = MinusInf /\ Negated(MinusInf) = Inf
      /\ (v = Inf => a = MinusInf) /\ (v = MinusInf => a = Inf)
      /\ (w = Inf => b = MinusInf) /\ (w = MinusInf => b = Inf)
  BY NegatedIs
<1>3. v \notin Unbounded => a \notin Unbounded
  BY FigureIs, FigureNegated DEF Figure
<1>4. w \notin Unbounded => b \notin Unbounded
  BY FigureIs, FigureNegated DEF Figure
<1>5. CASE v = NaN \/ w = NaN
  <2>1. Minus(w, v) = NaN /\ Minus(v, w) = NaN
    BY <1>5, MinusType
  <2> QED
    BY <1>2, <2>1 DEF Same
<1>6. CASE v \notin Unbounded /\ w \notin Unbounded
  <2>1. PICK i \in Int, j \in Int : Figure(v, i) /\ Figure(w, j)
    BY <1>6, FigureIs
  <2>2. Figure(a, -i) /\ Figure(b, -j)
    BY <2>1, FigureNegated
  <2>3. Figure(Minus(w, v), j + (-i)) /\ Figure(Minus(v, w), i + (-j))
    BY <1>1, <2>1, <2>2, FigurePlus
  <2>4. Figure(Negated(Minus(v, w)), -(i + (-j)))
    BY <2>3, FigureNegated
  <2>5. -(i + (-j)) = j + (-i)
    OBVIOUS
  <2>6. Figure(Negated(Minus(v, w)), j + (-i))
    BY <2>4, <2>5
  <2> QED
    BY <2>3, <2>6 DEF Figure, Same
<1> HIDE DEF a, b
<1>7. Inf # MinusInf /\ Inf # NaN /\ MinusInf # NaN /\ Inf \in Floats /\ MinusInf \in Floats
  BY FloatsDiffer
<1>8. CASE v = Inf /\ w # NaN
  <2>1. CASE w = Inf
    <3>1. Plus(w, a) = NaN /\ Plus(v, b) = NaN
      BY <1>1, <1>2, <1>7, <1>8, <2>1, PlusSpecial
    <3> QED
      BY <1>1, <1>2, <3>1 DEF Same
  <2>2. CASE w # Inf
    <3>1. b # MinusInf /\ b # NaN
      BY <1>2, <1>4, <1>7, <1>8, <2>2 DEF Unbounded
    <3>2. Plus(w, a) = MinusInf /\ Plus(v, b) = Inf
      BY <1>1, <1>2, <1>7, <1>8, <2>2, <3>1, PlusSpecial
    <3> QED
      BY <1>1, <1>2, <3>2 DEF Same
  <2> QED
    BY <2>1, <2>2
<1>9. CASE v = MinusInf /\ w # NaN
  <2>1. CASE w = MinusInf
    <3>1. Plus(w, a) = NaN /\ Plus(v, b) = NaN
      BY <1>1, <1>2, <1>7, <1>9, <2>1, PlusSpecial
    <3> QED
      BY <1>1, <1>2, <3>1 DEF Same
  <2>2. CASE w # MinusInf
    <3>1. b # Inf /\ b # NaN
      BY <1>2, <1>4, <1>7, <1>9, <2>2 DEF Unbounded
    <3>2. Plus(w, a) = Inf /\ Plus(v, b) = MinusInf
      BY <1>1, <1>2, <1>7, <1>9, <2>2, <3>1, PlusSpecial
    <3> QED
      BY <1>1, <1>2, <3>2 DEF Same
  <2> QED
    BY <2>1, <2>2
<1>10. CASE v \notin Unbounded /\ w = Inf
  <2>1. a # MinusInf /\ a # NaN /\ v # NaN /\ v # Inf
    BY <1>3, <1>10 DEF Unbounded
  <2>2. Plus(w, a) = Inf /\ Plus(v, b) = MinusInf
    BY <1>1, <1>2, <1>7, <1>10, <2>1, PlusSpecial
  <2> QED
    BY <1>1, <1>2, <2>2 DEF Same
<1>11. CASE v \notin Unbounded /\ w = MinusInf
  <2>1. a # Inf /\ a # NaN /\ v # NaN /\ v # MinusInf
    BY <1>3, <1>11 DEF Unbounded
  <2>2. Plus(w, a) = MinusInf /\ Plus(v, b) = Inf
    BY <1>1, <1>2, <1>7, <1>11, <2>1, PlusSpecial
  <2> QED
    BY <1>1, <1>2, <2>2 DEF Same
<1> QED
  BY <1>5, <1>6, <1>8, <1>9, <1>10, <1>11 DEF Unbounded

\* Where a key comes once, its number is that of its row.
LEMMA FoundOnce ==
  ASSUME NEW ds, DatasetOK(ds), NEW names, NEW m \in Cols(ds), NEW r \in Rows(ds),
         \A a, b \in Rows(ds) : a # b => KeyByName(ds, names, a) # KeyByName(ds, names, b)
  PROVE  Found(ds, names, m, KeyByName(ds, names, r)) = NumberOf(ds, m, r)
<1> DEFINE R == {a \in Rows(ds) : KeyByName(ds, names, a) = KeyByName(ds, names, r)}
           N == Numbered(ds, m, R)
<1>1. R = {r}
  OBVIOUS
<1>2. m # 0 /\ r \in 1..Len(ds.rows) /\ Len(ds.rows) \in Nat
  BY RowsFinite
<1>3. Found(ds, names, m, KeyByName(ds, names, r)) = IF N = {} THEN Null ELSE AsFloat(ds.rows[Max(N)][m])
  BY <1>2 DEF Found
<1> HIDE DEF R
<1>4. N = IF IsNumber(ds.rows[r][m]) THEN {r} ELSE {}
  BY <1>1 DEF Numbered
<1> HIDE DEF N
<1>5. IsNumber(ds.rows[r][m]) => Max(N) = r
  <2>1. {r} \in SUBSET (1..Len(ds.rows)) /\ {r} # {}
    BY <1>2
  <2>2. Max({r}) \in {r}
    BY <1>2, <2>1, MaxIs
  <2> QED
    BY <1>4, <2>2
<1> QED
  BY <1>3, <1>4, <1>5 DEF NumberOf

(***************************************************************************)
(* Where a key comes once on either side, the row found from one is the    *)
(* row that finds it from the other.                                       *)
(***************************************************************************)
LEMMA ComparesFollow == IInv => ComparesSwap
<1> DEFINE op == Newest.op
           other == sets[op.other]
           Once(ds) == \A r, q \in Rows(ds) : r # q => KeyByName(ds, op.names, r) # KeyByName(ds, op.names, q)
           back == Compared(other, Source, op.names, op.measure)
<1> SUFFICES ASSUME IInv, Made("compare"),
                    ColIdx(other, op.names[1]) # 0, ColIdx(other, op.measure) # 0, Once(Source), Once(other),
                    NEW r \in Rows(Source), NEW q \in Rows(other),
                    KeyByName(Source, op.names, r) = KeyByName(other, op.names, q)
             PROVE  /\ Newest.rows[r][2] = back.rows[q][3] /\ Newest.rows[r][3] = back.rows[q][2]
                    /\ Newest.rows[r][4] # Null => Same(Newest.rows[r][4], Negated(back.rows[q][4]))
  BY DEF ComparesSwap
<1> DEFINE names == op.names
           measure == op.measure
<1>1. /\ SetOK(sets, Len(sets)) /\ Newest = sets[Len(sets)] /\ Newest.op.name = "compare" /\ Len(sets) \in Nat
      /\ (Newest.parent # 0 => Source = sets[Newest.parent] /\ DatasetOK(Source))
  BY NewestIs
<1>2. CompareMade(sets, Len(sets))
  BY <1>1 DEF SetOK, Faithful
<1>3. Newest.parent # 0 /\ op.other \in 1..(Len(sets) - 1) /\ Source = sets[Newest.parent] /\ DatasetOK(Source)
  BY <1>1, <1>2 DEF CompareMade
<1>4. DatasetOK(other)
  <2> DEFINE o == op.other
  <2>1. o \in 1..Len(sets)
    BY <1>1, <1>3
  <2> HIDE DEF o
  <2>2. DatasetOK(sets[o])
    BY <2>1, OneOK
  <2> QED
    BY <2>2 DEF o
<1>5. PICK c, m \in Named(Source) :
         /\ names = <<Source.cols[c].name>> /\ measure = Source.cols[m].name
         /\ CompareForm(Newest, Source, other, c, names, m, measure)
  BY <1>1, <1>2, <1>3 DEF CompareMade
<1>6. names[1] = Source.cols[c].name /\ names = <<names[1]>>
  BY <1>5
<1> DEFINE d == ColIdx(other, names[1])
           k == ColIdx(other, measure)
<1> HIDE DEF op, other, back
<1>7. d \in Named(other) /\ k \in Named(other) /\ other.cols[d].name = names[1] /\ other.cols[k].name = measure
      /\ d \in Cols(other) /\ k \in Cols(other)
  BY <1>4, ColIdxIs
<1>8. c \in Cols(Source) /\ m \in Cols(Source) /\ ColIdx(Source, measure) = m
  BY <1>3, <1>5, NamedIs
<1> HIDE DEF names, measure, d, k
<1>9. CompareForm(back, other, Source, d, names, k, measure)
  <2>1. names = <<other.cols[d].name>> /\ measure = other.cols[k].name
    BY <1>6, <1>7
  <2> QED
    BY <1>4, <1>7, <2>1, CompareIs DEF back, names, measure
<1> DEFINE v == NumberOf(Source, m, r)
           w == Found(other, names, k, KeyByName(Source, names, r))
           x == NumberOf(other, k, q)
           y == Found(Source, names, m, KeyByName(other, names, q))
<1>10. Newest.rows[r] = <<Shown(Source, c, r), v, w, Change(v, w), PctChange(v, w)>>
  BY <1>5 DEF CompareForm, k
<1>11. back.rows[q] = <<Shown(other, d, q), x, y, Change(x, y), PctChange(x, y)>>
  BY <1>8, <1>9 DEF CompareForm
<1>12. w = x
  <2>1. \A a, b \in Rows(other) : a # b => KeyByName(other, names, a) # KeyByName(other, names, b)
    BY DEF names
  <2>2. KeyByName(Source, names, r) = KeyByName(other, names, q)
    BY DEF names
  <2> QED
    BY <1>4, <1>7, <2>1, <2>2, FoundOnce
<1>13. y = v
  <2>1. \A a, b \in Rows(Source) : a # b => KeyByName(Source, names, a) # KeyByName(Source, names, b)
    BY DEF names
  <2>2. KeyByName(Source, names, r) = KeyByName(other, names, q)
    BY DEF names
  <2> QED
    BY <1>3, <1>8, <2>1, <2>2, FoundOnce
<1>14. v \in Floats \cup {Null} /\ x \in Floats \cup {Null}
  BY <1>3, <1>4, <1>7, <1>8, NumberOfType
<1> HIDE DEF v, w, x, y
<1>15. Newest.rows[r][2] = v /\ Newest.rows[r][3] = x /\ Newest.rows[r][4] = Change(v, x)
  BY <1>10, <1>12
<1>16. back.rows[q][2] = x /\ back.rows[q][3] = v /\ back.rows[q][4] = Change(x, v)
  BY <1>11, <1>13
<1>17. Change(v, x) # Null => Same(Change(v, x), Negated(Change(x, v)))
  BY <1>14, ChangeType, ChangeReversed
<1> QED
  BY <1>15, <1>16, <1>17
-----------------------------------------------------------------------------
(***************************************************************************)
(* Groups that share out the rows: their totals add up to the whole, which *)
(* is what periods do.                                                     *)
(***************************************************************************)
LEMMA FloatShare ==
  ASSUME NEW v \in Floats
  PROVE  IsNumber(v) /\ AsFloat(v) = v
<1>1. v[1] = "float"
  BY CellKinds
<1> QED
  BY <1>1 DEF IsNumber, AsFloat

\* A part of a total, as a vector that is zero elsewhere.
LEMMA PartIs ==
  ASSUME NEW ds, DatasetOK(ds), NEW c \in Cols(ds), NEW R, NEW S, R \subseteq S
  PROVE  Raised(ds, c, R) = Sum([r \in 1..Len(ds.rows) |-> IF r \in R THEN Shares(ds, c, S)[r] ELSE MinusZero], Len(ds.rows))
<1> DEFINE n == Len(ds.rows)
           v == Shares(ds, c, R)
           w == [r \in 1..n |-> IF r \in R THEN Shares(ds, c, S)[r] ELSE MinusZero]
<1>1. Raised(ds, c, R) = Sum(v, n)
  BY DEF Raised
<1>2. n \in Nat /\ Rows(ds) = 1..n
  BY RowsFinite
<1>3. \A r \in 1..n : v[r] = w[r]
  <2> TAKE r \in 1..n
  <2>1. v[r] = Share(ds, c, R, r) /\ Shares(ds, c, S)[r] = Share(ds, c, S, r)
    BY <1>2 DEF Shares
  <2>2. w[r] = IF r \in R THEN Share(ds, c, S, r) ELSE MinusZero
    BY <2>1
  <2> QED
    BY <2>1, <2>2 DEF Share
<1> HIDE DEF n, v, w
<1>4. Sum(v, n) = Sum(w, n)
  BY <1>2, <1>3, SumEqual
<1> QED
  BY <1>1, <1>4 DEF n, w

\* The totals of groups that share out the rows add up to the whole.
Parted(S, ds, G, g) ==
  /\ \A i \in 1..g : G[i] \subseteq S
  /\ \A r \in Rows(ds) : r \in S => \E i \in 1..g : \A j \in 1..g : r \in G[j] <=> j = i

\* But for what a sum that starts with z does not tell apart.
GroupTotals(z, u, ds, c, G, g) ==
  u \in Vectors(g) /\ \A i \in 1..g : Plus(z, u[i]) = Plus(z, Total(ds, c, G[i]))

LEMMA StartAbsorbed ==
  ASSUME NEW z \in {SumStart, FloatCell(0)}, NEW x \in Floats
  PROVE  z \in Zeros /\ Plus(z, Plus(SumStart, x)) = Plus(z, x)
<1>1. SumStart \in Zeros /\ z \in Zeros /\ z \in Floats /\ SumStart \in Floats
  BY OpsConstantsOK, ZerosAbsorb DEF Zeros
<1>2. Plus(z, SumStart) = z
  BY <1>1, ZerosAbsorb
<1>3. Plus(z, Plus(SumStart, x)) = Plus(Plus(z, SumStart), x)
  BY <1>1, PlusAssociates
<1> QED
  BY <1>1, <1>2, <1>3

LEMMA TotalsAddUp ==
  ASSUME NEW ds, DatasetOK(ds), NEW c \in Cols(ds), NEW S, NEW g \in Nat, NEW G, NEW u,
         NEW z \in {SumStart, FloatCell(0)},
         Parted(S, ds, G, g), GroupTotals(z, u, ds, c, G, g)
  PROVE  Plus(z, Sum(u, g)) = Plus(z, Total(ds, c, S))
<1> DEFINE n == Len(ds.rows)
           v == Shares(ds, c, S)
           w == [i \in 1..g |-> Raised(ds, c, G[i])]
<1>1. n \in Nat /\ Rows(ds) = 1..n
  BY RowsFinite
<1>2. v \in Vectors(n) /\ Raised(ds, c, S) = Sum(v, n)
  BY TotalIs DEF Raised
<1>3. \A r \in 1..n : v[r] # MinusZero => \E i \in 1..g : \A j \in 1..g : r \in G[j] <=> j = i
  <2> TAKE r \in 1..n
  <2>1. v[r] = Share(ds, c, S, r)
    BY <1>1 DEF Shares
  <2>2. v[r] # MinusZero => r \in S
    BY <2>1 DEF Share
  <2>3. r \in Rows(ds)
    BY <1>1
  <2> HIDE DEF v, n
  <2>4. r \in S => \E i \in 1..g : \A j \in 1..g : r \in G[j] <=> j = i
    BY <2>3 DEF Parted
  <2> QED
    BY <2>2, <2>4
<1>4. \A i \in 1..g : w[i] = Sum([r \in 1..n |-> IF r \in G[i] THEN v[r] ELSE MinusZero], n)
  <2> TAKE i \in 1..g
  <2> DEFINE R == G[i]
  <2>1. R \subseteq S /\ w[i] = Raised(ds, c, R)
    BY DEF Parted
  <2> HIDE DEF R
  <2>2. Raised(ds, c, R) = Sum([r \in 1..n |-> IF r \in R THEN v[r] ELSE MinusZero], n)
    BY ONLY <2>1, DatasetOK(ds), c \in Cols(ds), PartIs
  <2> QED
    BY <2>1, <2>2 DEF R
<1>5. \A i \in 1..g : w[i] \in Floats /\ w[i] = Raised(ds, c, G[i])
  <2> TAKE i \in 1..g
  <2> DEFINE R == G[i]
  <2> HIDE DEF R
  <2>1. Raised(ds, c, R) \in Floats
    BY TotalIs
  <2> QED
    BY <2>1 DEF R
<1>6. w \in Vectors(g)
  BY <1>5 DEF Vectors
<1> HIDE DEF n, v, w
<1>7. SharedOut(v, n, G, g)
  BY <1>3 DEF SharedOut
<1>8. GroupSums(w, v, n, G, g)
  BY <1>4 DEF GroupSums
<1>9. v \in Vectors(n)
  BY <1>2
<1>10. Sum(w, g) = Sum(v, n)
  BY <1>1, <1>7, <1>8, <1>9, SumGrouped
<1>11. z \in Zeros
  BY OpsConstantsOK DEF Zeros
<1>12. \A i \in 1..g : Plus(z, u[i]) = Plus(z, w[i])
  <2> TAKE i \in 1..g
  <2> DEFINE R == G[i]
             x == w[i]
  <2>1. Plus(z, u[i]) = Plus(z, Total(ds, c, R))
    BY DEF GroupTotals
  <2>2. x = Raised(ds, c, R) /\ x \in Floats
    BY <1>5
  <2> HIDE DEF R, x
  <2>3. Total(ds, c, R) = Plus(SumStart, x)
    BY <2>2, TotalIs
  <2>4. Plus(z, Plus(SumStart, x)) = Plus(z, x)
    BY <2>2, StartAbsorbed
  <2> QED
    BY <2>1, <2>3, <2>4 DEF x
<1>13. u \in Vectors(g)
  BY DEF GroupTotals
<1>14. Plus(z, Sum(u, g)) = Plus(z, Sum(w, g))
  BY <1>6, <1>11, <1>12, <1>13, SumsAlike
<1> DEFINE y == Raised(ds, c, S)
<1>15. Sum(w, g) = y /\ y \in Floats /\ Total(ds, c, S) = Plus(SumStart, y)
  BY <1>2, <1>10, TotalIs
<1> HIDE DEF y
<1>16. Plus(z, Plus(SumStart, y)) = Plus(z, y)
  BY <1>15, StartAbsorbed
<1> QED
  BY <1>14, <1>15, <1>16

(***************************************************************************)
(* Buckets share out the rows of a column, so that their totals add up to  *)
(* its own.                                                                *)
(***************************************************************************)
LEMMA PeriodsFollow == IInv => PeriodsAddUp
<1> DEFINE m == Newest.op.m
           S == {r \in Rows(Source) : IsNumber(Json(Source.rows[r][m]))}
<1> SUFFICES ASSUME IInv, Made("period"), Newest.rows # << >>
             PROVE  Total(Newest, 2, Rows(Newest)) = Total(Source, m, S)
  BY DEF PeriodsAddUp
<1>1. /\ SetOK(sets, Len(sets)) /\ Newest = sets[Len(sets)] /\ Newest.op.name = "period" /\ DatasetOK(Newest)
      /\ (Newest.parent # 0 => Source = sets[Newest.parent] /\ DatasetOK(Source))
  BY NewestIs
<1>2. PeriodMade(sets, Len(sets))
  BY <1>1 DEF SetOK, Faithful
<1>3. /\ DatasetOK(Source) /\ m \in Cols(Source) /\ (Len(Newest.rows) # 0 => Len(Newest.cols) = 5)
      /\ \E date \in Cols(Source), period \in Periods : PeriodForm(Newest, Source, date, period, m)
  BY <1>1, <1>2 DEF PeriodMade
<1>4. PICK date \in Cols(Source), period \in Periods : PeriodForm(Newest, Source, date, period, m)
  BY <1>3
<1> HIDE DEF m
<1> DEFINE buckets == BucketsOf(Source, date, period)
           g == Len(Newest.rows)
           G == [i \in 1..g |-> Counted(Source, date, period, m, buckets[i])]
           u == Shares(Newest, 2, Rows(Newest))
<1>5. g \in Nat /\ g # 0 /\ Rows(Newest) = 1..g /\ Cols(Newest) = 1..5
  <2>1. g \in Nat /\ Rows(Newest) = 1..g /\ Cols(Newest) = 1..Len(Newest.cols)
    BY <1>1, RowsFinite
  <2>2. Newest.rows = [i \in 1..g |-> Newest.rows[i]]
    BY <1>1, SequenceIs DEF DatasetOK
  <2>3. ASSUME g = 0
        PROVE  FALSE
    <3>1. Newest.rows = [i \in 1..0 |-> Newest.rows[i]]
      BY <2>2, <2>3
    <3> QED
      BY <3>1
  <2> QED
    BY <1>3, <2>1, <2>3
<1>6. Enumerates(buckets, BucketSet(Source, date, period)) /\ Len(buckets) = g
  BY <1>3, <1>4, BucketsAre DEF PeriodForm
<1>7. \A i \in 1..g : Newest.rows[i][2] = Total(Source, m, G[i])
  BY <1>4, <1>6 DEF PeriodForm
<1>8. \A i \in 1..g : G[i] = Counted(Source, date, period, m, buckets[i])
  OBVIOUS
<1> HIDE DEF G, g, buckets, S
<1>9. Total(Newest, 2, Rows(Newest)) = Plus(SumStart, Sum(u, g)) /\ u \in Vectors(g)
  <2>1. 2 \in Cols(Newest)
    BY <1>5
  <2>2. /\ Total(Newest, 2, Rows(Newest)) = Plus(SumStart, Raised(Newest, 2, Rows(Newest)))
        /\ Shares(Newest, 2, Rows(Newest)) \in Vectors(Len(Newest.rows))
    BY ONLY <1>1, <2>1, TotalIs
  <2> QED
    BY <2>2 DEF g, Raised
<1>10. \A i \in 1..g : u[i] = Total(Source, m, G[i])
  <2> TAKE i \in 1..g
  <2> DEFINE x == Newest.rows[i][2]
             R == G[i]
  <2>1. x = Total(Source, m, R)
    BY <1>7
  <2> HIDE DEF R
  <2>2. Total(Source, m, R) \in Floats
    BY <1>3, TotalIs
  <2>3. u[i] = Share(Newest, 2, Rows(Newest), i) /\ i \in Rows(Newest)
    BY <1>5 DEF Shares
  <2> HIDE DEF x
  <2>4. IsNumber(x) /\ AsFloat(x) = x
    BY <2>1, <2>2, FloatShare
  <2>5. u[i] = x
    BY <2>3, <2>4 DEF Share, x
  <2> QED
    BY <2>1, <2>5 DEF R
<1> HIDE DEF u
<1>11. \A i \in 1..g : G[i] \subseteq S
  BY <1>8 DEF S, Counted
<1>12. \A r \in Rows(Source) : r \in S => \E i \in 1..g : \A j \in 1..g : r \in G[j] <=> j = i
  <2> SUFFICES ASSUME NEW r \in Rows(Source), r \in S
               PROVE  \E i \in 1..g : \A j \in 1..g : r \in G[j] <=> j = i
    OBVIOUS
  <2>1. BucketAt(Source, date, period, r) \in BucketSet(Source, date, period)
    BY DEF BucketSet
  <2>2. PICK i \in 1..g : buckets[i] = BucketAt(Source, date, period, r)
    BY <1>6, <2>1 DEF Enumerates
  <2>3. \A j \in 1..g : buckets[j] = buckets[i] <=> j = i
    BY <1>6 DEF Enumerates
  <2>4. \A j \in 1..g : r \in G[j] <=> buckets[j] = BucketAt(Source, date, period, r)
    BY <1>8 DEF Counted, S
  <2> QED
    BY <2>2, <2>3, <2>4
<1>13. Plus(SumStart, Sum(u, g)) = Plus(SumStart, Total(Source, m, S))
  <2>1. Parted(S, Source, G, g)
    BY <1>11, <1>12 DEF Parted
  <2>2. GroupTotals(SumStart, u, Source, m, G, g)
    BY <1>9, <1>10 DEF GroupTotals
  <2>3. DatasetOK(Source) /\ m \in Cols(Source) /\ g \in Nat
    BY <1>3, <1>5
  <2> QED
    BY ONLY <2>1, <2>2, <2>3, TotalsAddUp
<1>14. Plus(SumStart, Total(Source, m, S)) = Total(Source, m, S)
  <2> DEFINE y == Raised(Source, m, S)
  <2>1. Total(Source, m, S) = Plus(SumStart, y) /\ y \in Floats
    BY <1>3, TotalIs
  <2> HIDE DEF y
  <2> QED
    BY <2>1, StartAbsorbed
<1> QED
  BY <1>9, <1>13, <1>14
-----------------------------------------------------------------------------
(***************************************************************************)
(* pivot and the aggregate by two columns: a cell and a row are of the     *)
(* same group.                                                             *)
(***************************************************************************)
LEMMA PairOfColumns ==
  ASSUME NEW ds, NEW c \in Cols(ds), NEW d \in Cols(ds)
  PROVE  /\ ColumnsOf(ds, <<c, d>>) /\ Len(<<c, d>>) = 2 /\ DOMAIN <<c, d>> = 1..2
         /\ \A r : /\ DOMAIN KeyAt(ds, <<c, d>>, r) = 1..2
                   /\ KeyAt(ds, <<c, d>>, r) = [n \in 1..2 |-> KeyAt(ds, <<c, d>>, r)[n]]
                   /\ KeyAt(ds, <<c, d>>, r)[1] = Key(ds.rows[r][c])
                   /\ KeyAt(ds, <<c, d>>, r)[2] = Key(ds.rows[r][d])
<1> DEFINE by == <<c, d>>
<1>1. IsSequence(by) /\ Len(by) = 2
  BY Short
<1>2. DOMAIN by = 1..2 /\ by[1] = c /\ by[2] = d /\ \A j \in 1..2 : by[j] \in Cols(ds)
  OBVIOUS
<1> HIDE DEF by
<1>3. ColumnsOf(ds, by)
  BY <1>1, <1>2 DEF ColumnsOf
<1>4. \A r : /\ DOMAIN KeyAt(ds, by, r) = 1..2
             /\ KeyAt(ds, by, r) = [n \in 1..2 |-> KeyAt(ds, by, r)[n]]
             /\ KeyAt(ds, by, r)[1] = Key(ds.rows[r][c])
             /\ KeyAt(ds, by, r)[2] = Key(ds.rows[r][d])
  BY <1>2 DEF KeyAt
<1> QED
  BY <1>1, <1>2, <1>3, <1>4 DEF by

\* Keys of one column.
LEMMA SingleKeys ==
  ASSUME NEW ds, DatasetOK(ds), NEW c \in Cols(ds), NEW i \in 1..Len(KeysOf(ds, <<c>>))
  PROVE  /\ GroupOf(ds, <<c>>, KeysOf(ds, <<c>>)[i]) = {r \in Rows(ds) : Key(ds.rows[r][c]) = KeysOf(ds, <<c>>)[i][1]}
         /\ \E r \in Rows(ds) : KeysOf(ds, <<c>>)[i][1] = Key(ds.rows[r][c])
<1> DEFINE by == <<c>>
           k == KeysOf(ds, by)[i]
<1>1. ColumnsOf(ds, by) /\ DOMAIN by = 1..1 /\ by[1] = c
  BY OneColumn
<1> HIDE DEF by
<1>2. k \in KeySet(ds, by)
  BY <1>1, KeysAre DEF Enumerates, by
<1>3. PICK r \in Rows(ds) : k = KeyAt(ds, by, r)
  BY <1>2 DEF KeySet
<1>4. \A q : KeyAt(ds, by, q) = [j \in 1..1 |-> Key(ds.rows[q][c])]
  BY <1>1 DEF KeyAt
<1> HIDE DEF k
<1>5. k[1] = Key(ds.rows[r][c])
  BY <1>3, <1>4
<1>6. \A q \in Rows(ds) : KeyAt(ds, by, q) = k <=> Key(ds.rows[q][c]) = k[1]
  BY <1>3, <1>4, <1>5
<1>7. GroupOf(ds, by, k) = {q \in Rows(ds) : Key(ds.rows[q][c]) = k[1]}
  BY <1>6 DEF GroupOf
<1> QED
  BY <1>5, <1>7 DEF by, k

\* A key in the name of a column can be told from any other.
LEMMA PivotNames ==
  ASSUME NEW t \in TextKinds, NEW v \in Texts(t), NEW u \in TextKinds, NEW w \in Texts(u),
         <<"pivot">> \o v = <<"pivot">> \o w
  PROVE  v = w
<1> DEFINE p == <<"pivot">>
<1>1. v = <<v[1], v[2], v[3]>> /\ w = <<w[1], w[2], w[3]>>
  BY DEF Texts, Empty, Text
<1>2. /\ v = [i \in 1..3 |-> v[i]] /\ Len(v) = 3
      /\ w = [i \in 1..3 |-> w[i]] /\ Len(w) = 3
  <2>1. \A x, y, z : <<x, y, z>> = [i \in 1..3 |-> <<x, y, z>>[i]] /\ Len(<<x, y, z>>) = 3
    OBVIOUS
  <2> QED
    BY <1>1, <2>1
<1>3. IsSequence(v) /\ IsSequence(w)
  BY <1>2, Listed
<1>4. IsSequence(p) /\ Len(p) = 1
  BY Short
<1> HIDE DEF p
<1>5. \A i \in 1..3 : (p \o v)[1 + i] = v[i] /\ (p \o w)[1 + i] = w[i]
  BY <1>2, <1>3, <1>4, PrependedIs
<1>6. p \o v = p \o w
  BY DEF p
<1>7. \A i \in 1..3 : v[i] = w[i]
  BY <1>5, <1>6
<1> QED
  BY <1>2, <1>7

LEMMA FiniteNumbers ==
  ASSUME NEW ds, DatasetOK(ds), NEW c \in Cols(ds), Finite(ds, c), NEW R \in SUBSET Rows(ds)
  PROVE  Numbers(ds, c, R) \in SUBSET (Floats \ Unbounded)
<1> SUFFICES ASSUME NEW r \in R, IsNumber(ds.rows[r][c])
             PROVE  AsFloat(ds.rows[r][c]) \in Floats \ Unbounded
  BY DEF Numbers, Numbered
<1> DEFINE v == ds.rows[r][c]
<1>1. PICK t \in TextKinds : v \in Family(ds.cols[c].kind, t)
  BY DEF DatasetOK
<1>2. AsFloat(v) \in Floats
  BY NumberType
<1>3. v # Null /\ ds.cols[c].kind # "str"
  BY NumberType
<1>4. v # NaN /\ v # Inf /\ v # MinusInf
  BY DEF Finite, Infinite
<1>5. CASE v \in Floats
  BY <1>4, <1>5, FloatShare DEF Unbounded
<1>6. CASE v \in Ints
  <2>1. v = IntCell(v[3]) /\ v[3] \in Int
    BY <1>6, CellKinds, OpsConstantsOK
  <2>2. AsFloat(v) = FloatCell(v[3])
    BY <2>1 DEF AsFloat, IntCell, FloatCell
  <2> QED
    BY <1>2, <2>1, <2>2, FloatsDiffer DEF Unbounded
<1>7. v \in Floats \/ v \in Ints
  BY <1>1, <1>3 DEF Family, DatasetOK, Kinds
<1> QED
  BY <1>5, <1>6, <1>7

\* Starting from infinity does not change a minimum of numbers, but for the
\* sign of a zero.
LEMMA ExtremesStay ==
  ASSUME NEW V \in SUBSET (Floats \ Unbounded), IsFiniteSet(V), V # {}, NEW zero \in Zeros
  PROVE  /\ Unsigned(Least(V \cup {Inf}, zero)) = Unsigned(Least(V, zero))
         /\ Unsigned(Greatest(V \cup {MinusInf}, zero)) = Unsigned(Greatest(V, zero))
<1>1. V \in SUBSET Floats /\ V \ {NaN} = V /\ V \ {NaN} # {}
  BY DEF Unbounded
<1>2. /\ V \cup {Inf} \in SUBSET Floats /\ IsFiniteSet(V \cup {Inf})
      /\ V \cup {MinusInf} \in SUBSET Floats /\ IsFiniteSet(V \cup {MinusInf})
      /\ (V \cup {Inf}) \ {NaN} = V \cup {Inf} /\ (V \cup {MinusInf}) \ {NaN} = V \cup {MinusInf}
  BY <1>1, FS_AddElement, FloatsDiffer
<1>3. \A v \in V : ~ Below(Inf, v) /\ ~ Below(v, MinusInf)
  <2> TAKE v \in V
  <2>1. v[2] = 0
    BY FloatCases, ZeroIs DEF Unbounded
  <2> QED
    BY <2>1 DEF Below, Inf, MinusInf
<1> DEFINE l == Least(V, zero)
           g == Greatest(V, zero)
           W == V \cup {Inf}
           U == V \cup {MinusInf}
<1>4. l \in V /\ \A w \in V : ~ Below(w, l)
  BY <1>1, LeastIs
<1>5. g \in V /\ \A w \in V : ~ Below(g, w)
  BY <1>1, GreatestIs
<1> HIDE DEF l, g
<1>6. l \in W \ {NaN} /\ \A w \in W \ {NaN} : ~ Below(w, l)
  BY <1>1, <1>2, <1>3, <1>4
<1>7. g \in U \ {NaN} /\ \A w \in U \ {NaN} : ~ Below(g, w)
  BY <1>1, <1>2, <1>3, <1>5
<1>8. W \in SUBSET Floats /\ IsFiniteSet(W) /\ U \in SUBSET Floats /\ IsFiniteSet(U)
  BY <1>2
<1> HIDE DEF U, W
<1>9. Unsigned(l) = Unsigned(Least(W, zero))
  BY <1>6, <1>8, LeastIs
<1>10. Unsigned(g) = Unsigned(Greatest(U, zero))
  BY <1>7, <1>8, GreatestIs
<1> QED
  BY <1>9, <1>10 DEF l, g, U, W

\* The two ways to make a cell of a group.
LEMMA CellsAgree ==
  ASSUME NEW ds, DatasetOK(ds), NEW m \in Cols(ds), Finite(ds, m), NEW f \in {"sum", "min", "max"},
         NEW R \in SUBSET Rows(ds)
  PROVE  /\ Numbers(ds, m, R) # {} => Same(PivotCell(f, ds, m, R), AggValue(f, ds, m, R))
         /\ Numbers(ds, m, R) = {} => /\ PivotCell(f, ds, m, R) = Null
                                      /\ AggValue(f, ds, m, R) \in {Null} \cup Zeros
<1> DEFINE V == Numbers(ds, m, R)
           zero == EitherZero(f, ds, m, R)
<1>1. IsFiniteSet(V) /\ V \in SUBSET (Floats \ Unbounded) /\ zero \in Zeros
  BY NumbersAre, FiniteNumbers, EitherIs
<1>2. CASE V # {}
  <2>1. /\ Same(Least(V \cup {Inf}, zero), Least(V, zero))
        /\ Same(Greatest(V \cup {MinusInf}, zero), Greatest(V, zero))
    <3> HIDE DEF V, zero
    <3> QED
      BY <1>1, <1>2, ExtremesStay DEF Same
  <2>2. CASE f = "sum"
    BY <1>2, <2>2 DEF PivotCell, AggValue, Same
  <2>3. ASSUME f = "min"
        PROVE  Same(PivotCell(f, ds, m, R), AggValue(f, ds, m, R))
    <3>1. PivotCell(f, ds, m, R) = Least(V \cup {Inf}, zero) /\ AggValue(f, ds, m, R) = Least(V, zero)
      BY <1>2, <2>3 DEF PivotCell, AggValue
    <3> HIDE DEF V, zero
    <3> QED
      BY ONLY <2>1, <3>1
  <2>4. ASSUME f = "max"
        PROVE  Same(PivotCell(f, ds, m, R), AggValue(f, ds, m, R))
    <3>1. PivotCell(f, ds, m, R) = Greatest(V \cup {MinusInf}, zero) /\ AggValue(f, ds, m, R) = Greatest(V, zero)
      BY <1>2, <2>4 DEF PivotCell, AggValue
    <3> HIDE DEF V, zero
    <3> QED
      BY ONLY <2>1, <3>1
  <2> QED
    BY <1>2, <2>2, <2>3, <2>4
<1>3. CASE V = {}
  <2>1. PivotCell(f, ds, m, R) = Null
    BY <1>3 DEF PivotCell
  <2>2. f # "sum" => AggValue(f, ds, m, R) = Null
    BY <1>3 DEF AggValue
  <2>3. Total(ds, m, R) \in Zeros
    <3> DEFINE v == Shares(ds, m, R)
               n == Len(ds.rows)
    <3>1. n \in Nat /\ Rows(ds) = 1..n
      BY RowsFinite
    <3>2. Numbered(ds, m, R) = {}
      BY <1>3 DEF Numbers
    <3>3. \A k \in 1..n : v[k] = MinusZero
      BY <3>1, <3>2 DEF Shares, Share, Numbered
    <3>4. Total(ds, m, R) = Plus(SumStart, Sum(v, n))
      BY TotalIs DEF Raised
    <3> HIDE DEF v, n
    <3>5. Sum(v, n) = MinusZero
      BY <3>1, <3>3, SumZeros
    <3>6. SumStart \in Zeros /\ SumStart \in Floats
      BY OpsConstantsOK, ZerosAbsorb
    <3> QED
      BY <3>4, <3>5, <3>6, PlusZero
  <2>4. f = "sum" => AggValue(f, ds, m, R) = Total(ds, m, R)
    BY DEF AggValue
  <2> QED
    BY <1>3, <2>1, <2>2, <2>3, <2>4
<1> QED
  BY <1>2, <1>3

\* The groups by both columns, and where they are in an aggregate.
With(ds, c, d, a, b) == {r \in Rows(ds) : Key(ds.rows[r][c]) = a /\ Key(ds.rows[r][d]) = b}

LEMMA CombinationIs ==
  ASSUME NEW ds, DatasetOK(ds), NEW row \in Cols(ds), NEW col \in Cols(ds), NEW m, NEW f,
         NEW A, AggregateForm(A, ds, <<row, col>>, f, m), NEW a, NEW b
  PROVE  /\ \A q \in With(A, 1, 2, a, b) : A.rows[q][3] = AggValue(f, ds, m, With(ds, row, col, a, b))
         /\ With(A, 1, 2, a, b) = {} <=> With(ds, row, col, a, b) = {}
<1> DEFINE by == <<row, col>>
           keys == KeysOf(ds, by)
           R == With(ds, row, col, a, b)
           Q == With(A, 1, 2, a, b)
<1>1. /\ R = {r \in Rows(ds) : Key(ds.rows[r][row]) = a /\ Key(ds.rows[r][col]) = b}
      /\ Q = {q \in Rows(A) : Key(A.rows[q][1]) = a /\ Key(A.rows[q][2]) = b}
  BY DEF With
<1> HIDE DEF R, Q
<1>2. /\ ColumnsOf(ds, by) /\ Len(by) = 2 /\ DOMAIN by = 1..2
      /\ \A r : /\ KeyAt(ds, by, r) = [n \in 1..2 |-> KeyAt(ds, by, r)[n]]
                /\ KeyAt(ds, by, r)[1] = Key(ds.rows[r][row])
                /\ KeyAt(ds, by, r)[2] = Key(ds.rows[r][col])
  BY PairOfColumns
<1> HIDE DEF by
<1>3. AggregateForm(A, ds, by, f, m)
  BY DEF by
<1>4. Enumerates(keys, KeySet(ds, by)) /\ Len(keys) \in Nat
  BY <1>2, KeysAre DEF Enumerates
<1>5. Rows(A) = 1..Len(keys)
  BY <1>3 DEF AggregateForm, Rows
<1>6. ASSUME NEW q \in Rows(A)
      PROVE  /\ Key(A.rows[q][1]) = keys[q][1] /\ Key(A.rows[q][2]) = keys[q][2]
             /\ A.rows[q][3] = AggValue(f, ds, m, GroupOf(ds, by, keys[q]))
             /\ \E r \in Rows(ds) : keys[q] = KeyAt(ds, by, r)
  <2>1. q \in 1..Len(KeysOf(ds, by)) /\ 1 \in 1..Len(by) /\ 2 \in 1..Len(by)
    BY <1>2, <1>5
  <2>2. Key(A.rows[q][1]) = keys[q][1]
    BY ONLY <1>2, <1>3, <2>1, DatasetOK(ds), GroupKey
  <2>3. Key(A.rows[q][2]) = keys[q][2]
    BY ONLY <1>2, <1>3, <2>1, DatasetOK(ds), GroupKey
  <2>4. A.rows[q][2 + 1] = AggValue(f, ds, m, GroupOf(ds, by, keys[q]))
    BY <1>2, <1>3, <2>1 DEF AggregateForm
  <2>5. keys[q] \in KeySet(ds, by)
    BY <1>4, <2>1 DEF Enumerates
  <2> QED
    BY <2>2, <2>3, <2>4, <2>5 DEF KeySet
<1> HIDE DEF keys
<1>7. ASSUME NEW q \in Rows(A), NEW r \in Rows(ds)
      PROVE  r \in GroupOf(ds, by, keys[q]) <=> Key(ds.rows[r][row]) = Key(A.rows[q][1]) /\ Key(ds.rows[r][col]) = Key(A.rows[q][2])
  <2>1. PICK p \in Rows(ds) : keys[q] = KeyAt(ds, by, p)
    BY <1>6
  <2>2. keys[q] = [n \in 1..2 |-> keys[q][n]]
    BY <1>2, <2>1
  <2>3. KeyAt(ds, by, r) = keys[q] <=> KeyAt(ds, by, r)[1] = keys[q][1] /\ KeyAt(ds, by, r)[2] = keys[q][2]
    <3> DEFINE k == KeyAt(ds, by, r)
               l == keys[q]
    <3>1. k = [n \in 1..2 |-> k[n]] /\ l = [n \in 1..2 |-> l[n]]
      BY <1>2, <2>2
    <3> HIDE DEF k, l
    <3>2. k[1] = l[1] /\ k[2] = l[2] => k = l
      <4> SUFFICES ASSUME k[1] = l[1], k[2] = l[2] PROVE k = l
        OBVIOUS
      <4>1. \A n \in 1..2 : k[n] = l[n]
        OBVIOUS
      <4> QED
        BY <3>1, <4>1
    <3> QED
      BY <3>2 DEF k, l
  <2>4. r \in GroupOf(ds, by, keys[q]) <=> KeyAt(ds, by, r) = keys[q]
    BY DEF GroupOf
  <2> QED
    BY <1>2, <1>6, <2>3, <2>4
<1>8. ASSUME NEW q \in Q
      PROVE  GroupOf(ds, by, keys[q]) = R /\ A.rows[q][3] = AggValue(f, ds, m, R) /\ R # {}
  <2>1. q \in Rows(A) /\ Key(A.rows[q][1]) = a /\ Key(A.rows[q][2]) = b
    BY <1>1
  <2>2. GroupOf(ds, by, keys[q]) \subseteq Rows(ds)
    BY DEF GroupOf
  <2>3. GroupOf(ds, by, keys[q]) = R
    BY <1>1, <1>7, <2>1, <2>2
  <2>4. PICK p \in Rows(ds) : keys[q] = KeyAt(ds, by, p)
    BY <1>6, <2>1
  <2>5. p \in GroupOf(ds, by, keys[q])
    BY <2>4 DEF GroupOf
  <2> QED
    BY <1>6, <2>1, <2>3, <2>5
<1>9. ASSUME NEW r \in R
      PROVE  Q # {}
  <2>1. r \in Rows(ds) /\ KeyAt(ds, by, r) \in KeySet(ds, by)
    BY <1>1 DEF KeySet
  <2>2. PICK q \in 1..Len(keys) : keys[q] = KeyAt(ds, by, r)
    BY <1>4, <2>1 DEF Enumerates
  <2>3. q \in Rows(A) /\ Key(A.rows[q][1]) = a /\ Key(A.rows[q][2]) = b
    BY <1>1, <1>2, <1>5, <1>6, <2>2
  <2> QED
    BY <1>1, <2>3
<1> QED
  BY <1>8, <1>9 DEF R, Q

LEMMA KeysAreTexts ==
  ASSUME NEW ds, DatasetOK(ds), NEW r \in Rows(ds), NEW c \in Cols(ds)
  PROVE  \E t \in TextKinds : Key(ds.rows[r][c]) \in Texts(t)
<1>1. PICK t \in TextKinds : ds.rows[r][c] \in Family(ds.cols[c].kind, t)
  BY DEF DatasetOK
<1>2. ds.cols[c].kind \in Kinds
  BY DEF DatasetOK
<1> DEFINE kind == ds.cols[c].kind
           v == ds.rows[r][c]
<1>3. kind \in Kinds /\ v \in Family(kind, t)
  BY <1>1, <1>2
<1> HIDE DEF kind, v
<1>4. Key(v) \in Texts(KeyKind(kind, t)) /\ KeyKind(kind, t) \in TextKinds
  BY <1>3, KeyType
<1> QED
  BY <1>4 DEF v

(***************************************************************************)
(* A cell of a pivot is the row of the aggregate by both columns, if there *)
(* is one; its minimum, which starts from infinity, is that of the group.  *)
(***************************************************************************)
LEMMA PivotsFollow == IInv => PivotsFlatten
<1> DEFINE row == Newest.op.row
           col == Newest.op.col
           m == Newest.op.m
           f == Newest.op.f
           flat == Aggregated(Source, <<row, col>>, f, m)
           At(i, j) == {Unsigned(flat.rows[r][3]) : r \in {q \in Rows(flat) :
              Key(flat.rows[q][1]) = Newest.rows[i][1] /\ <<"pivot">> \o Key(flat.rows[q][2]) = Newest.cols[j].name}}
<1> SUFFICES ASSUME IInv, Made("pivot"), f \in {"sum", "min", "max"}, Finite(Source, m),
                    NEW i \in Rows(Newest), NEW j \in 2..Len(Newest.cols)
             PROVE  \/ At(i, j) = {Unsigned(Newest.rows[i][j])}
                    \/ Newest.rows[i][j] = Null /\ At(i, j) \subseteq {FloatCell(0)}
  BY DEF PivotsFlatten
<1>1. /\ SetOK(sets, Len(sets)) /\ Newest = sets[Len(sets)] /\ Newest.op.name = "pivot" /\ DatasetOK(Newest)
      /\ (Newest.parent # 0 => Source = sets[Newest.parent] /\ DatasetOK(Source))
  BY NewestIs
<1>2. PivotMade(sets, Len(sets))
  BY <1>1 DEF SetOK, Faithful
<1>3. DatasetOK(Source) /\ row \in Cols(Source) /\ col \in Cols(Source) /\ m \in Cols(Source)
      /\ PivotForm(Newest, Source, row, col, m, f)
  BY <1>1, <1>2 DEF PivotMade
<1> DEFINE down == KeysOf(Source, <<row>>)
           across == KeysOf(Source, <<col>>)
           a == down[i][1]
           b == across[j - 1][1]
           R == With(Source, row, col, a, b)
           Q == With(flat, 1, 2, a, b)
           by == <<row, col>>
           keys == KeysOf(Source, by)
<1>4. f \in {"sum", "min", "max"} /\ Finite(Source, m)
  OBVIOUS
<1> HIDE DEF row, col, m, f
<1>5. Len(down) \in Nat /\ Len(across) \in Nat
  BY <1>3, OneColumn, KeysAre DEF Enumerates
<1>6. i \in 1..Len(down) /\ j - 1 \in 1..Len(across) /\ j = 1 + (j - 1)
  BY <1>3, <1>5 DEF PivotForm, Rows
<1>7. /\ Newest.rows[i][1] = a /\ Newest.cols[j].name = <<"pivot">> \o b
      /\ Newest.rows[i][j] = PivotCell(f, Source, m, GroupOf(Source, <<row>>, down[i]) \cap GroupOf(Source, <<col>>, across[j - 1]))
  <2> DEFINE k == j - 1
  <2>1. k \in 1..Len(across) /\ j = 1 + k
    BY <1>6
  <2> HIDE DEF k
  <2>2. /\ Newest.rows[i][1] = down[i][1] /\ Newest.cols[1 + k] = FloatColumn(<<"pivot">> \o across[k][1])
        /\ Newest.rows[i][1 + k] = PivotCell(f, Source, m, GroupOf(Source, <<row>>, down[i]) \cap GroupOf(Source, <<col>>, across[k]))
    BY <1>3, <1>6, <2>1 DEF PivotForm
  <2> QED
    BY <2>1, <2>2, FloatColumnIs DEF k
<1>8. /\ GroupOf(Source, <<row>>, down[i]) = {r \in Rows(Source) : Key(Source.rows[r][row]) = a}
      /\ \E r \in Rows(Source) : a = Key(Source.rows[r][row])
  BY <1>3, <1>6, SingleKeys
<1>9. /\ GroupOf(Source, <<col>>, across[j - 1]) = {r \in Rows(Source) : Key(Source.rows[r][col]) = b}
      /\ \E r \in Rows(Source) : b = Key(Source.rows[r][col])
  BY <1>3, <1>6, SingleKeys
<1> HIDE DEF a, b
<1>10. Newest.rows[i][j] = PivotCell(f, Source, m, R)
  BY <1>7, <1>8, <1>9 DEF With
<1>11. AggregateForm(flat, Source, by, f, m) /\ ColumnsOf(Source, by) /\ Len(by) = 2
  BY <1>3, PairOfColumns, AggregateIs
<1> HIDE DEF flat, down, across
<1>12. /\ \A q \in Q : flat.rows[q][3] = AggValue(f, Source, m, R)
       /\ Q = {} <=> R = {}
  <2>1. AggregateForm(flat, Source, <<row, col>>, f, m)
    BY <1>11
  <2> QED
    BY ONLY <1>3, <2>1, CombinationIs
<1>13. \A r : KeyAt(Source, by, r)[2] = Key(Source.rows[r][col])
  BY DEF KeyAt
<1>14. \A q \in Rows(flat) : \E t \in TextKinds : Key(flat.rows[q][2]) \in Texts(t)
  <2> TAKE q \in Rows(flat)
  <2> HIDE DEF by
  <2>1. q \in 1..Len(KeysOf(Source, by)) /\ 2 \in 1..Len(by)
    BY <1>11 DEF AggregateForm, Rows
  <2> HIDE DEF keys
  <2>2. Key(flat.rows[q][2]) = KeysOf(Source, by)[q][2]
    <3>1. DatasetOK(Source) /\ AggregateForm(flat, Source, by, f, m) /\ ColumnsOf(Source, by)
      BY <1>3, <1>11
    <3> QED
      BY ONLY <2>1, <3>1, GroupKey
  <2>3. Key(flat.rows[q][2]) = keys[q][2]
    BY <2>2 DEF keys
  <2>4. keys[q] \in KeySet(Source, by)
    BY <1>3, <1>11, <2>1, KeysAre DEF Enumerates, keys
  <2>5. PICK r \in Rows(Source) : keys[q] = KeyAt(Source, by, r)
    BY <2>4 DEF KeySet
  <2>6. keys[q][2] = Key(Source.rows[r][col])
    BY <1>13, <2>5
  <2> QED
    BY <1>3, <2>3, <2>6, KeysAreTexts
<1>15. \E t \in TextKinds : b \in Texts(t)
  BY <1>3, <1>9, KeysAreTexts
<1>16. \A q \in Rows(flat) : <<"pivot">> \o Key(flat.rows[q][2]) = <<"pivot">> \o b <=> Key(flat.rows[q][2]) = b
  BY <1>14, <1>15, PivotNames
<1>17. At(i, j) = {Unsigned(flat.rows[q][3]) : q \in Q}
  <2>1. \A q : q \in Q <=> q \in Rows(flat) /\ Key(flat.rows[q][1]) = a /\ Key(flat.rows[q][2]) = b
    BY DEF With
  <2>2. \A q \in Rows(flat) : (Key(flat.rows[q][1]) = Newest.rows[i][1] /\ <<"pivot">> \o Key(flat.rows[q][2]) = Newest.cols[j].name)
                              <=> q \in Q
    BY <1>7, <1>16, <2>1
  <2> HIDE DEF Q
  <2> QED
    BY <2>1, <2>2
<1>18. /\ Numbers(Source, m, R) # {} => Same(PivotCell(f, Source, m, R), AggValue(f, Source, m, R))
       /\ Numbers(Source, m, R) = {} => /\ PivotCell(f, Source, m, R) = Null
                                        /\ AggValue(f, Source, m, R) \in {Null} \cup Zeros
  <2>1. R \in SUBSET Rows(Source)
    BY DEF With
  <2> HIDE DEF R
  <2> QED
    BY ONLY <1>3, <1>4, <2>1, CellsAgree
<1>19. Numbers(Source, m, R) # {} => R # {}
  BY DEF Numbers, Numbered
<1> DEFINE x == AggValue(f, Source, m, R)
           y == PivotCell(f, Source, m, R)
<1>20. (R = {} /\ At(i, j) = {}) \/ At(i, j) = {Unsigned(x)}
  <2> HIDE DEF Q, R, x, At
  <2>1. \A q \in Q : flat.rows[q][3] = x
    BY <1>12 DEF x
  <2> QED
    BY <1>12, <1>17, <2>1
<1>21. /\ Numbers(Source, m, R) # {} => Unsigned(y) = Unsigned(x) /\ R # {}
       /\ Numbers(Source, m, R) = {} => y = Null /\ (x = Null \/ Unsigned(x) = FloatCell(0))
  BY <1>18, <1>19 DEF Same, Zeros, Unsigned
<1> HIDE DEF R, At, x, y
<1> QED
  BY <1>10, <1>20, <1>21 DEF y
-----------------------------------------------------------------------------
(***************************************************************************)
(* An aggregate of an aggregate.  The rows of S stand for groups G of the  *)
(* rows of D; a group P of the former is a group R of the latter.          *)
(***************************************************************************)
Divides(G, S, D, P, R) ==
  /\ P \in SUBSET Rows(S) /\ R \in SUBSET Rows(D)
  /\ \A q \in Rows(S) : G[q] \in SUBSET Rows(D)
  /\ \A q \in Rows(S) : \A r \in G[q] : q \in P <=> r \in R
  /\ \A r \in Rows(D) : \E q \in Rows(S) : \A p \in Rows(S) : r \in G[p] <=> p = q

\* The sets F[i] together.
Covers(F, I, V) == (\A i \in I : F[i] \subseteq V) /\ \A v \in V : \E i \in I : v \in F[i]

LeastOfEach(W, F, Z, I) ==
  /\ \A i \in I : F[i] # {} => Least(F[i], Z[i]) \in W
  /\ \A w \in W : \E i \in I : F[i] # {} /\ w = Least(F[i], Z[i])

GreatestOfEach(W, F, Z, I) ==
  /\ \A i \in I : F[i] # {} => Greatest(F[i], Z[i]) \in W
  /\ \A w \in W : \E i \in I : F[i] # {} /\ w = Greatest(F[i], Z[i])

LEMMA LeastOfLeast ==
  ASSUME NEW V \in SUBSET Floats, IsFiniteSet(V), NEW W \in SUBSET Floats, IsFiniteSet(W),
         NEW F, NEW I, NEW Z \in [I -> Zeros], NEW z1 \in Zeros, NEW z2 \in Zeros,
         Covers(F, I, V), LeastOfEach(W, F, Z, I)
  PROVE  Same(Least(W, z1), Least(V, z2)) /\ (W = {} <=> V = {})
<1>1. \A i \in I : F[i] \in SUBSET Floats /\ IsFiniteSet(F[i]) /\ F[i] \subseteq V
  BY FS_Subset DEF Covers
<1>2. W = {} <=> V = {}
  BY DEF Covers, LeastOfEach
<1>3. CASE V \ {NaN} = {}
  <2>1. \A w \in W : w = NaN
    <3> TAKE w \in W
    <3>1. PICK i \in I : F[i] # {} /\ w = Least(F[i], Z[i])
      BY DEF LeastOfEach
    <3> DEFINE E == F[i]
               z == Z[i]
    <3>2. E \in SUBSET Floats /\ IsFiniteSet(E) /\ E \ {NaN} = {} /\ z \in Zeros
      BY <1>1, <1>3
    <3> HIDE DEF E, z
    <3>3. Least(E, z) = NaN
      BY <3>2, LeastIs
    <3> QED
      BY <3>1, <3>3 DEF E, z
  <2>2. W \ {NaN} = {}
    BY <2>1
  <2>3. Least(W, z1) = NaN
    BY <2>2, LeastIs
  <2>4. Least(V, z2) = NaN
    BY <1>3, LeastIs
  <2> QED
    BY <1>2, <2>3, <2>4 DEF Same
<1>4. CASE V \ {NaN} # {}
  <2> DEFINE l == Least(V, z2)
  <2>1. l \in V \ {NaN} /\ \A v \in V \ {NaN} : ~ Below(v, l)
    BY <1>4, LeastIs
  <2> HIDE DEF l
  <2>2. PICK e \in W \ {NaN} : Unsigned(e) = Unsigned(l)
    <3>1. PICK i \in I : l \in F[i]
      BY <2>1 DEF Covers
    <3> DEFINE E == F[i]
               z == Z[i]
    <3>2. E \in SUBSET Floats /\ IsFiniteSet(E) /\ l \in E \ {NaN} /\ z \in Zeros
          /\ \A v \in E \ {NaN} : ~ Below(v, l)
      BY <1>1, <2>1, <3>1
    <3>3. E # {} => Least(E, z) \in W
      BY DEF LeastOfEach
    <3> HIDE DEF E, z
    <3>4. Unsigned(l) = Unsigned(Least(E, z)) /\ Least(E, z) # NaN
      BY <3>2, LeastIs
    <3> QED
      BY <3>2, <3>3, <3>4
  <2>3. \A w \in W \ {NaN} : w \in V
    <3> TAKE w \in W \ {NaN}
    <3>1. PICK i \in I : F[i] # {} /\ w = Least(F[i], Z[i])
      BY DEF LeastOfEach
    <3> DEFINE E == F[i]
               z == Z[i]
    <3>2. E \in SUBSET Floats /\ IsFiniteSet(E) /\ E \subseteq V /\ w = Least(E, z) /\ w # NaN /\ z \in Zeros
      BY <1>1, <3>1
    <3> HIDE DEF E, z
    <3>3. w \in E
      BY <3>2, LeastIs
    <3> QED
      BY <3>2, <3>3
  <2>4. \A w \in W \ {NaN} : ~ Below(w, e)
    <3> TAKE w \in W \ {NaN}
    <3>1. ~ Below(w, l) /\ w \in Floats /\ e \in Floats /\ l \in Floats
      BY <2>1, <2>3
    <3> QED
      BY <2>2, <3>1, BelowOrder
  <2>5. Unsigned(e) = Unsigned(Least(W, z1))
    BY <2>4, LeastIs
  <2> QED
    BY <1>2, <2>2, <2>5 DEF l, Same
<1> QED
  BY <1>3, <1>4

LEMMA GreatestOfGreatest ==
  ASSUME NEW V \in SUBSET Floats, IsFiniteSet(V), NEW W \in SUBSET Floats, IsFiniteSet(W),
         NEW F, NEW I, NEW Z \in [I -> Zeros], NEW z1 \in Zeros, NEW z2 \in Zeros,
         Covers(F, I, V), GreatestOfEach(W, F, Z, I)
  PROVE  Same(Greatest(W, z1), Greatest(V, z2)) /\ (W = {} <=> V = {})
<1>1. \A i \in I : F[i] \in SUBSET Floats /\ IsFiniteSet(F[i]) /\ F[i] \subseteq V
  BY FS_Subset DEF Covers
<1>2. W = {} <=> V = {}
  BY DEF Covers, GreatestOfEach
<1>3. CASE V \ {NaN} = {}
  <2>1. \A w \in W : w = NaN
    <3> TAKE w \in W
    <3>1. PICK i \in I : F[i] # {} /\ w = Greatest(F[i], Z[i])
      BY DEF GreatestOfEach
    <3> DEFINE E == F[i]
               z == Z[i]
    <3>2. E \in SUBSET Floats /\ IsFiniteSet(E) /\ E \ {NaN} = {} /\ z \in Zeros
      BY <1>1, <1>3
    <3> HIDE DEF E, z
    <3>3. Greatest(E, z) = NaN
      BY <3>2, GreatestIs
    <3> QED
      BY <3>1, <3>3 DEF E, z
  <2>2. W \ {NaN} = {}
    BY <2>1
  <2>3. Greatest(W, z1) = NaN
    BY <2>2, GreatestIs
  <2>4. Greatest(V, z2) = NaN
    BY <1>3, GreatestIs
  <2> QED
    BY <1>2, <2>3, <2>4 DEF Same
<1>4. CASE V \ {NaN} # {}
  <2> DEFINE g == Greatest(V, z2)
  <2>1. g \in V \ {NaN} /\ \A v \in V \ {NaN} : ~ Below(g, v)
    BY <1>4, GreatestIs
  <2> HIDE DEF g
  <2>2. PICK e \in W \ {NaN} : Unsigned(e) = Unsigned(g)
    <3>1. PICK i \in I : g \in F[i]
      BY <2>1 DEF Covers
    <3> DEFINE E == F[i]
               z == Z[i]
    <3>2. E \in SUBSET Floats /\ IsFiniteSet(E) /\ g \in E \ {NaN} /\ z \in Zeros
          /\ \A v \in E \ {NaN} : ~ Below(g, v)
      BY <1>1, <2>1, <3>1
    <3>3. E # {} => Greatest(E, z) \in W
      BY DEF GreatestOfEach
    <3> HIDE DEF E, z
    <3>4. Unsigned(g) = Unsigned(Greatest(E, z)) /\ Greatest(E, z) # NaN
      BY <3>2, GreatestIs
    <3> QED
      BY <3>2, <3>3, <3>4
  <2>3. \A w \in W \ {NaN} : w \in V
    <3> TAKE w \in W \ {NaN}
    <3>1. PICK i \in I : F[i] # {} /\ w = Greatest(F[i], Z[i])
      BY DEF GreatestOfEach
    <3> DEFINE E == F[i]
               z == Z[i]
    <3>2. E \in SUBSET Floats /\ IsFiniteSet(E) /\ E \subseteq V /\ w = Greatest(E, z) /\ w # NaN /\ z \in Zeros
      BY <1>1, <3>1
    <3> HIDE DEF E, z
    <3>3. w \in E
      BY <3>2, GreatestIs
    <3> QED
      BY <3>2, <3>3
  <2>4. \A w \in W \ {NaN} : ~ Below(e, w)
    <3> TAKE w \in W \ {NaN}
    <3>1. ~ Below(g, w) /\ w \in Floats /\ e \in Floats /\ g \in Floats
      BY <2>1, <2>3
    <3> QED
      BY <2>2, <3>1, BelowOrder
  <2>5. Unsigned(e) = Unsigned(Greatest(W, z1))
    BY <2>4, GreatestIs
  <2> QED
    BY <1>2, <2>2, <2>5 DEF g, Same
<1> QED
  BY <1>3, <1>4

\* What the value of a group is made of.
LEMMA NumbersDivide ==
  ASSUME NEW D, DatasetOK(D), NEW c \in Cols(D), NEW S, NEW G, NEW P, NEW R, Divides(G, S, D, P, R)
  PROVE  Covers([q \in P |-> Numbers(D, c, G[q])], P, Numbers(D, c, R))
<1> DEFINE F == [q \in P |-> Numbers(D, c, G[q])]
           V == Numbers(D, c, R)
<1>1. ASSUME NEW q \in P
      PROVE  F[q] \subseteq V
  <2>1. \A r \in G[q] : r \in R
    BY DEF Divides
  <2> QED
    BY <2>1 DEF Numbers, Numbered
<1>2. ASSUME NEW v \in V
      PROVE  \E q \in P : v \in F[q]
  <2>1. PICK r \in R : IsNumber(D.rows[r][c]) /\ v = AsFloat(D.rows[r][c])
    BY DEF Numbers, Numbered
  <2>2. PICK q \in Rows(S) : r \in G[q]
    BY DEF Divides
  <2>3. q \in P
    BY <2>2 DEF Divides
  <2>4. v \in F[q]
    BY <2>1, <2>2, <2>3 DEF Numbers, Numbered
  <2> QED
    BY <2>3, <2>4
<1> QED
  BY <1>1, <1>2 DEF Covers

\* The groups of R, of which those outside it are left out.
PartOf(G, S, P) == [q \in 1..Len(S.rows) |-> IF q \in P THEN G[q] ELSE {}]

LEMMA DividesParted ==
  ASSUME NEW D, DatasetOK(D), NEW S, DatasetOK(S), NEW G, NEW P, NEW R, Divides(G, S, D, P, R)
  PROVE  Parted(R, D, PartOf(G, S, P), Len(S.rows))
<1> DEFINE g == Len(S.rows)
           H == PartOf(G, S, P)
<1>1. g \in Nat /\ Rows(S) = 1..g
  BY RowsFinite
<1>2. \A q \in 1..g : H[q] = IF q \in P THEN G[q] ELSE {}
  BY DEF PartOf
<1> HIDE DEF g, H
<1>3. \A q \in 1..g : H[q] \subseteq R
  BY <1>1, <1>2 DEF Divides
<1>4. \A r \in Rows(D) : r \in R => \E i \in 1..g : \A j \in 1..g : r \in H[j] <=> j = i
  <2> SUFFICES ASSUME NEW r \in Rows(D), r \in R
               PROVE  \E i \in 1..g : \A j \in 1..g : r \in H[j] <=> j = i
    OBVIOUS
  <2>1. PICK q \in Rows(S) : \A p \in Rows(S) : r \in G[p] <=> p = q
    BY DEF Divides
  <2>2. q \in P
    BY <2>1 DEF Divides
  <2>3. \A p \in 1..g : r \in H[p] <=> p = q
    BY <1>1, <1>2, <2>1, <2>2
  <2>4. q \in 1..g
    BY <1>1
  <2> QED
    BY ONLY <2>3, <2>4, Zenon
<1> QED
  BY <1>3, <1>4 DEF Parted, g, H

\* Where a cell of S is the value of a group, one of a group of such cells is
\* that of the rows they stand for.
ValuesRolled(f, g, S, m, D, c, G) ==
  /\ f = (IF g = "count" THEN "sum" ELSE g) /\ f \in {"sum", "min", "max"}
  /\ \A q \in Rows(S) : S.rows[q][m] = AggValue(g, D, c, G[q])

LEMMA TallyIs ==
  ASSUME NEW E, Cardinality(E) \in Nat
  PROVE  Tally(E) \in Floats /\ Plus(FloatCell(0), Tally(E)) = Plus(FloatCell(0), FloatCell(Cardinality(E)))
<1> DEFINE x == FloatCell(Cardinality(E))
<1>1. x \in Floats /\ x # MinusZero
  BY FloatsDiffer
<1>2. E = {} => x = FloatCell(0)
  BY FS_EmptySet
<1>3. E # {} => Tally(E) = x
  BY DEF Tally
<1>4. E = {} => Tally(E) = MinusZero
  BY DEF Tally
<1> HIDE DEF x
<1>5. Plus(FloatCell(0), MinusZero) = FloatCell(0) /\ Plus(FloatCell(0), FloatCell(0)) = FloatCell(0)
  BY ZerosAbsorb DEF Zeros
<1> QED
  BY <1>1, <1>2, <1>3, <1>4, <1>5, ZeroIs DEF x

LEMMA SumsRoll ==
  ASSUME NEW D, DatasetOK(D), NEW c \in Cols(D), NEW S, DatasetOK(S), NEW m \in Cols(S),
         NEW G, NEW P, NEW R, Divides(G, S, D, P, R), NEW f, ValuesRolled("sum", f, S, m, D, c, G)
  PROVE  Same(Total(S, m, P), AggValue(f, D, c, R))
<1> DEFINE g == Len(S.rows)
           n == Len(D.rows)
           H == PartOf(G, S, P)
           u == Shares(S, m, P)
           z == FloatCell(0)
<1>1. g \in Nat /\ Rows(S) = 1..g /\ n \in Nat /\ Rows(D) = 1..n
  BY RowsFinite
<1>2. \A q \in 1..g : H[q] = IF q \in P THEN G[q] ELSE {}
  BY DEF PartOf
<1>3. \A q \in 1..g : u[q] = IF q \in P /\ IsNumber(S.rows[q][m]) THEN AsFloat(S.rows[q][m]) ELSE MinusZero
  BY <1>1 DEF Shares, Share
<1>4. u \in Vectors(g) /\ Total(S, m, P) = Plus(SumStart, Sum(u, g)) /\ Sum(u, g) \in Floats /\ Total(S, m, P) \in Floats
  BY TotalIs DEF Raised
<1>5. Parted(R, D, H, g)
  BY DividesParted
<1>6. f \in {"sum", "count"} /\ \A q \in 1..g : S.rows[q][m] = AggValue(f, D, c, G[q])
  BY <1>1 DEF ValuesRolled
<1>7. \A q \in 1..g : H[q] \in SUBSET (1..n)
  BY <1>1, <1>2 DEF Divides
<1> HIDE DEF g, n, H, u, z
<1>8. z \in {SumStart, FloatCell(0)} /\ z \in Zeros /\ Plus(z, MinusZero) = z
  BY ZerosAbsorb DEF z, Zeros
<1>9. Unsigned(Total(S, m, P)) = Plus(z, Sum(u, g))
  <2>1. Unsigned(Total(S, m, P)) = Plus(z, Total(S, m, P))
    BY <1>4, UnsignedIs DEF z
  <2>2. Plus(z, Plus(SumStart, Sum(u, g))) = Plus(z, Sum(u, g))
    BY <1>4, <1>8, StartAbsorbed
  <2> QED
    BY <1>4, <2>1, <2>2
<1>10. CASE f = "sum"
  <2>1. \A q \in 1..g : Plus(z, u[q]) = Plus(z, Total(D, c, H[q]))
    <3> TAKE q \in 1..g
    <3>1. CASE q \in P
      <4> DEFINE E == G[q]
                 x == S.rows[q][m]
      <4>1. x = Total(D, c, E)
        BY <1>6, <1>10 DEF AggValue
      <4> HIDE DEF E
      <4>2. Total(D, c, E) \in Floats
        BY TotalIs
      <4> HIDE DEF x
      <4>3. IsNumber(x) /\ AsFloat(x) = x
        BY <4>1, <4>2, FloatShare
      <4>4. u[q] = x
        BY <1>3, <3>1, <4>3 DEF x
      <4> QED
        BY <1>2, <3>1, <4>1, <4>4 DEF E
    <3>2. CASE q \notin P
      <4> DEFINE v == Shares(D, c, {})
      <4>1. \A k \in 1..n : v[k] = MinusZero
        BY <1>1 DEF Shares, Share
      <4>2. Total(D, c, {}) = Plus(SumStart, Sum(v, n))
        BY TotalIs DEF n, Raised
      <4> HIDE DEF v
      <4>3. Sum(v, n) = MinusZero
        BY <1>1, <4>1, SumZeros
      <4>4. Plus(z, Plus(SumStart, MinusZero)) = Plus(z, MinusZero)
        BY <1>8, ZeroIs, StartAbsorbed
      <4>5. H[q] = {} /\ u[q] = MinusZero
        BY <1>2, <1>3, <3>2
      <4> QED
        BY <4>2, <4>3, <4>4, <4>5
    <3> QED
      BY <3>1, <3>2
  <2>2. GroupTotals(z, u, D, c, H, g)
    BY <1>4, <2>1 DEF GroupTotals
  <2>3. Plus(z, Sum(u, g)) = Plus(z, Total(D, c, R))
    BY <1>1, <1>5, <1>8, <2>2, TotalsAddUp
  <2>4. Unsigned(Total(D, c, R)) = Plus(z, Total(D, c, R))
    BY TotalIs, UnsignedIs DEF z
  <2> QED
    BY <1>9, <1>10, <2>3, <2>4 DEF AggValue, Same
<1>11. CASE f = "count"
  <2> DEFINE v == [r \in 1..n |-> IF r \in R THEN FloatCell(1) ELSE MinusZero]
             w == [q \in 1..g |-> Tally(H[q])]
  <2>1. R \in SUBSET (1..n) /\ \A r \in 1..n : v[r] = IF r \in R THEN FloatCell(1) ELSE MinusZero
    BY <1>1 DEF Divides
  <2>2. v \in Vectors(n)
    BY FloatsDiffer DEF Vectors
  <2> HIDE DEF v
  <2>3. Sum(v, n) = Tally(R) /\ Cardinality(R) \in Nat
    BY <1>1, <2>1, CountIsSum
  <2>4. SharedOut(v, n, H, g)
    <3> SUFFICES ASSUME NEW r \in 1..n, v[r] # MinusZero
                 PROVE  \E i \in 1..g : \A j \in 1..g : r \in H[j] <=> j = i
      BY DEF SharedOut
    <3>1. r \in Rows(D) /\ r \in R
      BY <1>1, <2>1
    <3> QED
      BY <1>5, <3>1 DEF Parted
  <2>5. \A q \in 1..g : /\ Cardinality(H[q]) \in Nat
                        /\ Tally(H[q]) = Sum([r \in 1..n |-> IF r \in H[q] THEN v[r] ELSE MinusZero], n)
    <3> TAKE q \in 1..g
    <3> DEFINE E == H[q]
               x == [r \in 1..n |-> IF r \in E THEN v[r] ELSE MinusZero]
    <3>1. E \in SUBSET (1..n) /\ E \subseteq R
      BY <1>5, <1>7 DEF Parted
    <3> HIDE DEF E
    <3>2. \A r \in 1..n : x[r] = IF r \in E THEN FloatCell(1) ELSE MinusZero
      BY <2>1, <3>1
    <3> HIDE DEF x
    <3>3. Sum(x, n) = Tally(E) /\ Cardinality(E) \in Nat
      BY <1>1, <3>1, <3>2, CountIsSum
    <3> QED
      BY <3>3 DEF x, E
  <2>6. \A q \in 1..g : w[q] = Tally(H[q])
    OBVIOUS
  <2>7. w \in Vectors(g)
    BY <2>5, TallyIs DEF Vectors
  <2> HIDE DEF w
  <2>8. GroupSums(w, v, n, H, g)
    BY <2>5, <2>6 DEF GroupSums
  <2>9. Sum(w, g) = Tally(R)
    BY <1>1, <2>2, <2>3, <2>4, <2>8, SumGrouped
  <2>10. \A q \in 1..g : Plus(z, u[q]) = Plus(z, w[q])
    <3> TAKE q \in 1..g
    <3> DEFINE E == H[q]
               x == FloatCell(Cardinality(E))
    <3>1. w[q] = Tally(E) /\ Cardinality(E) \in Nat
      BY <2>5, <2>6
    <3>2. CASE q \in P
      <4>1. S.rows[q][m] = x
        BY <1>2, <1>6, <1>11, <3>2 DEF AggValue
      <4> HIDE DEF E
      <4>2. x \in Floats
        BY <3>1, FloatsDiffer
      <4>3. IsNumber(x) /\ AsFloat(x) = x
        BY <4>2, FloatShare
      <4>4. u[q] = x
        BY <1>3, <3>2, <4>1, <4>3
      <4> QED
        BY <3>1, <4>4, TallyIs DEF z
    <3>3. CASE q \notin P
      BY <1>2, <1>3, <3>1, <3>3 DEF Tally
    <3> QED
      BY <3>2, <3>3
  <2>11. Plus(z, Sum(u, g)) = Plus(z, Sum(w, g))
    BY <1>1, <1>4, <1>8, <2>7, <2>10, SumsAlike
  <2> DEFINE x == FloatCell(Cardinality(R))
  <2>12. Plus(z, Tally(R)) = Plus(z, x) /\ x \in Floats
    BY <2>3, TallyIs, FloatsDiffer DEF z
  <2>13. AggValue(f, D, c, R) = x
    BY <1>11 DEF AggValue
  <2> HIDE DEF x
  <2>14. Unsigned(x) = Plus(z, x)
    BY <2>12, UnsignedIs DEF z
  <2> QED
    BY <1>9, <2>9, <2>11, <2>12, <2>13, <2>14 DEF Same
<1> QED
  BY <1>6, <1>10, <1>11

LEMMA ExtremesRoll ==
  ASSUME NEW D, DatasetOK(D), NEW c \in Cols(D), NEW S, DatasetOK(S), NEW m \in Cols(S),
         NEW G, NEW P, NEW R, Divides(G, S, D, P, R), NEW f \in {"min", "max"}, ValuesRolled(f, f, S, m, D, c, G)
  PROVE  Same(AggValue(f, S, m, P), AggValue(f, D, c, R))
<1> DEFINE W == Numbers(S, m, P)
           V == Numbers(D, c, R)
           F == [q \in P |-> Numbers(D, c, G[q])]
           Z == [q \in P |-> EitherZero(f, D, c, G[q])]
           x(q) == S.rows[q][m]
<1>1. P \in SUBSET Rows(S) /\ R \in SUBSET Rows(D) /\ \A q \in Rows(S) : G[q] \in SUBSET Rows(D)
  BY DEF Divides
<1>2. W \in SUBSET Floats /\ IsFiniteSet(W) /\ V \in SUBSET Floats /\ IsFiniteSet(V)
  BY <1>1, NumbersAre
<1>3. Covers(F, P, V)
  BY NumbersDivide
<1>4. \A q \in P : F[q] \in SUBSET Floats /\ IsFiniteSet(F[q])
  <2> TAKE q \in P
  <2> DEFINE E == G[q]
  <2>1. E \in SUBSET Rows(D)
    BY <1>1
  <2> HIDE DEF E
  <2>2. Numbers(D, c, E) \in SUBSET Floats /\ IsFiniteSet(Numbers(D, c, E))
    BY <2>1, NumbersAre
  <2> QED
    BY <2>2 DEF E
<1>5. ASSUME NEW q \in P
      PROVE  /\ F[q] = {} => ~ IsNumber(x(q))
             /\ F[q] # {} => IsNumber(x(q)) /\ AsFloat(x(q)) = (IF f = "min" THEN Least(F[q], Z[q]) ELSE Greatest(F[q], Z[q]))
  <2> DEFINE E == F[q]
             z == Z[q]
             y == IF f = "min" THEN Least(E, z) ELSE Greatest(E, z)
  <2>1. E = Numbers(D, c, G[q]) /\ x(q) = AggValue(f, D, c, G[q]) /\ z = EitherZero(f, D, c, G[q])
    BY <1>1 DEF ValuesRolled
  <2>2. x(q) = IF E = {} THEN Null ELSE y
    <3>1. x(q) = IF Numbers(D, c, G[q]) = {} THEN Null
                 ELSE IF f = "min" THEN Least(Numbers(D, c, G[q]), EitherZero(f, D, c, G[q]))
                 ELSE Greatest(Numbers(D, c, G[q]), EitherZero(f, D, c, G[q]))
      BY <2>1 DEF AggValue
    <3> HIDE DEF E, z
    <3> QED
      BY <2>1, <3>1
  <2>3. E \in SUBSET Floats /\ IsFiniteSet(E) /\ z \in Zeros
    BY <1>4, <2>1, EitherIs
  <2> HIDE DEF E, z, x
  <2>4. y \in Floats
    BY <2>3, LeastIs, GreatestIs
  <2> HIDE DEF y
  <2>5. IsNumber(y) /\ AsFloat(y) = y
    BY <2>4, FloatShare
  <2>6. E = {} => ~ IsNumber(x(q))
    BY <2>2 DEF Null, IsNumber
  <2>7. E # {} => IsNumber(x(q)) /\ AsFloat(x(q)) = y
    BY <2>2, <2>5
  <2> QED
    BY <2>6, <2>7 DEF E, z, y
<1>6. W = {AsFloat(x(q)) : q \in {p \in P : IsNumber(x(p))}}
  BY DEF Numbers, Numbered
<1> DEFINE z1 == EitherZero(f, S, m, P)
           z2 == EitherZero(f, D, c, R)
<1>7. Z \in [P -> Zeros] /\ z1 \in Zeros /\ z2 \in Zeros
  BY EitherIs
<1> HIDE DEF z1, z2
<1>8. CASE f = "min"
  <2>1. \A q \in P : F[q] # {} => Least(F[q], Z[q]) \in W
    BY <1>5, <1>6, <1>8
  <2>2. \A w \in W : \E q \in P : F[q] # {} /\ w = Least(F[q], Z[q])
    <3> HIDE DEF F, Z, x, W
    <3> QED
      BY <1>5, <1>6, <1>8
  <2> HIDE DEF F, Z, x, W, V
  <2>3. LeastOfEach(W, F, Z, P)
    BY <2>1, <2>2 DEF LeastOfEach
  <2>4. Same(Least(W, z1), Least(V, z2)) /\ (W = {} <=> V = {})
    BY <1>2, <1>3, <1>7, <2>3, LeastOfLeast
  <2> QED
    BY <1>8, <2>4 DEF AggValue, Same, W, V, z1, z2
<1>9. CASE f = "max"
  <2>1. \A q \in P : F[q] # {} => Greatest(F[q], Z[q]) \in W
    BY <1>5, <1>6, <1>9
  <2>2. \A w \in W : \E q \in P : F[q] # {} /\ w = Greatest(F[q], Z[q])
    <3> HIDE DEF F, Z, x, W
    <3> QED
      BY <1>5, <1>6, <1>9
  <2> HIDE DEF F, Z, x, W, V
  <2>3. GreatestOfEach(W, F, Z, P)
    BY <2>1, <2>2 DEF GreatestOfEach
  <2>4. Same(Greatest(W, z1), Greatest(V, z2)) /\ (W = {} <=> V = {})
    BY <1>2, <1>3, <1>7, <2>3, GreatestOfGreatest
  <2> QED
    BY <1>9, <2>4 DEF AggValue, Same, W, V, z1, z2
<1> QED
  BY <1>8, <1>9

LEMMA ValuesRoll ==
  ASSUME NEW D, DatasetOK(D), NEW c \in Cols(D), NEW S, DatasetOK(S), NEW m \in Cols(S),
         NEW G, NEW P, NEW R, Divides(G, S, D, P, R), NEW f, NEW g, ValuesRolled(f, g, S, m, D, c, G)
  PROVE  Same(AggValue(f, S, m, P), AggValue(g, D, c, R))
<1>1. f = (IF g = "count" THEN "sum" ELSE g) /\ f \in {"sum", "min", "max"}
  BY DEF ValuesRolled
<1>2. CASE f = "sum"
  <2>1. ValuesRolled("sum", g, S, m, D, c, G)
    BY <1>2
  <2>2. Same(Total(S, m, P), AggValue(g, D, c, R))
    BY <2>1, SumsRoll
  <2> QED
    BY <1>2, <2>2 DEF AggValue
<1>3. CASE f \in {"min", "max"}
  <2>1. g = f
    BY <1>1, <1>3
  <2>2. ValuesRolled(f, f, S, m, D, c, G)
    BY <2>1
  <2>3. Same(AggValue(f, S, m, P), AggValue(f, D, c, R))
    BY <1>3, <2>2, ExtremesRoll
  <2> QED
    BY <2>1, <2>3
<1> QED
  BY <1>1, <1>2, <1>3

\* The keys of an aggregate by some columns of one by others.
LEMMA KeysRoll ==
  ASSUME NEW D, DatasetOK(D), NEW ib, ColumnsOf(D, ib), NEW g, NEW im,
         NEW S, DatasetOK(S), AggregateForm(S, D, ib, g, im),
         NEW b, ColumnsOf(S, b), \A j \in 1..Len(b) : b[j] \in 1..Len(ib),
         NEW d, d = [j \in DOMAIN b |-> ib[b[j]]]
  PROVE  /\ ColumnsOf(D, d) /\ Len(d) = Len(b)
         /\ KeySet(S, b) = KeySet(D, d) /\ KeysOf(S, b) = KeysOf(D, d)
         /\ \A k : Divides([q \in Rows(S) |-> GroupOf(D, ib, KeysOf(D, ib)[q])], S, D, GroupOf(S, b, k), GroupOf(D, d, k))
<1> DEFINE n == Len(b)
           keys == KeysOf(D, ib)
           G == [q \in Rows(S) |-> GroupOf(D, ib, keys[q])]
<1>1. n \in Nat /\ DOMAIN b = 1..n /\ DOMAIN ib = 1..Len(ib) /\ \A j \in 1..n : b[j] \in 1..Len(ib)
  BY SequenceIs DEF ColumnsOf
<1>2. d = [j \in 1..n |-> d[j]] /\ \A j \in 1..n : d[j] = ib[b[j]] /\ d[j] \in Cols(D)
  BY <1>1 DEF ColumnsOf
<1> HIDE DEF n
<1>3. ColumnsOf(D, d) /\ Len(d) = n /\ DOMAIN d = 1..n
  <2>1. IsSequence(d) /\ Len(d) = n /\ DOMAIN d = 1..n
    BY <1>1, <1>2, Listed
  <2> QED
    BY <1>2, <2>1 DEF ColumnsOf
<1>4. Enumerates(keys, KeySet(D, ib)) /\ Rows(S) = 1..Len(keys)
  BY KeysAre DEF AggregateForm, Rows
<1>5. \A q \in Rows(S) : keys[q] \in KeySet(D, ib)
  BY <1>4 DEF Enumerates
<1>6. ASSUME NEW q \in Rows(S), NEW r \in Rows(D), keys[q] = KeyAt(D, ib, r)
      PROVE  KeyAt(S, b, q) = KeyAt(D, d, r)
  <2>1. \A j \in 1..Len(ib) : Key(S.rows[q][j]) = keys[q][j]
    BY <1>4, GroupKey
  <2>2. \A j \in 1..Len(ib) : keys[q][j] = Key(D.rows[r][ib[j]])
    BY <1>1, <1>6 DEF KeyAt
  <2>3. \A j \in 1..n : Key(S.rows[q][b[j]]) = Key(D.rows[r][d[j]])
    BY <1>1, <1>2, <2>1, <2>2
  <2>4. KeyAt(S, b, q) = [j \in 1..n |-> Key(S.rows[q][b[j]])]
    BY <1>1 DEF KeyAt
  <2>5. KeyAt(D, d, r) = [j \in 1..n |-> Key(D.rows[r][d[j]])]
    BY <1>3 DEF KeyAt
  <2> QED
    BY <2>3, <2>4, <2>5
<1>7. \A q \in Rows(S) : \E r \in Rows(D) : keys[q] = KeyAt(D, ib, r)
  BY <1>5 DEF KeySet
<1>8. \A r \in Rows(D) : \E q \in Rows(S) : keys[q] = KeyAt(D, ib, r)
  BY <1>4 DEF KeySet, Enumerates
<1> HIDE DEF keys
<1>9. KeySet(S, b) = KeySet(D, d)
  BY <1>6, <1>7, <1>8 DEF KeySet
<1>10. KeysOf(S, b) = KeysOf(D, d)
  BY <1>9 DEF KeysOf, KeySet
<1>11. ASSUME NEW k
       PROVE  Divides(G, S, D, GroupOf(S, b, k), GroupOf(D, d, k))
  <2> DEFINE P == GroupOf(S, b, k)
             R == GroupOf(D, d, k)
  <2>1. P \in SUBSET Rows(S) /\ R \in SUBSET Rows(D) /\ \A q \in Rows(S) : G[q] \in SUBSET Rows(D)
    BY DEF GroupOf
  <2>2. \A q \in Rows(S), r \in Rows(D) : r \in G[q] <=> KeyAt(D, ib, r) = keys[q]
    BY DEF GroupOf
  <2>3. \A q \in Rows(S) : q \in P <=> KeyAt(S, b, q) = k
    BY DEF GroupOf
  <2>4. \A r \in Rows(D) : r \in R <=> KeyAt(D, d, r) = k
    BY DEF GroupOf
  <2> HIDE DEF P, R, G
  <2>5. \A q \in Rows(S) : \A r \in G[q] : q \in P <=> r \in R
    BY <1>6, <2>1, <2>2, <2>3, <2>4
  <2>6. \A r \in Rows(D) : \E q \in Rows(S) : \A p \in Rows(S) : r \in G[p] <=> p = q
    <3> TAKE r \in Rows(D)
    <3>1. PICK q \in Rows(S) : keys[q] = KeyAt(D, ib, r)
      BY <1>8
    <3>2. \A p \in Rows(S) : r \in G[p] <=> p = q
      BY <1>4, <2>2, <3>1 DEF Enumerates
    <3> QED
      BY <3>2
  <2>7. Divides(G, S, D, P, R)
    BY <2>1, <2>5, <2>6 DEF Divides
  <2> QED
    BY <2>7 DEF P, R
<1> QED
  BY <1>3, <1>9, <1>10, <1>11 DEF n, keys

(***************************************************************************)
(* An aggregate of an aggregate: a group of groups is a group, sums of     *)
(* sums are sums, and so are the least and the greatest.                   *)
(***************************************************************************)
LEMMA RollsFollow == IInv => RollsUp
<1> DEFINE S == Source
           D == sets[Source.parent]
           b == Newest.op.by
           f == Newest.op.f
           m == Newest.op.m
           ib == Source.op.by
           g == Source.op.f
           im == Source.op.m
           d == [j \in DOMAIN b |-> ib[b[j]]]
           A == Aggregated(D, d, g, im)
           Summary(ds) == {<<KeyAt(ds, [j \in DOMAIN b |-> j], r), Unsigned(ds.rows[r][Len(ds.cols)])>> : r \in Rows(ds)}
<1> SUFFICES ASSUME IInv, Made("aggregate"), Source.op.name = "aggregate",
                    m = Len(S.cols), \A j \in DOMAIN b : b[j] < m,
                    f = (IF g = "count" THEN "sum" ELSE g), f \in {"sum", "min", "max"}
             PROVE  Summary(Newest) = Summary(A) /\ Len(Newest.rows) = Len(A.rows)
  BY DEF RollsUp
<1>1. /\ Len(sets) \in 1..Len(sets) /\ SetOK(sets, Len(sets)) /\ Newest = sets[Len(sets)] /\ Newest.op.name = "aggregate"
      /\ (Newest.parent # 0 => Newest.parent \in 1..(Len(sets) - 1) /\ S = sets[Newest.parent] /\ DatasetOK(S))
  BY NewestIs
<1>2. AggregateMade(sets, Len(sets))
  BY <1>1 DEF SetOK, Faithful
<1>3. /\ Newest.parent # 0 /\ ColumnsOf(S, b) /\ m \in Cols(S)
      /\ AggregateForm(Newest, S, b, f, m)
  BY <1>1, <1>2, NamedIs DEF AggregateMade
<1> DEFINE k == Newest.parent
<1>4. k \in 1..Len(sets) /\ S = sets[k] /\ DatasetOK(S)
  BY <1>1, <1>3, NewestIs
<1> HIDE DEF k
<1>5. SetOK(sets, k) /\ sets[k].parent \in 0..(k - 1)
  BY <1>4, OneOK
<1>6. AggregateMade(sets, k)
  BY <1>4, <1>5 DEF SetOK, Faithful
<1>7. S.parent # 0 /\ S.parent \in 1..Len(sets)
  BY <1>4, <1>5, <1>6 DEF AggregateMade
<1>8. DatasetOK(D)
  <2> DEFINE p == S.parent
  <2>1. p \in 1..Len(sets)
    BY <1>7
  <2> HIDE DEF p
  <2>2. DatasetOK(sets[p])
    BY <2>1, OneOK
  <2> QED
    BY <2>2 DEF p
<1>9. ColumnsOf(D, ib) /\ im \in Cols(D) /\ AggregateForm(S, D, ib, g, im)
  BY <1>4, <1>6, <1>8, NamedIs DEF AggregateMade
<1>10. m = Len(S.cols) /\ (\A j \in DOMAIN b : b[j] < m) /\ f = (IF g = "count" THEN "sum" ELSE g) /\ f \in {"sum", "min", "max"}
  OBVIOUS
<1> HIDE DEF S, D, b, f, m, ib, g, im
<1>11. m = Len(ib) + 1 /\ Len(ib) \in Nat
  BY <1>9, <1>10, SequenceIs DEF AggregateForm, ColumnsOf
<1>12. DOMAIN b = 1..Len(b) /\ Len(b) \in Nat /\ \A j \in 1..Len(b) : b[j] \in 1..Len(ib)
  <2>1. DOMAIN b = 1..Len(b) /\ Len(b) \in Nat /\ \A j \in 1..Len(b) : b[j] \in Cols(S)
    BY <1>3, SequenceIs DEF ColumnsOf
  <2>2. Cols(S) = 1..m
    BY <1>10 DEF Cols
  <2> QED
    BY <1>10, <1>11, <2>1, <2>2
<1> DEFINE G == [q \in Rows(S) |-> GroupOf(D, ib, KeysOf(D, ib)[q])]
           keys == KeysOf(S, b)
           n == Len(b)
<1>13. d = [j \in DOMAIN b |-> ib[b[j]]]
  OBVIOUS
<1> HIDE DEF d
<1>14. /\ ColumnsOf(D, d) /\ Len(d) = n
       /\ KeysOf(D, d) = keys
       /\ \A x : Divides(G, S, D, GroupOf(S, b, x), GroupOf(D, d, x))
  <2>1. DatasetOK(D) /\ ColumnsOf(D, ib) /\ DatasetOK(S) /\ AggregateForm(S, D, ib, g, im) /\ ColumnsOf(S, b)
    BY <1>3, <1>4, <1>8, <1>9
  <2>2. \A j \in 1..Len(b) : b[j] \in 1..Len(ib)
    BY <1>12
  <2> QED
    BY ONLY <2>1, <2>2, <1>13, KeysRoll
<1>15. AggregateForm(A, D, d, g, im)
  BY <1>8, <1>14, AggregateIs
<1>16. ValuesRolled(f, g, S, m, D, im, G)
  <2>1. \A q \in Rows(S) : S.rows[q][Len(ib) + 1] = AggValue(g, D, im, GroupOf(D, ib, KeysOf(D, ib)[q]))
    BY <1>9 DEF AggregateForm, Rows
  <2> QED
    BY <1>10, <1>11, <2>1 DEF ValuesRolled
<1> HIDE DEF G, A, keys
<1>17. /\ Len(Newest.rows) = Len(keys) /\ Len(A.rows) = Len(keys)
       /\ Len(Newest.cols) = n + 1 /\ Len(A.cols) = n + 1
  BY <1>3, <1>14, <1>15 DEF AggregateForm, keys
<1>18. Rows(Newest) = 1..Len(keys) /\ Rows(A) = 1..Len(keys)
  BY <1>17 DEF Rows
<1>19. \A i \in 1..Len(keys) : Unsigned(Newest.rows[i][n + 1]) = Unsigned(A.rows[i][n + 1])
  <2> TAKE i \in 1..Len(keys)
  <2> DEFINE x == keys[i]
             P == GroupOf(S, b, x)
             R == GroupOf(D, d, x)
  <2>1. Divides(G, S, D, P, R)
    BY <1>14
  <2>2. Newest.rows[i][n + 1] = AggValue(f, S, m, P)
    BY <1>3 DEF AggregateForm, keys
  <2>3. A.rows[i][n + 1] = AggValue(g, D, im, R)
    BY <1>14, <1>15 DEF AggregateForm
  <2> HIDE DEF P, R
  <2>4. Same(AggValue(f, S, m, P), AggValue(g, D, im, R))
    BY <1>3, <1>4, <1>8, <1>9, <1>16, <2>1, ValuesRoll
  <2> QED
    BY <2>2, <2>3, <2>4 DEF Same
<1>20. \A i \in 1..Len(keys), j \in 1..n : Key(Newest.rows[i][j]) = keys[i][j] /\ Key(A.rows[i][j]) = keys[i][j]
  <2> TAKE i \in 1..Len(keys), j \in 1..n
  <2>1. i \in 1..Len(KeysOf(S, b)) /\ i \in 1..Len(KeysOf(D, d)) /\ j \in 1..Len(b) /\ j \in 1..Len(d)
    BY <1>14 DEF keys
  <2>2. Key(Newest.rows[i][j]) = KeysOf(S, b)[i][j]
    <3>1. DatasetOK(S) /\ ColumnsOf(S, b) /\ AggregateForm(Newest, S, b, f, m)
      BY <1>3, <1>4
    <3> QED
      BY ONLY <2>1, <3>1, GroupKey
  <2>3. Key(A.rows[i][j]) = KeysOf(D, d)[i][j]
    <3>1. DatasetOK(D) /\ ColumnsOf(D, d) /\ AggregateForm(A, D, d, g, im)
      BY <1>8, <1>14, <1>15
    <3> QED
      BY ONLY <2>1, <3>1, GroupKey
  <2> QED
    BY <1>14, <2>2, <2>3 DEF keys
<1>21. \A i \in 1..Len(keys) : KeyAt(Newest, [j \in DOMAIN b |-> j], i) = KeyAt(A, [j \in DOMAIN b |-> j], i)
  <2> TAKE i \in 1..Len(keys)
  <2>1. KeyAt(Newest, [j \in DOMAIN b |-> j], i) = [j \in 1..n |-> Key(Newest.rows[i][j])]
    BY <1>12 DEF KeyAt
  <2>2. KeyAt(A, [j \in DOMAIN b |-> j], i) = [j \in 1..n |-> Key(A.rows[i][j])]
    BY <1>12 DEF KeyAt
  <2> QED
    BY <1>20, <2>1, <2>2
<1>22. Summary(Newest) = Summary(A)
  BY <1>17, <1>18, <1>19, <1>21
<1> QED
  BY <1>17, <1>22 DEF A, S, D, b, f, m, ib, g, im, d

(***************************************************************************)
(* The kernels that group rows give the same answers along different ways, *)
(* the same but for the sign of a zero where they hold a minimum, a        *)
(* maximum or the sum of a group of groups.                                *)
(***************************************************************************)
THEOREM KernelsCorrect == Spec => []KernelsAgree
<1>1. IInv => KernelsAgree
  BY RollsFollow, PivotsFollow, PeriodsFollow, ComparesFollow DEF KernelsAgree
<1> QED
  BY <1>1, Inductive, PTL
-----------------------------------------------------------------------------
(***************************************************************************)
(* drill. The texts a client was shown ask for the rows of the group: two  *)
(* texts with one key are the same text, but for null and the empty one.   *)
(***************************************************************************)
LEMMA TextCells ==
  ASSUME NEW t \in TextKinds, NEW v \in Family("str", t), NEW w \in Family("str", t),
         ~ ({Null, Empty} \subseteq {v, w})
  PROVE  Json(v) = v /\ Unsigned(v) = v /\ (Key(v) = Key(w) <=> v = w)
<1>1. \A x \in Family("str", t) : x = Null \/ x \in Texts(t)
  BY DEF Family
<1>2. \A x \in Family("str", t) : Key(x) = IF x = Null THEN Empty ELSE x
  <2> TAKE x \in Family("str", t)
  <2>1. x \in Texts(t) => Key(x) = x /\ x # Null
    BY KeyOfText, CellKinds
  <2>2. Key(Null) = Empty
    BY DEF Key, Null, Empty, Text
  <2> QED
    BY <1>1, <2>1, <2>2
<1>3. v # NaN /\ v # Inf /\ v # MinusInf /\ v # MinusZero
  <2>1. v = Null => v[1] = "null"
    BY DEF Null
  <2>2. v \in Texts(t) => v[1] # "float"
    BY CellKinds DEF TextKinds
  <2> QED
    BY <1>1, <2>1, <2>2 DEF NaN, Inf, MinusInf, MinusZero
<1> QED
  BY <1>2, <1>3 DEF Json, Infinite, Unsigned

\* A column of texts in which null and the empty text do not both occur.
PlainColumn(ds, c) ==
  /\ ds.cols[c].kind = "str"
  /\ ~ ({Null, Empty} \subseteq {ds.rows[r][c] : r \in Rows(ds)})

LEMMA PlainCells ==
  ASSUME NEW ds, DatasetOK(ds), NEW c \in Cols(ds), PlainColumn(ds, c), NEW r \in Rows(ds), NEW q \in Rows(ds)
  PROVE  /\ Json(ds.rows[r][c]) = ds.rows[r][c] /\ Unsigned(ds.rows[r][c]) = ds.rows[r][c]
         /\ Shown(ds, c, r) = ds.rows[r][c]
         /\ Key(ds.rows[r][c]) = Key(ds.rows[q][c]) <=> ds.rows[r][c] = ds.rows[q][c]
<1> DEFINE v == ds.rows[r][c]
           w == ds.rows[q][c]
<1>1. PICK t \in TextKinds : \A p \in Rows(ds) : ds.rows[p][c] \in Family(ds.cols[c].kind, t)
  BY DEF DatasetOK
<1>2. v \in Family("str", t) /\ w \in Family("str", t)
  BY <1>1 DEF PlainColumn
<1>3. ~ ({Null, Empty} \subseteq {v, w})
  BY DEF PlainColumn
<1>4. Shown(ds, c, r) = v
  BY DEF Shown, PlainColumn
<1> HIDE DEF v, w
<1>5. Json(v) = v /\ Unsigned(v) = v /\ (Key(v) = Key(w) <=> v = w)
  BY <1>2, <1>3, TextCells
<1> QED
  BY <1>4, <1>5 DEF v, w

\* The texts shown with a group ask for the rows of the group.
Asked(ds, asked) ==
  {r \in Rows(ds) : \A a \in asked : LET c == ColIdx(ds, a.name) IN c # 0 /\ Same(Json(ds.rows[r][c]), a.val)}

LEMMA GroupAsked ==
  ASSUME NEW ds, DatasetOK(ds), NEW by, ColumnsOf(ds, by), \A j \in 1..Len(by) : by[j] \in Named(ds),
         NEW f, NEW m, NEW A, AggregateForm(A, ds, by, f, m), NEW p \in Rows(A),
         \A j \in 1..Len(by) : PlainColumn(ds, by[j]) /\ j \in Latest(A)
  PROVE  LET group == GroupOf(ds, by, KeyAt(A, [j \in DOMAIN by |-> j], p)) IN
           /\ Asked(ds, GroupRow(A, p)) = group
           /\ group = GroupOf(ds, by, KeysOf(ds, by)[p])
<1> DEFINE n == Len(by)
           keys == KeysOf(ds, by)
           k == keys[p]
           R == GroupOf(ds, by, k)
           q == Min(R)
           self == [j \in DOMAIN by |-> j]
<1>1. n \in Nat /\ DOMAIN by = 1..n /\ \A j \in 1..n : by[j] \in Cols(ds)
  BY SequenceIs DEF ColumnsOf
<1>2. p \in 1..Len(keys)
  BY DEF AggregateForm, Rows
<1>3. q \in R /\ q \in Rows(ds)
  BY <1>2, GroupsAre
<1>4. KeyAt(ds, by, q) = k
  <2> HIDE DEF q
  <2> QED
    BY <1>3 DEF GroupOf
<1>5. \A j \in 1..n : Key(A.rows[p][j]) = k[j]
  BY <1>2, GroupKey
<1>6. \A j \in 1..n : A.rows[p][j] = Shown(ds, by[j], q)
  BY <1>2 DEF AggregateForm
<1>7. /\ \A j \in 1..n : A.cols[j] = ShownColumn(ds, by[j])
      /\ A.cols[n + 1].kind = "float" /\ Cols(A) = 1..(n + 1)
  BY FloatColumnIs DEF AggregateForm, Cols
<1>8. \A j \in 1..n : A.cols[j].kind = "str" /\ A.cols[j].name = ds.cols[by[j]].name
  BY <1>1, <1>7, ShownIs
<1> HIDE DEF n, q, k, keys
<1>9. KeyAt(A, self, p) = k
  <2>1. KeyAt(A, self, p) = [j \in 1..n |-> Key(A.rows[p][j])]
    BY <1>1 DEF KeyAt
  <2>2. k = [j \in 1..n |-> k[j]]
    BY <1>1, <1>4 DEF KeyAt
  <2> QED
    BY <1>5, <2>1, <2>2
<1>10. {c \in Latest(A) : A.cols[c].kind = "str"} = 1..n
  <2>1. \A c \in Latest(A) : c \in 1..(n + 1)
    BY <1>7 DEF Latest
  <2>2. \A j \in 1..n : j \in Latest(A) /\ A.cols[j].kind = "str"
    BY <1>8 DEF n
  <2>3. \A c \in 1..(n + 1) : c \in 1..n \/ c = n + 1
    BY <1>1
  <2> QED
    BY <1>7, <2>1, <2>2, <2>3
<1>11. GroupRow(A, p) = {[name |-> A.cols[j].name, val |-> Json(A.rows[p][j])] : j \in 1..n}
  BY <1>10 DEF GroupRow
<1>12. ASSUME NEW r \in Rows(ds)
       PROVE  r \in Asked(ds, GroupRow(A, p)) <=> \A j \in 1..n : Key(ds.rows[r][by[j]]) = Key(ds.rows[q][by[j]])
  <2>1. r \in Asked(ds, GroupRow(A, p)) <=>
          \A j \in 1..n : ColIdx(ds, A.cols[j].name) # 0 /\ Same(Json(ds.rows[r][ColIdx(ds, A.cols[j].name)]), Json(A.rows[p][j]))
    <3> DEFINE Ask(j) == [name |-> A.cols[j].name, val |-> Json(A.rows[p][j])]
               Holding(a) == ColIdx(ds, a.name) # 0 /\ Same(Json(ds.rows[r][ColIdx(ds, a.name)]), a.val)
    <3>1. r \in Asked(ds, GroupRow(A, p)) <=> \A a \in GroupRow(A, p) : Holding(a)
      BY DEF Asked
    <3>2. GroupRow(A, p) = {Ask(j) : j \in 1..n}
      BY <1>11
    <3>3. \A j : Ask(j).name = A.cols[j].name /\ Ask(j).val = Json(A.rows[p][j])
      OBVIOUS
    <3>4. \A j : Holding(Ask(j)) <=> ColIdx(ds, A.cols[j].name) # 0 /\ Same(Json(ds.rows[r][ColIdx(ds, A.cols[j].name)]), Json(A.rows[p][j]))
      <4> HIDE DEF Ask
      <4> QED
        BY <3>3
    <3> HIDE DEF Ask, Holding
    <3>5. (\A a \in GroupRow(A, p) : Holding(a)) <=> \A j \in 1..n : Holding(Ask(j))
      BY <3>2
    <3> QED
      BY <3>1, <3>4, <3>5
  <2>2. ASSUME NEW j \in 1..n
        PROVE  /\ ColIdx(ds, A.cols[j].name) = by[j] /\ by[j] # 0
               /\ Same(Json(ds.rows[r][by[j]]), Json(A.rows[p][j])) <=> Key(ds.rows[r][by[j]]) = Key(ds.rows[q][by[j]])
    <3> DEFINE c == by[j]
               v == ds.rows[r][c]
               w == ds.rows[q][c]
    <3>1. c \in Named(ds) /\ PlainColumn(ds, c) /\ c \in Cols(ds)
      BY <1>1 DEF n
    <3>2. A.cols[j].name = ds.cols[c].name /\ A.rows[p][j] = Shown(ds, c, q)
      BY <1>6, <1>8
    <3> HIDE DEF c
    <3>3. ColIdx(ds, ds.cols[c].name) = c /\ c # 0
      BY <3>1, NamedIs DEF Cols
    <3>4. Json(v) = v /\ Unsigned(v) = v /\ (Key(v) = Key(w) <=> v = w)
      BY <1>3, <3>1, PlainCells
    <3>5. Json(w) = w /\ Unsigned(w) = w /\ Shown(ds, c, q) = w
      BY <1>3, <3>1, PlainCells
    <3> QED
      BY <3>2, <3>3, <3>4, <3>5 DEF c, Same
  <2> QED
    BY <2>1, <2>2
<1>13. ASSUME NEW r \in Rows(ds)
       PROVE  r \in R <=> \A j \in 1..n : Key(ds.rows[r][by[j]]) = Key(ds.rows[q][by[j]])
  <2>1. r \in R <=> KeyAt(ds, by, r) = KeyAt(ds, by, q)
    BY <1>4 DEF GroupOf
  <2>2. \A a : KeyAt(ds, by, a) = [j \in 1..n |-> Key(ds.rows[a][by[j]])]
    BY <1>1 DEF KeyAt
  <2>3. KeyAt(ds, by, r) = KeyAt(ds, by, q) => \A j \in 1..n : Key(ds.rows[r][by[j]]) = Key(ds.rows[q][by[j]])
    BY <1>1 DEF KeyAt
  <2>4. (\A j \in 1..n : Key(ds.rows[r][by[j]]) = Key(ds.rows[q][by[j]])) => KeyAt(ds, by, r) = KeyAt(ds, by, q)
    BY <2>2
  <2> QED
    BY <2>1, <2>3, <2>4
<1>14. Asked(ds, GroupRow(A, p)) = R
  <2>1. Asked(ds, GroupRow(A, p)) \subseteq Rows(ds) /\ R \subseteq Rows(ds)
    BY DEF Asked, GroupOf
  <2> HIDE DEF R
  <2> QED
    BY <1>12, <1>13, <2>1
<1> QED
  BY <1>9, <1>14 DEF k, keys

(***************************************************************************)
(* The chain from the aggregate goes back to the dataset it was made of,   *)
(* and the texts shown with a row pick its group there.                    *)
(***************************************************************************)
LEMMA DrillsFollow == IInv => DrillFindsGroup
<1> DEFINE o == Newest.op.of
           p == Newest.op.r
           g == sets[o]
           Of == sets[g.parent]
           by == g.op.by
           f == g.op.f
           m == g.op.m
           row == g.rows[p]
           group == GroupOf(Of, by, KeyAt(g, [j \in DOMAIN by |-> j], p))
<1> SUFFICES ASSUME IInv, Made("drill"), g.op.name = "aggregate", Len(Of.rows) > Len(g.rows),
                    \A j \in DOMAIN by : PlainColumn(Of, by[j]) /\ j \in Latest(g)
             PROVE  /\ Newest.rows = Selected(Of, Ascending(group)).rows
                    /\ f = "count" => row[Len(row)] = FloatCell(Len(Newest.rows))
  BY DEF DrillFindsGroup, PlainColumn
<1>1. /\ Len(sets) \in Nat /\ SetOK(sets, Len(sets)) /\ Newest = sets[Len(sets)] /\ Newest.op.name = "drill"
  BY NewestIs
<1>2. DrillMade(sets, Len(sets))
  BY <1>1 DEF SetOK, Faithful
<1>3. /\ o \in 1..(Len(sets) - 1) /\ p \in Rows(g)
      /\ (g.parent # 0 /\ Len(sets[g.parent].rows) > Len(g.rows) => Newest.parent = g.parent)
      /\ Newest.rows = Drilled(sets[Newest.parent], GroupRow(g, p)).rows
  BY <1>1, <1>2 DEF DrillMade
<1>4. o \in 1..Len(sets) /\ o \in Nat /\ Len(sets) \in Nat
  <2>1. o \in 1..(Len(sets) - 1) /\ Len(sets) \in Nat
    BY <1>1, <1>3
  <2> HIDE DEF o
  <2> QED
    BY <2>1
<1>5. SetOK(sets, o) /\ g.parent \in 0..(o - 1)
  <2> HIDE DEF o
  <2> QED
    BY <1>4, OneOK
<1>6. AggregateMade(sets, o)
  BY <1>5 DEF SetOK, Faithful
<1>7. g.parent # 0 /\ ColumnsOf(Of, by) /\ (\A j \in 1..Len(by) : by[j] \in Named(Of)) /\ AggregateForm(g, Of, by, f, m)
  BY <1>6 DEF AggregateMade
<1>8. DatasetOK(Of)
  <2> DEFINE k == g.parent
  <2>1. k \in 0..(o - 1) /\ k # 0
    BY <1>5, <1>7
  <2> HIDE DEF k, o
  <2>2. k \in 1..Len(sets)
    BY <1>4, <2>1
  <2>3. DatasetOK(sets[k])
    BY <2>2, OneOK
  <2> QED
    BY <2>3 DEF k
<1>9. Newest.rows = Drilled(Of, GroupRow(g, p)).rows
  BY <1>3, <1>7
<1>10. \A j \in 1..Len(by) : PlainColumn(Of, by[j]) /\ j \in Latest(g)
  BY <1>7, SequenceIs DEF ColumnsOf
<1> HIDE DEF o, p, g, Of, by, f, m
<1>11. /\ Asked(Of, GroupRow(g, p)) = group
       /\ group = GroupOf(Of, by, KeysOf(Of, by)[p])
  <2>1. /\ DatasetOK(Of) /\ ColumnsOf(Of, by) /\ \A j \in 1..Len(by) : by[j] \in Named(Of)
        /\ AggregateForm(g, Of, by, f, m) /\ p \in Rows(g)
    BY <1>3, <1>7, <1>8
  <2> QED
    BY ONLY <1>10, <2>1, GroupAsked
<1>12. Newest.rows = Selected(Of, Ascending(group)).rows
  <2>1. Drilled(Of, GroupRow(g, p)) = Selected(Of, Ascending(Asked(Of, GroupRow(g, p))))
    BY DEF Drilled, Asked
  <2> QED
    BY <1>9, <1>11, <2>1
<1>13. group \in SUBSET Rows(Of)
  BY DEF GroupOf
<1> HIDE DEF group
<1>14. Len(Newest.rows) = Cardinality(group)
  BY <1>8, <1>12, <1>13, PickedOK
<1>15. ASSUME f = "count" PROVE row[Len(row)] = FloatCell(Len(Newest.rows))
  <2>1. p \in 1..Len(KeysOf(Of, by))
    BY <1>3, <1>7 DEF AggregateForm, Rows
  <2>2. Len(row) = Len(by) + 1 /\ row[Len(by) + 1] = AggValue(f, Of, m, GroupOf(Of, by, KeysOf(Of, by)[p]))
    BY <1>7, <2>1 DEF AggregateForm
  <2> QED
    BY <1>11, <1>14, <1>15, <2>2 DEF AggValue
<1> QED
  BY <1>12, <1>15 DEF o, p, g, Of, by, f, m, group

(***************************************************************************)
(* Drilling a row of an aggregate by columns of texts gives the rows that  *)
(* it stands for, as many as were counted.                                 *)
(***************************************************************************)
THEOREM DrillCorrect == Spec => []DrillFindsGroup
<1>1. IInv => DrillFindsGroup
  BY DrillsFollow
<1> QED
  BY <1>1, Inductive, PTL
=============================================================================
