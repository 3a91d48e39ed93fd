----------------------------- MODULE RuleProofs -----------------------------
(***************************************************************************)
(* What the rules of validate report, for any tables whose rows are told   *)
(* apart by their keys, any length of a month and any thresholds.          *)
(***************************************************************************)
EXTENDS ReadingProofs

-----------------------------------------------------------------------------
(* Finite sets and what is computed over them one element at a time.        *)

(* Of the subsets with a property, one has no smaller one inside it.         *)
LEMMA SmallestSubset ==
    ASSUME NEW S, IsFiniteSet(S), NEW Bad, Bad \subseteq SUBSET S, Bad # {}
    PROVE  \E T \in Bad : \A s \in Bad : s \subseteq T => s = T
<1> DEFINE Sizes == {Cardinality(s) : s \in Bad}
<1>1. \A s \in Bad : IsFiniteSet(s) /\ Cardinality(s) \in Nat
  BY FS_Subset, FS_CardinalityType
<1>2. Sizes \subseteq Nat /\ Sizes # {}
  BY <1>1
<1>3. PICK c \in Sizes : \A d \in Sizes : c <= d
  <2> HIDE DEF Sizes
  <2> QED
    BY <1>2, LeastOf
<1>4. PICK T \in Bad : c = Cardinality(T)
  OBVIOUS
<1>5. ASSUME NEW s \in Bad, s \subseteq T
      PROVE  s = T
  <2>1. /\ Cardinality(s) <= Cardinality(T)
        /\ Cardinality(s) = Cardinality(T) => s = T
    BY <1>1, <1>5, FS_Subset
  <2>2. Cardinality(T) <= Cardinality(s)
    BY <1>3, <1>4
  <2>3. Cardinality(s) \in Nat /\ Cardinality(T) \in Nat
    BY <1>1
  <2> QED
    BY <2>1, <2>2, <2>3
<1> QED
  BY <1>5

(* A fold: g gives every subset of S what step makes of the element picked   *)
(* and of the rest.                                                        *)
IsFold(g, S, base, pick, step) ==
    \A s \in SUBSET S :
        g[s] = IF s = {} THEN base ELSE step[<<pick[s], g[s \ {pick[s]}]>>]

(* There is one.                                                            *)
LEMMA FoldExists ==
    ASSUME NEW S, IsFiniteSet(S), NEW V, NEW base \in V,
           NEW pick, \A s \in SUBSET S : s # {} => pick[s] \in s,
           NEW step \in [S \X V -> V]
    PROVE  \E g \in [SUBSET S -> V] : IsFold(g, S, base, pick, step)
<1> DEFINE Upto(n) == {s \in SUBSET S : Cardinality(s) <= n}
           FoldsTo(g, n) == \A s \in Upto(n) :
               g[s] = IF s = {} THEN base ELSE step[<<pick[s], g[s \ {pick[s]}]>>]
           Bad == {n \in Nat : ~\E g \in [SUBSET S -> V] : FoldsTo(g, n)}
<1>1. \A s \in SUBSET S : IsFiniteSet(s) /\ Cardinality(s) \in Nat
  BY FS_Subset, FS_CardinalityType
<1>2. \A s \in SUBSET S : s # {} =>
          s \ {pick[s]} \in SUBSET S /\ Cardinality(s \ {pick[s]}) = Cardinality(s) - 1
  BY <1>1, FS_RemoveElement
<1>3. Bad = {}
  <2> SUFFICES ASSUME Bad # {} PROVE FALSE
    OBVIOUS
  <2>1. Bad \subseteq Nat
    OBVIOUS
  <2>2. PICK n \in Bad : \A m \in Bad : n <= m
    <3> HIDE DEF Bad
    <3> QED
      BY <2>1, LeastOf
  <2>3. n \in Nat /\ ~\E g \in [SUBSET S -> V] : FoldsTo(g, n)
    OBVIOUS
  <2>4. CASE n = 0
    <3> DEFINE g == [s \in SUBSET S |-> base]
    <3>1. \A s \in Upto(0) : s = {}
      <4> TAKE s \in Upto(0)
      <4>1. s \in SUBSET S /\ Cardinality(s) = 0
        BY <1>1
      <4> QED
        BY <4>1, <1>1, FS_EmptySet
    <3>2. FoldsTo(g, 0) /\ g \in [SUBSET S -> V]
      BY <3>1
    <3> QED
      BY <2>3, <2>4, <3>2
  <2>5. CASE n # 0
    <3>0. n - 1 \in Nat /\ ~(n <= n - 1)
      BY <2>3, <2>5
    <3>1. n - 1 \in Nat /\ n - 1 \notin Bad
      <4> HIDE DEF Bad
      <4> QED
        BY <2>2, <3>0
    <3>2. PICK g \in [SUBSET S -> V] : FoldsTo(g, n - 1)
      BY <3>1
    <3> DEFINE h == [s \in SUBSET S |->
                       IF s = {} THEN base
                       ELSE IF Cardinality(s) <= n - 1 THEN g[s]
                       ELSE step[<<pick[s], g[s \ {pick[s]}]>>]]
    <3>3. h \in [SUBSET S -> V]
      <4> SUFFICES ASSUME NEW s \in SUBSET S PROVE h[s] \in V
        OBVIOUS
      <4>1. CASE s = {} \/ Cardinality(s) <= n - 1
        BY <4>1
      <4>2. CASE s # {} /\ ~(Cardinality(s) <= n - 1)
        <5>1. pick[s] \in S /\ g[s \ {pick[s]}] \in V
          BY <1>2, <4>2
        <5> QED
          BY <5>1, <4>2
      <4> QED
        BY <4>1, <4>2
    <3>4. \A s \in Upto(n - 1) : h[s] = g[s]
      <4> TAKE s \in Upto(n - 1)
      <4>1. CASE s = {}
        BY <4>1, <3>2
      <4> QED
        BY <4>1
    <3>5. FoldsTo(h, n)
      <4> SUFFICES ASSUME NEW s \in Upto(n), s # {}
                   PROVE  h[s] = step[<<pick[s], h[s \ {pick[s]}]>>]
        OBVIOUS
      <4> DEFINE rest == s \ {pick[s]}
      <4>1. s \in SUBSET S /\ Cardinality(s) <= n /\ Cardinality(s) \in Nat
        BY <1>1
      <4>2. rest \in SUBSET S /\ Cardinality(rest) = Cardinality(s) - 1
        BY <1>2, <4>1
      <4>3. rest \in Upto(n - 1)
        BY <4>1, <4>2, <2>3
      <4>4. h[rest] = g[rest]
        BY <3>4, <4>3
      <4>5. CASE Cardinality(s) <= n - 1
        <5>1. s \in Upto(n - 1)
          BY <4>1, <4>5
        <5>2. g[s] = step[<<pick[s], g[rest]>>]
          BY <3>2, <5>1
        <5> QED
          BY <3>4, <4>4, <5>1, <5>2
      <4>6. CASE ~(Cardinality(s) <= n - 1)
        BY <4>1, <4>4, <4>6
      <4> QED
        BY <4>5, <4>6
    <3> QED
      BY <2>3, <3>3, <3>5
  <2> QED
    BY <2>4, <2>5
<1>4. Cardinality(S) \in Nat
  BY FS_CardinalityType
<1>5. PICK g \in [SUBSET S -> V] : FoldsTo(g, Cardinality(S))
  BY <1>3, <1>4
<1>6. \A s \in SUBSET S : s \in Upto(Cardinality(S))
  BY FS_Subset
<1> QED
  BY <1>5, <1>6 DEF IsFold

-----------------------------------------------------------------------------
(* Sums.  MapThenSumSet takes whatever element CHOOSE picks.                *)
Pick(s) == CHOOSE x \in s : TRUE
Summing(f, S) ==
    CHOOSE g : g = [s \in SUBSET S |-> IF s = {} THEN 0 ELSE f[Pick(s)] + g[s \ {Pick(s)}]]

(* A sum is the value of a function defined on the subsets.                 *)
LEMMA SumUnfolds ==
    ASSUME NEW f, NEW S
    PROVE  SumAt(f, S) = Summing(f, S)[S]
  BY DEF SumAt, MapThenSumSet, MapThenFoldSet, Pick, Summing

(* That function exists: a sum is the picked element and the rest.          *)
LEMMA SumStep ==
    ASSUME NEW S, IsFiniteSet(S), NEW f, \A x \in S : f[x] \in Int
    PROVE  /\ SumAt(f, {}) = 0
           /\ \A T \in SUBSET S :
                /\ SumAt(f, T) \in Int
                /\ T # {} => /\ Pick(T) \in T
                             /\ SumAt(f, T) = f[Pick(T)] + SumAt(f, T \ {Pick(T)})
<1> DEFINE pick == [s \in SUBSET S |-> Pick(s)]
           step == [z \in S \X Int |-> f[z[1]] + z[2]]
<1>1. \A s \in SUBSET S : s # {} => pick[s] \in s /\ pick[s] = Pick(s)
  BY DEF Pick
<1>2. step \in [S \X Int -> Int]
  OBVIOUS
<1>3. PICK g \in [SUBSET S -> Int] : IsFold(g, S, 0, pick, step)
  <2> HIDE DEF pick, step
  <2>1. 0 \in Int /\ \A s \in SUBSET S : s # {} => pick[s] \in s
    BY <1>1
  <2> QED
    BY <1>2, <2>1, FoldExists
<1>4. \A s \in SUBSET S : g[s] = IF s = {} THEN 0 ELSE f[Pick(s)] + g[s \ {Pick(s)}]
  <2> TAKE s \in SUBSET S
  <2>1. CASE s = {}
    BY <1>3, <2>1 DEF IsFold
  <2>2. CASE s # {}
    <3>1. Pick(s) \in S /\ g[s \ {Pick(s)}] \in Int /\ pick[s] = Pick(s)
      BY <1>1, <2>2
    <3>2. g[s] = step[<<pick[s], g[s \ {pick[s]}]>>]
      <4> HIDE DEF pick, step
      <4> QED
        BY <1>3, <2>2 DEF IsFold
    <3> QED
      BY <2>2, <3>1, <3>2
  <2> QED
    BY <2>1, <2>2
<1>5. ASSUME NEW T \in SUBSET S
      PROVE  SumAt(f, T) = g[T]
  <2> DEFINE h == Summing(f, T)
             k == [s \in SUBSET T |-> g[s]]
  <2>1. \A s \in SUBSET T : k[s] = IF s = {} THEN 0 ELSE f[Pick(s)] + k[s \ {Pick(s)}]
    <3> TAKE s \in SUBSET T
    <3>1. s \in SUBSET S /\ s \ {Pick(s)} \in SUBSET T
      OBVIOUS
    <3> QED
      BY <1>4, <3>1
  <2>2. k = [s \in SUBSET T |-> IF s = {} THEN 0 ELSE f[Pick(s)] + k[s \ {Pick(s)}]]
    <3>1. k = [s \in SUBSET T |-> k[s]]
      OBVIOUS
    <3> HIDE DEF k
    <3> QED
      BY <2>1, <3>1
  <2>3. h = [s \in SUBSET T |-> IF s = {} THEN 0 ELSE f[Pick(s)] + h[s \ {Pick(s)}]]
    <3> HIDE DEF k
    <3> QED
      BY <2>2 DEF Summing
  <2> DEFINE Bad == {s \in SUBSET T : h[s] # g[s]}
  <2>4. Bad = {}
    <3> SUFFICES ASSUME Bad # {} PROVE FALSE
      OBVIOUS
    <3> HIDE DEF h
    <3>1. PICK R \in Bad : \A s \in Bad : s \subseteq R => s = R
      <4>1. Bad \subseteq SUBSET T /\ IsFiniteSet(T)
        BY FS_Subset
      <4> HIDE DEF Bad
      <4> QED
        BY <4>1, SmallestSubset
    <3>2. \A s \in SUBSET T : h[s] = IF s = {} THEN 0 ELSE f[Pick(s)] + h[s \ {Pick(s)}]
      BY <2>3
    <3>3. R \in SUBSET T /\ R # {} /\ R \in SUBSET S
      BY <1>4, <3>2
    <3>4. R \ {Pick(R)} \in SUBSET T /\ R \ {Pick(R)} # R
      BY <1>1, <3>3
    <3>5. h[R \ {Pick(R)}] = g[R \ {Pick(R)}]
      BY <3>1, <3>4
    <3> QED
      BY <1>4, <3>2, <3>3, <3>5
  <2>5. h[T] = g[T]
    BY <2>4
  <2> QED
    BY <2>5, SumUnfolds
<1>6. ASSUME NEW T \in SUBSET S
      PROVE  /\ SumAt(f, T) \in Int
             /\ T # {} => /\ Pick(T) \in T
                          /\ SumAt(f, T) = f[Pick(T)] + SumAt(f, T \ {Pick(T)})
  <2>1. SumAt(f, T) = g[T] /\ g[T] \in Int
    BY <1>5
  <2>2. CASE T # {}
    <3>1. T \ {Pick(T)} \in SUBSET S
      OBVIOUS
    <3>2. SumAt(f, T \ {Pick(T)}) = g[T \ {Pick(T)}]
      BY <1>5, <3>1
    <3>3. g[T] = f[Pick(T)] + g[T \ {Pick(T)}]
      BY <1>4, <2>2
    <3> QED
      BY <1>1, <2>1, <2>2, <3>2, <3>3
  <2> QED
    BY <2>1, <2>2
<1>7. SumAt(f, {}) = 0
  <2>1. {} \in SUBSET S
    OBVIOUS
  <2> QED
    BY <1>4, <1>5, <2>1
<1> QED
  BY <1>6, <1>7

(* The same of one set.                                                     *)
LEMMA SumTakes ==
    ASSUME NEW S, IsFiniteSet(S), NEW f, \A x \in S : f[x] \in Int,
           NEW T \in SUBSET S, T # {}
    PROVE  /\ Pick(T) \in T
           /\ SumAt(f, T) = f[Pick(T)] + SumAt(f, T \ {Pick(T)})
           /\ SumAt(f, T) \in Int /\ SumAt(f, T \ {Pick(T)}) \in Int
<1>1. \A U \in SUBSET S :
          /\ SumAt(f, U) \in Int
          /\ U # {} => /\ Pick(U) \in U
                       /\ SumAt(f, U) = f[Pick(U)] + SumAt(f, U \ {Pick(U)})
  BY SumStep
<1>2. T \ {Pick(T)} \in SUBSET S
  OBVIOUS
<1> QED
  BY <1>1, <1>2

(* A sum of what is linear in two summands.                                 *)
LEMMA LinearStep ==
    ASSUME NEW a \in Int, NEW b \in Int, NEW c \in Int, NEW n \in Nat,
           NEW x \in Int, NEW y \in Int, NEW z, NEW u \in Int, NEW v \in Int, NEW w,
           z = a * x + b * y + c, w = a * u + b * v + c * n
    PROVE  z + w = a * (x + u) + b * (y + v) + c * (n + 1)
<1>1. /\ a * (x + u) = a * x + a * u /\ b * (y + v) = b * y + b * v
      /\ c * (n + 1) = c * n + c
  OBVIOUS
<1>2. a * x \in Int /\ a * u \in Int /\ b * y \in Int /\ b * v \in Int /\ c * n \in Int
  OBVIOUS
<1> QED
  BY <1>1, <1>2

IsLinear(h, f, g, a, b, c, S) ==
    /\ a \in Int /\ b \in Int /\ c \in Int
    /\ \A x \in S : f[x] \in Int /\ g[x] \in Int /\ h[x] = a * f[x] + b * g[x] + c

(* A sum of a linear combination is that combination of the sums.           *)
LEMMA SumLinear ==
    ASSUME NEW S, IsFiniteSet(S), NEW f, NEW g, NEW h, NEW a, NEW b, NEW c,
           IsLinear(h, f, g, a, b, c, S)
    PROVE  SumAt(h, S) = a * SumAt(f, S) + b * SumAt(g, S) + c * Cardinality(S)
<1>0. /\ a \in Int /\ b \in Int /\ c \in Int
      /\ \A x \in S : f[x] \in Int
      /\ \A x \in S : g[x] \in Int
      /\ \A x \in S : h[x] = a * f[x] + b * g[x] + c
  BY DEF IsLinear
<1>1. \A x \in S : h[x] \in Int
  BY <1>0
<1>2. ASSUME NEW q, \A x \in S : q[x] \in Int
      PROVE  /\ SumAt(q, {}) = 0
             /\ \A T \in SUBSET S : T # {} =>
                  /\ Pick(T) \in T
                  /\ SumAt(q, T) = q[Pick(T)] + SumAt(q, T \ {Pick(T)})
                  /\ SumAt(q, T \ {Pick(T)}) \in Int
  <2>1. /\ SumAt(q, {}) = 0
        /\ \A T \in SUBSET S :
             /\ SumAt(q, T) \in Int
             /\ T # {} => /\ Pick(T) \in T
                          /\ SumAt(q, T) = q[Pick(T)] + SumAt(q, T \ {Pick(T)})
    BY ONLY <1>2, IsFiniteSet(S), SumStep
  <2>2. \A T \in SUBSET S : T \ {Pick(T)} \in SUBSET S
    OBVIOUS
  <2> QED
    BY <2>1, <2>2
<1> DEFINE Holds(T) ==
        SumAt(h, T) = a * SumAt(f, T) + b * SumAt(g, T) + c * Cardinality(T)
           Bad == {T \in SUBSET S : ~Holds(T)}
<1>3. Holds({})
  <2>1. SumAt(f, {}) = 0 /\ SumAt(g, {}) = 0 /\ SumAt(h, {}) = 0
    BY <1>0, <1>1, <1>2
  <2>2. a * 0 = 0 /\ b * 0 = 0 /\ c * 0 = 0
    BY <1>0
  <2> QED
    BY <2>1, <2>2, FS_EmptySet
<1>4. ASSUME NEW T \in SUBSET S, T # {}, Holds(T \ {Pick(T)})
      PROVE  Holds(T)
  <2> DEFINE p == Pick(T)
             U == T \ {p}
  <2>1. p \in T /\ SumAt(f, T) = f[p] + SumAt(f, U) /\ SumAt(f, U) \in Int
    BY <1>0, <1>2, <1>4
  <2>2. p \in T /\ SumAt(g, T) = g[p] + SumAt(g, U) /\ SumAt(g, U) \in Int
    BY <1>0, <1>2, <1>4
  <2>3. SumAt(h, T) = h[p] + SumAt(h, U)
    BY <1>1, <1>2, <1>4
  <2>4. Cardinality(T) = Cardinality(U) + 1 /\ Cardinality(U) \in Nat
    <3>1. IsFiniteSet(T) /\ IsFiniteSet(U)
      BY FS_Subset
    <3>2. Cardinality(T) \in Nat /\ Cardinality(U) \in Nat
      BY <3>1, FS_CardinalityType
    <3>3. Cardinality(U) = Cardinality(T) - 1
      BY <2>1, <3>1, FS_RemoveElement
    <3> QED
      BY <3>2, <3>3
  <2>5. f[p] \in Int /\ g[p] \in Int /\ h[p] = a * f[p] + b * g[p] + c
    BY <1>0, <2>1
  <2>6. SumAt(h, U) = a * SumAt(f, U) + b * SumAt(g, U) + c * Cardinality(U)
    BY <1>4
  <2>7. h[p] + SumAt(h, U) = a * (f[p] + SumAt(f, U)) + b * (g[p] + SumAt(g, U))
                               + c * (Cardinality(U) + 1)
    <3> HIDE DEF U, p
    <3> QED
      BY <1>0, <2>1, <2>2, <2>4, <2>5, <2>6, LinearStep
  <2> QED
    BY <2>1, <2>2, <2>3, <2>4, <2>7
<1> SUFFICES ASSUME Bad # {} PROVE FALSE
  OBVIOUS
<1>5. PICK T \in Bad : \A s \in Bad : s \subseteq T => s = T
  <2>1. Bad \subseteq SUBSET S
    OBVIOUS
  <2> HIDE DEF Bad
  <2> QED
    BY <2>1, SmallestSubset
<1>6. T \in SUBSET S /\ ~Holds(T)
  OBVIOUS
<1>7. T # {}
  BY <1>3, <1>6
<1>8. Pick(T) \in T
  BY <1>7 DEF Pick
<1>9. T \ {Pick(T)} \in SUBSET S /\ T \ {Pick(T)} \notin Bad
  <2>1. T \ {Pick(T)} \subseteq T /\ T \ {Pick(T)} # T
    BY <1>8
  <2>2. T \ {Pick(T)} \in SUBSET S
    BY <1>6
  <2> HIDE DEF Bad
  <2> QED
    BY <1>5, <2>1, <2>2
<1>10. Holds(T \ {Pick(T)})
  BY <1>9
<1> QED
  BY <1>4, <1>6, <1>7, <1>10

(* None of the summands is more than a sum of what is not negative.         *)
LEMMA SumAtLeast ==
    ASSUME NEW S, IsFiniteSet(S), NEW f, \A x \in S : f[x] \in Nat
    PROVE  SumAt(f, S) \in Nat /\ \A x \in S : f[x] <= SumAt(f, S)
<1> DEFINE Holds(T) == SumAt(f, T) \in Nat /\ \A x \in T : f[x] <= SumAt(f, T)
           Bad == {T \in SUBSET S : ~Holds(T)}
<1> SUFFICES ASSUME Bad # {} PROVE FALSE
  OBVIOUS
<1>1. PICK T \in Bad : \A s \in Bad : s \subseteq T => s = T
  <2>1. Bad \subseteq SUBSET S
    OBVIOUS
  <2> HIDE DEF Bad
  <2> QED
    BY <2>1, SmallestSubset
<1>2. T \in SUBSET S /\ ~Holds(T)
  OBVIOUS
<1>3. T # {}
  <2>1. \A x \in S : f[x] \in Int
    OBVIOUS
  <2>2. SumAt(f, {}) = 0
    BY <2>1, SumStep
  <2> QED
    BY <1>2, <2>2
<1> DEFINE U == T \ {Pick(T)}
<1>4. Pick(T) \in T /\ SumAt(f, T) = f[Pick(T)] + SumAt(f, U)
  <2>1. \A x \in S : f[x] \in Int
    OBVIOUS
  <2> QED
    BY <1>2, <1>3, <2>1, SumTakes
<1>5. Holds(U)
  <2>1. U \in SUBSET S /\ U \subseteq T /\ U # T
    BY <1>2, <1>4
  <2>2. U \notin Bad
    <3> HIDE DEF Bad, U
    <3> QED
      BY <1>1, <2>1
  <2> QED
    BY <2>1, <2>2
<1>6. Holds(T)
  <2>1. \A x \in T : f[x] \in Nat
    BY <1>2
  <2>2. \A x \in T : x = Pick(T) \/ x \in U
    OBVIOUS
  <2>3. SumAt(f, T) \in Nat
    BY <1>4, <1>5, <2>1
  <2>4. ASSUME NEW x \in T PROVE f[x] <= SumAt(f, T)
    <3>1. CASE x = Pick(T)
      BY <1>4, <1>5, <2>1, <3>1
    <3>2. CASE x \in U
      BY <1>4, <1>5, <2>1, <3>2
    <3> QED
      BY <2>2, <3>1, <3>2
  <2> QED
    BY <2>3, <2>4
<1> QED
  BY <1>2, <1>6

(* SumOf adds up what an operator says of each row; here its two uses, and   *)
(* the squared deviations FarOut adds up.                                  *)
LEMMA SumOfReadings ==
    ASSUME NEW rows, NEW f, \A r \in rows : f[r] = r.tmax[1]
    PROVE  SumOf(rows, LAMBDA r : r.tmax[1]) = SumAt(f, rows)
<1>1. SumOf(rows, LAMBDA r : r.tmax[1]) =
        (CHOOSE g : g = [s \in SUBSET rows |->
            IF s = {} THEN 0 ELSE Pick(s).tmax[1] + g[s \ {Pick(s)}]])[rows]
  BY DEF SumOf, MapThenSumSet, MapThenFoldSet, Pick
<1>2. ASSUME NEW g
      PROVE  [s \in SUBSET rows |-> IF s = {} THEN 0 ELSE Pick(s).tmax[1] + g[s \ {Pick(s)}]]
           = [s \in SUBSET rows |-> IF s = {} THEN 0 ELSE f[Pick(s)] + g[s \ {Pick(s)}]]
  <2>1. \A s \in SUBSET rows : s # {} => Pick(s) \in rows
    BY DEF Pick
  <2> QED
    BY <2>1
<1>3. (CHOOSE g : g = [s \in SUBSET rows |->
            IF s = {} THEN 0 ELSE Pick(s).tmax[1] + g[s \ {Pick(s)}]])
        = (CHOOSE g : g = [s \in SUBSET rows |->
            IF s = {} THEN 0 ELSE f[Pick(s)] + g[s \ {Pick(s)}]])
  BY <1>2
<1> QED
  BY <1>1, <1>3, SumUnfolds DEF Summing

(* The sum of squares the z-score adds up, as a sum of a function.          *)
LEMMA SumOfSquares ==
    ASSUME NEW rows, NEW f, \A r \in rows : f[r] = r.tmax[1] * r.tmax[1]
    PROVE  SumOf(rows, LAMBDA r : r.tmax[1] * r.tmax[1]) = SumAt(f, rows)
<1>1. SumOf(rows, LAMBDA r : r.tmax[1] * r.tmax[1]) =
        (CHOOSE g : g = [s \in SUBSET rows |->
            IF s = {} THEN 0
            ELSE Pick(s).tmax[1] * Pick(s).tmax[1] + g[s \ {Pick(s)}]])[rows]
  BY DEF SumOf, MapThenSumSet, MapThenFoldSet, Pick
<1>2. ASSUME NEW g
      PROVE  [s \in SUBSET rows |-> IF s = {} THEN 0
                ELSE Pick(s).tmax[1] * Pick(s).tmax[1] + g[s \ {Pick(s)}]]
           = [s \in SUBSET rows |-> IF s = {} THEN 0 ELSE f[Pick(s)] + g[s \ {Pick(s)}]]
  <2>1. \A s \in SUBSET rows : s # {} => Pick(s) \in rows
    BY DEF Pick
  <2> QED
    BY <2>1
<1>3. (CHOOSE g : g = [s \in SUBSET rows |-> IF s = {} THEN 0
                ELSE Pick(s).tmax[1] * Pick(s).tmax[1] + g[s \ {Pick(s)}]])
        = (CHOOSE g : g = [s \in SUBSET rows |->
            IF s = {} THEN 0 ELSE f[Pick(s)] + g[s \ {Pick(s)}]])
  BY <1>2
<1> QED
  BY <1>1, <1>3, SumUnfolds DEF Summing

SquaredOff(n, sum, r) == (n * r.tmax[1] - sum) * (n * r.tmax[1] - sum)

(* The sum of squared deviations, as a sum of a function.                   *)
LEMMA SumOfOffs ==
    ASSUME NEW rows, NEW n, NEW sum, NEW f, \A r \in rows : f[r] = SquaredOff(n, sum, r)
    PROVE  SumOf(rows, LAMBDA r : SquaredOff(n, sum, r)) = SumAt(f, rows)
<1>1. SumOf(rows, LAMBDA r : SquaredOff(n, sum, r)) =
        (CHOOSE g : g = [s \in SUBSET rows |->
            IF s = {} THEN 0
            ELSE SquaredOff(n, sum, Pick(s)) + g[s \ {Pick(s)}]])[rows]
  BY DEF SumOf, MapThenSumSet, MapThenFoldSet, Pick
<1>2. ASSUME NEW g
      PROVE  [s \in SUBSET rows |-> IF s = {} THEN 0
                ELSE SquaredOff(n, sum, Pick(s)) + g[s \ {Pick(s)}]]
           = [s \in SUBSET rows |-> IF s = {} THEN 0 ELSE f[Pick(s)] + g[s \ {Pick(s)}]]
  <2>1. \A s \in SUBSET rows : s # {} => Pick(s) \in rows
    BY DEF Pick
  <2> QED
    BY <2>1
<1>3. (CHOOSE g : g = [s \in SUBSET rows |-> IF s = {} THEN 0
                ELSE SquaredOff(n, sum, Pick(s)) + g[s \ {Pick(s)}]])
        = (CHOOSE g : g = [s \in SUBSET rows |->
            IF s = {} THEN 0 ELSE f[Pick(s)] + g[s \ {Pick(s)}]])
  BY <1>2
<1> QED
  BY <1>1, <1>3, SumUnfolds DEF Summing

(* A square is not negative, and is nothing only of nothing.                *)
LEMMA Squares ==
    ASSUME NEW x \in Int
    PROVE  x * x \in Nat /\ (x # 0 => x * x > 0)
<1>1. CASE x >= 0
  BY <1>1
<1>2. CASE x < 0
  <2>1. x * x = (-x) * (-x)
    OBVIOUS
  <2>2. -x \in Nat /\ -x > 0
    BY <1>2
  <2> QED
    BY <2>1, <2>2
<1> QED
  BY <1>1, <1>2

(* The square of a deviation, expanded.                                     *)
LEMMA SquareExpands ==
    ASSUME NEW n \in Int, NEW t \in Int, NEW sum \in Int
    PROVE  /\ n * t - sum \in Int /\ n * n \in Int /\ -(2 * n * sum) \in Int /\ sum * sum \in Int
           /\ (n * t - sum) * (n * t - sum)
                = (n * n) * (t * t) + (-(2 * n * sum)) * t + sum * sum
  OBVIOUS

(* The variance by sums is the one by squared deviations, n times over.      *)
LEMMA DeviationsAddUp ==
    ASSUME NEW rows, IsFiniteSet(rows), \A r \in rows : r.tmax[1] \in Int
    PROVE  LET n   == Cardinality(rows)
               sum == SumOf(rows, LAMBDA r : r.tmax[1])
           IN /\ n \in Nat /\ sum \in Int /\ Spread(rows) \in Int
              /\ SumOf(rows, LAMBDA r : SquaredOff(n, sum, r)) = n * Spread(rows)
              /\ \A r \in rows :
                   /\ SquaredOff(n, sum, r) \in Nat
                   /\ SquaredOff(n, sum, r) <= n * Spread(rows)
                   /\ Deviation(rows, r) \in Int
                   /\ SquaredOff(n, sum, r) = Deviation(rows, r) * Deviation(rows, r)
<1> DEFINE n == Cardinality(rows)
           sum == SumOf(rows, LAMBDA r : r.tmax[1])
           squares == SumOf(rows, LAMBDA r : r.tmax[1] * r.tmax[1])
           x == [r \in rows |-> r.tmax[1]]
           q == [r \in rows |-> r.tmax[1] * r.tmax[1]]
           off == [r \in rows |-> SquaredOff(n, sum, r)]
<1>1. n \in Nat
  BY FS_CardinalityType
<1>2. /\ \A r \in rows : x[r] \in Int /\ x[r] = r.tmax[1]
      /\ \A r \in rows : q[r] \in Int /\ q[r] = r.tmax[1] * r.tmax[1]
  OBVIOUS
<1>3. sum = SumAt(x, rows) /\ squares = SumAt(q, rows)
  <2> HIDE DEF x, q
  <2> QED
    BY <1>2, SumOfReadings, SumOfSquares
<1>4. sum \in Int /\ squares \in Int
  <2>1. rows \in SUBSET rows /\ (\A r \in rows : x[r] \in Int) /\ (\A r \in rows : q[r] \in Int)
    BY <1>2
  <2> HIDE DEF x, q, sum, squares
  <2>2. SumAt(x, rows) \in Int
    BY <2>1, SumStep
  <2>3. SumAt(q, rows) \in Int
    BY <2>1, SumStep
  <2> QED
    BY <1>3, <2>2, <2>3
<1> DEFINE a == n * n  b == -(2 * n * sum)  c == sum * sum
<1>5. a \in Int /\ b \in Int /\ c \in Int
  <2> HIDE DEF sum, n, squares
  <2> QED
    BY <1>1, <1>4, SquareExpands
<1>6. \A r \in rows : off[r] = a * q[r] + b * x[r] + c
  <2> TAKE r \in rows
  <2>1. off[r] = (n * r.tmax[1] - sum) * (n * r.tmax[1] - sum)
    BY DEF SquaredOff
  <2>2. \A t \in Int : (n * t - sum) * (n * t - sum)
            = (n * n) * (t * t) + (-(2 * n * sum)) * t + sum * sum
    <3> HIDE DEF sum, n, squares
    <3>1. n \in Int /\ sum \in Int
      BY <1>1, <1>4
    <3> QED
      BY <3>1, SquareExpands
  <2> HIDE DEF off, sum, n
  <2> QED
    BY <1>2, <2>1, <2>2
<1>7. SumAt(off, rows) = a * squares + b * sum + c * n
  <2>1. (\A r \in rows : x[r] \in Int) /\ (\A r \in rows : q[r] \in Int)
    BY <1>2
  <2> HIDE DEF x, q, off, a, b, c, sum, squares
  <2>2. SumAt(off, rows) = a * SumAt(q, rows) + b * SumAt(x, rows) + c * Cardinality(rows)
    <3>1. IsLinear(off, q, x, a, b, c, rows)
      BY <1>5, <1>6, <2>1 DEF IsLinear
    <3> QED
      BY <3>1, SumLinear
  <2> QED
    BY <1>3, <2>2
<1>8. a * squares + b * sum + c * n = n * Spread(rows) /\ Spread(rows) \in Int
  <2>1. Spread(rows) = n * squares - sum * sum
    BY DEF Spread
  <2> HIDE DEF sum, squares, n
  <2> QED
    BY <1>1, <1>4, <2>1
<1>9. SumOf(rows, LAMBDA r : SquaredOff(n, sum, r)) = SumAt(off, rows)
  <2>1. \A r \in rows : off[r] = SquaredOff(n, sum, r)
    OBVIOUS
  <2> HIDE DEF off, n, sum
  <2> QED
    BY <2>1, SumOfOffs
<1>10. \A r \in rows :
           /\ off[r] = SquaredOff(n, sum, r) /\ off[r] \in Nat
           /\ Deviation(rows, r) \in Int
           /\ off[r] = Deviation(rows, r) * Deviation(rows, r)
  <2> TAKE r \in rows
  <2>1. off[r] = SquaredOff(n, sum, r)
    OBVIOUS
  <2>2. Deviation(rows, r) = n * r.tmax[1] - sum
    BY DEF Deviation
  <2> HIDE DEF sum, n, off, squares
  <2>0. n \in Int /\ sum \in Int
    BY <1>1, <1>4
  <2>3. n * r.tmax[1] - sum \in Int
    BY <2>0, SquareExpands
  <2>4. SquaredOff(n, sum, r) = Deviation(rows, r) * Deviation(rows, r)
    BY <2>2 DEF SquaredOff
  <2>5. Deviation(rows, r) * Deviation(rows, r) \in Nat
    BY <2>2, <2>3, Squares
  <2> QED
    BY <2>1, <2>2, <2>3, <2>4, <2>5
<1>11. \A r \in rows : off[r] <= SumAt(off, rows)
  <2>1. \A r \in rows : off[r] \in Nat
    BY <1>10
  <2> HIDE DEF off
  <2> QED
    BY <2>1, SumAtLeast
<1> HIDE DEF off, a, b, c, x, q, squares
<1> QED
  BY <1>1, <1>4, <1>7, <1>8, <1>9, <1>10, <1>11

(* A reading is an outlier by the query exactly if it is one by definition.  *)
LEMMA OutlierIsFarOut ==
    ASSUME NEW rows, IsFiniteSet(rows), \A r \in rows : r.tmax[1] \in Int,
           NEW row \in rows
    PROVE  LET n   == Cardinality(rows)
               sum == SumOf(rows, LAMBDA r : r.tmax[1])
           IN (/\ Spread(rows) > 0
               /\ Deviation(rows, row) * Deviation(rows, row) > 9 * Spread(rows))
                <=> n * SquaredOff(n, sum, row)
                      > 9 * SumOf(rows, LAMBDA r : SquaredOff(n, sum, r))
<1> DEFINE n == Cardinality(rows)
           sum == SumOf(rows, LAMBDA r : r.tmax[1])
           off == SquaredOff(n, sum, row)
           total == SumOf(rows, LAMBDA r : SquaredOff(n, sum, r))
           spread == Spread(rows)
<1>1. /\ n \in Nat /\ spread \in Int /\ total = n * spread
      /\ off \in Nat /\ off <= n * spread
      /\ off = Deviation(rows, row) * Deviation(rows, row)
  BY DeviationsAddUp
<1>2. n # 0
  BY <1>1, FS_EmptySet
<1> HIDE DEF n, sum, off, total, spread
<1>3. 9 * total = n * (9 * spread)
  BY <1>1
<1>4. n * off > n * (9 * spread) <=> off > 9 * spread
  <2>1. \A u, v \in Int : n * (u - v) = n * u - n * v
    BY <1>1
  <2>2. \A u \in Int : n * u > 0 <=> u > 0
    <3> TAKE u \in Int
    <3>1. CASE u > 0
      BY <1>1, <1>2, <3>1
    <3>2. CASE u <= 0
      <4>1. n * (-u) \in Nat /\ n * u = -(n * (-u))
        BY <1>1, <3>2
      <4> QED
        BY <4>1, <3>2
    <3> QED
      BY <3>1, <3>2
  <2>3. off - 9 * spread \in Int /\ n * off \in Int /\ n * (9 * spread) \in Int
    BY <1>1
  <2> QED
    BY <1>1, <2>1, <2>2, <2>3
<1>5. off > 9 * spread => spread > 0
  <2> SUFFICES ASSUME off > 9 * spread, ~(spread > 0) PROVE FALSE
    BY <1>1
  <2>1. n * (-spread) \in Nat /\ n * spread = -(n * (-spread))
    BY <1>1
  <2>2. off = 0 /\ n * spread = 0
    BY <1>1, <2>1
  <2>3. spread # 0
    BY <2>2
  <2>4. -spread \in Nat \ {0}
    BY <1>1, <2>3
  <2>5. n * (-spread) > 0
    BY <1>1, <1>2, <2>4
  <2> QED
    BY <2>1, <2>2, <2>5
<1>6. (/\ spread > 0 /\ off > 9 * spread) <=> n * off > 9 * total
  BY <1>3, <1>4, <1>5
<1> QED
  BY <1>1, <1>6 DEF off, n, sum, total, spread

-----------------------------------------------------------------------------
(* Orders.  Of a finite set in a strict total order, every position up to    *)
(* its size is the rank of one element.                                    *)
StrictOrder(R, S) ==
    /\ \A x \in S : <<x, x>> \notin R
    /\ \A x, y, z \in S : <<x, y>> \in R /\ <<y, z>> \in R => <<x, z>> \in R
    /\ \A x, y \in S : x = y \/ <<x, y>> \in R \/ <<y, x>> \in R
Below(x, R, S) == {y \in S : <<y, x>> \in R}
InRank(q, R, S) ==
    /\ Cardinality(S) \in Nat
    /\ q = [i \in 1 .. Cardinality(S) |-> q[i]]
    /\ \A i \in 1 .. Cardinality(S) :
         q[i] \in S /\ Cardinality(Below(q[i], R, S)) = i - 1
    /\ \A x \in S : \E i \in 1 .. Cardinality(S) : q[i] = x
    /\ \A i, j \in 1 .. Cardinality(S) : i < j <=> <<q[i], q[j]>> \in R

(* Of two elements the later one has more before it.                        *)
LEMMA RankRises ==
    ASSUME NEW S, IsFiniteSet(S), NEW R, StrictOrder(R, S),
           NEW x \in S, NEW y \in S, <<x, y>> \in R
    PROVE  /\ Cardinality(Below(x, R, S)) \in Nat /\ Cardinality(Below(y, R, S)) \in Nat
           /\ Cardinality(Below(x, R, S)) < Cardinality(Below(y, R, S))
<1> DEFINE X == Below(x, R, S)  Y == Below(y, R, S)
<1>1. X \in SUBSET S /\ Y \in SUBSET S
  BY DEF Below
<1>2. X \cup {x} \subseteq Y /\ x \notin X
  BY DEF StrictOrder, Below
<1>3. IsFiniteSet(X) /\ IsFiniteSet(Y)
  BY <1>1, FS_Subset
<1>4. Cardinality(X) \in Nat /\ Cardinality(Y) \in Nat
  BY <1>3, FS_CardinalityType
<1>5. Cardinality(X \cup {x}) = Cardinality(X) + 1
  BY <1>2, <1>3, FS_AddElement
<1>6. Cardinality(X \cup {x}) <= Cardinality(Y)
  BY <1>2, <1>3, FS_Subset
<1> QED
  BY <1>4, <1>5, <1>6

(* Every rank is some element's.                                            *)
LEMMA RankOnto ==
    ASSUME NEW S, IsFiniteSet(S), NEW R, StrictOrder(R, S)
    PROVE  /\ Cardinality(S) \in Nat
           /\ \A x \in S : Cardinality(Below(x, R, S)) + 1 \in 1 .. Cardinality(S)
           /\ \A i \in 1 .. Cardinality(S) :
                \E x \in S : Cardinality(Below(x, R, S)) = i - 1
<1> DEFINE n == Cardinality(S)
           f == [x \in S |-> Cardinality(Below(x, R, S)) + 1]
<1>1. n \in Nat
  BY FS_CardinalityType
<1>2. \A x \in S : Cardinality(Below(x, R, S)) \in Nat /\ Cardinality(Below(x, R, S)) < n
  <2> TAKE x \in S
  <2>1. Below(x, R, S) \in SUBSET S /\ x \notin Below(x, R, S)
    BY DEF Below, StrictOrder
  <2>2. IsFiniteSet(Below(x, R, S)) /\ Cardinality(Below(x, R, S)) \in Nat
    BY <2>1, FS_Subset, FS_CardinalityType
  <2>3. Below(x, R, S) # S
    BY <2>1
  <2>4. Cardinality(Below(x, R, S)) <= n /\ Cardinality(Below(x, R, S)) # n
    BY <2>1, <2>3, FS_Subset
  <2> QED
    BY <1>1, <2>2, <2>4
<1>3. \A x \in S : f[x] = Cardinality(Below(x, R, S)) + 1 /\ f[x] \in 1 .. n
  BY <1>1, <1>2
<1>4. f \in Injection(S, 1 .. n)
  <2>1. f \in [S -> 1 .. n]
    BY <1>3
  <2>2. ASSUME NEW x \in S, NEW y \in S, f[x] = f[y]
        PROVE  x = y
    <3> SUFFICES ASSUME x # y PROVE FALSE
      OBVIOUS
    <3>1. Cardinality(Below(x, R, S)) = Cardinality(Below(y, R, S))
      BY <1>2, <1>3, <2>2
    <3>2. <<x, y>> \in R \/ <<y, x>> \in R
      BY DEF StrictOrder
    <3>3. /\ Cardinality(Below(x, R, S)) \in Nat
          /\ Cardinality(Below(y, R, S)) \in Nat
      BY <1>2
    <3>4. CASE <<x, y>> \in R
      <4>1. Cardinality(Below(x, R, S)) < Cardinality(Below(y, R, S))
        BY <3>4, RankRises
      <4> QED
        BY <3>1, <3>3, <4>1
    <3>5. CASE <<y, x>> \in R
      <4>1. Cardinality(Below(y, R, S)) < Cardinality(Below(x, R, S))
        BY <3>5, RankRises
      <4> QED
        BY <3>1, <3>3, <4>1
    <3> QED
      BY <3>2, <3>4, <3>5
  <2> HIDE DEF f
  <2> QED
    BY <2>1, <2>2 DEF Injection, IsInjective
<1>5. IsFiniteSet(1 .. n) /\ Cardinality(1 .. n) = n
  <2>1. Cardinality(1 .. n) = IF 1 > n THEN 0 ELSE n - 1 + 1
    BY <1>1, FS_Interval
  <2> QED
    BY <1>1, <2>1, FS_Interval
<1>6. f \in Surjection(S, 1 .. n)
  <2> HIDE DEF f
  <2> QED
    BY <1>4, <1>5, FS_Injection
<1>7. \A i \in 1 .. n : \E x \in S : f[x] = i
  <2> HIDE DEF f
  <2> QED
    BY <1>6 DEF Surjection
<1>8. \A i \in 1 .. n : \E x \in S : Cardinality(Below(x, R, S)) = i - 1
  <2> TAKE i \in 1 .. n
  <2>1. PICK x \in S : f[x] = i
    BY <1>7
  <2>2. Cardinality(Below(x, R, S)) + 1 = i /\ Cardinality(Below(x, R, S)) \in Nat
    BY <1>2, <1>3, <2>1
  <2> QED
    BY <2>2
<1> QED
  BY <1>1, <1>3, <1>8

(* Choosing the element of each rank puts a set in order.                   *)
LEMMA Ranked ==
    ASSUME NEW S, IsFiniteSet(S), NEW R, StrictOrder(R, S), NEW q,
           q = [i \in 1 .. Cardinality(S) |->
                   CHOOSE x \in S : Cardinality(Below(x, R, S)) = i - 1]
    PROVE  InRank(q, R, S)
<1> DEFINE n == Cardinality(S)
           rank(x) == Cardinality(Below(x, R, S))
<1>1. n \in Nat
  BY FS_CardinalityType
<1>2. \A i \in 1 .. n : q[i] \in S /\ rank(q[i]) = i - 1
  <2> TAKE i \in 1 .. n
  <2>1. q[i] = CHOOSE x \in S : rank(x) = i - 1
    OBVIOUS
  <2>2. \E x \in S : rank(x) = i - 1
    BY RankOnto
  <2> QED
    BY <2>1, <2>2
<1>3. ASSUME NEW x \in S, NEW y \in S
      PROVE  /\ rank(x) \in Nat /\ rank(x) + 1 \in 1 .. n
             /\ rank(x) < rank(y) <=> <<x, y>> \in R
             /\ rank(x) = rank(y) => x = y
  <2>1. /\ rank(x) + 1 \in 1 .. n /\ rank(y) + 1 \in 1 .. n
    BY RankOnto
  <2>2. rank(x) \in Nat /\ rank(y) \in Nat
    <3>1. Below(x, R, S) \in SUBSET S /\ Below(y, R, S) \in SUBSET S
      BY DEF Below
    <3> QED
      BY <3>1, FS_Subset, FS_CardinalityType
  <2>3. <<x, y>> \in R => rank(x) < rank(y)
    BY RankRises
  <2>4. <<y, x>> \in R => rank(y) < rank(x)
    BY RankRises
  <2>5. x = y \/ <<x, y>> \in R \/ <<y, x>> \in R
    BY DEF StrictOrder
  <2> HIDE DEF rank
  <2>6. CASE x = y
    BY <2>1, <2>2, <2>3, <2>6
  <2>7. CASE <<x, y>> \in R
    BY <2>1, <2>2, <2>3, <2>7
  <2>8. CASE <<y, x>> \in R
    BY <2>1, <2>2, <2>3, <2>4, <2>8
  <2> QED
    BY <2>5, <2>6, <2>7, <2>8
<1>4. \A x \in S : \E i \in 1 .. n : q[i] = x
  <2> TAKE x \in S
  <2>1. rank(x) \in Nat /\ rank(x) + 1 \in 1 .. n
    BY <1>3
  <2>2. q[rank(x) + 1] \in S /\ rank(q[rank(x) + 1]) = rank(x)
    <3>1. rank(q[rank(x) + 1]) = (rank(x) + 1) - 1
      BY <1>2, <2>1
    <3> HIDE DEF rank
    <3> QED
      BY <1>2, <2>1, <3>1
  <2> QED
    BY <1>3, <2>1, <2>2
<1>5. \A i, j \in 1 .. n : i < j <=> <<q[i], q[j]>> \in R
  <2> TAKE i, j \in 1 .. n
  <2>1. q[i] \in S /\ q[j] \in S /\ rank(q[i]) = i - 1 /\ rank(q[j]) = j - 1
    BY <1>2
  <2>2. rank(q[i]) < rank(q[j]) <=> <<q[i], q[j]>> \in R
    BY <1>3, <2>1
  <2> HIDE DEF rank
  <2> QED
    BY <2>1, <2>2
<1> QED
  BY <1>1, <1>2, <1>4, <1>5 DEF InRank

(* Before orders keys of one length, as a dictionary does.                  *)
LEMMA BeforeOrders ==
    ASSUME NEW S, NEW key, NEW m \in Nat,
           \A x \in S : key[x] \in [1 .. m -> Int],
           \A x, y \in S : key[x] = key[y] => x = y
    PROVE  StrictOrder({pair \in S \X S : Before(key[pair[1]], key[pair[2]])}, S)
<1> DEFINE R == {pair \in S \X S : Before(key[pair[1]], key[pair[2]])}
<1>1. \A x, y \in S : <<x, y>> \in R <=>
          \E i \in 1 .. m : key[x][i] < key[y][i] /\ \A j \in 1 .. i - 1 : key[x][j] = key[y][j]
  <2> TAKE x, y \in S
  <2>1. <<x, y>> \in R <=> Before(key[x], key[y])
    OBVIOUS
  <2>2. DOMAIN key[x] = 1 .. m
    OBVIOUS
  <2> QED
    BY <2>1, <2>2 DEF Before
<1>2. \A x \in S : \A i \in 1 .. m : key[x][i] \in Int
  OBVIOUS
<1> HIDE DEF R
<1>3. \A x \in S : <<x, x>> \notin R
  BY <1>1, <1>2
<1>4. ASSUME NEW x \in S, NEW y \in S, NEW z \in S, <<x, y>> \in R, <<y, z>> \in R
      PROVE  <<x, z>> \in R
  <2>1. PICK i \in 1 .. m : key[x][i] < key[y][i] /\ \A j \in 1 .. i - 1 : key[x][j] = key[y][j]
    BY <1>1, <1>4
  <2>2. PICK k \in 1 .. m : key[y][k] < key[z][k] /\ \A j \in 1 .. k - 1 : key[y][j] = key[z][j]
    BY <1>1, <1>4
  <2>3. CASE i <= k
    <3>1. key[x][i] < key[z][i]
      <4>1. key[y][i] <= key[z][i]
        BY <1>2, <2>2, <2>3
      <4> QED
        BY <1>2, <2>1, <4>1
    <3>2. \A j \in 1 .. i - 1 : key[x][j] = key[z][j]
      <4> TAKE j \in 1 .. i - 1
      <4>1. j \in 1 .. k - 1
        BY <2>3
      <4> QED
        BY <2>1, <2>2, <4>1
    <3> QED
      BY <1>1, <3>1, <3>2
  <2>4. CASE k < i
    <3>1. key[x][k] < key[z][k]
      <4>1. key[x][k] = key[y][k]
        BY <2>1, <2>4
      <4> QED
        BY <2>2, <4>1
    <3>2. \A j \in 1 .. k - 1 : key[x][j] = key[z][j]
      <4> TAKE j \in 1 .. k - 1
      <4>1. j \in 1 .. i - 1
        BY <2>4
      <4> QED
        BY <2>1, <2>2, <4>1
    <3> QED
      BY <1>1, <3>1, <3>2
  <2> QED
    BY <2>3, <2>4
<1>5. ASSUME NEW x \in S, NEW y \in S, x # y
      PROVE  <<x, y>> \in R \/ <<y, x>> \in R
  <2> DEFINE D == {i \in 1 .. m : key[x][i] # key[y][i]}
  <2>1. D \subseteq Nat
    OBVIOUS
  <2>2. D # {}
    <3> SUFFICES ASSUME \A i \in 1 .. m : key[x][i] = key[y][i] PROVE FALSE
      OBVIOUS
    <3>1. key[x] = [i \in 1 .. m |-> key[x][i]] /\ key[y] = [i \in 1 .. m |-> key[y][i]]
      OBVIOUS
    <3>2. key[x] = key[y]
      BY <3>1
    <3> QED
      BY <1>5, <3>2
  <2>3. PICK i \in D : \A j \in D : i <= j
    <3> HIDE DEF D
    <3> QED
      BY <2>1, <2>2, LeastOf
  <2>4. i \in 1 .. m /\ key[x][i] # key[y][i]
    OBVIOUS
  <2>5. \A j \in 1 .. i - 1 : key[x][j] = key[y][j]
    <3> SUFFICES ASSUME NEW j \in 1 .. i - 1, key[x][j] # key[y][j] PROVE FALSE
      OBVIOUS
    <3>1. j \in 1 .. m
      BY <2>4
    <3>2. i <= j
      BY <2>3, <3>1
    <3> QED
      BY <2>4, <3>2
  <2>6. key[x][i] < key[y][i] \/ key[y][i] < key[x][i]
    BY <1>2, <2>4
  <2> QED
    BY <1>1, <2>4, <2>5, <2>6
<1> QED
  BY <1>3, <1>4, <1>5 DEF StrictOrder, R

-----------------------------------------------------------------------------
(* A tally of a set: how many, and the first of them in the order R.         *)
Tally(total, shown, most, set, R) ==
    /\ IsFiniteSet(set) /\ total = Cardinality(set)
    /\ shown \in Seq(set)
    /\ Len(shown) = IF total < most THEN total ELSE most
    /\ \A j \in 1 .. Len(shown) : Cardinality(Below(shown[j], R, set)) = j - 1

(* Nothing found: the empty tally.                                          *)
LEMMA TallyOfNone ==
    ASSUME NEW most \in Nat, NEW R
    PROVE  Tally(0, <<>>, most, {}, R)
<1>1. <<>> \in Seq({}) /\ Len(<<>>) = 0
  OBVIOUS
<1>2. \A j \in 1 .. 0 : FALSE
  OBVIOUS
<1> QED
  BY <1>1, <1>2, FS_EmptySet DEF Tally

(* What comes after all of them is counted, and shown if there is room.      *)
After(x, set, R) ==
    /\ x \notin set /\ <<x, x>> \notin R
    /\ \A y \in set : <<y, x>> \in R /\ <<x, y>> \notin R

(* The tally of a set with one more element, after all of them.             *)
LEMMA TallyGrows ==
    ASSUME NEW total, NEW shown, NEW most \in Nat, NEW set, NEW R,
           Tally(total, shown, most, set, R), NEW x, After(x, set, R)
    PROVE  /\ total \in Nat /\ shown \in Seq(set) /\ Len(shown) <= most
           /\ Tally(total + 1, IF Len(shown) < most THEN Append(shown, x) ELSE shown,
                    most, set \cup {x}, R)
<1> DEFINE S == set \cup {x}
           new == IF Len(shown) < most THEN Append(shown, x) ELSE shown
<1>1. /\ IsFiniteSet(set) /\ total = Cardinality(set) /\ total \in Nat
      /\ shown \in Seq(set) /\ Len(shown) = IF total < most THEN total ELSE most
      /\ \A j \in 1 .. Len(shown) : Cardinality(Below(shown[j], R, set)) = j - 1
  BY FS_CardinalityType DEF Tally
<1>2. IsFiniteSet(S) /\ Cardinality(S) = total + 1
  BY <1>1, FS_AddElement DEF After
<1>3. Len(shown) \in Nat /\ \A j \in 1 .. Len(shown) : shown[j] \in set
  BY <1>1
<1>4. Len(shown) <= most
  BY <1>1
<1>5. shown \in Seq(S)
  BY <1>1
<1>6. \A y \in set : Below(y, R, S) = Below(y, R, set)
  BY DEF After, Below
<1>7. Below(x, R, S) = set
  BY DEF After, Below
<1>8. \A j \in 1 .. Len(shown) : Cardinality(Below(shown[j], R, S)) = j - 1
  BY <1>1, <1>3, <1>6
<1>9. CASE Len(shown) < most
  <2>1. new = Append(shown, x) /\ Len(shown) = total
    BY <1>1, <1>9
  <2>2. /\ new \in Seq(S) /\ Len(new) = total + 1
        /\ new[total + 1] = x
        /\ \A j \in 1 .. total : new[j] = shown[j]
    BY <1>5, <2>1, AppendProperties
  <2>3. Len(new) = IF total + 1 < most THEN total + 1 ELSE most
    BY <1>1, <1>9, <2>1, <2>2
  <2>4. ASSUME NEW j \in 1 .. Len(new)
        PROVE  Cardinality(Below(new[j], R, S)) = j - 1
    <3>1. CASE j = total + 1
      BY <1>1, <1>7, <2>2, <3>1
    <3>2. CASE j # total + 1
      <4>1. j \in 1 .. total
        BY <1>1, <2>2, <3>2
      <4> QED
        BY <1>8, <2>1, <2>2, <4>1
    <3> QED
      BY <3>1, <3>2
  <2> HIDE DEF new
  <2> QED
    BY <1>1, <1>2, <1>4, <2>2, <2>3, <2>4 DEF Tally, new
<1>10. CASE ~(Len(shown) < most)
  <2>1. new = shown
    BY <1>10
  <2>2. Len(shown) = IF total + 1 < most THEN total + 1 ELSE most
    BY <1>1, <1>3, <1>4, <1>10
  <2> HIDE DEF new
  <2> QED
    BY <1>1, <1>2, <1>4, <1>5, <1>8, <2>1, <2>2 DEF Tally, new
<1> QED
  BY <1>9, <1>10

(* A tally in the order of a rank is the list the properties speak of.       *)
ByKey(key, S) == {pair \in S \X S : Before(key[pair[1]], key[pair[2]])}
Earlier(s, rank, set) == {x \in set : Before(rank[x], rank[s])}

ListsFirst(total, shown, most, set, rank) ==
    /\ total = Cardinality(set)
    /\ Len(shown) = IF total < most THEN total ELSE most
    /\ \A i \in DOMAIN shown :
         shown[i] \in set /\ Cardinality(Earlier(shown[i], rank, set)) = i - 1

(* A tally by a key lists the first ones by that key.                       *)
LEMMA TallyLists ==
    ASSUME NEW total, NEW shown, NEW most \in Nat, NEW set, NEW U, set \subseteq U,
           NEW rank, Tally(total, shown, most, set, ByKey(rank, U))
    PROVE  ListsFirst(total, shown, most, set, rank)
<1> DEFINE R == ByKey(rank, U)
<1>1. \A y \in set : Below(y, R, set) = Earlier(y, rank, set)
  BY DEF Below, Earlier, ByKey
<1>2. /\ total = Cardinality(set) /\ shown \in Seq(set)
      /\ Len(shown) = IF total < most THEN total ELSE most
      /\ \A j \in 1 .. Len(shown) : Cardinality(Below(shown[j], R, set)) = j - 1
  BY DEF Tally
<1>3. DOMAIN shown = 1 .. Len(shown) /\ \A j \in 1 .. Len(shown) : shown[j] \in set
  BY <1>2
<1> QED
  BY <1>1, <1>2, <1>3 DEF ListsFirst

-----------------------------------------------------------------------------
(* The walk of a rule over its rows.  FlagsTo is what its first m rows flag.  *)
QueryOf(rule, case) == Query(rule, case.table, case.period)
FlagsTo(rule, q, m) == UNION {Flags(rule, q[i]) : i \in 1 .. m}
SamplesTo(rule, q, m, key) == {f[2] : f \in {g \in FlagsTo(rule, q, m) : g[1] = key}}
SamplesOf(rule, q) == {f[2] : f \in FlagsTo(rule, q, Len(q))}
SampleRank(rule, case) ==
    [s \in SamplesOf(rule, QueryOf(rule, case)) |-> SampleOrder(rule, case, s)]
SamplesInOrder(rule, case) ==
    LET U == SamplesOf(rule, QueryOf(rule, case))  rank == SampleRank(rule, case)
    IN {pair \in U \X U : Before(rank[pair[1]], rank[pair[2]])}

(* What the walk rests on: a row flags a key once; of two rows with a key in *)
(* common the first in the query has the first sample; and what all of them  *)
(* flag is what the rule has to find.                                      *)
OncePerRow(rule, q) ==
    \A i \in 1 .. Len(q) : \A f, g \in Flags(rule, q[i]) : f[1] = g[1] => f = g
InQueryOrder(rule, case, q) ==
    \A i, j \in 1 .. Len(q) :
        \A f \in Flags(rule, q[i]), g \in Flags(rule, q[j]) : f[1] = g[1] =>
            LET a == SampleOrder(rule, case, f[2])  b == SampleOrder(rule, case, g[2])
            IN /\ i < j => f[2] # g[2] /\ Before(a, b)
               /\ j <= i => ~Before(a, b)
AllFound(rule, case, q) ==
    ToFind(rule, case.table, case.period) =
        {[key |-> f[1], sample |-> f[2]] : f \in FlagsTo(rule, q, Len(q))}
QueryFits(rule, case) ==
    LET q == QueryOf(rule, case) IN
    /\ q \in Seq({q[i] : i \in 1 .. Len(q)})
    /\ OncePerRow(rule, q) /\ InQueryOrder(rule, case, q) /\ AllFound(rule, case, q)

(* What is left is the end of the query, and the findings are those of the   *)
(* rows before it.                                                         *)
Walked(rule, case, findings, left) ==
    LET q == QueryOf(rule, case)
        m == Len(q) - Len(left)
    IN /\ left \in Seq({q[i] : i \in 1 .. Len(q)})
       /\ Len(left) <= Len(q)
       /\ \A i \in 1 .. Len(left) : left[i] = q[m + i]
       /\ DOMAIN findings = {f[1] : f \in FlagsTo(rule, q, m)}
       /\ \A key \in DOMAIN findings :
            Tally(findings[key].count, findings[key].top, topPerGroup,
                  SamplesTo(rule, q, m, key), SamplesInOrder(rule, case))
ScanInv ==
    scan # Unscanned =>
      /\ scan = [at |-> scan.at, rule |-> scan.rule, case |-> scan.case,
                 findings |-> scan.findings, left |-> scan.left]
      /\ scan.at \in {"scan", "scanned"}
      /\ scan.rule \in DOMAIN Cases /\ scan.case \in Cases[scan.rule]
      /\ Walked(scan.rule, scan.case, scan.findings, scan.left)
      /\ scan.at = "scanned" => scan.left = <<>>

(* One more row: what it flags, and what there is under each key then.       *)
LEMMA FlagsExtend ==
    ASSUME NEW rule, NEW q, NEW m \in Nat
    PROVE  /\ FlagsTo(rule, q, 0) = {}
           /\ FlagsTo(rule, q, m + 1) = FlagsTo(rule, q, m) \cup Flags(rule, q[m + 1])
<1>1. 1 .. 0 = {} /\ 1 .. m + 1 = (1 .. m) \cup {m + 1}
  OBVIOUS
<1> QED
  BY <1>1 DEF FlagsTo

(* A row's sample comes after those of its key before it.                   *)
LEMMA SampleComesAfter ==
    ASSUME NEW rule, NEW case, QueryFits(rule, case),
           NEW m \in Nat, m + 1 <= Len(QueryOf(rule, case)),
           NEW flag \in Flags(rule, QueryOf(rule, case)[m + 1])
    PROVE  /\ After(flag[2], SamplesTo(rule, QueryOf(rule, case), m, flag[1]),
                    SamplesInOrder(rule, case))
           /\ SamplesTo(rule, QueryOf(rule, case), m + 1, flag[1])
                = SamplesTo(rule, QueryOf(rule, case), m, flag[1]) \cup {flag[2]}
<1> DEFINE q == QueryOf(rule, case)
           n == Len(q)
           U == SamplesOf(rule, q)
           R == SamplesInOrder(rule, case)
           S == SamplesTo(rule, q, m, flag[1])
           O(s) == SampleOrder(rule, case, s)
<1>1. /\ n \in Nat /\ m + 1 \in 1 .. n
      /\ OncePerRow(rule, q) /\ InQueryOrder(rule, case, q)
  BY DEF QueryFits
<1>2. \A i \in 1 .. n : \A f \in Flags(rule, q[i]) : f[2] \in U
  BY DEF SamplesOf, FlagsTo
<1>3. \A a, b \in U : <<a, b>> \in R <=> Before(O(a), O(b))
  BY DEF SamplesInOrder, SampleRank
<1>4. \A s \in S : \E i \in 1 .. m : \E f \in Flags(rule, q[i]) : f[1] = flag[1] /\ f[2] = s
  BY DEF SamplesTo, FlagsTo
<1>5. flag[2] \in U
  BY <1>1, <1>2
<1>6. ASSUME NEW s \in S
      PROVE  /\ s \in U /\ s # flag[2]
             /\ Before(O(s), O(flag[2])) /\ ~Before(O(flag[2]), O(s))
  <2>1. PICK i \in 1 .. m : \E f \in Flags(rule, q[i]) : f[1] = flag[1] /\ f[2] = s
    BY <1>4
  <2>2. PICK f \in Flags(rule, q[i]) : f[1] = flag[1] /\ f[2] = s
    BY <2>1
  <2>3. i \in 1 .. n /\ i < m + 1 /\ i <= m + 1
    BY <1>1
  <2>4. s \in U
    BY <1>2, <2>2, <2>3
  <2> QED
    BY <1>1, <2>2, <2>3, <2>4 DEF InQueryOrder
<1>7. SamplesTo(rule, q, m + 1, flag[1]) = S \cup {flag[2]}
  <2> DEFINE here == {f \in Flags(rule, q[m + 1]) : f[1] = flag[1]}
  <2>1. here = {flag}
    BY <1>1 DEF OncePerRow
  <2>2. SamplesTo(rule, q, m + 1, flag[1]) = S \cup {f[2] : f \in here}
    <3>1. FlagsTo(rule, q, m + 1) = FlagsTo(rule, q, m) \cup Flags(rule, q[m + 1])
      BY FlagsExtend
    <3>2. {f \in FlagsTo(rule, q, m + 1) : f[1] = flag[1]}
            = {f \in FlagsTo(rule, q, m) : f[1] = flag[1]} \cup here
      BY <3>1
    <3> HIDE DEF q, here
    <3> QED
      BY <3>2 DEF SamplesTo
  <2> QED
    BY <2>1, <2>2
<1>8. <<flag[2], flag[2]>> \notin R
  <2>1. ~Before(O(flag[2]), O(flag[2]))
    <3>1. m + 1 \in 1 .. n /\ m + 1 <= m + 1
      BY <1>1
    <3> QED
      BY <1>1, <3>1 DEF InQueryOrder
  <2> QED
    BY <1>3, <1>5, <2>1
<1> QED
  BY <1>3, <1>5, <1>6, <1>7, <1>8 DEF After

(* The findings with those of one more row, as RuleScans has them.           *)
GroupJoined(rule, row, findings) ==
    LET flags == Flags(rule, row)
        keys  == {flag[1] : flag \in flags}
    IN [key \in keys \cup DOMAIN findings |->
            IF key \notin keys THEN findings[key]
            ELSE LET flag == CHOOSE f \in flags : f[1] = key IN
                 [count |-> Bucket(findings, key).count + 1,
                  top |-> Sampled(Bucket(findings, key).top, flag[2])]]

(* Before its first row a walk has found nothing.                           *)
LEMMA WalkStarts ==
    ASSUME NEW rule, NEW case, QueryFits(rule, case)
    PROVE  Walked(rule, case, <<>>, QueryOf(rule, case))
<1> DEFINE q == QueryOf(rule, case)
<1>1. q \in Seq({q[i] : i \in 1 .. Len(q)}) /\ Len(q) \in Nat
  BY DEF QueryFits
<1>2. Len(q) - Len(q) = 0 /\ FlagsTo(rule, q, 0) = {}
  BY <1>1, FlagsExtend
<1>3. DOMAIN <<>> = {}
  OBVIOUS
<1> HIDE DEF q
<1>4. \A i \in 1 .. Len(q) : q[i] = q[(Len(q) - Len(q)) + i]
  BY <1>1
<1> QED
  BY <1>1, <1>2, <1>3, <1>4 DEF Walked, q

(* A row's flags join what the walk has found.                              *)
LEMMA WalkGoesOn ==
    ASSUME NEW rule, NEW case, QueryFits(rule, case), NEW findings, NEW left,
           Walked(rule, case, findings, left), left # <<>>
    PROVE  Walked(rule, case, GroupJoined(rule, Head(left), findings), Tail(left))
<1> DEFINE q == QueryOf(rule, case)
           n == Len(q)
           rows == {q[i] : i \in 1 .. n}
           m == n - Len(left)
           row == Head(left)
           flags == Flags(rule, row)
           keys == {flag[1] : flag \in flags}
           after == GroupJoined(rule, row, findings)
           R == SamplesInOrder(rule, case)
<1>1. /\ left \in Seq(rows) /\ Len(left) <= n
      /\ \A i \in 1 .. Len(left) : left[i] = q[m + i]
      /\ DOMAIN findings = {f[1] : f \in FlagsTo(rule, q, m)}
      /\ \A key \in DOMAIN findings :
           Tally(findings[key].count, findings[key].top, topPerGroup,
                 SamplesTo(rule, q, m, key), R)
  BY DEF Walked
<1>2. n \in Nat
  BY DEF QueryFits
<1> HIDE DEF rows
<1>3. /\ Len(left) \in Nat \ {0}
      /\ Tail(left) \in Seq(rows) /\ Len(Tail(left)) = Len(left) - 1
      /\ Head(left) = left[1]
      /\ \A i \in 1 .. Len(Tail(left)) : Tail(left)[i] = left[i + 1]
  BY <1>1, HeadTailProperties
<1> HIDE DEF q
<1>4. m \in Nat /\ m + 1 <= n /\ n - Len(Tail(left)) = m + 1 /\ Len(Tail(left)) <= n
  BY <1>1, <1>2, <1>3
<1>5. row = q[m + 1]
  BY <1>1, <1>3
<1>6. \A i \in 1 .. Len(Tail(left)) : Tail(left)[i] = q[(m + 1) + i]
  <2> TAKE i \in 1 .. Len(Tail(left))
  <2>1. i + 1 \in 1 .. Len(left) /\ m + (i + 1) = (m + 1) + i
    BY <1>3, <1>4
  <2> QED
    BY <1>1, <1>3, <2>1
<1>7. FlagsTo(rule, q, m + 1) = FlagsTo(rule, q, m) \cup flags
  BY <1>4, <1>5, FlagsExtend
<1>8. DOMAIN after = {f[1] : f \in FlagsTo(rule, q, m + 1)}
  <2>1. DOMAIN after = keys \cup DOMAIN findings
    BY DEF GroupJoined
  <2> HIDE DEF after
  <2> QED
    BY <1>1, <1>7, <2>1
<1>9. ASSUME NEW key \in DOMAIN after
      PROVE  Tally(after[key].count, after[key].top, topPerGroup,
                   SamplesTo(rule, q, m + 1, key), R)
  <2>1. CASE key \notin keys
    <3>1. key \in DOMAIN findings /\ after[key] = findings[key]
      BY <2>1 DEF GroupJoined
    <3>2. SamplesTo(rule, q, m + 1, key) = SamplesTo(rule, q, m, key)
      <4>1. \A f \in flags : f[1] # key
        BY <2>1
      <4>2. {f \in FlagsTo(rule, q, m + 1) : f[1] = key}
              = {f \in FlagsTo(rule, q, m) : f[1] = key}
        BY <1>7, <4>1
      <4> QED
        BY <4>2 DEF SamplesTo
    <3> HIDE DEF after
    <3> QED
      BY <1>1, <3>1, <3>2
  <2>2. CASE key \in keys
    <3> DEFINE flag == CHOOSE f \in flags : f[1] = key
               bucket == Bucket(findings, key)
    <3>1. flag \in flags /\ flag[1] = key
      BY <2>2
    <3>2. after[key] = [count |-> bucket.count + 1, top |-> Sampled(bucket.top, flag[2])]
      BY <2>2 DEF GroupJoined
    <3>3. Tally(bucket.count, bucket.top, topPerGroup, SamplesTo(rule, q, m, key), R)
      <4>1. CASE key \in DOMAIN findings
        BY <1>1, <4>1 DEF Bucket
      <4>2. CASE key \notin DOMAIN findings
        <5>1. bucket.count = 0 /\ bucket.top = <<>>
          BY <4>2 DEF Bucket
        <5>2. \A f \in FlagsTo(rule, q, m) : f[1] # key
          BY <1>1, <4>2
        <5>3. SamplesTo(rule, q, m, key) = {}
          BY <5>2 DEF SamplesTo
        <5>4. Tally(0, <<>>, topPerGroup, {}, R)
          BY TallyOfNone DEF topPerGroup
        <5> HIDE DEF bucket
        <5> QED
          BY <5>1, <5>3, <5>4
      <4> QED
        BY <4>1, <4>2
    <3> HIDE DEF flag, bucket, after
    <3>4. flag \in Flags(rule, QueryOf(rule, case)[m + 1]) /\ m + 1 <= Len(QueryOf(rule, case))
      BY <1>4, <1>5, <3>1 DEF q
    <3>5. /\ After(flag[2], SamplesTo(rule, q, m, key), R)
          /\ SamplesTo(rule, q, m + 1, key) = SamplesTo(rule, q, m, key) \cup {flag[2]}
      BY <1>4, <3>1, <3>4, SampleComesAfter DEF q
    <3>6. Tally(bucket.count + 1,
                IF Len(bucket.top) < topPerGroup THEN Append(bucket.top, flag[2]) ELSE bucket.top,
                topPerGroup, SamplesTo(rule, q, m, key) \cup {flag[2]}, R)
      <4>1. topPerGroup \in Nat
        BY DEF topPerGroup
      <4> QED
        BY <3>3, <3>5, <4>1, TallyGrows
    <3>7. after[key].count = bucket.count + 1
          /\ after[key].top = Sampled(bucket.top, flag[2])
      BY <3>2
    <3> QED
      BY <3>5, <3>6, <3>7 DEF Sampled
  <2> QED
    BY <2>1, <2>2
<1> HIDE DEF after, R, row, flags, keys
<1> DEFINE k == n - Len(Tail(left))
<1>10. /\ \A i \in 1 .. Len(Tail(left)) : Tail(left)[i] = q[k + i]
       /\ DOMAIN after = {f[1] : f \in FlagsTo(rule, q, k)}
       /\ \A key \in DOMAIN after :
            Tally(after[key].count, after[key].top, topPerGroup, SamplesTo(rule, q, k, key), R)
  <2>1. k = m + 1
    BY <1>4
  <2> HIDE DEF k, m
  <2> QED
    BY <1>6, <1>8, <1>9, <2>1
<1>11. Walked(rule, case, after, Tail(left))
  <2> USE DEF q, rows, R
  <2> QED
    BY <1>3, <1>4, <1>10 DEF Walked
<1> QED
  BY <1>11 DEF after, row

-----------------------------------------------------------------------------
(* The rules themselves.  What the assumption on their tables says of each.  *)
Optional(value) == value = <<>> \/ value \in [1 .. 1 -> Int]

(* An optional value that is given is a number.                             *)
LEMMA OptionalGiven ==
    ASSUME NEW value, Optional(value), Given(value)
    PROVE  value[1] \in Int
  BY DEF Optional, Given

(* What the assumption says of the table of each rule.                      *)
LEMMA Tables ==
    ASSUME NEW rule \in DOMAIN Cases, NEW case \in Cases[rule]
    PROVE  /\ IsFiniteSet(case.table)
           /\ rule \in {"bbox", "cross-period", "diurnal", "z-score", "wmo", "fill-leak",
                        "wind-range"}
           /\ rule = "bbox" =>
                /\ \A r \in case.table : /\ r.station \in Int
                                         /\ Optional(r.lat) /\ Optional(r.lon)
                /\ \A r, q \in case.table : r.station = q.station => r = q
           /\ rule = "cross-period" =>
                /\ \A r \in case.table :
                     /\ r.station \in Int /\ r.month \in Int /\ r.period \in Int
                     /\ \A v \in Variables : Optional(r.values[v])
                /\ \A r, q \in case.table :
                     /\ r.station = q.station /\ r.month = q.month /\ r.period = q.period
                     => r = q
           /\ rule \in {"diurnal", "z-score", "wmo"} =>
                /\ \A r \in case.table :
                     /\ r.station \in Int /\ r.year \in Int /\ r.month \in Int /\ r.day \in Int
                     /\ Optional(r.tmax) /\ Optional(r.tmin)
                     /\ rule = "wmo" => r.day \in 1 .. DaysInMonth
                /\ \A r, q \in case.table :
                     /\ r.station = q.station /\ r.year = q.year
                     /\ r.month = q.month /\ r.day = q.day
                     => r = q
           /\ rule \in {"fill-leak", "wind-range"} =>
                /\ \A r \in case.table :
                     r.key \in Int /\ \A c \in DOMAIN r.values : Optional(r.values[c])
                /\ \A r, q \in case.table : r.key = q.key => r = q
<1>1. /\ IsFiniteSet(case.table)
      /\ rule \in {"bbox", "cross-period", "diurnal", "z-score", "wmo", "fill-leak",
                   "wind-range"}
  BY CasesAssumption
<1>2. CASE rule = "bbox"
  <2>1. /\ \A r \in case.table : /\ r.station \in Int
                                 /\ Optional(r.lat) /\ Optional(r.lon)
        /\ \A r, q \in case.table : r.station = q.station => r = q
    BY <1>2, CasesAssumption DEF Optional
  <2> QED
    BY <1>1, <1>2, <2>1
<1>3. CASE rule = "cross-period"
  <2>1. /\ \A r \in case.table :
             /\ r.station \in Int /\ r.month \in Int /\ r.period \in Int
             /\ \A v \in Variables : Optional(r.values[v])
        /\ \A r, q \in case.table :
             /\ r.station = q.station /\ r.month = q.month /\ r.period = q.period
             => r = q
    BY <1>3, CasesAssumption DEF Optional, Variables
  <2> QED
    BY <1>1, <1>3, <2>1
<1>4. CASE rule \in {"diurnal", "z-score", "wmo"}
  <2>1. \A r \in case.table :
             /\ r.station \in Int /\ r.year \in Int /\ r.month \in Int /\ r.day \in Int
             /\ Optional(r.tmax) /\ Optional(r.tmin)
             /\ rule = "wmo" => r.day \in 1 .. DaysInMonth
    <3> TAKE r \in case.table
    <3>1. /\ r.station \in Int /\ r.year \in Int /\ r.month \in Int
          /\ r.day \in IF rule = "wmo" THEN 1 .. DaysInMonth ELSE Int
          /\ Optional(r.tmax) /\ Optional(r.tmin)
      BY <1>4, CasesAssumption DEF Optional
    <3>2. r.day \in Int
      BY <3>1, RuleAssumption
    <3> QED
      BY <3>1, <3>2
  <2>2. \A r, q \in case.table :
             /\ r.station = q.station /\ r.year = q.year
             /\ r.month = q.month /\ r.day = q.day
             => r = q
    BY <1>4, CasesAssumption
  <2> QED
    BY <1>1, <1>4, <2>1, <2>2
<1>5. CASE rule \in {"fill-leak", "wind-range"}
  <2>1. /\ \A r \in case.table :
             r.key \in Int /\ \A c \in DOMAIN r.values : Optional(r.values[c])
        /\ \A r, q \in case.table : r.key = q.key => r = q
    BY <1>5, CasesAssumption DEF Optional
  <2> QED
    BY <1>1, <1>5, <2>1
<1> QED
  BY <1>1, <1>2, <1>3, <1>4, <1>5

(* The rows of a query, in the order of its key.                            *)
LEMMA OrderedBy ==
    ASSUME NEW S, IsFiniteSet(S), NEW key, NEW m \in Nat,
           \A x \in S : key[x] \in [1 .. m -> Int],
           \A x, y \in S : key[x] = key[y] => x = y,
           NEW q,
           q = [i \in 1 .. Cardinality(S) |->
                   CHOOSE x \in S :
                       Cardinality({r \in S : Before(key[r], key[x])}) = i - 1]
    PROVE  /\ StrictOrder(ByKey(key, S), S)
           /\ InRank(q, ByKey(key, S), S)
<1> DEFINE R == ByKey(key, S)
<1>1. StrictOrder(R, S)
  BY BeforeOrders DEF ByKey
<1>2. \A x \in S : Below(x, R, S) = {r \in S : Before(key[r], key[x])}
  BY DEF Below, ByKey
<1>3. q = [i \in 1 .. Cardinality(S) |->
              CHOOSE x \in S : Cardinality(Below(x, R, S)) = i - 1]
  <2>1. \A i \in 1 .. Cardinality(S) :
            (CHOOSE x \in S : Cardinality(Below(x, R, S)) = i - 1)
              = CHOOSE x \in S : Cardinality({r \in S : Before(key[r], key[x])}) = i - 1
    <3> HIDE DEF R
    <3> QED
      BY <1>2
  <2> HIDE DEF R
  <2> QED
    BY <2>1
<1> HIDE DEF R
<1>4. InRank(q, R, S)
  BY <1>1, <1>3, Ranked
<1> QED
  BY <1>1, <1>4 DEF R

(* A query in the order of a key is one the walk can follow.                *)
LEMMA OrderFits ==
    ASSUME NEW rule, NEW case, NEW S, NEW key,
           StrictOrder(ByKey(key, S), S),
           InRank(QueryOf(rule, case), ByKey(key, S), S),
           \A x \in S : \A f, g \in Flags(rule, x) : f[1] = g[1] => f = g,
           \A x, y \in S : \A f \in Flags(rule, x), g \in Flags(rule, y) : f[1] = g[1] =>
               /\ f[2] = g[2] => x = y
               /\ Before(SampleOrder(rule, case, f[2]), SampleOrder(rule, case, g[2]))
                    <=> Before(key[x], key[y]),
           ToFind(rule, case.table, case.period)
               = {[key |-> f[1], sample |-> f[2]] : f \in UNION {Flags(rule, x) : x \in S}}
    PROVE  QueryFits(rule, case)
<1> DEFINE q == QueryOf(rule, case)
           n == Cardinality(S)
           R == ByKey(key, S)
<1>1. /\ n \in Nat /\ q = [i \in 1 .. n |-> q[i]]
      /\ \A i \in 1 .. n : q[i] \in S
      /\ \A x \in S : \E i \in 1 .. n : q[i] = x
      /\ \A i, j \in 1 .. n : i < j <=> <<q[i], q[j]>> \in R
  BY DEF InRank
<1>2. \A x, y \in S : <<x, y>> \in R <=> Before(key[x], key[y])
  BY DEF ByKey
<1> HIDE DEF q, R
<1>3. /\ q \in Seq({q[i] : i \in 1 .. n}) /\ Len(q) = n
  <2>1. q \in [1 .. n -> {q[i] : i \in 1 .. n}]
    BY <1>1
  <2> QED
    BY SMTT(30), <1>1, <2>1
<1>4. OncePerRow(rule, q)
  BY <1>1, <1>3 DEF OncePerRow
<1>5. InQueryOrder(rule, case, q)
  <2> SUFFICES ASSUME NEW i \in 1 .. n, NEW j \in 1 .. n,
                      NEW f \in Flags(rule, q[i]), NEW g \in Flags(rule, q[j]),
                      f[1] = g[1]
               PROVE  LET a == SampleOrder(rule, case, f[2])
                          b == SampleOrder(rule, case, g[2])
                      IN /\ i < j => f[2] # g[2] /\ Before(a, b)
                         /\ j <= i => ~Before(a, b)
    BY <1>3 DEF InQueryOrder
  <2>1. q[i] \in S /\ q[j] \in S /\ (i < j <=> <<q[i], q[j]>> \in R)
    BY <1>1
  <2>2. /\ f[2] = g[2] => q[i] = q[j]
        /\ Before(SampleOrder(rule, case, f[2]), SampleOrder(rule, case, g[2])) <=> i < j
    BY <1>2, <2>1
  <2>3. i < j => q[i] # q[j]
    BY <2>1 DEF StrictOrder, R
  <2> QED
    BY <2>2, <2>3
<1>6. UNION {Flags(rule, x) : x \in S} = FlagsTo(rule, q, Len(q))
  BY <1>1, <1>3 DEF FlagsTo
<1>7. AllFound(rule, case, q)
  BY <1>6 DEF AllFound
<1> QED
  BY <1>3, <1>4, <1>5, <1>7 DEF QueryFits, q

(* What all rows flag, from what each does.                                 *)
LEMMA FoundByRow ==
    ASSUME NEW rule, NEW S, NEW flagged, NEW found, flagged \subseteq S,
           \A x \in flagged : found[x] = {[key |-> f[1], sample |-> f[2]] : f \in Flags(rule, x)},
           \A x \in S \ flagged : Flags(rule, x) = {}
    PROVE  UNION {found[x] : x \in flagged}
             = {[key |-> f[1], sample |-> f[2]] : f \in UNION {Flags(rule, x) : x \in S}}
  OBVIOUS

(* Keys with their first columns in common are in the order of the others.   *)
LEMMA BeforeShared ==
    ASSUME NEW m \in Nat, NEW d \in 0 .. m,
           NEW k \in [1 .. m -> Int], NEW l \in [1 .. m -> Int],
           NEW s \in [1 .. m - d -> Int], NEW t \in [1 .. m - d -> Int],
           \A i \in 1 .. d : k[i] = l[i],
           \A i \in 1 .. m - d : s[i] = k[i + d] /\ t[i] = l[i + d]
    PROVE  Before(k, l) <=> Before(s, t)
<1>0. DOMAIN k = 1 .. m /\ DOMAIN s = 1 .. m - d
  OBVIOUS
<1>1. ASSUME Before(k, l) PROVE Before(s, t)
  <2>1. PICK i \in 1 .. m : k[i] < l[i] /\ \A j \in 1 .. i - 1 : k[j] = l[j]
    BY <1>0, <1>1 DEF Before
  <2>2. i > d
    <3> SUFFICES ASSUME ~(i > d) PROVE FALSE
      OBVIOUS
    <3>1. i \in 1 .. d
      OBVIOUS
    <3>2. k[i] = l[i] /\ k[i] \in Int
      BY <3>1
    <3> QED
      BY <2>1, <3>2
  <2>3. i - d \in 1 .. m - d /\ (i - d) + d = i
    BY <2>2
  <2>4. s[i - d] < t[i - d]
    BY <2>1, <2>3
  <2>5. \A j \in 1 .. (i - d) - 1 : s[j] = t[j]
    <3> TAKE j \in 1 .. (i - d) - 1
    <3>1. j \in 1 .. m - d /\ j + d \in 1 .. i - 1
      OBVIOUS
    <3> QED
      BY <2>1, <3>1
  <2> QED
    BY <1>0, <2>3, <2>4, <2>5 DEF Before
<1>2. ASSUME Before(s, t) PROVE Before(k, l)
  <2>1. PICK i \in 1 .. m - d : s[i] < t[i] /\ \A j \in 1 .. i - 1 : s[j] = t[j]
    BY <1>0, <1>2 DEF Before
  <2>2. i + d \in 1 .. m /\ k[i + d] < l[i + d]
    BY <2>1
  <2>3. \A j \in 1 .. (i + d) - 1 : k[j] = l[j]
    <3> TAKE j \in 1 .. (i + d) - 1
    <3>1. CASE j <= d
      <4>1. j \in 1 .. d
        BY <3>1
      <4> QED
        BY <4>1
    <3>2. CASE ~(j <= d)
      <4>1. j - d \in 1 .. i - 1 /\ j - d \in 1 .. m - d /\ (j - d) + d = j
        BY <3>2
      <4> QED
        BY <2>1, <4>1
    <3> QED
      BY <3>1, <3>2
  <2> QED
    BY <1>0, <2>2, <2>3 DEF Before
<1> QED
  BY <1>1, <1>2

-----------------------------------------------------------------------------
(* The bounds of a coordinate, as ranges and as inequalities.               *)
LEMMA AbsAtMost ==
    ASSUME NEW x \in Int
    PROVE  /\ Abs(x) > 900 <=> x \notin -900 .. 900
           /\ Abs(x) > 1800 <=> x \notin -1800 .. 1800
  BY DEF Abs

(* The conditions of the bounding box, as inequalities.                     *)
LEMMA Coordinates ==
    ASSUME NEW r, r.lat[1] \in Int, r.lon[1] \in Int
    PROVE  /\ Implausible(r) <=> (Abs(r.lat[1]) > 900 \/ Abs(r.lon[1]) > 1800
                                     \/ (r.lat[1] = 0 /\ r.lon[1] = 0))
           /\ OutsideMX(r) <=> ~(145 <= r.lat[1] /\ r.lat[1] <= 328
                                    /\ -1185 <= r.lon[1] /\ r.lon[1] <= -867)
<1> DEFINE lat == r.lat[1]
           lon == r.lon[1]
<1>1. /\ Implausible(r) <=> (lat \notin -900 .. 900 \/ lon \notin -1800 .. 1800
                                \/ (lat = 0 /\ lon = 0))
      /\ OutsideMX(r) <=> (lat \notin 145 .. 328 \/ lon \notin -1185 .. -867)
  BY DEF Implausible, OutsideMX
<1>2. lat \in Int /\ lon \in Int
  OBVIOUS
<1> HIDE DEF lat, lon
<1>3. (lat \notin -900 .. 900 \/ lon \notin -1800 .. 1800 \/ (lat = 0 /\ lon = 0))
        <=> (Abs(lat) > 900 \/ Abs(lon) > 1800 \/ (lat = 0 /\ lon = 0))
  BY <1>2, AbsAtMost
<1>4. (lat \notin 145 .. 328 \/ lon \notin -1185 .. -867)
        <=> ~(145 <= lat /\ lat <= 328 /\ -1185 <= lon /\ lon <= -867)
  BY <1>2
<1>5. /\ Implausible(r) <=> (Abs(lat) > 900 \/ Abs(lon) > 1800 \/ (lat = 0 /\ lon = 0))
      /\ OutsideMX(r) <=> ~(145 <= lat /\ lat <= 328 /\ -1185 <= lon /\ lon <= -867)
  BY <1>1, <1>3, <1>4
<1> QED
  BY <1>5 DEF lat, lon

(* bbox: a station is flagged once, by what its coordinates are.            *)
LEMMA BBoxFits ==
    ASSUME NEW case \in Cases["bbox"], "bbox" \in DOMAIN Cases
    PROVE  QueryFits("bbox", case)
<1> DEFINE S == case.table
           key == [x \in S |-> <<x.station>>]
           q == QueryOf("bbox", case)
<1>1. /\ IsFiniteSet(S)
      /\ \A x \in S : x.station \in Int /\ Optional(x.lat) /\ Optional(x.lon)
      /\ \A x, y \in S : x.station = y.station => x = y
  BY Tables
<1>2. q = [i \in 1 .. Cardinality(S) |->
              CHOOSE x \in S : Cardinality({r \in S : Before(key[r], key[x])}) = i - 1]
  <2> DEFINE Next1(i) == CHOOSE x \in S :
                 Cardinality({r \in S : Before(<<r.station>>, <<x.station>>)}) = i - 1
             Next2(i) == CHOOSE x \in S :
                 Cardinality({r \in S : Before(key[r], key[x])}) = i - 1
  <2>1. q = [i \in 1 .. Cardinality(S) |-> Next1(i)]
    BY DEF QueryOf, Query, OrderBy
  <2>2. \A x \in S : {r \in S : Before(<<r.station>>, <<x.station>>)}
                     = {r \in S : Before(key[r], key[x])}
    OBVIOUS
  <2>3. \A i \in 1 .. Cardinality(S) : Next1(i) = Next2(i)
    <3> HIDE DEF key, q, S
    <3> QED
      BY <2>2
  <2>4. q = [i \in 1 .. Cardinality(S) |-> Next2(i)]
    <3> HIDE DEF Next1, Next2, q, S
    <3> QED
      BY <2>1, <2>3
  <2> QED
    BY <2>4
<1>3. /\ \A x \in S : key[x] \in [1 .. 1 -> Int]
      /\ \A x, y \in S : key[x] = key[y] => x = y
  BY <1>1
<1>4. StrictOrder(ByKey(key, S), S) /\ InRank(q, ByKey(key, S), S)
  <2> HIDE DEF key, q, S
  <2> QED
    BY <1>1, <1>2, <1>3, OrderedBy
<1>5. \A x \in S : Flags("bbox", x) =
          {<<<<x.station, BBoxVerdict(x)>>, x.station>> : y \in {BBoxVerdict(x)} \ {"none"}}
  BY DEF Flags
<1>6. \A x \in S : \A f \in Flags("bbox", x) :
          /\ f = <<<<x.station, BBoxVerdict(x)>>, x.station>> /\ BBoxVerdict(x) # "none"
  BY <1>5
<1>7. \A x, y \in S : \A f \in Flags("bbox", x), g \in Flags("bbox", y) : f[1] = g[1] =>
          /\ f[2] = g[2] => x = y
          /\ Before(SampleOrder("bbox", case, f[2]), SampleOrder("bbox", case, g[2]))
               <=> Before(key[x], key[y])
  <2> TAKE x, y \in S
  <2> TAKE f \in Flags("bbox", x), g \in Flags("bbox", y)
  <2>1. f[1] = <<x.station, BBoxVerdict(x)>> /\ f[2] = x.station /\ g[2] = y.station
        /\ g[1] = <<y.station, BBoxVerdict(y)>>
    BY <1>6
  <2>2. SampleOrder("bbox", case, f[2]) = key[x] /\ SampleOrder("bbox", case, g[2]) = key[y]
    BY <2>1 DEF SampleOrder
  <2> QED
    BY <1>1, <2>1, <2>2
<1>8. ToFind("bbox", case.table, case.period)
        = {[key |-> f[1], sample |-> f[2]] : f \in UNION {Flags("bbox", x) : x \in S}}
  <2> DEFINE outside == {r \in S : /\ Given(r.lat) /\ Given(r.lon)
                                  /\ \/ Abs(r.lat[1]) > 900 \/ Abs(r.lon[1]) > 1800
                                     \/ r.lat[1] = 0 /\ r.lon[1] = 0}
             inside  == {r \in S : /\ Given(r.lat) /\ Given(r.lon)
                                  /\ 145 <= r.lat[1] /\ r.lat[1] <= 328
                                  /\ -1185 <= r.lon[1] /\ r.lon[1] <= -867}
             level(r) == IF r \in outside THEN "error" ELSE "warn"
  <2>1. ToFind("bbox", case.table, case.period)
          = UNION {Found(<<r.station, level(r)>>, {r.station}) : r \in S \ (inside \ outside)}
    BY DEF ToFind, BBoxFound
  <2>2. ASSUME NEW r \in S
        PROVE  /\ r \in S \ (inside \ outside) <=> BBoxVerdict(r) # "none"
               /\ r \in S \ (inside \ outside) => BBoxVerdict(r) = level(r)
    <3>1. CASE Located(r)
      <4>1. r.lat[1] \in Int /\ r.lon[1] \in Int
        BY <1>1, <3>1, OptionalGiven DEF Located
      <4> DEFINE far == Abs(r.lat[1]) > 900 \/ Abs(r.lon[1]) > 1800
                          \/ (r.lat[1] = 0 /\ r.lon[1] = 0)
                 near == 145 <= r.lat[1] /\ r.lat[1] <= 328
                           /\ -1185 <= r.lon[1] /\ r.lon[1] <= -867
      <4>2. r \in outside <=> far
        BY <3>1 DEF Located
      <4>3. r \in inside <=> near
        BY <3>1 DEF Located
      <4>5. (Implausible(r) <=> far) /\ (OutsideMX(r) <=> ~near)
        BY <4>1, Coordinates
      <4>6. (r \in outside <=> Implausible(r)) /\ (r \in inside <=> ~OutsideMX(r))
        <5> HIDE DEF outside, inside, S, far, near
        <5> QED
          BY <4>2, <4>3, <4>5
      <4>4. BBoxVerdict(r) = IF Implausible(r) THEN "error"
                             ELSE IF OutsideMX(r) THEN "warn" ELSE "none"
        BY <3>1 DEF BBoxVerdict
      <4> HIDE DEF outside, inside
      <4> QED
        BY <4>6, <4>4
    <3>2. CASE ~Located(r)
      <4>1. r \notin outside /\ r \notin inside
        BY <3>2 DEF Located
      <4>2. BBoxVerdict(r) = "warn"
        BY <3>2 DEF BBoxVerdict
      <4> HIDE DEF outside, inside
      <4> QED
        BY <4>1, <4>2
    <3> QED
      BY <3>1, <3>2
  <2> HIDE DEF outside, inside
  <2>3. \A r \in S : {[key |-> f[1], sample |-> f[2]] : f \in Flags("bbox", r)} =
            IF BBoxVerdict(r) = "none" THEN {}
            ELSE {[key |-> <<r.station, BBoxVerdict(r)>>, sample |-> r.station]}
    <3> TAKE r \in S
    <3>1. CASE BBoxVerdict(r) = "none"
      BY <1>5, <3>1
    <3>2. CASE BBoxVerdict(r) # "none"
      <4> DEFINE f == <<<<r.station, BBoxVerdict(r)>>, r.station>>
      <4>1. Flags("bbox", r) = {f}
        BY <1>5, <3>2
      <4>2. f[1] = <<r.station, BBoxVerdict(r)>> /\ f[2] = r.station
        OBVIOUS
      <4> HIDE DEF f
      <4> QED
        BY <3>2, <4>1, <4>2
    <3> QED
      BY <3>1, <3>2
  <2>4. \A r \in S \ (inside \ outside) : Found(<<r.station, level(r)>>, {r.station})
            = {[key |-> <<r.station, BBoxVerdict(r)>>, sample |-> r.station]}
    BY <2>2 DEF Found
  <2> QED
    <3> DEFINE flagged == S \ (inside \ outside)
               found == [r \in flagged |-> Found(<<r.station, level(r)>>, {r.station})]
    <3>1. \A r \in flagged : found[r] = {[key |-> f[1], sample |-> f[2]] : f \in Flags("bbox", r)}
      BY <2>2, <2>3, <2>4
    <3>2. \A r \in S \ flagged : Flags("bbox", r) = {}
      BY <1>5, <2>2
    <3>3. ToFind("bbox", case.table, case.period) = UNION {found[r] : r \in flagged}
      BY <2>1
    <3>4. flagged \subseteq S
      OBVIOUS
    <3> HIDE DEF flagged, found, S
    <3> QED
      BY <3>1, <3>2, <3>3, <3>4, FoundByRow
<1> QED
  BY <1>4, <1>6, <1>7, <1>8, OrderFits DEF q

(* Equal quadruples agree at each place.                                    *)
LEMMA Quadruple ==
    ASSUME NEW a, NEW b, NEW c, NEW d, NEW e, NEW f, NEW g, NEW h,
           <<a, b, c, d>> = <<e, f, g, h>>
    PROVE  a = e /\ b = f /\ c = g /\ d = h
  OBVIOUS

(* cross-period: a pair of periods of a station's month is flagged under     *)
(* each variable that jumps.                                               *)
LEMMA JumpFits ==
    ASSUME NEW case \in Cases["cross-period"], "cross-period" \in DOMAIN Cases
    PROVE  QueryFits("cross-period", case)
<1> DEFINE T == case.table
           S == SelfJoin(T)
           key == [x \in S |-> JoinKey(x)]
           q == QueryOf("cross-period", case)
           Sample(x) == <<x[1].month, x[1].period, x[2].period>>
<1>1. /\ IsFiniteSet(T)
      /\ \A r \in T : /\ r.station \in Int /\ r.month \in Int /\ r.period \in Int
                      /\ \A v \in Variables : Optional(r.values[v])
      /\ \A r, s \in T : /\ r.station = s.station /\ r.month = s.month /\ r.period = s.period
                         => r = s
  BY Tables
<1>2. /\ S \subseteq T \X T
      /\ \A x \in S : /\ x = <<x[1], x[2]>> /\ x[1] \in T /\ x[2] \in T
                      /\ x[1].station = x[2].station /\ x[1].month = x[2].month
                      /\ x[1].period < x[2].period
  BY DEF SelfJoin
<1>3. IsFiniteSet(S)
  <2>1. IsFiniteSet(T \X T)
    BY <1>1, FS_Product
  <2> HIDE DEF S, T
  <2> QED
    BY <1>2, <2>1, FS_Subset
<1>4. q = [i \in 1 .. Cardinality(S) |->
              CHOOSE x \in S : Cardinality({r \in S : Before(key[r], key[x])}) = i - 1]
  <2> DEFINE Next1(i) == CHOOSE x \in S :
                 Cardinality({r \in S : Before(JoinKey(r), JoinKey(x))}) = i - 1
             Next2(i) == CHOOSE x \in S :
                 Cardinality({r \in S : Before(key[r], key[x])}) = i - 1
  <2>1. q = [i \in 1 .. Cardinality(S) |-> Next1(i)]
    BY DEF QueryOf, Query, OrderBy
  <2>2. \A x \in S : {r \in S : Before(JoinKey(r), JoinKey(x))}
                     = {r \in S : Before(key[r], key[x])}
    <3> HIDE DEF S
    <3> QED
      OBVIOUS
  <2>3. \A i \in 1 .. Cardinality(S) : Next1(i) = Next2(i)
    <3> HIDE DEF key, q, S
    <3> QED
      BY <2>2
  <2>4. q = [i \in 1 .. Cardinality(S) |-> Next2(i)]
    <3> HIDE DEF Next1, Next2, q, S
    <3> QED
      BY <2>1, <2>3
  <2> QED
    BY <2>4
<1> HIDE DEF S, q, T
<1>5. \A x \in S : /\ key[x] = <<x[1].station, x[1].month, x[1].period, x[2].period>>
                   /\ x[1].station \in Int /\ x[1].month \in Int
                   /\ x[1].period \in Int /\ x[2].period \in Int
                   /\ key[x] \in [1 .. 4 -> Int] /\ Sample(x) \in [1 .. 3 -> Int]
  <2> TAKE x \in S
  <2>1. key[x] = <<x[1].station, x[1].month, x[1].period, x[2].period>>
    BY DEF JoinKey
  <2>2. /\ x[1].station \in Int /\ x[1].month \in Int
        /\ x[1].period \in Int /\ x[2].period \in Int
    BY <1>1, <1>2
  <2> HIDE DEF key
  <2> QED
    BY <2>1, <2>2
<1>6. ASSUME NEW x \in S, NEW y \in S, x[1].station = y[1].station, Sample(x) = Sample(y)
      PROVE  x = y
  <2>1. x[1].month = y[1].month /\ x[1].period = y[1].period /\ x[2].period = y[2].period
    BY <1>6
  <2>2. x[1] = y[1] /\ x[2] = y[2]
    BY <1>1, <1>2, <1>6, <2>1
  <2> QED
    BY <1>2, <2>2
<1>7. \A x, y \in S : key[x] = key[y] => x = y
  <2> SUFFICES ASSUME NEW x \in S, NEW y \in S, key[x] = key[y] PROVE x = y
    OBVIOUS
  <2>0. key[x] = key[y]
    OBVIOUS
  <2>1. x[1].station = y[1].station /\ Sample(x) = Sample(y)
    <3>1. key[x] = <<x[1].station, x[1].month, x[1].period, x[2].period>>
      BY <1>5
    <3>2. key[y] = <<y[1].station, y[1].month, y[1].period, y[2].period>>
      BY <1>5
    <3> HIDE DEF key
    <3>4. <<x[1].station, x[1].month, x[1].period, x[2].period>>
            = <<y[1].station, y[1].month, y[1].period, y[2].period>>
      BY <2>0, <3>1, <3>2
    <3>3. /\ x[1].station = y[1].station /\ x[1].month = y[1].month
          /\ x[1].period = y[1].period /\ x[2].period = y[2].period
      BY ONLY <3>4, Quadruple
    <3> QED
      BY <3>3
  <2> QED
    BY <1>6, <2>1
<1> HIDE DEF key
<1>8. StrictOrder(ByKey(key, S), S) /\ InRank(q, ByKey(key, S), S)
  <2>1. \A x \in S : key[x] \in [1 .. 4 -> Int]
    BY <1>5
  <2> QED
    BY <1>3, <1>4, <1>7, <2>1, OrderedBy
<1>9. \A x \in S : Flags("cross-period", x) =
          {<<<<x[1].station, v>>, Sample(x)>> : v \in {w \in Variables : Jumps(x, w)}}
  BY DEF Flags
<1> HIDE DEF Sample
<1>10. \A x \in S : \A f \in Flags("cross-period", x) :
          f[1][1] = x[1].station /\ f = <<<<x[1].station, f[1][2]>>, Sample(x)>>
  BY <1>9
<1>11. \A x \in S : \A f, g \in Flags("cross-period", x) : f[1] = g[1] => f = g
  BY <1>10
<1>12. \A x, y \in S :
           \A f \in Flags("cross-period", x), g \in Flags("cross-period", y) : f[1] = g[1] =>
               /\ f[2] = g[2] => x = y
               /\ Before(SampleOrder("cross-period", case, f[2]),
                         SampleOrder("cross-period", case, g[2]))
                    <=> Before(key[x], key[y])
  <2> TAKE x, y \in S
  <2> SUFFICES ASSUME NEW f \in Flags("cross-period", x), NEW g \in Flags("cross-period", y),
                      f[1] = g[1]
               PROVE  /\ f[2] = g[2] => x = y
                      /\ Before(SampleOrder("cross-period", case, f[2]),
                                SampleOrder("cross-period", case, g[2]))
                           <=> Before(key[x], key[y])
    OBVIOUS
  <2>1. f[2] = Sample(x) /\ g[2] = Sample(y) /\ x[1].station = y[1].station
    BY <1>10
  <2>2. /\ SampleOrder("cross-period", case, f[2]) = Sample(x)
        /\ SampleOrder("cross-period", case, g[2]) = Sample(y)
    BY <2>1 DEF SampleOrder
  <2>3. Before(key[x], key[y]) <=> Before(Sample(x), Sample(y))
    <3> DEFINE k == key[x]  l == key[y]  s == Sample(x)  t == Sample(y)
    <3>1. /\ k \in [1 .. 4 -> Int] /\ l \in [1 .. 4 -> Int]
          /\ s \in [1 .. 4 - 1 -> Int] /\ t \in [1 .. 4 - 1 -> Int]
      BY <1>5
    <3>2. \A i \in 1 .. 1 : k[i] = l[i]
      BY <1>5, <2>1
    <3>3. \A i \in 1 .. 4 - 1 : s[i] = k[i + 1] /\ t[i] = l[i + 1]
      BY <1>5 DEF Sample
    <3>4. 4 \in Nat /\ 1 \in 0 .. 4
      OBVIOUS
    <3> HIDE DEF k, l, s, t
    <3>5. Before(k, l) <=> Before(s, t)
      BY ZenonT(60), <3>1, <3>2, <3>3, <3>4, BeforeShared
    <3> QED
      BY <3>5 DEF k, l, s, t
  <2> QED
    BY <1>6, <2>1, <2>2, <2>3
<1>13. ToFind("cross-period", case.table, case.period)
         = {[key |-> f[1], sample |-> f[2]] : f \in UNION {Flags("cross-period", x) : x \in S}}
  <2> DEFINE Jumped(r, s, v) ==
                 /\ s.station = r.station /\ s.month = r.month /\ s.period > r.period
                 /\ Given(r.values[v]) /\ Given(s.values[v])
                 /\ \/ r.values[v][1] - s.values[v][1] > 30
                    \/ s.values[v][1] - r.values[v][1] > 30
             OneOf(r, s, v) ==
                 [key |-> <<r.station, v>>, sample |-> <<r.month, r.period, s.period>>]
             Group(r, v) == Found(<<r.station, v>>, {<<r.month, r.period, s.period>> :
                                                      s \in {o \in T : Jumped(r, o, v)}})
             V == {"tmax", "tmin", "tmean"}
  <2>1. ToFind("cross-period", case.table, case.period)
          = UNION {Group(r, v) : r \in T, v \in V}
    BY DEF ToFind, JumpFound, T
  <2>2. \A z : z \in ToFind("cross-period", case.table, case.period) <=>
            \E r, s \in T : \E v \in Variables : Jumped(r, s, v) /\ z = OneOf(r, s, v)
    <3> HIDE DEF Jumped
    <3>1. \A r, v, z : z \in Group(r, v) <=> \E s \in T : Jumped(r, s, v) /\ z = OneOf(r, s, v)
      BY DEF Found
    <3>2. V = Variables
      BY DEF Variables
    <3> HIDE DEF Group, OneOf, V
    <3>3. \A z : z \in UNION {Group(r, v) : r \in T, v \in V}
                  <=> \E r \in T, v \in V : z \in Group(r, v)
      OBVIOUS
    <3>4. ASSUME NEW z
          PROVE  (\E r \in T, v \in V : z \in Group(r, v)) <=>
                   \E r, s \in T : \E v \in Variables : Jumped(r, s, v) /\ z = OneOf(r, s, v)
      BY <3>1, <3>2
    <3> DEFINE found == ToFind("cross-period", case.table, case.period)
               union == UNION {Group(r, v) : r \in T, v \in V}
               InGroup(z) == \E r \in T, v \in V : z \in Group(r, v)
    <3>5. found = union /\ \A z : z \in union <=> InGroup(z)
      BY <2>1, <3>3
    <3> HIDE DEF found, union
    <3>6. \A z : z \in found <=> InGroup(z)
      BY <3>5
    <3> QED
      BY <3>4, <3>6 DEF found
  <2> HIDE DEF Group, V
  <2>3. ASSUME NEW r \in T, NEW s \in T, NEW v \in Variables
        PROVE  Jumped(r, s, v) <=> <<r, s>> \in S /\ Jumps(<<r, s>>, v)
    <3>1. <<r, s>> \in S <=> /\ s.station = r.station /\ s.month = r.month
                             /\ s.period > r.period
      BY <1>1 DEF S, SelfJoin
    <3>2. CASE Given(r.values[v]) /\ Given(s.values[v])
      <4> DEFINE a == r.values[v][1]  b == s.values[v][1]
      <4>1. a \in Int /\ b \in Int
        BY <1>1, <3>2, OptionalGiven
      <4>2. Jumps(<<r, s>>, v) <=> Abs(a - b) > 30
        BY <3>2 DEF Jumps, crossPeriodMaxDeltaC
      <4>3. Jumped(r, s, v) <=> /\ s.station = r.station /\ s.month = r.month
                                /\ s.period > r.period
                                /\ (a - b > 30 \/ b - a > 30)
        BY <3>2
      <4> HIDE DEF a, b, Jumped
      <4>4. Abs(a - b) > 30 <=> (a - b > 30 \/ b - a > 30)
        BY <4>1 DEF Abs
      <4> QED
        BY <3>1, <4>2, <4>3, <4>4
    <3>3. CASE ~(Given(r.values[v]) /\ Given(s.values[v]))
      BY <3>3 DEF Jumps
    <3> QED
      BY <3>2, <3>3
  <2> HIDE DEF Jumped
  <2>4. ASSUME NEW z
        PROVE  z \in {[key |-> f[1], sample |-> f[2]] :
                         f \in UNION {Flags("cross-period", x) : x \in S}}
                 <=> \E x \in S : \E v \in Variables :
                        Jumps(x, v) /\ z = OneOf(x[1], x[2], v)
    <3>1. z \in {[key |-> f[1], sample |-> f[2]] :
                         f \in UNION {Flags("cross-period", x) : x \in S}}
            <=> \E x \in S : \E f \in Flags("cross-period", x) :
                    z = [key |-> f[1], sample |-> f[2]]
      OBVIOUS
    <3>2. \A x \in S :
              (\E f \in Flags("cross-period", x) : z = [key |-> f[1], sample |-> f[2]])
                <=> \E v \in Variables : Jumps(x, v) /\ z = OneOf(x[1], x[2], v)
      <4> TAKE x \in S
      <4>1. \A v : LET f == <<<<x[1].station, v>>, Sample(x)>> IN
                   [key |-> f[1], sample |-> f[2]] = OneOf(x[1], x[2], v)
        BY DEF Sample
      <4> HIDE DEF OneOf
      <4> QED
        BY ZenonT(60), <1>9, <4>1
    <3> QED
      BY <3>1, <3>2
  <2>5. ASSUME NEW z
        PROVE  (\E r, s \in T : \E v \in Variables : Jumped(r, s, v) /\ z = OneOf(r, s, v))
                 <=> \E x \in S : \E v \in Variables : Jumps(x, v) /\ z = OneOf(x[1], x[2], v)
    <3> HIDE DEF OneOf
    <3>1. ASSUME NEW r \in T, NEW s \in T, NEW v \in Variables,
                 Jumped(r, s, v), z = OneOf(r, s, v)
          PROVE  \E x \in S : \E w \in Variables : Jumps(x, w) /\ z = OneOf(x[1], x[2], w)
      <4> DEFINE x == <<r, s>>
      <4>1. x \in S /\ Jumps(x, v) /\ x[1] = r /\ x[2] = s
        BY <2>3, <3>1
      <4> HIDE DEF x
      <4> QED
        BY <3>1, <4>1
    <3>2. ASSUME NEW x \in S, NEW v \in Variables, Jumps(x, v), z = OneOf(x[1], x[2], v)
          PROVE  \E r, s \in T : \E w \in Variables : Jumped(r, s, w) /\ z = OneOf(r, s, w)
      <4>1. x[1] \in T /\ x[2] \in T /\ <<x[1], x[2]>> \in S /\ Jumps(<<x[1], x[2]>>, v)
        BY <1>2, <3>2
      <4>2. Jumped(x[1], x[2], v)
        BY <2>3, <4>1
      <4> QED
        BY <3>2, <4>1, <4>2
    <3> QED
      BY <3>1, <3>2
  <2>6. \A z : z \in ToFind("cross-period", case.table, case.period) <=>
               z \in {[key |-> f[1], sample |-> f[2]] :
                         f \in UNION {Flags("cross-period", x) : x \in S}}
    BY <2>2, <2>4, <2>5
  <2> QED
    BY <2>6
<1> QED
  BY <1>8, <1>11, <1>12, <1>13, OrderFits DEF q

(* Equal quintuples agree at each place.                                    *)
LEMMA Quintuple ==
    ASSUME NEW a, NEW b, NEW c, NEW d, NEW e, NEW f, NEW g, NEW h, NEW i, NEW j,
           <<a, b, c, d, e>> = <<f, g, h, i, j>>
    PROVE  a = f /\ b = g /\ c = h /\ d = i /\ e = j
  OBVIOUS

(* daily-sanity: a day of a station is flagged once, with itself.            *)
LEMMA WideFits ==
    ASSUME NEW case \in Cases["diurnal"], "diurnal" \in DOMAIN Cases
    PROVE  QueryFits("diurnal", case)
<1> DEFINE T == case.table
           P == case.period
           S == Wide(T, P)
           key == [x \in S |-> WideKey(x)]
           q == QueryOf("diurnal", case)
           Rank(x) == <<-Span(x), x.year, x.month, x.day>>
<1>1. /\ IsFiniteSet(T)
      /\ \A r \in T : /\ r.station \in Int /\ r.year \in Int /\ r.month \in Int /\ r.day \in Int
                      /\ Optional(r.tmax) /\ Optional(r.tmin)
      /\ \A r, s \in T : /\ r.station = s.station /\ r.year = s.year
                         /\ r.month = s.month /\ r.day = s.day
                         => r = s
  BY Tables
<1>2. S \subseteq T /\ \A x \in S : Given(x.tmax) /\ Given(x.tmin)
  BY DEF Wide
<1>3. IsFiniteSet(S)
  <2> HIDE DEF S, T
  <2> QED
    BY <1>1, <1>2, FS_Subset
<1>4. q = [i \in 1 .. Cardinality(S) |->
              CHOOSE x \in S : Cardinality({r \in S : Before(key[r], key[x])}) = i - 1]
  <2> DEFINE Next1(i) == CHOOSE x \in S :
                 Cardinality({r \in S : Before(WideKey(r), WideKey(x))}) = i - 1
             Next2(i) == CHOOSE x \in S :
                 Cardinality({r \in S : Before(key[r], key[x])}) = i - 1
  <2>1. q = [i \in 1 .. Cardinality(S) |-> Next1(i)]
    BY DEF QueryOf, Query, OrderBy
  <2>2. \A x \in S : {r \in S : Before(WideKey(r), WideKey(x))}
                     = {r \in S : Before(key[r], key[x])}
    <3> HIDE DEF S
    <3> QED
      OBVIOUS
  <2>3. \A i \in 1 .. Cardinality(S) : Next1(i) = Next2(i)
    <3> HIDE DEF key, q, S
    <3> QED
      BY <2>2
  <2>4. q = [i \in 1 .. Cardinality(S) |-> Next2(i)]
    <3> HIDE DEF Next1, Next2, q, S
    <3> QED
      BY <2>1, <2>3
  <2> QED
    BY <2>4
<1>5. \A x \in S : /\ key[x] = <<x.station, -Span(x), x.year, x.month, x.day>>
                   /\ key[x] \in [1 .. 5 -> Int] /\ Rank(x) \in [1 .. 4 -> Int]
  <2> TAKE x \in S
  <2>1. key[x] = <<x.station, -Span(x), x.year, x.month, x.day>>
    BY DEF WideKey
  <2>2. x.station \in Int /\ x.year \in Int /\ x.month \in Int /\ x.day \in Int
    BY <1>1, <1>2
  <2>3. x.tmax[1] \in Int /\ x.tmin[1] \in Int
    BY <1>1, <1>2, OptionalGiven
  <2>4. -Span(x) \in Int
    BY <2>3 DEF Span
  <2> HIDE DEF key, S
  <2> QED
    BY <2>1, <2>2, <2>4
<1> HIDE DEF S, q, T, key
<1>6. \A x, y \in S : key[x] = key[y] => x = y
  <2> SUFFICES ASSUME NEW x \in S, NEW y \in S, key[x] = key[y] PROVE x = y
    OBVIOUS
  <2>1. <<x.station, -Span(x), x.year, x.month, x.day>>
          = <<y.station, -Span(y), y.year, y.month, y.day>>
    BY <1>5
  <2>2. x.station = y.station /\ x.year = y.year /\ x.month = y.month /\ x.day = y.day
    BY ONLY <2>1, Quintuple
  <2> QED
    BY <1>1, <1>2, <2>2
<1>7. StrictOrder(ByKey(key, S), S) /\ InRank(q, ByKey(key, S), S)
  <2>1. \A x \in S : key[x] \in [1 .. 5 -> Int]
    BY <1>5
  <2> QED
    BY <1>3, <1>4, <1>6, <2>1, OrderedBy
<1>8. \A x \in S : Flags("diurnal", x) = {<<<<x.station>>, x>>}
  BY DEF Flags
<1>9. \A x \in S : \A f \in Flags("diurnal", x) : f[1] = <<x.station>> /\ f[2] = x
  BY <1>8
<1>10. \A x \in S : \A f, g \in Flags("diurnal", x) : f[1] = g[1] => f = g
  BY <1>8
<1> HIDE DEF Rank
<1>11. \A x, y \in S :
           \A f \in Flags("diurnal", x), g \in Flags("diurnal", y) : f[1] = g[1] =>
               /\ f[2] = g[2] => x = y
               /\ Before(SampleOrder("diurnal", case, f[2]),
                         SampleOrder("diurnal", case, g[2]))
                    <=> Before(key[x], key[y])
  <2> SUFFICES ASSUME NEW x \in S, NEW y \in S,
                      NEW f \in Flags("diurnal", x), NEW g \in Flags("diurnal", y),
                      f[1] = g[1]
               PROVE  /\ f[2] = g[2] => x = y
                      /\ Before(SampleOrder("diurnal", case, f[2]),
                                SampleOrder("diurnal", case, g[2]))
                           <=> Before(key[x], key[y])
    BY Zenon
  <2>1. f[2] = x /\ g[2] = y /\ x.station = y.station
    BY <1>9
  <2>2. /\ SampleOrder("diurnal", case, f[2]) = Rank(x)
        /\ SampleOrder("diurnal", case, g[2]) = Rank(y)
    BY <2>1 DEF SampleOrder, Rank
  <2>3. Before(key[x], key[y]) <=> Before(Rank(x), Rank(y))
    <3> DEFINE k == key[x]  l == key[y]  s == Rank(x)  t == Rank(y)
    <3>1. /\ k \in [1 .. 5 -> Int] /\ l \in [1 .. 5 -> Int]
          /\ s \in [1 .. 5 - 1 -> Int] /\ t \in [1 .. 5 - 1 -> Int]
      BY <1>5
    <3>2. \A i \in 1 .. 1 : k[i] = l[i]
      BY <1>5, <2>1
    <3>3. \A i \in 1 .. 5 - 1 : s[i] = k[i + 1] /\ t[i] = l[i + 1]
      BY <1>5 DEF Rank
    <3>4. 5 \in Nat /\ 1 \in 0 .. 5
      OBVIOUS
    <3> HIDE DEF k, l, s, t
    <3>5. Before(k, l) <=> Before(s, t)
      BY ZenonT(60), <3>1, <3>2, <3>3, <3>4, BeforeShared
    <3> QED
      BY <3>5 DEF k, l, s, t
  <2> QED
    BY <2>1, <2>2, <2>3
<1>12. ToFind("diurnal", case.table, case.period)
         = {[key |-> f[1], sample |-> f[2]] : f \in UNION {Flags("diurnal", x) : x \in S}}
  <2> DEFINE found == [x \in S |-> Found(<<x.station>>, {x})]
             rows == {r \in InPeriod(T, P) : Given(r.tmin) /\ r.tmax[1] - r.tmin[1] > 250}
  <2>1. ToFind("diurnal", case.table, case.period)
          = UNION {Found(<<r.station>>, {r}) : r \in rows}
    BY DEF ToFind, T
  <2>2. rows = S
    BY DEF S, Wide, InPeriod, Span, diurnalRangeThreshold
  <2>3. \A x \in S : found[x] = {[key |-> f[1], sample |-> f[2]] : f \in Flags("diurnal", x)}
    <3> TAKE x \in S
    <3>1. found[x] = {[key |-> <<x.station>>, sample |-> x]}
      BY DEF Found
    <3> DEFINE f == <<<<x.station>>, x>>
    <3>2. Flags("diurnal", x) = {f} /\ f[1] = <<x.station>> /\ f[2] = x
      BY <1>8
    <3> HIDE DEF f, found
    <3> QED
      BY <3>1, <3>2
  <2>4. ToFind("diurnal", case.table, case.period) = UNION {found[x] : x \in S}
    <3> HIDE DEF rows
    <3> QED
      BY <2>1, <2>2
  <2>5. S \subseteq S /\ \A x \in S \ S : Flags("diurnal", x) = {}
    OBVIOUS
  <2> HIDE DEF found
  <2> QED
    BY <2>3, <2>4, <2>5, FoundByRow
<1> QED
  BY <1>7, <1>10, <1>11, <1>12, OrderFits DEF q

(* The z-score's query has the days that are far out, and their deviations    *)
(* are numbers.                                                            *)
LEMMA OutliersAre ==
    ASSUME NEW case \in Cases["z-score"], "z-score" \in DOMAIN Cases,
           NEW row \in InPeriod(case.table, case.period)
    PROVE  /\ Deviation(MonthRows(case.table, case.period, row), row) \in Int
           /\ row \in Outliers(case.table, case.period)
                <=> FarOut(case.table, case.period, row)
<1> DEFINE T == case.table
           P == case.period
           rows == MonthRows(T, P, row)
           n == Cardinality(rows)
           sum == SumOf(rows, LAMBDA r : r.tmax[1])
           offs == SumOf(rows, LAMBDA r : SquaredOff(n, sum, r))
<1>1. /\ IsFiniteSet(T)
      /\ \A r \in T : Optional(r.tmax)
  BY Tables
<1>2. rows \subseteq T /\ \A r \in rows : Given(r.tmax)
  BY DEF MonthRows
<1>3. row \in rows
  BY DEF MonthRows, InPeriod
<1>4. IsFiniteSet(rows) /\ \A r \in rows : r.tmax[1] \in Int
  <2> HIDE DEF rows, T
  <2> QED
    BY <1>1, <1>2, FS_Subset, OptionalGiven
<1>5. Deviation(rows, row) \in Int
  <2> HIDE DEF rows
  <2> QED
    BY <1>3, <1>4, DeviationsAddUp
<1>6. (/\ Spread(rows) > 0
       /\ Deviation(rows, row) * Deviation(rows, row) > 9 * Spread(rows))
        <=> n * SquaredOff(n, sum, row) > 9 * offs
  <2> HIDE DEF rows
  <2> QED
    BY <1>3, <1>4, OutlierIsFarOut
<1>7. FarOut(T, P, row) <=> (n >= MinReadings /\ n * SquaredOff(n, sum, row) > 9 * offs)
  BY DEF FarOut, SquaredOff
<1>8. row \in Outliers(T, P) <=>
          /\ n >= MinReadings /\ Spread(rows) > 0
          /\ Deviation(rows, row) * Deviation(rows, row) > 9 * Spread(rows)
  <2>1. row \in T /\ Within(P, row) /\ Given(row.tmax)
    BY DEF InPeriod
  <2>2. zSigma * zSigma * Spread(rows) = 9 * Spread(rows)
    BY DEF zSigma
  <2> QED
    BY <2>1, <2>2 DEF Outliers
<1> HIDE DEF rows, n, sum, offs, T, P
<1>9. row \in Outliers(T, P) <=> FarOut(T, P, row)
  BY <1>6, <1>7, <1>8
<1> QED
  BY <1>5, <1>9 DEF rows, T, P

(* daily-sanity: a day far out is flagged once, with itself.                 *)
LEMMA OutliersFit ==
    ASSUME NEW case \in Cases["z-score"], "z-score" \in DOMAIN Cases
    PROVE  QueryFits("z-score", case)
<1> DEFINE T == case.table
           P == case.period
           S == Outliers(T, P)
           key == [x \in S |-> OutlierKey(T, P, x)]
           q == QueryOf("z-score", case)
           Far(x) == -Abs(Deviation(MonthRows(T, P, x), x))
           Rank(x) == <<Far(x), x.year, x.day>>
<1>1. /\ IsFiniteSet(T)
      /\ \A r \in T : /\ r.station \in Int /\ r.year \in Int /\ r.month \in Int /\ r.day \in Int
                      /\ Optional(r.tmax) /\ Optional(r.tmin)
      /\ \A r, s \in T : /\ r.station = s.station /\ r.year = s.year
                         /\ r.month = s.month /\ r.day = s.day
                         => r = s
  BY Tables
<1>2. S \subseteq T /\ S \subseteq InPeriod(T, P)
  BY DEF Outliers, InPeriod
<1>3. IsFiniteSet(S)
  <2> HIDE DEF S, T
  <2> QED
    BY <1>1, <1>2, FS_Subset
<1>4. q = [i \in 1 .. Cardinality(S) |->
              CHOOSE x \in S : Cardinality({r \in S : Before(key[r], key[x])}) = i - 1]
  <2> DEFINE Next1(i) == CHOOSE x \in S :
                 Cardinality({r \in S : Before(OutlierKey(T, P, r), OutlierKey(T, P, x))}) = i - 1
             Next2(i) == CHOOSE x \in S :
                 Cardinality({r \in S : Before(key[r], key[x])}) = i - 1
  <2>1. q = [i \in 1 .. Cardinality(S) |-> Next1(i)]
    BY DEF QueryOf, Query, OrderBy
  <2>2. \A x \in S : {r \in S : Before(OutlierKey(T, P, r), OutlierKey(T, P, x))}
                     = {r \in S : Before(key[r], key[x])}
    <3> HIDE DEF S
    <3> QED
      OBVIOUS
  <2>3. \A i \in 1 .. Cardinality(S) : Next1(i) = Next2(i)
    <3> HIDE DEF key, q, S
    <3> QED
      BY <2>2
  <2>4. q = [i \in 1 .. Cardinality(S) |-> Next2(i)]
    <3> HIDE DEF Next1, Next2, q, S
    <3> QED
      BY <2>1, <2>3
  <2> QED
    BY <2>4
<1>5. \A x \in S : /\ key[x] = <<x.station, x.month, Far(x), x.year, x.day>>
                   /\ key[x] \in [1 .. 5 -> Int] /\ Rank(x) \in [1 .. 3 -> Int]
  <2> TAKE x \in S
  <2>1. key[x] = <<x.station, x.month, Far(x), x.year, x.day>>
    BY DEF OutlierKey
  <2>2. x.station \in Int /\ x.year \in Int /\ x.month \in Int /\ x.day \in Int
    BY <1>1, <1>2
  <2>3. Deviation(MonthRows(T, P, x), x) \in Int
    BY <1>2, OutliersAre
  <2>4. Far(x) \in Int
    <3> DEFINE d == Deviation(MonthRows(T, P, x), x)
    <3> HIDE DEF d
    <3>1. -Abs(d) \in Int
      BY <2>3 DEF Abs, d
    <3> QED
      BY <3>1 DEF d
  <2> HIDE DEF key, S, Far
  <2> QED
    BY <2>1, <2>2, <2>4
<1> HIDE DEF S, q, T, P, key, Far
<1>6. \A x, y \in S : key[x] = key[y] => x = y
  <2> SUFFICES ASSUME NEW x \in S, NEW y \in S, key[x] = key[y] PROVE x = y
    OBVIOUS
  <2>1. <<x.station, x.month, Far(x), x.year, x.day>>
          = <<y.station, y.month, Far(y), y.year, y.day>>
    BY <1>5
  <2>2. x.station = y.station /\ x.year = y.year /\ x.month = y.month /\ x.day = y.day
    BY ONLY <2>1, Quintuple
  <2> QED
    BY <1>1, <1>2, <2>2
<1>7. StrictOrder(ByKey(key, S), S) /\ InRank(q, ByKey(key, S), S)
  <2>1. \A x \in S : key[x] \in [1 .. 5 -> Int]
    BY <1>5
  <2> QED
    BY <1>3, <1>4, <1>6, <2>1, OrderedBy
<1>8. \A x \in S : Flags("z-score", x) = {<<<<x.station, x.month>>, x>>}
  BY DEF Flags
<1>9. \A x \in S : \A f \in Flags("z-score", x) : f[1] = <<x.station, x.month>> /\ f[2] = x
  BY <1>8
<1>10. \A x \in S : \A f, g \in Flags("z-score", x) : f[1] = g[1] => f = g
  BY <1>8
<1> HIDE DEF Rank
<1>11. \A x, y \in S :
           \A f \in Flags("z-score", x), g \in Flags("z-score", y) : f[1] = g[1] =>
               /\ f[2] = g[2] => x = y
               /\ Before(SampleOrder("z-score", case, f[2]),
                         SampleOrder("z-score", case, g[2]))
                    <=> Before(key[x], key[y])
  <2> SUFFICES ASSUME NEW x \in S, NEW y \in S,
                      NEW f \in Flags("z-score", x), NEW g \in Flags("z-score", y),
                      f[1] = g[1]
               PROVE  /\ f[2] = g[2] => x = y
                      /\ Before(SampleOrder("z-score", case, f[2]),
                                SampleOrder("z-score", case, g[2]))
                           <=> Before(key[x], key[y])
    BY Zenon
  <2>1. f[2] = x /\ g[2] = y /\ x.station = y.station /\ x.month = y.month
    BY <1>9
  <2>2. /\ SampleOrder("z-score", case, f[2]) = Rank(x)
        /\ SampleOrder("z-score", case, g[2]) = Rank(y)
    BY <2>1 DEF SampleOrder, Rank, Far, T, P
  <2>3. Before(key[x], key[y]) <=> Before(Rank(x), Rank(y))
    <3> DEFINE k == key[x]  l == key[y]  s == Rank(x)  t == Rank(y)  m == 5  d == 2
    <3>1. k \in [1 .. m -> Int] /\ l \in [1 .. m -> Int]
      BY <1>5
    <3>2. s \in [1 .. m - d -> Int] /\ t \in [1 .. m - d -> Int]
      BY <1>5
    <3>3. \A i \in 1 .. d : k[i] = l[i]
      BY <1>5, <2>1
    <3>4. \A i \in 1 .. m - d : s[i] = k[i + d] /\ t[i] = l[i + d]
      BY <1>5 DEF Rank
    <3>6. m \in Nat /\ d \in 0 .. m
      OBVIOUS
    <3> HIDE DEF k, l, s, t, m, d
    <3>5. Before(k, l) <=> Before(s, t)
      BY ZenonT(60), <3>1, <3>2, <3>3, <3>4, <3>6, BeforeShared
    <3> QED
      BY <3>5 DEF k, l, s, t
  <2> QED
    BY <2>1, <2>2, <2>3
<1>12. ToFind("z-score", case.table, case.period)
         = {[key |-> f[1], sample |-> f[2]] : f \in UNION {Flags("z-score", x) : x \in S}}
  <2> DEFINE found == [x \in S |-> Found(<<x.station, x.month>>, {x})]
             rows == {r \in InPeriod(T, P) : FarOut(T, P, r)}
  <2>1. ToFind("z-score", case.table, case.period)
          = UNION {Found(<<r.station, r.month>>, {r}) : r \in rows}
    BY DEF ToFind, T, P
  <2>2. rows = S
    BY <1>2, OutliersAre DEF S, T, P
  <2>3. \A x \in S : found[x] = {[key |-> f[1], sample |-> f[2]] : f \in Flags("z-score", x)}
    <3> TAKE x \in S
    <3>1. found[x] = {[key |-> <<x.station, x.month>>, sample |-> x]}
      BY DEF Found
    <3> DEFINE f == <<<<x.station, x.month>>, x>>
    <3>2. Flags("z-score", x) = {f} /\ f[1] = <<x.station, x.month>> /\ f[2] = x
      BY <1>8
    <3> HIDE DEF f, found
    <3> QED
      BY <3>1, <3>2
  <2>4. ToFind("z-score", case.table, case.period) = UNION {found[x] : x \in S}
    <3> HIDE DEF rows
    <3> QED
      BY <2>1, <2>2
  <2>5. S \subseteq S /\ \A x \in S \ S : Flags("z-score", x) = {}
    OBVIOUS
  <2> HIDE DEF found
  <2> QED
    BY <2>3, <2>4, <2>5, FoundByRow
<1> QED
  BY <1>7, <1>10, <1>11, <1>12, OrderFits DEF q

(* fill-leak and wind-range: a row is flagged under each of its columns whose *)
(* value is off.                                                           *)
LEMMA ColumnsFit ==
    ASSUME NEW rule \in {"fill-leak", "wind-range"}, rule \in DOMAIN Cases,
           NEW case \in Cases[rule], NEW off,
           \A x \in case.table :
               /\ off[x] \subseteq DOMAIN x.values
               /\ Flags(rule, x) = {<<<<c>>, x.key>> : c \in off[x]},
           ToFind(rule, case.table, case.period)
               = UNION {Found(<<c>>, {r.key : r \in {s \in case.table : c \in off[s]}}) :
                        c \in UNION {DOMAIN r.values : r \in case.table}}
    PROVE  QueryFits(rule, case)
<1> DEFINE S == case.table
           key == [x \in S |-> <<x.key>>]
           q == QueryOf(rule, case)
<1>1. /\ IsFiniteSet(S)
      /\ \A x \in S : x.key \in Int
      /\ \A x, y \in S : x.key = y.key => x = y
  BY Tables
<1>2. q = [i \in 1 .. Cardinality(S) |->
              CHOOSE x \in S : Cardinality({r \in S : Before(key[r], key[x])}) = i - 1]
  <2> DEFINE Next1(i) == CHOOSE x \in S :
                 Cardinality({r \in S : Before(<<r.key>>, <<x.key>>)}) = i - 1
             Next2(i) == CHOOSE x \in S :
                 Cardinality({r \in S : Before(key[r], key[x])}) = i - 1
  <2>1. q = [i \in 1 .. Cardinality(S) |-> Next1(i)]
    BY DEF QueryOf, Query, OrderBy
  <2>2. \A x \in S : {r \in S : Before(<<r.key>>, <<x.key>>)}
                     = {r \in S : Before(key[r], key[x])}
    OBVIOUS
  <2>3. \A i \in 1 .. Cardinality(S) : Next1(i) = Next2(i)
    <3> HIDE DEF key, q, S
    <3> QED
      BY <2>2
  <2>4. q = [i \in 1 .. Cardinality(S) |-> Next2(i)]
    <3> HIDE DEF Next1, Next2, q, S
    <3> QED
      BY <2>1, <2>3
  <2> QED
    BY <2>4
<1>3. /\ \A x \in S : key[x] = <<x.key>> /\ key[x] \in [1 .. 1 -> Int]
      /\ \A x, y \in S : key[x] = key[y] => x = y
  BY <1>1
<1>4. StrictOrder(ByKey(key, S), S) /\ InRank(q, ByKey(key, S), S)
  <2> HIDE DEF key, q, S
  <2>1. \A x \in S : key[x] \in [1 .. 1 -> Int]
    BY <1>3
  <2> QED
    BY <1>1, <1>2, <1>3, <2>1, OrderedBy
<1>5. \A x \in S : off[x] \subseteq DOMAIN x.values
                   /\ Flags(rule, x) = {<<<<c>>, x.key>> : c \in off[x]}
  OBVIOUS
<1>6. ToFind(rule, S, case.period)
        = UNION {Found(<<c>>, {r.key : r \in {s \in S : c \in off[s]}}) :
                 c \in UNION {DOMAIN r.values : r \in S}}
  OBVIOUS
<1> HIDE DEF S, key, q
<1>7. \A x \in S : \A f \in Flags(rule, x) : f[2] = x.key /\ f = <<f[1], x.key>>
  BY <1>5
<1>8. \A x, y \in S : \A f \in Flags(rule, x), g \in Flags(rule, y) : f[1] = g[1] =>
          /\ f[2] = g[2] => x = y
          /\ Before(SampleOrder(rule, case, f[2]), SampleOrder(rule, case, g[2]))
               <=> Before(key[x], key[y])
  <2> TAKE x, y \in S
  <2> TAKE f \in Flags(rule, x), g \in Flags(rule, y)
  <2>1. f[2] = x.key /\ g[2] = y.key
    BY <1>7
  <2>2. SampleOrder(rule, case, f[2]) = key[x] /\ SampleOrder(rule, case, g[2]) = key[y]
    BY <1>3, <2>1 DEF SampleOrder
  <2> QED
    BY <1>1, <2>1, <2>2
<1>9. ToFind(rule, S, case.period)
        = {[key |-> f[1], sample |-> f[2]] : f \in UNION {Flags(rule, x) : x \in S}}
  <2> DEFINE OneOf(x, c) == [key |-> <<c>>, sample |-> x.key]
             Group(c) == Found(<<c>>, {r.key : r \in {s \in S : c \in off[s]}})
             columns == UNION {DOMAIN r.values : r \in S}
             found == ToFind(rule, S, case.period)
             flagged == {[key |-> f[1], sample |-> f[2]] :
                            f \in UNION {Flags(rule, x) : x \in S}}
  <2>1. \A c, z : z \in Group(c) <=> \E x \in S : c \in off[x] /\ z = OneOf(x, c)
    BY DEF Found
  <2>2. \A x \in S : \A c \in off[x] : c \in columns
    BY <1>5
  <2>3. found = UNION {Group(c) : c \in columns}
    BY <1>6
  <2> HIDE DEF Group, columns, found
  <2>4. \A z : z \in found <=> \E x \in S : \E c \in off[x] : z = OneOf(x, c)
    <3> HIDE DEF OneOf
    <3> QED
      BY <2>1, <2>2, <2>3
  <2>5. ASSUME NEW z
        PROVE  z \in flagged <=> \E x \in S : \E c \in off[x] : z = OneOf(x, c)
    <3>1. z \in flagged <=> \E x \in S : \E f \in Flags(rule, x) :
                                z = [key |-> f[1], sample |-> f[2]]
      OBVIOUS
    <3>2. ASSUME NEW x \in S
          PROVE  (\E f \in Flags(rule, x) : z = [key |-> f[1], sample |-> f[2]])
                   <=> \E c \in off[x] : z = OneOf(x, c)
      <4>1. \A c : LET f == <<<<c>>, x.key>> IN
                   [key |-> f[1], sample |-> f[2]] = OneOf(x, c)
        OBVIOUS
      <4> HIDE DEF OneOf
      <4> QED
        BY ZenonT(60), <1>5, <4>1
    <3> QED
      BY <3>1, <3>2
  <2>6. \A z : z \in found <=> z \in flagged
    <3> HIDE DEF OneOf, flagged
    <3> QED
      BY <2>4, <2>5
  <2> QED
    BY <2>6 DEF found
<1>10. \A x \in S : \A f, g \in Flags(rule, x) : f[1] = g[1] => f = g
  BY <1>7
<1> QED
  BY <1>4, <1>8, <1>9, <1>10, OrderFits DEF q, S

(* fill-leak: a row is flagged under each column that holds the fill.       *)
LEMMA LeaksFit ==
    ASSUME NEW case \in Cases["fill-leak"], "fill-leak" \in DOMAIN Cases
    PROVE  QueryFits("fill-leak", case)
<1> DEFINE T == case.table
           off == [x \in T |-> {c \in DOMAIN x.values : FillLeaks(x.values[c])}]
<1>1. \A x \in T : /\ off[x] \subseteq DOMAIN x.values
                   /\ Flags("fill-leak", x) = {<<<<c>>, x.key>> : c \in off[x]}
  BY DEF Flags
<1>2. ToFind("fill-leak", T, case.period)
        = UNION {Found(<<c>>, {r.key : r \in {s \in T : c \in off[s]}}) :
                 c \in UNION {DOMAIN r.values : r \in T}}
  <2> DEFINE Leaks(c) == {s \in T : /\ c \in DOMAIN s.values /\ s.values[c] # <<>>
                                    /\ s.values[c][1] = -999}
             Group1(c) == Found(<<c>>, {r.key : r \in Leaks(c)})
             Group2(c) == Found(<<c>>, {r.key : r \in {s \in T : c \in off[s]}})
             columns == UNION {DOMAIN r.values : r \in T}
  <2>1. ToFind("fill-leak", T, case.period) = UNION {Group1(c) : c \in columns}
    BY DEF ToFind, Columnwise
  <2>2. \A c : Leaks(c) = {s \in T : c \in off[s]}
    BY DEF FillLeaks, Has, Given, powerFill
  <2>3. \A c : Group1(c) = Group2(c)
    <3> HIDE DEF Leaks, off
    <3> QED
      BY <2>2
  <2> HIDE DEF Group1, Group2, columns
  <2>4. {Group1(c) : c \in columns} = {Group2(c) : c \in columns}
    BY <2>3
  <2>5. ToFind("fill-leak", T, case.period) = UNION {Group2(c) : c \in columns}
    BY <2>1, <2>4
  <2> QED
    BY <2>5 DEF Group2, columns
<1> HIDE DEF off
<1> QED
  BY <1>1, <1>2, ColumnsFit

(* wind-range: a row is flagged under a direction off the compass.          *)
LEMMA CompassFits ==
    ASSUME NEW case \in Cases["wind-range"], "wind-range" \in DOMAIN Cases
    PROVE  QueryFits("wind-range", case)
<1> DEFINE T == case.table
           off == [x \in T |-> {c \in DOMAIN x.values : Circular(c) /\ OffCompass(x.values[c])}]
<1>1. \A x \in T : /\ off[x] \subseteq DOMAIN x.values
                   /\ Flags("wind-range", x) = {<<<<c>>, x.key>> : c \in off[x]}
  BY DEF Flags
<1>2. ToFind("wind-range", T, case.period)
        = UNION {Found(<<c>>, {r.key : r \in {s \in T : c \in off[s]}}) :
                 c \in UNION {DOMAIN r.values : r \in T}}
  <2> DEFINE Leaks(c) == {s \in T : /\ c \in DOMAIN s.values /\ s.values[c] # <<>>
                                    /\ c = "wd" /\ s.values[c][1] \notin 0 .. 360}
             Group1(c) == Found(<<c>>, {r.key : r \in Leaks(c)})
             Group2(c) == Found(<<c>>, {r.key : r \in {s \in T : c \in off[s]}})
             columns == UNION {DOMAIN r.values : r \in T}
  <2>1. ToFind("wind-range", T, case.period) = UNION {Group1(c) : c \in columns}
    BY DEF ToFind, Columnwise
  <2>2. ASSUME NEW c PROVE Leaks(c) = {s \in T : c \in off[s]}
    <3> SUFFICES ASSUME NEW s \in T PROVE s \in Leaks(c) <=> c \in off[s]
      BY Zenon
    <3>1. CASE c \in DOMAIN s.values /\ s.values[c] # <<>>
      <4> DEFINE v == s.values[c][1]
      <4>1. v \in Int
        BY <3>1, Tables, OptionalGiven DEF Given
      <4>2. s \in Leaks(c) <=> c = "wd" /\ v \notin 0 .. 360
        BY <3>1
      <4>3. c \in off[s] <=> c = "wd" /\ (v < 0 \/ v > 360)
        BY <3>1 DEF OffCompass, Has, Given, Circular
      <4> HIDE DEF v, Leaks, off
      <4> QED
        BY <4>1, <4>2, <4>3
    <3>2. CASE ~(c \in DOMAIN s.values /\ s.values[c] # <<>>)
      BY <3>2 DEF OffCompass, Has, Given
    <3> QED
      BY <3>1, <3>2
  <2>3. \A c : Group1(c) = Group2(c)
    <3> HIDE DEF Leaks, off
    <3> QED
      BY <2>2
  <2> HIDE DEF Group1, Group2, columns
  <2>4. {Group1(c) : c \in columns} = {Group2(c) : c \in columns}
    BY <2>3
  <2>5. ToFind("wind-range", T, case.period) = UNION {Group2(c) : c \in columns}
    BY <2>1, <2>4
  <2> QED
    BY <2>5 DEF Group2, columns
<1> HIDE DEF off
<1> QED
  BY <1>1, <1>2, ColumnsFit

(* The days of a month with a reading, in order.                            *)
LEMMA DaysInOrder ==
    ASSUME NEW days, days \subseteq 1 .. DaysInMonth, days # {}
    PROVE  /\ IsFiniteSet(days) /\ Cardinality(days) \in Nat \ {0}
           /\ Cardinality((1 .. DaysInMonth) \ days) = DaysInMonth - Cardinality(days)
           /\ Len(Sorted(days)) = Cardinality(days)
           /\ \A i \in 1 .. Cardinality(days) : Sorted(days)[i] \in days
           /\ \A d \in days : \E i \in 1 .. Cardinality(days) : Sorted(days)[i] = d
           /\ \A i, j \in 1 .. Cardinality(days) :
                i < j <=> Sorted(days)[i] < Sorted(days)[j]
<1> DEFINE n == Cardinality(days)
           key == [d \in days |-> <<d>>]
           q == Sorted(days)
<1>1. DaysInMonth \in Nat
  BY RuleAssumption
<1>2. IsFiniteSet(1 .. DaysInMonth) /\ Cardinality(1 .. DaysInMonth) = DaysInMonth
  <2>1. /\ IsFiniteSet(1 .. DaysInMonth)
        /\ Cardinality(1 .. DaysInMonth) = IF 1 > DaysInMonth THEN 0 ELSE DaysInMonth - 1 + 1
    BY <1>1, FS_Interval
  <2> QED
    BY <1>1, <2>1
<1>3. IsFiniteSet(days) /\ n \in Nat
  BY <1>2, FS_Subset, FS_CardinalityType
<1>4. n # 0
  BY <1>3, FS_EmptySet
<1>5. Cardinality((1 .. DaysInMonth) \ days) = DaysInMonth - n
  <2>1. (1 .. DaysInMonth) \cap days = days
    OBVIOUS
  <2>2. Cardinality((1 .. DaysInMonth) \ days)
          = Cardinality(1 .. DaysInMonth) - Cardinality((1 .. DaysInMonth) \cap days)
    BY <1>2, FS_Difference
  <2> QED
    BY <1>2, <2>1, <2>2
<1>6. q = [i \in 1 .. n |->
              CHOOSE x \in days : Cardinality({r \in days : Before(key[r], key[x])}) = i - 1]
  <2> DEFINE Next1(i) == CHOOSE x \in days :
                 Cardinality({r \in days : Before(<<r>>, <<x>>)}) = i - 1
             Next2(i) == CHOOSE x \in days :
                 Cardinality({r \in days : Before(key[r], key[x])}) = i - 1
  <2>1. q = [i \in 1 .. n |-> Next1(i)]
    BY DEF Sorted, OrderBy
  <2>2. \A x \in days : {r \in days : Before(<<r>>, <<x>>)}
                        = {r \in days : Before(key[r], key[x])}
    OBVIOUS
  <2>3. \A i \in 1 .. n : Next1(i) = Next2(i)
    <3> HIDE DEF key, q, n
    <3> QED
      BY <2>2
  <2>4. q = [i \in 1 .. n |-> Next2(i)]
    <3> HIDE DEF Next1, Next2, q, n
    <3> QED
      BY <2>1, <2>3
  <2> QED
    BY <2>4
<1>7. /\ \A d \in days : d \in Int /\ key[d] \in [1 .. 1 -> Int] /\ key[d][1] = d
      /\ \A d, e \in days : key[d] = key[e] => d = e
  BY <1>1
<1> HIDE DEF q, key
<1>8. InRank(q, ByKey(key, days), days)
  <2>1. \A d \in days : key[d] \in [1 .. 1 -> Int]
    BY <1>7
  <2> QED
    BY <1>3, <1>6, <1>7, <2>1, OrderedBy
<1>9. \A d, e \in days : <<d, e>> \in ByKey(key, days) <=> d < e
  <2> TAKE d, e \in days
  <2>1. DOMAIN key[d] = 1 .. 1 /\ key[d][1] = d /\ key[e][1] = e
    BY <1>7
  <2>2. Before(key[d], key[e]) <=> d < e
    BY <2>1 DEF Before
  <2> QED
    BY <2>2 DEF ByKey
<1>10. /\ q = [i \in 1 .. n |-> q[i]]
       /\ \A i \in 1 .. n : q[i] \in days
       /\ \A d \in days : \E i \in 1 .. n : q[i] = d
       /\ \A i, j \in 1 .. n : i < j <=> <<q[i], q[j]>> \in ByKey(key, days)
  BY <1>8 DEF InRank
<1>11. \A i, j \in 1 .. n : i < j <=> q[i] < q[j]
  BY <1>9, <1>10
<1>12. Len(q) = n
  <2>1. q \in [1 .. n -> days]
    BY <1>10
  <2> QED
    BY <1>3, <2>1
<1> HIDE DEF n
<1>13. n \in Nat \ {0}
  BY <1>3, <1>4
<1> QED
  BY <1>3, <1>5, <1>10, <1>11, <1>12, <1>13 DEF n, q

(* The gaps between them, of which longestGap is the greatest.               *)
GapsOf(q, n, expected) ==
    {q[1] - 1} \cup {q[i] - q[i - 1] - 1 : i \in 2 .. n} \cup {expected - q[n]}

(* The longest gap is one of the gaps, and none is longer.                  *)
LEMMA LongestIs ==
    ASSUME NEW days, days \subseteq 1 .. DaysInMonth, days # {}
    PROVE  LET gaps == GapsOf(Sorted(days), Cardinality(days), DaysInMonth)
           IN /\ longestGap(days, DaysInMonth) \in gaps
              /\ gaps \subseteq 0 .. DaysInMonth
              /\ \A g \in gaps : g <= longestGap(days, DaysInMonth)
<1> DEFINE n == Cardinality(days)
           q == Sorted(days)
           gaps == GapsOf(q, n, DaysInMonth)
           longest == longestGap(days, DaysInMonth)
<1>1. DaysInMonth \in Nat
  BY RuleAssumption
<1>2. /\ n \in Nat \ {0} /\ Len(q) = n
      /\ \A i \in 1 .. n : q[i] \in days
      /\ \A i, j \in 1 .. n : i < j <=> q[i] < q[j]
  BY DaysInOrder
<1>3. longest = CHOOSE g \in 0 .. DaysInMonth : g \in gaps /\ \A h \in gaps : h <= g
  BY <1>2 DEF longestGap, GapsOf
<1> HIDE DEF n, q, longest
<1>4. \A i \in 1 .. n : q[i] \in Int /\ 1 <= q[i] /\ q[i] <= DaysInMonth
  <2> TAKE i \in 1 .. n
  <2>1. q[i] \in 1 .. DaysInMonth
    BY <1>2
  <2> QED
    BY <1>1, <2>1
<1>5. gaps \subseteq 0 .. DaysInMonth
  <2>1. 1 \in 1 .. n /\ n \in 1 .. n
    BY <1>2
  <2>2. q[1] - 1 \in 0 .. DaysInMonth /\ DaysInMonth - q[n] \in 0 .. DaysInMonth
    BY <1>1, <1>4, <2>1
  <2>3. ASSUME NEW i \in 2 .. n
        PROVE  q[i] - q[i - 1] - 1 \in 0 .. DaysInMonth
    <3>1. i \in 1 .. n /\ i - 1 \in 1 .. n /\ i - 1 < i
      BY <1>2
    <3>2. q[i - 1] < q[i]
      BY <1>2, <3>1
    <3> QED
      BY <1>1, <1>4, <3>1, <3>2
  <2> QED
    BY <2>2, <2>3 DEF GapsOf
<1>6. gaps # {}
  BY DEF GapsOf
<1> HIDE DEF gaps
<1>7. Max(gaps) \in gaps /\ \A h \in gaps : h <= Max(gaps)
  BY <1>1, <1>5, <1>6, GreatestOf
<1>8. longest \in gaps /\ \A h \in gaps : h <= longest
  BY <1>3, <1>5, <1>7
<1> QED
  BY <1>5, <1>8 DEF gaps, longest, n, q

(* A month lacks a run of days exactly if its longest gap is as long.        *)
LEMMA GapIsRun ==
    ASSUME NEW days, days \subseteq 1 .. DaysInMonth, days # {}
    PROVE  longestGap(days, DaysInMonth) >= wmoConsecutiveThreshold <=>
               \E first \in 1 .. DaysInMonth :
                   first .. (first + wmoConsecutiveThreshold - 1)
                     \subseteq (1 .. DaysInMonth) \ days
<1> DEFINE n == Cardinality(days)
           q == Sorted(days)
           D == DaysInMonth
           k == wmoConsecutiveThreshold
           gaps == GapsOf(q, n, D)
           longest == longestGap(days, D)
           missing == (1 .. D) \ days
<1>1. D \in Nat /\ k \in Nat
  BY RuleAssumption
<1>2. /\ n \in Nat \ {0}
      /\ \A i \in 1 .. n : q[i] \in days
      /\ \A d \in days : \E i \in 1 .. n : q[i] = d
      /\ \A i, j \in 1 .. n : i < j <=> q[i] < q[j]
  BY DaysInOrder
<1>3. longest \in gaps /\ gaps \subseteq 0 .. D /\ \A g \in gaps : g <= longest
  BY LongestIs
<1> HIDE DEF n, q, longest, k, D
<1>4. days \subseteq 1 .. D
  BY DEF D
<1>5. \A i \in 1 .. n : q[i] \in Int /\ 1 <= q[i] /\ q[i] <= D
  <2> TAKE i \in 1 .. n
  <2>1. q[i] \in 1 .. D
    BY <1>2, <1>4
  <2> QED
    BY <1>1, <2>1
<1>6. 1 \in 1 .. n /\ n \in 1 .. n
  BY <1>2
<1>7. \A g : g \in gaps <=> \/ g = q[1] - 1
                            \/ \E i \in 2 .. n : g = q[i] - q[i - 1] - 1
                            \/ g = D - q[n]
  BY DEF GapsOf
<1> HIDE DEF gaps
<1>8. ASSUME longest >= k
      PROVE  \E first \in 1 .. D : first .. (first + k - 1) \subseteq missing
  <2>0. longest \in Int
    BY <1>1, <1>3
  <2>1. CASE k = 0
    <3>1. 1 \in 1 .. D /\ 1 .. (1 + k - 1) = {}
      BY <1>1, <1>5, <1>6, <2>1
    <3> QED
      BY <3>1
  <2>2. CASE k # 0 /\ longest = q[1] - 1
    <3>1. 1 \in 1 .. D
      BY <1>1, <1>5, <1>6
    <3>2. ASSUME NEW d \in 1 .. (1 + k - 1) PROVE d \in missing
      <4>1. d \in Int /\ 1 <= d /\ d < q[1]
        BY <1>1, <1>5, <1>6, <1>8, <2>2
      <4>2. d \in 1 .. D
        BY <1>1, <1>5, <1>6, <4>1
      <4>3. d \notin days
        <5> SUFFICES ASSUME d \in days PROVE FALSE
          OBVIOUS
        <5>1. PICK i \in 1 .. n : q[i] = d
          BY <1>2
        <5>2. i < 1
          BY <1>2, <1>6, <4>1, <5>1
        <5> QED
          BY <5>2
      <4> QED
        BY <4>2, <4>3
    <3> QED
      BY <3>1, <3>2
  <2>3. CASE k # 0 /\ \E i \in 2 .. n : longest = q[i] - q[i - 1] - 1
    <3>1. PICK i \in 2 .. n : longest = q[i] - q[i - 1] - 1
      BY <2>3
    <3>2. i \in 1 .. n /\ i - 1 \in 1 .. n
      BY <1>2
    <3> DEFINE first == q[i - 1] + 1
    <3>3. first \in 1 .. D
      BY <1>1, <1>5, <1>8, <2>3, <3>1, <3>2
    <3>4. ASSUME NEW d \in first .. (first + k - 1) PROVE d \in missing
      <4>1. d \in Int /\ q[i - 1] < d /\ d < q[i]
        BY <1>1, <1>5, <1>8, <3>1, <3>2
      <4>2. d \in 1 .. D
        BY <1>1, <1>5, <3>2, <4>1
      <4>3. d \notin days
        <5> SUFFICES ASSUME d \in days PROVE FALSE
          OBVIOUS
        <5>1. PICK j \in 1 .. n : q[j] = d
          BY <1>2
        <5>2. i - 1 < j /\ j < i
          BY <1>2, <3>2, <4>1, <5>1
        <5> QED
          BY <5>2
      <4> QED
        BY <4>2, <4>3
    <3> QED
      BY <3>3, <3>4
  <2>4. CASE k # 0 /\ longest = D - q[n]
    <3> DEFINE first == q[n] + 1
    <3>1. first \in 1 .. D
      BY <1>1, <1>5, <1>6, <1>8, <2>4
    <3>2. ASSUME NEW d \in first .. (first + k - 1) PROVE d \in missing
      <4>1. d \in Int /\ q[n] < d /\ d <= D
        BY <1>1, <1>5, <1>6, <1>8, <2>4
      <4>2. d \in 1 .. D
        BY <1>1, <1>5, <1>6, <4>1
      <4>3. d \notin days
        <5> SUFFICES ASSUME d \in days PROVE FALSE
          OBVIOUS
        <5>1. PICK j \in 1 .. n : q[j] = d
          BY <1>2
        <5>2. n < j
          BY <1>2, <1>6, <4>1, <5>1
        <5> QED
          BY <1>2, <5>2
      <4> QED
        BY <4>2, <4>3
    <3> QED
      BY <3>1, <3>2
  <2> QED
    BY <1>3, <1>7, <2>1, <2>2, <2>3, <2>4
<1>9. ASSUME NEW first \in 1 .. D, first .. (first + k - 1) \subseteq missing
      PROVE  longest >= k
  <2>0. longest \in Nat /\ \A g \in gaps : g \in Nat
    BY <1>1, <1>3
  <2>1. CASE k = 0
    BY <2>0, <2>1
  <2>2. CASE k # 0
    <3>1. /\ first \in first .. (first + k - 1)
          /\ first + k - 1 \in first .. (first + k - 1)
      BY <1>1, <2>2
    <3>2. first \notin days /\ first + k - 1 <= D
      BY <1>1, <1>9, <3>1
    <3>3. \A i \in 1 .. n : q[i] < first \/ q[i] > first + k - 1
      <4> TAKE i \in 1 .. n
      <4>1. q[i] \notin first .. (first + k - 1)
        BY <1>2, <1>9
      <4> QED
        BY <1>1, <1>5, <4>1
    <3>4. \E g \in gaps : g >= k
      <4>1. CASE q[1] > first
        <5>1. q[1] - 1 \in gaps /\ q[1] - 1 >= k
          <6>1. q[1] - 1 \in gaps
            BY <1>7
          <6>2. q[1] > first + k - 1
            BY <1>1, <1>5, <1>6, <3>3, <4>1
          <6>3. q[1] - 1 >= k
            BY <1>1, <1>5, <1>6, <6>2
          <6> QED
            BY <6>1, <6>3
        <5> QED
          BY <5>1
      <4>2. CASE q[n] < first
        <5>1. D - q[n] \in gaps /\ D - q[n] >= k
          <6>1. D - q[n] \in gaps
            BY <1>7
          <6>2. D - q[n] >= k
            BY <1>1, <1>5, <1>6, <3>2, <4>2
          <6> QED
            BY <6>1, <6>2
        <5> QED
          BY <5>1
      <4>3. CASE ~(q[1] > first) /\ ~(q[n] < first)
        <5> DEFINE Later == {i \in 1 .. n : q[i] > first}
        <5>1. Later \subseteq Nat /\ n \in Later
          BY <1>1, <1>2, <1>5, <1>6, <3>3, <4>3, <3>2
        <5>2. PICK i \in Later : \A j \in Later : i <= j
          <6> HIDE DEF Later
          <6> QED
            BY <5>1, LeastOf
        <5>3. i \in 1 .. n /\ q[i] > first /\ i # 1
          BY <4>3
        <5>4. i \in 2 .. n /\ i - 1 \in 1 .. n /\ ~(i <= i - 1)
          BY <1>2, <5>3
        <5>5. i - 1 \notin Later
          <6> HIDE DEF Later
          <6> QED
            BY <5>2, <5>4
        <5>6. ~(q[i - 1] > first)
          BY <5>4, <5>5
        <5>7. q[i - 1] < first /\ q[i] > first + k - 1
          BY <1>1, <1>5, <2>2, <3>3, <5>3, <5>4, <5>6
        <5>8. q[i] - q[i - 1] - 1 >= k
          BY <1>1, <1>5, <5>3, <5>4, <5>7
        <5>9. q[i] - q[i - 1] - 1 \in gaps
          BY <1>7, <5>4
        <5> QED
          BY <5>8, <5>9
      <4> QED
        BY <4>1, <4>2, <4>3
    <3> QED
      BY <1>1, <1>3, <2>0, <3>4
  <2> QED
    BY <2>1, <2>2
<1>10. longest >= k <=> \E first \in 1 .. D : first .. (first + k - 1) \subseteq missing
  <2> HIDE DEF missing
  <2> QED
    BY <1>8, <1>9
<1> QED
  BY <1>10 DEF longest, k, D

(* wmo-month-completeness: the month of a row, as its query groups it.       *)
GroupOf(case, row) ==
    [station |-> row.station, year |-> row.year, month |-> row.month,
     days |-> ReadDays(case.table, case.period, row)]

(* The months the query groups, and when one is incomplete.                 *)
LEMMA GroupsAre ==
    ASSUME NEW case \in Cases["wmo"], "wmo" \in DOMAIN Cases
    PROVE  /\ MonthGroups(case.table, case.period)
                = {GroupOf(case, row) : row \in InPeriod(case.table, case.period)}
           /\ \A row \in InPeriod(case.table, case.period) :
                /\ ReadDays(case.table, case.period, row) \subseteq 1 .. DaysInMonth
                /\ ReadDays(case.table, case.period, row) # {}
                /\ Incomplete(GroupOf(case, row))
                     <=> TooSparse(ReadDays(case.table, case.period, row))
<1> DEFINE T == case.table
           P == case.period
           Days(row) == {r.day : r \in {q \in T : /\ q.station = row.station
                                                  /\ q.year = row.year
                                                  /\ q.month = row.month
                                                  /\ Given(q.tmax)}}
           Group(row) == [station |-> row.station, year |-> row.year, month |-> row.month,
                          days |-> Days(row)]
           rows == InPeriod(T, P)
<1>1. MonthGroups(T, P) = {Group(row) : row \in rows}
  BY DEF MonthGroups, InPeriod
<1>2. ASSUME NEW row \in rows
      PROVE  Group(row) = GroupOf(case, row)
  <2>1. \A q \in T : q.year = row.year => Within(P, q)
    BY DEF Within, InPeriod
  <2>2. {q \in T : /\ q.station = row.station /\ q.year = row.year
                   /\ q.month = row.month /\ Given(q.tmax)}
          = {q \in T : /\ Within(P, q) /\ Given(q.tmax) /\ q.station = row.station
                       /\ q.year = row.year /\ q.month = row.month}
    <3> HIDE DEF T, P, rows
    <3> QED
      BY <2>1
  <2>3. Days(row) = ReadDays(T, P, row)
    BY <2>2 DEF ReadDays
  <2> QED
    BY <2>3 DEF GroupOf
<1>3. ASSUME NEW row \in rows
      PROVE  /\ ReadDays(T, P, row) \subseteq 1 .. DaysInMonth
             /\ ReadDays(T, P, row) # {}
  <2>1. row.day \in ReadDays(T, P, row)
    BY DEF ReadDays, InPeriod
  <2>2. \A r \in T : r.day \in 1 .. DaysInMonth
    BY Tables
  <2> QED
    BY <2>1, <2>2 DEF ReadDays
<1>4. ASSUME NEW row \in rows
      PROVE  Incomplete(GroupOf(case, row)) <=> TooSparse(ReadDays(T, P, row))
  <2> DEFINE days == ReadDays(T, P, row)
             missing == (1 .. DaysInMonth) \ days
  <2>1. days \subseteq 1 .. DaysInMonth /\ days # {}
    BY <1>3
  <2>2. GroupOf(case, row).days = days
    BY DEF GroupOf
  <2> HIDE DEF days
  <2>3. Cardinality(missing) = DaysInMonth - Cardinality(days)
    BY <2>1, DaysInOrder
  <2>4. longestGap(days, DaysInMonth) >= wmoConsecutiveThreshold <=>
            \E first \in 1 .. DaysInMonth :
                first .. (first + wmoConsecutiveThreshold - 1) \subseteq missing
    BY <2>1, GapIsRun
  <2>5. Incomplete(GroupOf(case, row)) <=>
            \/ DaysInMonth - Cardinality(days) >= wmoMissingThreshold
            \/ longestGap(days, DaysInMonth) >= wmoConsecutiveThreshold
    BY <2>2, Zenon DEF Incomplete
  <2>6. TooSparse(days) <=>
            \/ Cardinality(missing) >= wmoMissingThreshold
            \/ \E first \in 1 .. DaysInMonth :
                  first .. (first + wmoConsecutiveThreshold - 1) \subseteq missing
    BY DEF TooSparse
  <2> HIDE DEF missing
  <2>7. Incomplete(GroupOf(case, row)) <=> TooSparse(days)
    BY <2>3, <2>4, <2>5, <2>6
  <2> QED
    BY <2>7 DEF days
<1>5. {Group(row) : row \in rows} = {GroupOf(case, row) : row \in rows}
  <2> HIDE DEF Group, rows
  <2> QED
    BY <1>2
<1> HIDE DEF Group
<1> QED
  BY <1>1, <1>3, <1>4, <1>5

(* A month of a year is flagged at most once.                               *)
LEMMA MonthsFit ==
    ASSUME NEW case \in Cases["wmo"], "wmo" \in DOMAIN Cases
    PROVE  QueryFits("wmo", case)
<1> DEFINE T == case.table
           P == case.period
           rows == InPeriod(T, P)
           S == MonthGroups(T, P)
           key == [g \in S |-> <<g.station, g.month, g.year>>]
           q == QueryOf("wmo", case)
           Sparse(row) == TooSparse(ReadDays(T, P, row))
<1>1. /\ IsFiniteSet(T) /\ rows \subseteq T
      /\ \A r \in T : r.station \in Int /\ r.year \in Int /\ r.month \in Int
  BY Tables DEF InPeriod
<1>2. /\ S = {GroupOf(case, row) : row \in rows}
      /\ \A row \in rows : Incomplete(GroupOf(case, row)) <=> Sparse(row)
  BY GroupsAre
<1>3. IsFiniteSet(S)
  <2> DEFINE f == [row \in rows |-> GroupOf(case, row)]
  <2>1. IsFiniteSet(rows)
    <3> HIDE DEF rows, T
    <3> QED
      BY <1>1, FS_Subset
  <2> HIDE DEF rows, S
  <2>2. f \in Surjection(rows, S)
    BY <1>2 DEF Surjection
  <2> HIDE DEF f
  <2> QED
    BY <2>1, <2>2, FS_Surjection
<1>4. q = [i \in 1 .. Cardinality(S) |->
              CHOOSE x \in S : Cardinality({r \in S : Before(key[r], key[x])}) = i - 1]
  <2> DEFINE Next1(i) == CHOOSE x \in S :
                 Cardinality({r \in S : Before(<<r.station, r.month, r.year>>,
                                               <<x.station, x.month, x.year>>)}) = i - 1
             Next2(i) == CHOOSE x \in S :
                 Cardinality({r \in S : Before(key[r], key[x])}) = i - 1
  <2>1. q = [i \in 1 .. Cardinality(S) |-> Next1(i)]
    BY DEF QueryOf, Query, OrderBy
  <2>2. \A x \in S : {r \in S : Before(<<r.station, r.month, r.year>>,
                                       <<x.station, x.month, x.year>>)}
                     = {r \in S : Before(key[r], key[x])}
    <3> HIDE DEF S
    <3> QED
      OBVIOUS
  <2>3. \A i \in 1 .. Cardinality(S) : Next1(i) = Next2(i)
    <3> HIDE DEF key, q, S
    <3> QED
      BY <2>2
  <2>4. q = [i \in 1 .. Cardinality(S) |-> Next2(i)]
    <3> HIDE DEF Next1, Next2, q, S
    <3> QED
      BY <2>1, <2>3
  <2> QED
    BY <2>4
<1>5. \A x \in S : /\ x.station \in Int /\ x.month \in Int /\ x.year \in Int
                   /\ \A y \in S : /\ x.station = y.station
                                   /\ x.month = y.month /\ x.year = y.year
                                   => x = y
  <2>1. \A row \in rows : /\ GroupOf(case, row).station = row.station
                          /\ GroupOf(case, row).month = row.month
                          /\ GroupOf(case, row).year = row.year
                          /\ row.station \in Int /\ row.month \in Int /\ row.year \in Int
    BY <1>1 DEF GroupOf
  <2>2. ASSUME NEW r \in rows, NEW s \in rows,
               r.station = s.station, r.month = s.month, r.year = s.year
        PROVE  GroupOf(case, r) = GroupOf(case, s)
    BY <2>2 DEF GroupOf, ReadDays
  <2> HIDE DEF rows, S
  <2> QED
    BY <1>2, <2>1, <2>2
<1> HIDE DEF S, q, T, P, rows, Sparse
<1>6. \A x \in S : key[x] = <<x.station, x.month, x.year>> /\ key[x] \in [1 .. 3 -> Int]
  BY <1>5
<1>7. \A x, y \in S : key[x] = key[y] => x = y
  BY <1>5
<1> HIDE DEF key
<1>8. StrictOrder(ByKey(key, S), S) /\ InRank(q, ByKey(key, S), S)
  <2>1. \A x \in S : key[x] \in [1 .. 3 -> Int]
    BY <1>6
  <2> QED
    BY <1>3, <1>4, <1>7, <2>1, OrderedBy
<1>9. \A x \in S : Flags("wmo", x) =
          {<<<<x.station, x.month>>, x.year>> : z \in {y \in {0} : Incomplete(x)}}
  BY DEF Flags
<1>10. \A x \in S : \A f \in Flags("wmo", x) :
           f[1] = <<x.station, x.month>> /\ f[2] = x.year
  BY <1>9
<1>11. \A x \in S : \A f, g \in Flags("wmo", x) : f[1] = g[1] => f = g
  BY <1>9
<1>12. \A x, y \in S :
           \A f \in Flags("wmo", x), g \in Flags("wmo", y) : f[1] = g[1] =>
               /\ f[2] = g[2] => x = y
               /\ Before(SampleOrder("wmo", case, f[2]), SampleOrder("wmo", case, g[2]))
                    <=> Before(key[x], key[y])
  <2> SUFFICES ASSUME NEW x \in S, NEW y \in S,
                      NEW f \in Flags("wmo", x), NEW g \in Flags("wmo", y),
                      f[1] = g[1]
               PROVE  /\ f[2] = g[2] => x = y
                      /\ Before(SampleOrder("wmo", case, f[2]),
                                SampleOrder("wmo", case, g[2]))
                           <=> Before(key[x], key[y])
    BY Zenon
  <2>1. f[2] = x.year /\ g[2] = y.year /\ x.station = y.station /\ x.month = y.month
    BY <1>10
  <2>2. /\ SampleOrder("wmo", case, f[2]) = <<x.year>>
        /\ SampleOrder("wmo", case, g[2]) = <<y.year>>
    BY <2>1 DEF SampleOrder
  <2>3. Before(key[x], key[y]) <=> Before(<<x.year>>, <<y.year>>)
    <3> DEFINE k == key[x]  l == key[y]  s == <<x.year>>  t == <<y.year>>  m == 3  d == 2
    <3>1. k \in [1 .. m -> Int] /\ l \in [1 .. m -> Int]
      BY <1>6
    <3>2. s \in [1 .. m - d -> Int] /\ t \in [1 .. m - d -> Int]
      BY <1>5
    <3>3. \A i \in 1 .. d : k[i] = l[i]
      BY <1>6, <2>1
    <3>4. \A i \in 1 .. m - d : s[i] = k[i + d] /\ t[i] = l[i + d]
      BY <1>6
    <3>5. m \in Nat /\ d \in 0 .. m
      OBVIOUS
    <3> HIDE DEF k, l, s, t, m, d
    <3>6. Before(k, l) <=> Before(s, t)
      BY ZenonT(60), <3>1, <3>2, <3>3, <3>4, <3>5, BeforeShared
    <3> QED
      BY <3>6 DEF k, l, s, t
  <2> QED
    BY <1>5, <2>1, <2>2, <2>3
<1>13. ToFind("wmo", case.table, case.period)
         = {[key |-> f[1], sample |-> f[2]] : f \in UNION {Flags("wmo", x) : x \in S}}
  <2> DEFINE sparse == {row \in rows : Sparse(row)}
             flagged == {x \in S : Incomplete(x)}
             One(x) == Found(<<x.station, x.month>>, {x.year})
             found == [x \in S |-> One(x)]
  <2>1. ToFind("wmo", case.table, case.period) = UNION {One(r) : r \in sparse}
    BY DEF ToFind, rows, Sparse, T, P
  <2>2. \A row \in rows : One(row) = One(GroupOf(case, row))
    BY DEF GroupOf
  <2>3. \A x \in S : {[key |-> f[1], sample |-> f[2]] : f \in Flags("wmo", x)}
                       = IF Incomplete(x) THEN One(x) ELSE {}
    <3> TAKE x \in S
    <3>1. CASE Incomplete(x)
      <4> DEFINE f == <<<<x.station, x.month>>, x.year>>
      <4>1. Flags("wmo", x) = {f} /\ f[1] = <<x.station, x.month>> /\ f[2] = x.year
        BY <1>9, <3>1
      <4>2. One(x) = {[key |-> <<x.station, x.month>>, sample |-> x.year]}
        BY DEF Found
      <4> HIDE DEF f, One
      <4> QED
        BY <3>1, <4>1, <4>2
    <3>2. CASE ~Incomplete(x)
      BY <1>9, <3>2
    <3> QED
      BY <3>1, <3>2
  <2> HIDE DEF One
  <2>4. UNION {One(r) : r \in sparse} = UNION {found[x] : x \in flagged}
    <3>1. \A r \in sparse : GroupOf(case, r) \in flagged /\ One(r) = found[GroupOf(case, r)]
      BY <1>2, <2>2
    <3>2. \A x \in flagged : \E r \in sparse : One(r) = found[x]
      BY <1>2, <2>2
    <3> HIDE DEF sparse, flagged, found
    <3> QED
      BY <3>1, <3>2
  <2>5. ToFind("wmo", case.table, case.period) = UNION {found[x] : x \in flagged}
    BY <2>1, <2>4
  <2>6. flagged \subseteq S
    OBVIOUS
  <2>7. /\ \A x \in flagged :
             found[x] = {[key |-> f[1], sample |-> f[2]] : f \in Flags("wmo", x)}
        /\ \A x \in S \ flagged : Flags("wmo", x) = {}
    BY <1>9, <2>3
  <2> HIDE DEF sparse, flagged, found
  <2> QED
    BY <2>5, <2>6, <2>7, FoundByRow
<1> QED
  BY <1>8, <1>11, <1>12, <1>13, OrderFits DEF q

(* Every query of every rule fits.                                          *)
LEMMA EveryQueryFits ==
    ASSUME NEW rule \in DOMAIN Cases, NEW case \in Cases[rule]
    PROVE  QueryFits(rule, case)
<1>1. rule \in {"bbox", "cross-period", "diurnal", "z-score", "wmo", "fill-leak", "wind-range"}
  BY Tables
<1> QED
  BY <1>1, BBoxFits, JumpFits, WideFits, OutliersFit, MonthsFit, LeaksFit, CompassFits

-----------------------------------------------------------------------------
(* The steps.  A rule starts with its whole query and nothing found.        *)
LEMMA RuleStartsWell == RuleStarts => ScanInv'
<1> SUFFICES ASSUME RuleStarts PROVE ScanInv'
  OBVIOUS
<1>1. PICK rule \in DOMAIN Cases : \E case \in Cases[rule] :
          scan' = [at |-> "scan", rule |-> rule, case |-> case, findings |-> <<>>,
                   left |-> QueryOf(rule, case)]
  BY DEF RuleStarts, QueryOf
<1>2. PICK case \in Cases[rule] :
          scan' = [at |-> "scan", rule |-> rule, case |-> case, findings |-> <<>>,
                   left |-> QueryOf(rule, case)]
  BY <1>1
<1>3. Walked(rule, case, <<>>, QueryOf(rule, case))
  BY EveryQueryFits, WalkStarts
<1>4. /\ scan'.at = "scan" /\ scan'.rule = rule /\ scan'.case = case
      /\ scan'.findings = <<>> /\ scan'.left = QueryOf(rule, case)
  BY <1>2
<1>5. scan' = [at |-> scan'.at, rule |-> scan'.rule, case |-> scan'.case,
               findings |-> scan'.findings, left |-> scan'.left]
  BY <1>2
<1> QED
  BY <1>3, <1>4, <1>5 DEF ScanInv

(* A row adds what it flags.                                                *)
LEMMA RuleScansWell == ScanInv /\ scan # Unscanned /\ RuleScans => ScanInv'
<1> SUFFICES ASSUME ScanInv, scan # Unscanned, RuleScans PROVE ScanInv'
  OBVIOUS
<1>1. /\ scan = [at |-> scan.at, rule |-> scan.rule, case |-> scan.case,
                 findings |-> scan.findings, left |-> scan.left]
      /\ scan.rule \in DOMAIN Cases /\ scan.case \in Cases[scan.rule]
      /\ Walked(scan.rule, scan.case, scan.findings, scan.left)
      /\ scan.at = "scan" /\ scan.left # <<>>
  BY DEF ScanInv, RuleScans
<1>2. scan' = [scan EXCEPT
          !.left = Tail(scan.left),
          !.findings = GroupJoined(scan.rule, Head(scan.left), scan.findings)]
  BY DEF RuleScans, GroupJoined
<1> DEFINE found == GroupJoined(scan.rule, Head(scan.left), scan.findings)
<1>3. Walked(scan.rule, scan.case, found, Tail(scan.left))
  BY <1>1, EveryQueryFits, WalkGoesOn
<1> HIDE DEF found
<1>4. scan' = [at |-> "scan", rule |-> scan.rule, case |-> scan.case,
               findings |-> found, left |-> Tail(scan.left)]
  BY <1>1, <1>2 DEF found
<1>5. /\ scan'.at = "scan" /\ scan'.rule = scan.rule /\ scan'.case = scan.case
      /\ scan'.findings = found /\ scan'.left = Tail(scan.left)
      /\ scan' = [at |-> scan'.at, rule |-> scan'.rule, case |-> scan'.case,
                  findings |-> scan'.findings, left |-> scan'.left]
  BY <1>4
<1> QED
  BY <1>1, <1>3, <1>5 DEF ScanInv

(* It ends when there is no row left.                                       *)
LEMMA RuleEndsWell == ScanInv /\ scan # Unscanned /\ RuleEnds => ScanInv'
<1> SUFFICES ASSUME ScanInv, scan # Unscanned, RuleEnds PROVE ScanInv'
  OBVIOUS
<1>1. /\ scan = [at |-> scan.at, rule |-> scan.rule, case |-> scan.case,
                 findings |-> scan.findings, left |-> scan.left]
      /\ scan.rule \in DOMAIN Cases /\ scan.case \in Cases[scan.rule]
      /\ Walked(scan.rule, scan.case, scan.findings, scan.left)
      /\ scan.left = <<>>
  BY DEF ScanInv, RuleEnds
<1>2. scan' = [at |-> "scanned", rule |-> scan.rule, case |-> scan.case,
               findings |-> scan.findings, left |-> scan.left]
  BY <1>1 DEF RuleEnds
<1>3. /\ scan'.at = "scanned" /\ scan'.rule = scan.rule /\ scan'.case = scan.case
      /\ scan'.findings = scan.findings /\ scan'.left = scan.left
      /\ scan' = [at |-> scan'.at, rule |-> scan'.rule, case |-> scan'.case,
                  findings |-> scan'.findings, left |-> scan'.left]
  BY <1>2
<1> QED
  BY <1>1, <1>3 DEF ScanInv

(* Every step keeps the invariant.                                          *)
LEMMA ScanInvKept == ScanInv /\ [Next]_vars => ScanInv'
<1> SUFFICES ASSUME ScanInv, [Next]_vars PROVE ScanInv'
  OBVIOUS
<1>1. CASE UNCHANGED scan
  BY <1>1 DEF ScanInv, Walked
<1>2. CASE RuleStarts
  BY <1>2, RuleStartsWell
<1>3. CASE RuleScans \/ RuleEnds
  <2>1. scan.at # "idle"
    BY <1>3 DEF RuleScans, RuleEnds
  <2>2. scan # Unscanned
    BY <2>1 DEF Unscanned
  <2> QED
    BY <1>3, <2>2, RuleScansWell, RuleEndsWell
<1>4. UNCHANGED scan \/ RuleStarts \/ RuleScans \/ RuleEnds
  BY DEF Next, ScanNext, vars, Terminated
<1> QED
  BY <1>1, <1>2, <1>3, <1>4

(* The findings of what is flagged: their keys, and their samples by key.    *)
SamplesUnder(found, key) == {g.sample : g \in {h \in found : h.key = key}}
FlaggedUnder(E, key) == {f[2] : f \in {g \in E : g[1] = key}}

(* What is found is what is flagged, key by key.                            *)
LEMMA FoundPairs ==
    ASSUME NEW E, NEW found, found = {[key |-> f[1], sample |-> f[2]] : f \in E}
    PROVE  /\ {g.key : g \in found} = {f[1] : f \in E}
           /\ \A key : SamplesUnder(found, key) = FlaggedUnder(E, key)
<1> DEFINE One(f) == [key |-> f[1], sample |-> f[2]]
<1>1. \A f : One(f).key = f[1] /\ One(f).sample = f[2]
  OBVIOUS
<1>2. found = {One(f) : f \in E}
  OBVIOUS
<1> HIDE DEF One
<1>3. {g.key : g \in found} = {f[1] : f \in E}
  BY <1>1, <1>2
<1>4. ASSUME NEW key
      PROVE  SamplesUnder(found, key) = FlaggedUnder(E, key)
  BY <1>1, <1>2 DEF SamplesUnder, FlaggedUnder
<1> QED
  BY <1>3, <1>4

(* What it says of a rule that has ended is what there was to be found.      *)
LEMMA ScanInvSays == ScanInv => Flagged
<1> SUFFICES ASSUME ScanInv, scan.at = "scanned" PROVE Flagged
  BY DEF Flagged
<1> DEFINE rule == scan.rule
           case == scan.case
           q == QueryOf(rule, case)
           n == Len(q)
           U == SamplesOf(rule, q)
           rank == SampleRank(rule, case)
           found == ToFind(rule, case.table, case.period)
           OfKey(key) == {f.sample : f \in {g \in found : g.key = key}}
<1>0. scan # Unscanned
  BY DEF Unscanned
<1>1. /\ rule \in DOMAIN Cases /\ case \in Cases[rule]
      /\ Walked(rule, case, scan.findings, <<>>)
  BY <1>0 DEF ScanInv
<1>2. QueryFits(rule, case)
  <2> HIDE DEF rule, case
  <2> QED
    BY <1>1, EveryQueryFits
<1>3. n \in Nat /\ n - Len(<<>>) = n
  <2>1. q \in Seq({q[i] : i \in 1 .. n})
    BY <1>2 DEF QueryFits
  <2>2. n \in Nat
    BY <2>1
  <2> HIDE DEF n
  <2> QED
    BY <2>2
<1>4. found = {[key |-> f[1], sample |-> f[2]] : f \in FlagsTo(rule, q, n)}
  BY <1>2 DEF QueryFits, AllFound
<1>5. /\ DOMAIN scan.findings = {f[1] : f \in FlagsTo(rule, q, n)}
      /\ \A key \in DOMAIN scan.findings :
           Tally(scan.findings[key].count, scan.findings[key].top, topPerGroup,
                 SamplesTo(rule, q, n, key), SamplesInOrder(rule, case))
  BY <1>1, <1>3 DEF Walked
<1> HIDE DEF found, q, n, rule, case
<1>6. DOMAIN scan.findings = {f.key : f \in found}
  <2>1. {f.key : f \in found} = {f[1] : f \in FlagsTo(rule, q, n)}
    BY <1>4, FoundPairs
  <2> QED
    BY <1>5, <2>1
<1>7. \A key : OfKey(key) = SamplesTo(rule, q, n, key)
  <2> TAKE key
  <2> DEFINE E == FlagsTo(rule, q, n)
  <2>1. OfKey(key) = SamplesUnder(found, key) /\ SamplesTo(rule, q, n, key) = FlaggedUnder(E, key)
    BY DEF SamplesUnder, SamplesTo, FlaggedUnder
  <2>2. found = {[key |-> f[1], sample |-> f[2]] : f \in E}
    BY <1>4
  <2> HIDE DEF E, OfKey
  <2>3. SamplesUnder(found, key) = FlaggedUnder(E, key)
    BY <2>2, FoundPairs
  <2> QED
    BY <2>1, <2>3
<1>8. \A key : SamplesTo(rule, q, n, key) \subseteq U
  BY DEF SamplesTo, SamplesOf, n
<1>9. \A s \in U : rank[s] = SampleOrder(rule, case, s)
  BY DEF SampleRank, q
<1>10. SamplesInOrder(rule, case) = ByKey(rank, U)
  BY DEF SamplesInOrder, ByKey, q
<1> HIDE DEF U, rank, OfKey
<1>11. ASSUME NEW key \in DOMAIN scan.findings
       PROVE  LET total == scan.findings[key].count
                  shown == scan.findings[key].top
              IN /\ total = Cardinality(OfKey(key))
                 /\ Len(shown) = IF total < 3 THEN total ELSE 3
                 /\ \A i \in DOMAIN shown :
                      /\ shown[i] \in OfKey(key)
                      /\ Cardinality({x \in OfKey(key) :
                            Before(SampleOrder(rule, case, x),
                                   SampleOrder(rule, case, shown[i]))}) = i - 1
  <2> DEFINE total == scan.findings[key].count
             shown == scan.findings[key].top
             set == SamplesTo(rule, q, n, key)
             most == topPerGroup
  <2>1. Tally(total, shown, most, set, ByKey(rank, U))
    BY <1>5, <1>10
  <2>2. set \subseteq U /\ most \in Nat
    BY <1>8 DEF topPerGroup
  <2> HIDE DEF total, shown, set, most
  <2>3. ListsFirst(total, shown, most, set, rank)
    BY <2>1, <2>2, TallyLists
  <2>4. \A s \in set : Earlier(s, rank, set) = {x \in set : Before(SampleOrder(rule, case, x),
                                             SampleOrder(rule, case, s))}
    BY <1>9, <2>2 DEF Earlier
  <2>5. OfKey(key) = set
    BY <1>7 DEF set
  <2>6. /\ total = Cardinality(OfKey(key))
        /\ Len(shown) = IF total < 3 THEN total ELSE 3
        /\ \A i \in DOMAIN shown :
             /\ shown[i] \in OfKey(key)
             /\ Cardinality({x \in OfKey(key) :
                    Before(SampleOrder(rule, case, x),
                           SampleOrder(rule, case, shown[i]))}) = i - 1
    BY <2>3, <2>4, <2>5 DEF ListsFirst, most, topPerGroup
  <2> QED
    BY <2>6 DEF total, shown
<1> QED
  BY <1>6, <1>11 DEF Flagged, Lists, OfKey, found, rule, case

(* A rule reports every group in which something is off, no other, with the *)
(* exact number of times and the first three of them, for any tables with   *)
(* the primary keys of the schema (internal/validate, rule_*.go).           *)
THEOREM RuleReportsAll == Spec => []Flagged
<1>1. Init => ScanInv
  BY DEF Init, ScanInit, ScanInv
<1> QED
  BY <1>1, ScanInvKept, ScanInvSays, PTL DEF Spec
=============================================================================
