--------------------------- MODULE ComparisonProofs ---------------------------
(***************************************************************************)
(* What the parity gates report, for any two sides, any number of workers  *)
(* and any caps.                                                           *)
(***************************************************************************)
EXTENDS RuleProofs

-----------------------------------------------------------------------------
(* Folds over a sequence, from its first element to its last.               *)

(* The greatest of the first numbers, and what is left without it.          *)
LEMMA MaxOfFirst ==
    ASSUME NEW n \in Nat
    PROVE  /\ \A s \in SUBSET (1 .. n) : s # {} => Max(s) \in s
           /\ n # 0 => Max(1 .. n) = n /\ (1 .. n) \ {n} = 1 .. (n - 1)
<1>1. ASSUME NEW s \in SUBSET (1 .. n), s # {}
      PROVE  Max(s) \in s
  <2>1. s \subseteq 0 .. n
    OBVIOUS
  <2> QED
    BY <1>1, <2>1, GreatestOf
<1>2. \A s \in SUBSET (1 .. n) : s # {} => Max(s) \in s
  BY <1>1
<1>3. ASSUME n # 0
      PROVE  Max(1 .. n) = n
  <2>1. n \in 1 .. n /\ \A y \in 1 .. n : n >= y
    BY <1>3
  <2>2. \A x \in 1 .. n : (\A y \in 1 .. n : x >= y) => x = n
    BY <2>1
  <2> QED
    BY <2>1, <2>2 DEF Max
<1>4. n # 0 => (1 .. n) \ {n} = 1 .. (n - 1)
  OBVIOUS
<1> QED
  BY <1>2, <1>3, <1>4

Steps(step, n, V) == step \in [(1 .. n) \X V -> V]
FoldsByMax(h, n, base, step) ==
    \A s \in SUBSET (1 .. n) :
        h[s] = IF s = {} THEN base ELSE step[<<Max(s), h[s \ {Max(s)}]>>]
FoldsWithin(k, n, V, base, step) ==
    /\ k[{}] = base
    /\ \A s \in SUBSET (1 .. n) : s # {} /\ k[s \ {Max(s)}] \in V =>
           k[s] = step[<<Max(s), k[s \ {Max(s)}]>>]
GoesUp(k, n, V, base, step) ==
    \A i \in 0 .. n : /\ k[1 .. i] \in V
                      /\ i = 0 => k[1 .. i] = base
                      /\ i # 0 => k[1 .. i] = step[<<i, k[1 .. (i - 1)]>>]

(* A fold over a sequence exists.                                           *)
LEMMA FoldByMax ==
    ASSUME NEW n \in Nat, NEW V, NEW base \in V, NEW step, Steps(step, n, V)
    PROVE  \E h \in [SUBSET (1 .. n) -> V] : FoldsByMax(h, n, base, step)
<1> DEFINE S == 1 .. n
           pick == [s \in SUBSET S |-> Max(s)]
<1>1. IsFiniteSet(S) /\ \A s \in SUBSET S : s # {} => pick[s] \in s /\ pick[s] = Max(s)
  <2>1. IsFiniteSet(S)
    BY FS_Interval
  <2> QED
    BY <2>1, MaxOfFirst
<1>2. PICK h \in [SUBSET S -> V] : IsFold(h, S, base, pick, step)
  <2> HIDE DEF pick, S
  <2>1. \A s \in SUBSET S : s # {} => pick[s] \in s
    BY <1>1
  <2>2. step \in [S \X V -> V]
    BY DEF S, Steps
  <2> QED
    BY <1>1, <2>1, <2>2, FoldExists
<1>3. ASSUME NEW s \in SUBSET S
      PROVE  h[s] = IF s = {} THEN base ELSE step[<<Max(s), h[s \ {Max(s)}]>>]
  <2>1. h[s] = IF s = {} THEN base ELSE step[<<pick[s], h[s \ {pick[s]}]>>]
    <3> HIDE DEF pick, S
    <3> QED
      BY <1>2 DEF IsFold
  <2> QED
    BY <1>1, <2>1
<1> QED
  BY <1>3 DEF FoldsByMax

(* It goes up one element at a time.                                        *)
LEMMA FoldGoesUp ==
    ASSUME NEW n \in Nat, NEW V, NEW base \in V, NEW step, Steps(step, n, V),
           NEW k, FoldsWithin(k, n, V, base, step)
    PROVE  GoesUp(k, n, V, base, step)
<1> DEFINE S == 1 .. n
           Bad == {s \in SUBSET S : k[s] \notin V}
<1>0. /\ step \in [(1 .. n) \X V -> V] /\ k[{}] = base
      /\ \A s \in SUBSET (1 .. n) : s # {} /\ k[s \ {Max(s)}] \in V =>
             k[s] = step[<<Max(s), k[s \ {Max(s)}]>>]
  BY DEF Steps, FoldsWithin
<1>1. Bad = {}
  <2> SUFFICES ASSUME Bad # {} PROVE FALSE
    OBVIOUS
  <2>1. PICK t \in Bad : \A u \in Bad : u \subseteq t => u = t
    <3>1. Bad \subseteq SUBSET S /\ IsFiniteSet(S)
      BY FS_Interval
    <3> HIDE DEF Bad, S
    <3> QED
      BY <3>1, SmallestSubset
  <2>2. t \in SUBSET S /\ t # {}
    BY <1>0
  <2>3. Max(t) \in t
    BY <2>2, MaxOfFirst
  <2>4. t \ {Max(t)} \in SUBSET S /\ t \ {Max(t)} \notin Bad
    <3> HIDE DEF Bad, S
    <3> QED
      BY <2>1, <2>2, <2>3
  <2>5. k[t \ {Max(t)}] \in V
    BY <2>4
  <2>6. k[t] = step[<<Max(t), k[t \ {Max(t)}]>>]
    BY <1>0, <2>2, <2>5
  <2>7. k[t] \in V
    BY <1>0, <2>2, <2>3, <2>5, <2>6
  <2> QED
    BY <2>1, <2>7
<1>2. ASSUME NEW i \in 0 .. n
      PROVE  k[1 .. i] \in V
  <2>1. 1 .. i \in SUBSET S
    OBVIOUS
  <2> QED
    BY <1>1, <2>1
<1>3. k[1 .. 0] = base
  <2>1. 1 .. 0 = {}
    OBVIOUS
  <2> QED
    BY <1>0, <2>1
<1>4. ASSUME NEW i \in 1 .. n
      PROVE  k[1 .. i] = step[<<i, k[1 .. (i - 1)]>>]
  <2>1. i \in Nat /\ i # 0 /\ i - 1 \in 0 .. n /\ 1 .. i \in SUBSET S /\ 1 .. i # {}
    OBVIOUS
  <2>2. Max(1 .. i) = i /\ (1 .. i) \ {i} = 1 .. (i - 1)
    BY <2>1, MaxOfFirst
  <2>3. k[1 .. (i - 1)] \in V
    BY <1>2, <2>1
  <2> QED
    BY <1>0, <2>1, <2>2, <2>3
<1> QED
  BY <1>2, <1>3, <1>4 DEF GoesUp
-----------------------------------------------------------------------------
(* Tallies as the gates keep them.                                          *)
TallyOf(s, set, R) ==
    /\ s = [total |-> s.total, samples |-> s.samples]
    /\ Tally(s.total, s.samples, Cap, set, R)

(* The first of a sequence: a prefix no longer than the cap.                *)
LEMMA FirstIs ==
    ASSUME NEW S, NEW s \in Seq(S)
    PROVE  /\ First(s) \in Seq(S)
           /\ Len(First(s)) = IF Len(s) < Cap THEN Len(s) ELSE Cap
           /\ \A i \in 1 .. Len(First(s)) : First(s)[i] = s[i]
<1> DEFINE m == IF Len(s) < Cap THEN Len(s) ELSE Cap
<1>1. Cap \in Nat /\ Len(s) \in Nat /\ m \in Nat /\ m <= Len(s)
  BY ComparisonAssumption
<1>2. First(s) = SubSeq(s, 1, m)
  BY DEF First
<1> HIDE DEF m
<1>3. /\ SubSeq(s, 1, m) \in Seq(S) /\ Len(SubSeq(s, 1, m)) = m
      /\ \A i \in 1 .. m : SubSeq(s, 1, m)[i] = s[i]
  BY <1>1, SubSeqProperties
<1> QED
  BY <1>1, <1>2, <1>3 DEF m

(* An empty tally, and the tally of one more.                               *)
LEMMA NoneTallied ==
    ASSUME NEW R
    PROVE  TallyOf(None, {}, R)
  BY ComparisonAssumption, TallyOfNone DEF TallyOf, None

(* One more, after all of the others, is counted and perhaps shown.         *)
LEMMA AddTallies ==
    ASSUME NEW s, NEW set, NEW R, TallyOf(s, set, R), NEW x, After(x, set, R)
    PROVE  TallyOf(Add(s, x), set \cup {x}, R)
<1> DEFINE shown == s.samples
           new == IF Len(shown) < Cap THEN Append(shown, x) ELSE shown
<1>1. Cap \in Nat
  BY ComparisonAssumption
<1>2. /\ s.total \in Nat /\ shown \in Seq(set) /\ Len(shown) <= Cap
      /\ Tally(s.total + 1, new, Cap, set \cup {x}, R)
  <2> HIDE DEF shown
  <2>1. Tally(s.total, shown, Cap, set, R)
    BY DEF TallyOf, shown
  <2> QED
    BY <1>1, <2>1, TallyGrows
<1>3. First(Append(shown, x)) = new
  <2> HIDE DEF shown
  <2>1. Append(shown, x) \in Seq(set \cup {x}) /\ Len(Append(shown, x)) = Len(shown) + 1
        /\ shown \in Seq(set \cup {x}) /\ new \in Seq(set \cup {x})
        /\ \A i \in 1 .. Len(shown) : Append(shown, x)[i] = shown[i]
    BY <1>2
  <2> DEFINE longer == Append(shown, x)
  <2>2. /\ First(longer) \in Seq(set \cup {x})
        /\ Len(First(longer)) = IF Len(longer) < Cap THEN Len(longer) ELSE Cap
        /\ \A i \in 1 .. Len(First(longer)) : First(longer)[i] = longer[i]
    <3> HIDE DEF longer
    <3>1. longer \in Seq(set \cup {x})
      BY <2>1 DEF longer
    <3> QED
      BY <3>1, FirstIs
  <2>3. Len(First(longer)) = Len(new)
    BY <1>1, <1>2, <2>1, <2>2
  <2>4. \A i \in 1 .. Len(new) : First(longer)[i] = new[i]
    BY <1>1, <1>2, <2>1, <2>2, <2>3
  <2> HIDE DEF new, longer
  <2> QED
    BY <2>1, <2>2, <2>3, <2>4, SeqEqual DEF longer
<1>4. Add(s, x).total = s.total + 1 /\ Add(s, x).samples = First(Append(shown, x))
  BY DEF Add
<1>5. Add(s, x) = [total |-> Add(s, x).total, samples |-> Add(s, x).samples]
  BY DEF Add
<1> HIDE DEF shown, new
<1> QED
  BY <1>2, <1>3, <1>4, <1>5 DEF TallyOf

(* What comes after every element of a set is out of it.                    *)
LEMMA LaterIsAfter ==
    ASSUME NEW U, NEW R, StrictOrder(R, U), NEW set, set \subseteq U, NEW x \in U,
           \A y \in set : <<y, x>> \in R
    PROVE  After(x, set, R)
<1>1. \A y \in set : <<x, y>> \notin R
  BY DEF StrictOrder
<1> QED
  BY <1>1 DEF After, StrictOrder

(* Merge, when one set lies wholly before the other.                        *)
LEMMA MergeTallies ==
    ASSUME NEW U, NEW R, StrictOrder(R, U),
           NEW A, NEW B, A \subseteq U, B \subseteq U, \A x \in A, y \in B : <<x, y>> \in R,
           NEW c, NEW o, TallyOf(c, A, R), TallyOf(o, B, R)
    PROVE  TallyOf(Merge(c, o), A \cup B, R)
<1> DEFINE s == c.samples  t == o.samples  both == s \o t  m == c.total  n == o.total
<1>1. /\ Cap \in Nat /\ IsFiniteSet(A) /\ IsFiniteSet(B)
      /\ m = Cardinality(A) /\ n = Cardinality(B) /\ m \in Nat /\ n \in Nat
      /\ s \in Seq(A) /\ t \in Seq(B)
      /\ Len(s) = (IF m < Cap THEN m ELSE Cap) /\ Len(t) = (IF n < Cap THEN n ELSE Cap)
      /\ \A j \in 1 .. Len(s) : Cardinality(Below(s[j], R, A)) = j - 1
      /\ \A j \in 1 .. Len(t) : Cardinality(Below(t[j], R, B)) = j - 1
  BY ComparisonAssumption, FS_CardinalityType DEF TallyOf, Tally
<1>2. \A x \in A, y \in B : <<y, x>> \notin R
  BY DEF StrictOrder
<1>3. A \cap B = {}
  BY DEF StrictOrder
<1>4. IsFiniteSet(A \cup B) /\ Cardinality(A \cup B) = m + n
  <2>1. Cardinality(A \cap B) = 0
    BY <1>3, FS_EmptySet
  <2> HIDE DEF s, t, m, n
  <2>2. IsFiniteSet(A \cup B)
        /\ Cardinality(A \cup B) = Cardinality(A) + Cardinality(B) - Cardinality(A \cap B)
    BY <1>1, FS_Union
  <2> QED
    BY <1>1, <2>1, <2>2
<1>5. \A x \in A : Below(x, R, A \cup B) = Below(x, R, A)
  BY <1>2 DEF Below
<1>6. ASSUME NEW y \in B
      PROVE  Cardinality(Below(y, R, A \cup B)) = m + Cardinality(Below(y, R, B))
  <2>1. Below(y, R, A \cup B) = A \cup Below(y, R, B)
    BY DEF Below
  <2>2. A \cap Below(y, R, B) = {} /\ Below(y, R, B) \subseteq B
    BY <1>3 DEF Below
  <2>3. IsFiniteSet(Below(y, R, B)) /\ Cardinality(Below(y, R, B)) \in Nat
    BY <1>1, <2>2, FS_Subset, FS_CardinalityType
  <2>4. Cardinality(A \cap Below(y, R, B)) = 0
    BY <2>2, FS_EmptySet
  <2> DEFINE C == Below(y, R, B)
  <2> HIDE DEF s, t, n, C
  <2>5. Cardinality(A \cup C) = Cardinality(A) + Cardinality(C) - Cardinality(A \cap C)
    BY <1>1, <2>3, FS_Union DEF C
  <2>6. Cardinality(C) \in Nat /\ Cardinality(A \cap C) = 0 /\ Cardinality(A) = m
    BY <1>1, <2>3, <2>4 DEF C
  <2>7. Cardinality(A \cup C) = m + Cardinality(C)
    BY <1>1, <2>5, <2>6
  <2> QED
    BY <2>1, <2>7 DEF C
<1> DEFINE len == Len(First(both))
<1>7. /\ s \in Seq(A \cup B) /\ t \in Seq(A \cup B) /\ Len(s) \in Nat /\ Len(t) \in Nat
      /\ \A j \in 1 .. Len(s) : s[j] \in A
      /\ \A j \in 1 .. Len(t) : t[j] \in B
  <2> HIDE DEF s, t
  <2> QED
    BY <1>1
<1>8. /\ both \in Seq(A \cup B) /\ Len(both) = Len(s) + Len(t)
      /\ \A i \in 1 .. Len(s) + Len(t) : both[i] = IF i <= Len(s) THEN s[i] ELSE t[i - Len(s)]
  <2> HIDE DEF s, t
  <2> QED
    BY <1>7, ConcatProperties
<1>9. /\ First(both) \in Seq(A \cup B)
      /\ len = IF Len(both) < Cap THEN Len(both) ELSE Cap
      /\ \A i \in 1 .. len : First(both)[i] = both[i]
  <2> HIDE DEF both
  <2> QED
    BY <1>8, FirstIs
<1> HIDE DEF s, t, both, m, n
<1>10. len = IF m + n < Cap THEN m + n ELSE Cap
  BY SMTT(30), <1>1, <1>8, <1>9
<1>11. ASSUME NEW j \in 1 .. len
       PROVE  Cardinality(Below(First(both)[j], R, A \cup B)) = j - 1
  <2>1. len \in Nat /\ j \in 1 .. Len(s) + Len(t) /\ j \in Nat
    BY <1>1, <1>7, <1>8, <1>9
  <2>2. CASE j <= Len(s)
    <3>1. First(both)[j] = s[j] /\ j \in 1 .. Len(s)
      BY <1>7, <1>8, <1>9, <2>1, <2>2
    <3> QED
      BY <1>1, <1>5, <1>7, <3>1
  <2>3. CASE ~(j <= Len(s))
    <3>1. Len(s) = m /\ j - Len(s) \in 1 .. Len(t)
      BY <1>1, <1>7, <1>10, <2>1, <2>3
    <3>2. First(both)[j] = t[j - Len(s)]
      BY <1>8, <1>9, <2>1, <2>3
    <3>3. t[j - Len(s)] \in B /\ Cardinality(Below(t[j - Len(s)], R, B)) = j - Len(s) - 1
      BY <1>1, <1>7, <3>1
    <3>4. Cardinality(Below(t[j - Len(s)], R, A \cup B)) = m + (j - Len(s) - 1)
      BY <1>6, <3>3
    <3> QED
      BY SMTT(30), <1>1, <2>1, <3>1, <3>2, <3>4
  <2> QED
    BY <2>2, <2>3
<1>12. Merge(c, o).total = m + n /\ Merge(c, o).samples = First(both)
  BY DEF Merge, m, n, both, s, t
<1>13. Merge(c, o) = [total |-> Merge(c, o).total, samples |-> Merge(c, o).samples]
  BY DEF Merge
<1> HIDE DEF len
<1> QED
  BY <1>4, <1>9, <1>10, <1>11, <1>12, <1>13
  DEF TallyOf, Tally, len

(* AddAll takes the elements in their order.                                *)
Samples(V) == [total : Nat, samples : Seq(V)]
AddsUp(g, s, vs, V) ==
    /\ g \in [0 .. Len(vs) -> Samples(V)]
    /\ g[0] = s
    /\ \A i \in 1 .. Len(vs) : g[i] = Add(g[i - 1], vs[i])
    /\ AddAll(s, vs) = g[Len(vs)]

(* AddAll is reached one element at a time.                                 *)
LEMMA AddAllGoes ==
    ASSUME NEW V, NEW vs \in Seq(V), NEW s \in Samples(V)
    PROVE  \E g : AddsUp(g, s, vs, V)
<1> DEFINE n == Len(vs)
           W == [total : Nat, samples : Seq(V)]
           step == [z \in (1 .. n) \X W |-> Add(z[2], vs[z[1]])]
<1>1. n \in Nat /\ \A i \in 1 .. n : vs[i] \in V
  OBVIOUS
<1>2. ASSUME NEW i \in 1 .. n, NEW w \in W
      PROVE  Add(w, vs[i]) \in W
  <2>1. Append(w.samples, vs[i]) \in Seq(V) /\ w.total + 1 \in Nat
    BY <1>1
  <2>2. First(Append(w.samples, vs[i])) \in Seq(V)
    BY <2>1, FirstIs
  <2> QED
    BY <2>1, <2>2 DEF Add
<1>3. Steps(step, n, W)
  <2> HIDE DEF W
  <2> QED
    BY <1>2 DEF Steps
<1> DEFINE F == CHOOSE f : f = [T \in SUBSET (1 .. n) |->
                              IF T = {} THEN s ELSE Add(f[T \ {Max(T)}], vs[Max(T)])]
<1>4. AddAll(s, vs) = F[1 .. n]
  <2>1. DOMAIN vs = 1 .. n
    OBVIOUS
  <2>2. AddAll(s, vs) = (CHOOSE f : f = [T \in SUBSET (DOMAIN vs) |->
                          IF T = {} THEN s ELSE Add(f[T \ {Max(T)}], vs[Max(T)])])[DOMAIN vs]
    BY Zenon DEF AddAll, FoldLeft, MapThenFoldSet
  <2> QED
    BY <2>1, <2>2
<1>5. F = [T \in SUBSET (1 .. n) |->
              IF T = {} THEN s ELSE Add(F[T \ {Max(T)}], vs[Max(T)])]
  <2>1. PICK h \in [SUBSET (1 .. n) -> W] : FoldsByMax(h, n, s, step)
    <3> HIDE DEF step, W, n
    <3>1. s \in W
      BY DEF W, Samples
    <3> QED
      BY <1>1, <1>3, <3>1, FoldByMax
  <2>2. ASSUME NEW T \in SUBSET (1 .. n)
        PROVE  h[T] = IF T = {} THEN s ELSE Add(h[T \ {Max(T)}], vs[Max(T)])
    <3>1. T # {} => Max(T) \in 1 .. n
      BY <1>1, MaxOfFirst
    <3>2. h[T \ {Max(T)}] \in W
      BY <2>1
    <3>3. h[T] = IF T = {} THEN s ELSE step[<<Max(T), h[T \ {Max(T)}]>>]
      <4> HIDE DEF step, n
      <4> QED
        BY <2>1 DEF FoldsByMax
    <3> HIDE DEF W
    <3> QED
      BY <3>1, <3>2, <3>3
  <2>3. h = [T \in SUBSET (1 .. n) |->
               IF T = {} THEN s ELSE Add(h[T \ {Max(T)}], vs[Max(T)])]
    <3>1. h = [T \in SUBSET (1 .. n) |-> h[T]]
      OBVIOUS
    <3> QED
      BY <2>2, <3>1
  <2> QED
    BY <2>3
<1> HIDE DEF F
<1>6. \A T \in SUBSET (1 .. n) : T # {} /\ F[T \ {Max(T)}] \in W =>
          F[T] = step[<<Max(T), F[T \ {Max(T)}]>>]
  <2> TAKE T \in SUBSET (1 .. n)
  <2> SUFFICES ASSUME T # {}, F[T \ {Max(T)}] \in W
               PROVE  F[T] = step[<<Max(T), F[T \ {Max(T)}]>>]
    OBVIOUS
  <2>1. Max(T) \in 1 .. n
    BY <1>1, MaxOfFirst
  <2>2. F[T] = Add(F[T \ {Max(T)}], vs[Max(T)])
    BY <1>5
  <2> HIDE DEF W
  <2> QED
    BY <2>1, <2>2
<1>7. F[{}] = s
  <2>1. {} \in SUBSET (1 .. n)
    OBVIOUS
  <2> QED
    BY <1>5, <2>1
<1>8. \A i \in 0 .. n : /\ F[1 .. i] \in W
                        /\ i = 0 => F[1 .. i] = s
                        /\ i # 0 => F[1 .. i] = step[<<i, F[1 .. (i - 1)]>>]
  <2>1. s \in W
    BY DEF Samples
  <2> HIDE DEF step, W, n
  <2>2. FoldsWithin(F, n, W, s, step)
    BY <1>6, <1>7 DEF FoldsWithin
  <2>3. GoesUp(F, n, W, s, step)
    BY <1>1, <1>3, <2>1, <2>2, FoldGoesUp
  <2> QED
    BY <2>3 DEF GoesUp
<1> DEFINE g == [i \in 0 .. n |-> F[1 .. i]]
<1>9. g \in [0 .. n -> W] /\ g[0] = s /\ AddAll(s, vs) = g[n]
  <2> HIDE DEF W, n, step
  <2>1. n \in 0 .. n /\ 0 \in 0 .. n
    BY <1>1
  <2> QED
    BY <1>4, <1>8, <2>1
<1>10. ASSUME NEW i \in 1 .. n
       PROVE  g[i] = Add(g[i - 1], vs[i])
  <2>1. i - 1 \in 0 .. n /\ i \in 0 .. n /\ i # 0
    BY <1>1
  <2>2. F[1 .. (i - 1)] \in W
    BY <1>8, <2>1
  <2>3. F[1 .. i] = step[<<i, F[1 .. (i - 1)]>>]
    <3> HIDE DEF step
    <3> QED
      BY <1>8, <2>1
  <2> HIDE DEF W
  <2> QED
    BY <2>1, <2>2, <2>3
<1> HIDE DEF g
<1>11. AddsUp(g, s, vs, V)
  BY <1>9, <1>10 DEF AddsUp, Samples
<1> QED
  BY <1>11

(* What is added comes in order, each after all before it.                  *)
LEMMA AddAllTallies ==
    ASSUME NEW V, NEW vs \in Seq(V), NEW A, NEW R, NEW s, TallyOf(s, A, R),
           \A i \in 1 .. Len(vs) : After(vs[i], A \cup {vs[j] : j \in 1 .. i - 1}, R)
    PROVE  TallyOf(AddAll(s, vs), A \cup {vs[i] : i \in 1 .. Len(vs)}, R)
<1> DEFINE n == Len(vs)
           W == V \cup A
           So(i) == A \cup {vs[j] : j \in 1 .. i}
<1>1. n \in Nat /\ vs \in Seq(W)
  OBVIOUS
<1>2. s \in Samples(W)
  <2>1. s.total \in Nat /\ s.samples \in Seq(A)
    BY FS_CardinalityType DEF TallyOf, Tally
  <2>2. s.samples \in Seq(W)
    BY <2>1
  <2>3. s = [total |-> s.total, samples |-> s.samples]
    BY DEF TallyOf
  <2> HIDE DEF W
  <2> QED
    BY <2>1, <2>2, <2>3 DEF Samples
<1>3. PICK g : /\ g[0] = s
               /\ \A i \in 1 .. n : g[i] = Add(g[i - 1], vs[i])
               /\ AddAll(s, vs) = g[n]
  <2> HIDE DEF W
  <2>1. PICK g : AddsUp(g, s, vs, W)
    BY <1>1, <1>2, AddAllGoes
  <2> QED
    BY <2>1 DEF AddsUp
<1> DEFINE Bad == {i \in 0 .. n : ~TallyOf(g[i], So(i), R)}
<1>4. 0 \notin Bad
  <2>1. So(0) = A
    OBVIOUS
  <2> HIDE DEF So
  <2> QED
    BY <1>3, <2>1
<1>5. ASSUME NEW i \in 1 .. n, i \in Bad
      PROVE  i - 1 \in Bad
  <2>1. i - 1 \in 0 .. n
    BY <1>1
  <2>2. So(i) = So(i - 1) \cup {vs[i]}
    <3>1. 1 .. i = (1 .. (i - 1)) \cup {i}
      OBVIOUS
    <3> QED
      BY <3>1
  <2>3. After(vs[i], So(i - 1), R)
    OBVIOUS
  <2>4. g[i] = Add(g[i - 1], vs[i])
    BY <1>3
  <2> HIDE DEF So
  <2>5. TallyOf(g[i - 1], So(i - 1), R) => TallyOf(g[i], So(i), R)
    BY <2>2, <2>3, <2>4, AddTallies
  <2> QED
    BY <1>5, <2>1, <2>5
<1>6. Bad = {}
  <2> SUFFICES ASSUME Bad # {} PROVE FALSE
    OBVIOUS
  <2>1. Bad \subseteq Nat
    BY <1>1
  <2> HIDE DEF Bad
  <2>2. PICK i \in Bad : \A j \in Bad : i <= j
    BY <2>1, LeastOf
  <2>3. i # 0 /\ i \in Nat /\ i \in 1 .. n
    <3>1. i \in 0 .. n
      BY <2>2 DEF Bad
    <3>2. i # 0
      BY <1>4, <2>2
    <3> QED
      BY <1>1, <3>1, <3>2
  <2>4. i - 1 \in Bad
    BY <1>5, <2>2, <2>3
  <2> QED
    BY <2>2, <2>3, <2>4
<1>7. n \in 0 .. n
  BY <1>1
<1> HIDE DEF So
<1>8. TallyOf(g[n], So(n), R)
  BY <1>6, <1>7
<1> QED
  BY <1>3, <1>8 DEF So

(* Keys of one number are ordered as the number.                            *)
LEMMA OneNumber ==
    ASSUME NEW k \in Int, NEW l \in Int
    PROVE  Before(<<l>>, <<k>>) <=> l < k
<1> DEFINE x == <<l>>  y == <<k>>
<1>1. DOMAIN x = {1} /\ x[1] = l /\ y[1] = k
  OBVIOUS
<1> HIDE DEF x, y
<1>2. Before(x, y) <=> l < k
  BY <1>1 DEF Before
<1> QED
  BY <1>2 DEF x, y

(* Ordered lists a set of numbers, each once, the smaller first.            *)
InOrder(q, keys) ==
    /\ q \in Seq(keys) /\ Len(q) = Cardinality(keys) /\ Len(q) \in Nat
    /\ \A i, j \in 1 .. Len(q) : i < j <=> q[i] < q[j]
    /\ keys = {q[i] : i \in 1 .. Len(q)}

(* Ordered lists the keys of a finite set so.                               *)
LEMMA OrderedIs ==
    ASSUME NEW keys, IsFiniteSet(keys), keys \subseteq Int
    PROVE  InOrder(Ordered(keys), keys)
<1> DEFINE rank == [k \in keys |-> <<k>>]
           n == Cardinality(keys)
           q == Ordered(keys)
<1>1. /\ \A k \in keys : rank[k] \in [1 .. 1 -> Int]
      /\ \A k, l \in keys : rank[k] = rank[l] => k = l
      /\ \A k, l \in keys : Before(rank[l], rank[k]) <=> l < k
  <2>1. \A k \in keys : <<k>> \in [1 .. 1 -> Int] /\ <<k>>[1] = k /\ DOMAIN <<k>> = {1}
    OBVIOUS
  <2>2. ASSUME NEW k \in keys, NEW l \in keys
        PROVE  Before(<<l>>, <<k>>) <=> l < k
    <3>1. k \in Int /\ l \in Int
      OBVIOUS
    <3> QED
      BY <3>1, OneNumber
  <2> QED
    BY <2>1, <2>2
<1>2. \A k \in keys : {l \in keys : l < k} = {r \in keys : Before(rank[r], rank[k])}
  BY <1>1
<1> HIDE DEF rank
<1>3. q = [i \in 1 .. Cardinality(keys) |->
              CHOOSE x \in keys : Cardinality({r \in keys : Before(rank[r], rank[x])}) = i - 1]
  <2> DEFINE Next1(i) == CHOOSE k \in keys : Cardinality({l \in keys : l < k}) = i - 1
             Next2(i) == CHOOSE x \in keys :
                 Cardinality({r \in keys : Before(rank[r], rank[x])}) = i - 1
  <2>1. \A i : Next1(i) = Next2(i)
    BY <1>2
  <2>2. q = [i \in 1 .. Cardinality(keys) |-> Next1(i)]
    BY DEF Ordered
  <2> HIDE DEF q, Next1, Next2
  <2>3. q = [i \in 1 .. Cardinality(keys) |-> Next2(i)]
    BY <2>1, <2>2
  <2> QED
    BY <2>3 DEF Next2
<1> DEFINE m == 1
<1>4. m \in Nat /\ \A k \in keys : rank[k] \in [1 .. m -> Int]
  BY <1>1
<1> HIDE DEF m, q
<1>5. InRank(q, ByKey(rank, keys), keys)
  BY <1>1, <1>3, <1>4, OrderedBy
<1>6. \A k, l \in keys : <<l, k>> \in ByKey(rank, keys) <=> l < k
  BY <1>1 DEF ByKey
<1>7. /\ n \in Nat /\ q = [i \in 1 .. n |-> q[i]] /\ \A i \in 1 .. n : q[i] \in keys
      /\ \A x \in keys : \E i \in 1 .. n : q[i] = x
      /\ \A i, j \in 1 .. n : i < j <=> q[i] < q[j]
  BY <1>5, <1>6 DEF InRank
<1>8. q \in Seq(keys) /\ Len(q) = n
  <2> HIDE DEF n
  <2> QED
    BY <1>7
<1> HIDE DEF n
<1>9. InOrder(q, keys)
  BY <1>7, <1>8 DEF InOrder, n
<1> QED
  BY <1>9 DEF q

(* The findings of one key, in the order of their columns.                  *)
FollowsOn(k, columns, A, U, R) ==
    /\ StrictOrder(R, U) /\ A \subseteq U
    /\ IsFiniteSet(columns) /\ columns \subseteq Int
    /\ \A c \in columns : <<k, c>> \in U /\ \A x \in A : <<x, <<k, c>>>> \in R
    /\ \A c, d \in columns : c < d => <<<<k, c>>, <<k, d>>>> \in R

(* They are tallied behind what was tallied before them.                    *)
LEMMA ListedTallies ==
    ASSUME NEW U, NEW R, NEW A, NEW s, TallyOf(s, A, R),
           NEW k, NEW columns, FollowsOn(k, columns, A, U, R)
    PROVE  /\ TallyOf(AddAll(s, Keyed(k, columns)), A \cup {<<k, c>> : c \in columns}, R)
           /\ Len(Keyed(k, columns)) = Cardinality(columns)
<1> DEFINE q == Ordered(columns)
           vs == Keyed(k, columns)
           V == {<<k, c>> : c \in columns}
<1>1. /\ StrictOrder(R, U) /\ A \subseteq U
      /\ IsFiniteSet(columns) /\ columns \subseteq Int
      /\ \A c \in columns : <<k, c>> \in U /\ \A x \in A : <<x, <<k, c>>>> \in R
      /\ \A c, d \in columns : c < d => <<<<k, c>>, <<k, d>>>> \in R
  BY DEF FollowsOn
<1>2. /\ q \in Seq(columns) /\ Len(q) = Cardinality(columns) /\ Len(q) \in Nat
      /\ \A i, j \in 1 .. Len(q) : i < j <=> q[i] < q[j]
      /\ columns = {q[i] : i \in 1 .. Len(q)}
  BY <1>1, OrderedIs DEF InOrder
<1>3. vs = [i \in 1 .. Len(q) |-> <<k, q[i]>>]
  <2>1. DOMAIN q = 1 .. Len(q)
    BY <1>2
  <2> QED
    BY <2>1 DEF Keyed
<1> HIDE DEF q, vs
<1>4. vs \in Seq(V) /\ Len(vs) = Len(q)
  <2>1. \A i \in 1 .. Len(q) : <<k, q[i]>> \in V
    BY <1>2
  <2> HIDE DEF V
  <2>2. vs \in [1 .. Len(q) -> V]
    BY <1>3, <2>1
  <2> DEFINE m == Len(q)
  <2>3. m \in Nat /\ vs \in [1 .. m -> V]
    BY <1>2, <2>2
  <2> HIDE DEF m
  <2>4. vs \in Seq(V) /\ Len(vs) = m
    BY <2>3
  <2> QED
    BY <2>4 DEF m
<1>5. ASSUME NEW i \in 1 .. Len(vs)
      PROVE  After(vs[i], A \cup {vs[j] : j \in 1 .. i - 1}, R)
  <2>1. /\ i \in 1 .. Len(q) /\ vs[i] = <<k, q[i]>> /\ q[i] \in columns
        /\ \A j \in 1 .. i - 1 : j \in 1 .. Len(q) /\ j < i
    <3>1. i \in 1 .. Len(q) /\ Len(q) \in Nat
      BY <1>2, <1>4
    <3>2. vs[i] = <<k, q[i]>> /\ q[i] \in columns
      BY <1>2, <1>3, <3>1
    <3> QED
      BY <3>1, <3>2
  <2>2. \A j \in 1 .. i - 1 : /\ vs[j] = <<k, q[j]>> /\ q[j] \in columns /\ q[j] < q[i]
    BY <1>2, <1>3, <2>1
  <2> DEFINE before == A \cup {vs[j] : j \in 1 .. i - 1}
  <2>3. \A j \in 1 .. i - 1 : vs[j] \in U /\ <<vs[j], vs[i]>> \in R
    BY <1>1, <2>1, <2>2
  <2>4. vs[i] \in U /\ \A x \in A : <<x, vs[i]>> \in R
    BY <1>1, <2>1
  <2>5. before \subseteq U /\ \A x \in before : <<x, vs[i]>> \in R
    BY <1>1, <2>3, <2>4
  <2> HIDE DEF before
  <2>6. After(vs[i], before, R)
    BY <1>1, <2>4, <2>5, LaterIsAfter
  <2> QED
    BY <2>6 DEF before
<1>6. {vs[i] : i \in 1 .. Len(vs)} = V
  <2>1. \A i \in 1 .. Len(vs) : vs[i] = <<k, q[i]>>
    BY <1>3, <1>4
  <2> QED
    BY <1>2, <1>4, <2>1
<1> HIDE DEF V
<1>7. TallyOf(AddAll(s, vs), A \cup V, R)
  <2>1. TallyOf(AddAll(s, vs), A \cup {vs[i] : i \in 1 .. Len(vs)}, R)
    BY <1>4, <1>5, AddAllTallies
  <2> QED
    BY <1>6, <2>1
<1> QED
  BY <1>2, <1>4, <1>7 DEF vs, V

-----------------------------------------------------------------------------
(* The orders of the findings: by keys, and by keys and columns.            *)
Ranks(rank, K, m) ==
    /\ m \in Nat
    /\ \A k \in K : rank[k] \in [1 .. m -> Int]
    /\ \A k, l \in K : rank[k] = rank[l] => k = l

(* Keys with different ranks are in the order of their ranks.               *)
LEMMA RanksOrder ==
    ASSUME NEW K, NEW rank, NEW m, Ranks(rank, K, m)
    PROVE  /\ StrictOrder(ByKey(rank, K), K)
           /\ \A k, l \in K : <<k, l>> \in ByKey(rank, K) <=> Before(rank[k], rank[l])
<1>1. m \in Nat /\ (\A k \in K : rank[k] \in [1 .. m -> Int])
      /\ \A k, l \in K : rank[k] = rank[l] => k = l
  BY DEF Ranks
<1>2. StrictOrder({pair \in K \X K : Before(rank[pair[1]], rank[pair[2]])}, K)
  BY <1>1, BeforeOrders
<1> QED
  BY <1>2 DEF ByKey

(* A key with a column after it.                                            *)
LEMMA BeforeWithColumn ==
    ASSUME NEW m \in Nat, NEW x \in [1 .. m -> Int], NEW y \in [1 .. m -> Int],
           NEW c \in Int, NEW d \in Int
    PROVE  /\ Append(x, c) \in [1 .. (m + 1) -> Int]
           /\ Append(x, c) = Append(y, d) => x = y /\ c = d
           /\ Before(Append(x, c), Append(y, d)) <=> Before(x, y) \/ (x = y /\ c < d)
<1> DEFINE xc == Append(x, c)  yd == Append(y, d)
<1>1. x \in Seq(Int) /\ y \in Seq(Int) /\ Len(x) = m /\ Len(y) = m
  OBVIOUS
<1>2. /\ xc \in [1 .. (m + 1) -> Int] /\ yd \in [1 .. (m + 1) -> Int]
      /\ \A i \in 1 .. m : xc[i] = x[i] /\ yd[i] = y[i]
      /\ xc[m + 1] = c /\ yd[m + 1] = d
  <2>1. /\ xc \in Seq(Int) /\ yd \in Seq(Int) /\ Len(xc) = m + 1 /\ Len(yd) = m + 1
        /\ \A i \in 1 .. m : xc[i] = x[i] /\ yd[i] = y[i]
        /\ xc[m + 1] = c /\ yd[m + 1] = d
    BY <1>1, AppendProperties
  <2> HIDE DEF xc, yd
  <2> QED
    BY <2>1
<1> HIDE DEF xc, yd
<1>3. xc = yd => x = y /\ c = d
  <2> SUFFICES ASSUME xc = yd PROVE x = y /\ c = d
    OBVIOUS
  <2>1. \A i \in 1 .. m : x[i] = y[i]
    BY <1>2
  <2> QED
    BY <1>2, <2>1
<1>4. Before(xc, yd) <=> \E i \in 1 .. m + 1 :
          xc[i] < yd[i] /\ \A j \in 1 .. i - 1 : xc[j] = yd[j]
  <2>1. DOMAIN xc = 1 .. m + 1
    BY <1>2
  <2> QED
    BY <2>1 DEF Before
<1>5. Before(x, y) <=> \E i \in 1 .. m : x[i] < y[i] /\ \A j \in 1 .. i - 1 : x[j] = y[j]
  BY DEF Before
<1>6. Before(x, y) => Before(xc, yd)
  BY <1>2, <1>4, <1>5
<1>7. x = y /\ c < d => Before(xc, yd)
  <2> SUFFICES ASSUME x = y, c < d PROVE Before(xc, yd)
    OBVIOUS
  <2>1. m + 1 \in 1 .. m + 1 /\ \A j \in 1 .. (m + 1) - 1 : xc[j] = yd[j]
    BY <1>2
  <2> QED
    BY <1>2, <1>4, <2>1
<1>8. Before(xc, yd) => Before(x, y) \/ (x = y /\ c < d)
  <2> SUFFICES ASSUME Before(xc, yd) PROVE Before(x, y) \/ (x = y /\ c < d)
    OBVIOUS
  <2>1. PICK i \in 1 .. m + 1 : xc[i] < yd[i] /\ \A j \in 1 .. i - 1 : xc[j] = yd[j]
    BY <1>4
  <2>2. CASE i \in 1 .. m
    BY <1>2, <1>5, <2>1, <2>2
  <2>3. CASE i = m + 1
    <3>1. \A j \in 1 .. m : x[j] = y[j]
      BY <1>2, <2>1, <2>3
    <3> QED
      BY <1>2, <2>1, <2>3, <3>1
  <2> QED
    BY <2>2, <2>3
<1> QED
  BY <1>2, <1>3, <1>6, <1>7, <1>8 DEF xc, yd

(* The rank of a finding <<key, column>>.                                   *)
ValueRank(rank, K) == [kc \in K \X Int |-> Append(rank[kc[1]], kc[2])]

(* It is the rank of its key and, within a key, its column.                 *)
LEMMA ValuesRanked ==
    ASSUME NEW K, NEW rank, NEW m, Ranks(rank, K, m)
    PROVE  /\ Ranks(ValueRank(rank, K), K \X Int, m + 1)
           /\ \A k, l \in K : \A c, d \in Int :
                /\ ValueRank(rank, K)[<<k, c>>] = Append(rank[k], c)
                /\ Before(ValueRank(rank, K)[<<k, c>>], ValueRank(rank, K)[<<l, d>>])
                     <=> Before(rank[k], rank[l]) \/ (k = l /\ c < d)
<1>1. m \in Nat /\ (\A k \in K : rank[k] \in [1 .. m -> Int])
      /\ \A k, l \in K : rank[k] = rank[l] => k = l
  BY DEF Ranks
<1> DEFINE V == ValueRank(rank, K)
<1>2. \A k \in K, c \in Int : V[<<k, c>>] = Append(rank[k], c)
  BY DEF ValueRank
<1>3. ASSUME NEW k \in K, NEW l \in K, NEW c \in Int, NEW d \in Int
      PROVE  /\ V[<<k, c>>] \in [1 .. (m + 1) -> Int]
             /\ V[<<k, c>>] = V[<<l, d>>] => k = l /\ c = d
             /\ Before(V[<<k, c>>], V[<<l, d>>]) <=> Before(rank[k], rank[l]) \/ (k = l /\ c < d)
  <2> DEFINE x == rank[k]  y == rank[l]
  <2>1. x \in [1 .. m -> Int] /\ y \in [1 .. m -> Int] /\ (x = y <=> k = l)
    BY <1>1
  <2>2. V[<<k, c>>] = Append(x, c) /\ V[<<l, d>>] = Append(y, d)
    BY <1>2
  <2> HIDE DEF x, y, V
  <2>3. /\ Append(x, c) \in [1 .. (m + 1) -> Int]
        /\ Append(x, c) = Append(y, d) => x = y /\ c = d
        /\ Before(Append(x, c), Append(y, d)) <=> Before(x, y) \/ (x = y /\ c < d)
    BY <1>1, <2>1, BeforeWithColumn
  <2> QED
    BY <2>1, <2>2, <2>3 DEF x, y
<1> HIDE DEF V
<1>4. \A kc \in K \X Int : V[kc] \in [1 .. (m + 1) -> Int]
  BY <1>3
<1>5. \A kc, ld \in K \X Int : V[kc] = V[ld] => kc = ld
  <2> TAKE kc, ld \in K \X Int
  <2>1. PICK k \in K, c \in Int : kc = <<k, c>>
    OBVIOUS
  <2>2. PICK l \in K, d \in Int : ld = <<l, d>>
    OBVIOUS
  <2> QED
    BY <1>3, <2>1, <2>2
<1>6. m + 1 \in Nat
  BY <1>1
<1>7. Ranks(V, K \X Int, m + 1)
  BY <1>4, <1>5, <1>6 DEF Ranks
<1> QED
  BY <1>2, <1>3, <1>7 DEF V

(* A tally in the order of a rank is a list in that order.                  *)
NumberRank(K) == [k \in K |-> <<k>>]
ColumnsRank(K) == [k \in K |-> k]

(* Of keys that are numbers.                                                *)
LEMMA NumbersListed ==
    ASSUME NEW U, NEW set, set \subseteq U, NEW s, TallyOf(s, set, ByKey(NumberRank(U), U))
    PROVE  Lists1(s, set)
<1> DEFINE rank == NumberRank(U)
<1>1. ListsFirst(s.total, s.samples, Cap, set, rank)
  BY ComparisonAssumption, TallyLists DEF TallyOf
<1>2. \A x \in set : rank[x] = <<x>>
  BY DEF NumberRank
<1> HIDE DEF rank
<1>3. \A y \in set : Earlier(y, rank, set) = {x \in set : Before(<<x>>, <<y>>)}
  BY <1>2 DEF Earlier
<1> QED
  BY <1>1, <1>3 DEF ListsFirst, Lists1, Lists, ByNumber

(* Of keys that are rows of numbers.                                        *)
LEMMA ColumnsListed ==
    ASSUME NEW U, NEW set, set \subseteq U, NEW s, TallyOf(s, set, ByKey(ColumnsRank(U), U))
    PROVE  Lists2(s, set)
<1> DEFINE rank == ColumnsRank(U)
<1>1. ListsFirst(s.total, s.samples, Cap, set, rank)
  BY ComparisonAssumption, TallyLists DEF TallyOf
<1>2. \A x \in set : rank[x] = x
  BY DEF ColumnsRank
<1> HIDE DEF rank
<1>3. \A y \in set : Earlier(y, rank, set) = {x \in set : Before(x, y)}
  BY <1>2 DEF Earlier
<1> QED
  BY <1>1, <1>3 DEF ListsFirst, Lists2, Lists, ByColumns

(* The same of what is found of a key and a column.                         *)
LEMMA NumberValuesListed ==
    ASSUME NEW K, NEW set, set \subseteq K \X Int, NEW s,
           TallyOf(s, set, ByKey(ValueRank(NumberRank(K), K), K \X Int))
    PROVE  LET ByValue(kc) == Append(ByNumber(kc[1]), kc[2])
           IN Lists(s.total, s.samples, Cap, set, ByValue)
<1> DEFINE rank == ValueRank(NumberRank(K), K)
<1>1. ListsFirst(s.total, s.samples, Cap, set, rank)
  BY ComparisonAssumption, TallyLists DEF TallyOf
<1>2. \A x \in set : rank[x] = Append(ByNumber(x[1]), x[2])
  BY DEF ValueRank, NumberRank, ByNumber
<1> HIDE DEF rank
<1>3. \A y \in set : Earlier(y, rank, set)
          = {x \in set : Before(Append(ByNumber(x[1]), x[2]), Append(ByNumber(y[1]), y[2]))}
  BY <1>2 DEF Earlier
<1> QED
  BY <1>1, <1>3 DEF ListsFirst, Lists

(* Of a row of numbers and a column.                                        *)
LEMMA ColumnValuesListed ==
    ASSUME NEW K, NEW set, set \subseteq K \X Int, NEW s,
           TallyOf(s, set, ByKey(ValueRank(ColumnsRank(K), K), K \X Int))
    PROVE  LET ByValue(kc) == Append(ByColumns(kc[1]), kc[2])
           IN Lists(s.total, s.samples, Cap, set, ByValue)
<1> DEFINE rank == ValueRank(ColumnsRank(K), K)
<1>1. ListsFirst(s.total, s.samples, Cap, set, rank)
  BY ComparisonAssumption, TallyLists DEF TallyOf
<1>2. \A x \in set : rank[x] = Append(ByColumns(x[1]), x[2])
  BY DEF ValueRank, ColumnsRank, ByColumns
<1> HIDE DEF rank
<1>3. \A y \in set : Earlier(y, rank, set)
          = {x \in set : Before(Append(ByColumns(x[1]), x[2]), Append(ByColumns(y[1]), y[2]))}
  BY <1>2 DEF Earlier
<1> QED
  BY <1>1, <1>3 DEF ListsFirst, Lists

(* Numbers, and rows of numbers, are ranked.                                *)
LEMMA NumbersRanked ==
    ASSUME NEW K, K \subseteq Int
    PROVE  /\ Ranks(NumberRank(K), K, 1)
           /\ \A k, l \in K : Before(NumberRank(K)[k], NumberRank(K)[l]) <=> k < l
<1>1. \A k \in K : NumberRank(K)[k] = <<k>> /\ <<k>> \in [1 .. 1 -> Int] /\ <<k>>[1] = k
  BY DEF NumberRank
<1>2. \A k, l \in K : Before(<<k>>, <<l>>) <=> k < l
  BY OneNumber
<1> QED
  BY ZenonT(60), <1>1, <1>2 DEF Ranks

(* Rows of numbers are ranked as they are.                                  *)
LEMMA ColumnsRanked ==
    ASSUME NEW K, NEW m \in Nat, K \subseteq [1 .. m -> Int]
    PROVE  Ranks(ColumnsRank(K), K, m)
<1>1. \A k \in K : ColumnsRank(K)[k] = k
  BY DEF ColumnsRank
<1> QED
  BY <1>1 DEF Ranks

-----------------------------------------------------------------------------
(* A table: the keys behind the walk are set side by side, the others not.  *)
AreSides(b, n, rank, m) ==
    /\ IsFiniteSet(DOMAIN b) /\ IsFiniteSet(DOMAIN n)
    /\ Ranks(rank, DOMAIN b \cup DOMAIN n, m)
AreRows(b, n) ==
    \A k \in Shared(b, n) :
        /\ b[k] = [c \in DOMAIN b[k] |-> b[k][c]] /\ n[k] = [c \in DOMAIN b[k] |-> n[k][c]]
        /\ IsFiniteSet(DOMAIN b[k]) /\ DOMAIN b[k] \subseteq Int
InKeys(b, n, rank) == ByKey(rank, DOMAIN b \cup DOMAIN n)
InValues(b, n, rank) ==
    ByKey(ValueRank(rank, DOMAIN b \cup DOMAIN n), (DOMAIN b \cup DOMAIN n) \X Int)
ChangedIn(b, n, D) == {kc \in Changed(b, n) : kc[1] \in D}
TableSoFar(t, b, n, rank, D) ==
    /\ t = [compared |-> t.compared, identical |-> t.identical, diffs |-> t.diffs,
            baseOnly |-> t.baseOnly, newOnly |-> t.newOnly]
    /\ t.compared = Cardinality(Shared(b, n) \cap D)
    /\ t.identical = Cardinality(Alike(b, n) \cap D)
    /\ TallyOf(t.baseOnly, (DOMAIN b \ DOMAIN n) \cap D, InKeys(b, n, rank))
    /\ TallyOf(t.newOnly, (DOMAIN n \ DOMAIN b) \cap D, InKeys(b, n, rank))
    /\ TallyOf(t.diffs, ChangedIn(b, n, D), InValues(b, n, rank))

(* The next key: not yet behind, and after those it is listed with.         *)
Comes(k, D, b, n, rank) ==
    /\ k \in (DOMAIN b \cup DOMAIN n) \ D /\ D \subseteq DOMAIN b \cup DOMAIN n
    /\ k \in DOMAIN b => \A l \in D \cap DOMAIN b : Before(rank[l], rank[k])
    /\ k \notin DOMAIN b => \A l \in D \ DOMAIN b : Before(rank[l], rank[k])
SetBeside(t, b, n, k) ==
    IF k \notin DOMAIN n THEN [t EXCEPT !.baseOnly = Add(@, k)]
    ELSE IF k \notin DOMAIN b THEN [t EXCEPT !.newOnly = Add(@, k)]
    ELSE Aligned(t, k, b[k], n[k])

(* One more of a finite set's elements behind the walk.                     *)
LEMMA OneMoreBehind ==
    ASSUME NEW S, IsFiniteSet(S), NEW D, NEW k, k \notin D
    PROVE  /\ Cardinality(S \cap D) \in Nat
           /\ k \in S => /\ S \cap (D \cup {k}) = (S \cap D) \cup {k}
                         /\ Cardinality(S \cap (D \cup {k})) = Cardinality(S \cap D) + 1
           /\ k \notin S => S \cap (D \cup {k}) = S \cap D
<1>1. IsFiniteSet(S \cap D)
  BY FS_Subset
<1>2. Cardinality(S \cap D) \in Nat
  BY <1>1, FS_CardinalityType
<1>3. Cardinality((S \cap D) \cup {k}) = Cardinality(S \cap D) + 1
  BY <1>1, FS_AddElement
<1>4. k \in S => S \cap (D \cup {k}) = (S \cap D) \cup {k}
  OBVIOUS
<1>5. k \notin S => S \cap (D \cup {k}) = S \cap D
  OBVIOUS
<1> QED
  BY <1>2, <1>3, <1>4, <1>5

(* What two sides share, and what one has alone, is finite.                 *)
LEMMA SidesFinite ==
    ASSUME NEW b, NEW n, NEW rank, NEW m, AreSides(b, n, rank, m)
    PROVE  /\ IsFiniteSet(Shared(b, n)) /\ IsFiniteSet(Alike(b, n))
           /\ IsFiniteSet(DOMAIN b \ DOMAIN n) /\ IsFiniteSet(DOMAIN n \ DOMAIN b)
           /\ Alike(b, n) \subseteq Shared(b, n)
<1>1. /\ Shared(b, n) \subseteq DOMAIN b /\ Alike(b, n) \subseteq DOMAIN b
      /\ Alike(b, n) \subseteq Shared(b, n)
  BY DEF Shared, Alike
<1>2. IsFiniteSet(DOMAIN b) /\ IsFiniteSet(DOMAIN n)
  BY DEF AreSides
<1>3. \A T : T \subseteq DOMAIN b => IsFiniteSet(T)
  BY <1>2, FS_Subset
<1>4. IsFiniteSet(DOMAIN n \ DOMAIN b)
  BY <1>2, FS_Subset
<1> QED
  BY <1>1, <1>3, <1>4

(* What the orders say of keys and of values.                               *)
LEMMA SidesOrdered ==
    ASSUME NEW b, NEW n, NEW rank, NEW m, AreSides(b, n, rank, m)
    PROVE  LET K == DOMAIN b \cup DOMAIN n  R == InKeys(b, n, rank)  V == InValues(b, n, rank)
           IN /\ StrictOrder(R, K) /\ StrictOrder(V, K \X Int)
              /\ \A k, l \in K : <<k, l>> \in R <=> Before(rank[k], rank[l])
              /\ \A k, l \in K, c, d \in Int :
                   <<<<k, c>>, <<l, d>>>> \in V
                     <=> Before(rank[k], rank[l]) \/ (k = l /\ c < d)
<1> DEFINE K == DOMAIN b \cup DOMAIN n
           values == ValueRank(rank, K)
           KX == K \X Int
<1>1. Ranks(rank, K, m)
  BY DEF AreSides
<1>2. /\ Ranks(values, KX, m + 1)
      /\ \A k, l \in K : \A c, d \in Int :
           Before(values[<<k, c>>], values[<<l, d>>]) <=> Before(rank[k], rank[l]) \/ (k = l /\ c < d)
  <2> HIDE DEF K
  <2> QED
    BY <1>1, ValuesRanked
<1>3. /\ StrictOrder(ByKey(rank, K), K)
      /\ \A k, l \in K : <<k, l>> \in ByKey(rank, K) <=> Before(rank[k], rank[l])
  <2> HIDE DEF K
  <2> QED
    BY <1>1, RanksOrder
<1>4. /\ StrictOrder(ByKey(values, KX), KX)
      /\ \A x, y \in KX : <<x, y>> \in ByKey(values, KX) <=> Before(values[x], values[y])
  <2> HIDE DEF values, KX
  <2> QED
    BY <1>2, RanksOrder
<1> HIDE DEF values
<1> QED
  BY <1>2, <1>3, <1>4 DEF InKeys, InValues, values

(* What differs: by a key on both sides and a column, key by key.           *)
LEMMA ChangedGrows ==
    ASSUME NEW b, NEW n, AreRows(b, n), NEW D, NEW k, k \notin D
    PROVE  /\ ChangedIn(b, n, D) \subseteq Shared(b, n) \X Int
           /\ k \in Shared(b, n) =>
                /\ ChangedIn(b, n, D \cup {k})
                     = ChangedIn(b, n, D) \cup {<<k, c>> : c \in DiffColumns(b[k], n[k])}
                /\ IsFiniteSet(DiffColumns(b[k], n[k])) /\ DiffColumns(b[k], n[k]) \subseteq Int
                /\ DiffColumns(b[k], n[k]) = {} <=> k \in Alike(b, n)
           /\ k \notin Shared(b, n) => ChangedIn(b, n, D \cup {k}) = ChangedIn(b, n, D)
<1>1. \A l, c : <<l, c>> \in Changed(b, n)
          <=> l \in Shared(b, n) /\ c \in DiffColumns(b[l], n[l])
  BY DEF Changed, DiffColumns
<1>2. \A x \in Changed(b, n) : \E l \in Shared(b, n) : \E c \in DiffColumns(b[l], n[l]) : x = <<l, c>>
  BY DEF Changed, DiffColumns
<1>3. ASSUME NEW l \in Shared(b, n)
      PROVE  /\ IsFiniteSet(DiffColumns(b[l], n[l])) /\ DiffColumns(b[l], n[l]) \subseteq Int
             /\ DiffColumns(b[l], n[l]) = {} <=> l \in Alike(b, n)
  <2>1. /\ b[l] = [c \in DOMAIN b[l] |-> b[l][c]] /\ n[l] = [c \in DOMAIN b[l] |-> n[l][c]]
        /\ IsFiniteSet(DOMAIN b[l]) /\ DOMAIN b[l] \subseteq Int
    BY DEF AreRows
  <2>2. DiffColumns(b[l], n[l]) \subseteq DOMAIN b[l]
    BY DEF DiffColumns
  <2>3. IsFiniteSet(DiffColumns(b[l], n[l]))
    BY <2>1, <2>2, FS_Subset
  <2>4. DiffColumns(b[l], n[l]) = {} <=> \A c \in DOMAIN b[l] : b[l][c] = n[l][c]
    BY DEF DiffColumns
  <2>5. (\A c \in DOMAIN b[l] : b[l][c] = n[l][c]) <=> b[l] = n[l]
    BY <2>1
  <2> QED
    BY <2>1, <2>2, <2>3, <2>4, <2>5 DEF Alike
<1>4. \A E : ChangedIn(b, n, E) \subseteq Shared(b, n) \X Int
  BY <1>2, <1>3 DEF ChangedIn
<1>5. ASSUME k \in Shared(b, n)
      PROVE  ChangedIn(b, n, D \cup {k})
                 = ChangedIn(b, n, D) \cup {<<k, c>> : c \in DiffColumns(b[k], n[k])}
  <2> DEFINE new == {<<k, c>> : c \in DiffColumns(b[k], n[k])}
  <2>1. ASSUME NEW x \in ChangedIn(b, n, D \cup {k})
        PROVE  x \in ChangedIn(b, n, D) \cup new
    <3>0. x \in Changed(b, n) /\ x[1] \in D \cup {k}
      BY DEF ChangedIn
    <3>1. PICK l \in Shared(b, n) : \E c \in DiffColumns(b[l], n[l]) : x = <<l, c>>
      BY <1>2, <3>0
    <3>2. PICK c \in DiffColumns(b[l], n[l]) : x = <<l, c>>
      BY <3>1
    <3>3. x[1] = l
      BY <3>2
    <3>4. CASE l = k
      BY <3>2, <3>4
    <3>5. CASE l \in D
      BY <3>0, <3>3, <3>5 DEF ChangedIn
    <3> QED
      BY <3>0, <3>3, <3>4, <3>5
  <2>2. ASSUME NEW x \in new PROVE x \in ChangedIn(b, n, D \cup {k})
    <3>1. PICK c \in DiffColumns(b[k], n[k]) : x = <<k, c>>
      OBVIOUS
    <3>2. <<k, c>> \in Changed(b, n) /\ <<k, c>>[1] = k
      BY <1>1, <1>5
    <3> QED
      BY <3>1, <3>2 DEF ChangedIn
  <2>3. ChangedIn(b, n, D) \subseteq ChangedIn(b, n, D \cup {k})
    BY DEF ChangedIn
  <2> QED
    BY <2>1, <2>2, <2>3
<1>6. ASSUME k \notin Shared(b, n)
      PROVE  ChangedIn(b, n, D \cup {k}) = ChangedIn(b, n, D)
  <2>1. \A x \in Changed(b, n) : x[1] # k
    BY <1>2, <1>6
  <2> QED
    BY <2>1 DEF ChangedIn
<1> QED
  BY <1>3, <1>4, <1>5, <1>6


(* The three ways to set a key beside its table.                            *)
LEMMA ThreeWays ==
    ASSUME NEW t, NEW b, NEW n, NEW k
    PROVE  /\ k \notin DOMAIN n =>
                SetBeside(t, b, n, k) = [t EXCEPT !.baseOnly = Add(@, k)]
           /\ k \in DOMAIN n /\ k \notin DOMAIN b =>
                SetBeside(t, b, n, k) = [t EXCEPT !.newOnly = Add(@, k)]
           /\ k \in DOMAIN n /\ k \in DOMAIN b =>
                SetBeside(t, b, n, k) = Aligned(t, k, b[k], n[k])
  BY DEF SetBeside

(* A key set beside its table, or found on one side.                        *)
LEMMA TableTakes ==
    ASSUME NEW b, NEW n, NEW rank, NEW m, AreSides(b, n, rank, m), AreRows(b, n),
           NEW t, NEW D, TableSoFar(t, b, n, rank, D), NEW k, Comes(k, D, b, n, rank)
    PROVE  TableSoFar(SetBeside(t, b, n, k), b, n, rank, D \cup {k})
<1> DEFINE K == DOMAIN b \cup DOMAIN n
           R == InKeys(b, n, rank)
           V == InValues(b, n, rank)
           E == D \cup {k}
           u == SetBeside(t, b, n, k)
           B == DOMAIN b \ DOMAIN n
           N == DOMAIN n \ DOMAIN b
           S == Shared(b, n)
           A == Alike(b, n)
           C(X) == ChangedIn(b, n, X)
           columns == DiffColumns(b[k], n[k])
           new == {<<k, c>> : c \in columns}
<1>1. /\ StrictOrder(R, K) /\ StrictOrder(V, K \X Int)
      /\ \A l, o \in K : <<l, o>> \in R <=> Before(rank[l], rank[o])
      /\ \A l, o \in K, c, d \in Int :
           <<<<l, c>>, <<o, d>>>> \in V <=> Before(rank[l], rank[o]) \/ (l = o /\ c < d)
  BY SidesOrdered
<1>2. /\ k \in K /\ k \notin D /\ D \subseteq K
      /\ k \in DOMAIN b => \A l \in D \cap DOMAIN b : Before(rank[l], rank[k])
      /\ k \notin DOMAIN b => \A l \in D \ DOMAIN b : Before(rank[l], rank[k])
  BY DEF Comes
<1>3. /\ t = [compared |-> t.compared, identical |-> t.identical, diffs |-> t.diffs,
              baseOnly |-> t.baseOnly, newOnly |-> t.newOnly]
      /\ t.compared = Cardinality(S \cap D) /\ t.identical = Cardinality(A \cap D)
      /\ TallyOf(t.baseOnly, B \cap D, R) /\ TallyOf(t.newOnly, N \cap D, R)
      /\ TallyOf(t.diffs, C(D), V)
  BY DEF TableSoFar
<1>4. /\ IsFiniteSet(S) /\ IsFiniteSet(A) /\ IsFiniteSet(B) /\ IsFiniteSet(N) /\ A \subseteq S
  BY SidesFinite
<1>5. ASSUME NEW X, IsFiniteSet(X)
      PROVE  /\ Cardinality(X \cap D) \in Nat
             /\ k \in X => /\ X \cap E = (X \cap D) \cup {k}
                           /\ Cardinality(X \cap E) = Cardinality(X \cap D) + 1
             /\ k \notin X => X \cap E = X \cap D
  <2>1. k \notin D
    BY <1>2
  <2> QED
    BY <1>5, <2>1, OneMoreBehind
<1>6. /\ C(D) \subseteq S \X Int
      /\ k \in S => /\ C(E) = C(D) \cup new
                    /\ IsFiniteSet(columns) /\ columns \subseteq Int
                    /\ columns = {} <=> k \in A
      /\ k \notin S => C(E) = C(D)
  <2>1. k \notin D
    BY <1>2
  <2>2. C(D) \subseteq S \X Int
    BY <2>1, ChangedGrows
  <2>3. ASSUME k \in S
        PROVE  /\ ChangedIn(b, n, D \cup {k}) = ChangedIn(b, n, D)
                     \cup {<<k, c>> : c \in DiffColumns(b[k], n[k])}
               /\ IsFiniteSet(columns) /\ columns \subseteq Int
               /\ columns = {} <=> k \in A
    BY <2>1, <2>3, ChangedGrows
  <2>4. k \notin S => C(E) = C(D)
    BY <2>1, ChangedGrows
  <2> QED
    BY <2>2, <2>3, <2>4
<1>7. S = DOMAIN b \cap DOMAIN n
  BY DEF Shared
<1>8. ASSUME /\ u = [compared |-> u.compared, identical |-> u.identical, diffs |-> u.diffs,
                     baseOnly |-> u.baseOnly, newOnly |-> u.newOnly]
             /\ u.compared = Cardinality(S \cap E) /\ u.identical = Cardinality(A \cap E)
             /\ TallyOf(u.baseOnly, B \cap E, R) /\ TallyOf(u.newOnly, N \cap E, R)
             /\ TallyOf(u.diffs, C(E), V)
      PROVE  TableSoFar(u, b, n, rank, E)
  <2> HIDE DEF u, E
  <2> QED
    BY <1>8 DEF TableSoFar
<1>9. \A l \in C(D) : \E o \in S \cap D : \E c \in Int : l = <<o, c>>
  BY <1>6 DEF ChangedIn
<1> HIDE DEF R, V, S, A, C
<1>10. CASE k \notin DOMAIN n
  <2>1. k \in B /\ k \notin N /\ k \notin S /\ k \notin A
    BY <1>2, <1>4, <1>7, <1>10
  <2>2. u = [t EXCEPT !.baseOnly = Add(@, k)]
    BY <1>10, ThreeWays
  <2> HIDE DEF u
  <2>3. u = [compared |-> t.compared, identical |-> t.identical, diffs |-> t.diffs,
             baseOnly |-> Add(t.baseOnly, k), newOnly |-> t.newOnly]
    BY <1>3, <2>2
  <2>4. /\ u.compared = t.compared /\ u.identical = t.identical /\ u.diffs = t.diffs
        /\ u.baseOnly = Add(t.baseOnly, k) /\ u.newOnly = t.newOnly
    BY <2>3
  <2>5. B \cap D \subseteq K /\ \A l \in B \cap D : <<l, k>> \in R
    BY <1>1, <1>2, <2>1
  <2> HIDE DEF K, B, N, E
  <2>6. After(k, B \cap D, R)
    BY <1>1, <1>2, <2>5, LaterIsAfter
  <2>7. TallyOf(u.baseOnly, (B \cap D) \cup {k}, R)
    BY <1>3, <2>4, <2>6, AddTallies
  <2>8. /\ S \cap E = S \cap D /\ A \cap E = A \cap D
        /\ N \cap E = N \cap D /\ B \cap E = (B \cap D) \cup {k} /\ C(E) = C(D)
    BY <1>4, <1>5, <1>6, <2>1
  <2> QED
    BY <1>3, <1>8, <2>3, <2>4, <2>7, <2>8 DEF E, u
<1>11. CASE k \in DOMAIN n /\ k \notin DOMAIN b
  <2>1. k \in N /\ k \notin B /\ k \notin S /\ k \notin A
    BY <1>2, <1>4, <1>7, <1>11
  <2>2. u = [t EXCEPT !.newOnly = Add(@, k)]
    BY <1>11, ThreeWays
  <2> HIDE DEF u
  <2>3. u = [compared |-> t.compared, identical |-> t.identical, diffs |-> t.diffs,
             baseOnly |-> t.baseOnly, newOnly |-> Add(t.newOnly, k)]
    BY <1>3, <2>2
  <2>4. /\ u.compared = t.compared /\ u.identical = t.identical /\ u.diffs = t.diffs
        /\ u.baseOnly = t.baseOnly /\ u.newOnly = Add(t.newOnly, k)
    BY <2>3
  <2>5. N \cap D \subseteq K /\ \A l \in N \cap D : <<l, k>> \in R
    BY <1>1, <1>2, <1>11
  <2> HIDE DEF K, B, N, E
  <2>6. After(k, N \cap D, R)
    BY <1>1, <1>2, <2>5, LaterIsAfter
  <2>7. TallyOf(u.newOnly, (N \cap D) \cup {k}, R)
    BY <1>3, <2>4, <2>6, AddTallies
  <2>8. /\ S \cap E = S \cap D /\ A \cap E = A \cap D
        /\ B \cap E = B \cap D /\ N \cap E = (N \cap D) \cup {k} /\ C(E) = C(D)
    BY <1>4, <1>5, <1>6, <2>1
  <2> QED
    BY <1>3, <1>8, <2>3, <2>4, <2>7, <2>8 DEF E, u
<1>12. CASE k \in DOMAIN n /\ k \in DOMAIN b
  <2> DEFINE diffs == AddAll(t.diffs, Keyed(k, columns))
             same == IF columns = {} THEN t.identical + 1 ELSE t.identical
  <2>1. k \notin N /\ k \notin B /\ k \in S
    BY <1>7, <1>12
  <2>2. u = [t EXCEPT !.compared = @ + 1, !.identical = IF columns = {} THEN @ + 1 ELSE @,
                      !.diffs = AddAll(@, Keyed(k, columns))]
    <3>1. u = Aligned(t, k, b[k], n[k])
      BY <1>12, ThreeWays
    <3> HIDE DEF u
    <3> QED
      BY <3>1 DEF Aligned, Diffs
  <2>3. FollowsOn(k, columns, C(D), K \X Int, V)
    <3>1. C(D) \subseteq K \X Int /\ IsFiniteSet(columns) /\ columns \subseteq Int
      BY <1>6, <1>7, <2>1
    <3> HIDE DEF columns
    <3>2. \A o \in S \cap D, c, d \in Int : <<<<o, c>>, <<k, d>>>> \in V
      BY <1>1, <1>2, <1>7, <1>12
    <3>3. \A c \in columns : <<k, c>> \in K \X Int
                             /\ \A x \in C(D) : <<x, <<k, c>>>> \in V
      BY <1>2, <1>9, <3>1, <3>2
    <3>4. \A c, d \in columns : c < d => <<<<k, c>>, <<k, d>>>> \in V
      BY <1>1, <1>2, <3>1
    <3> QED
      BY <1>1, <3>1, <3>3, <3>4 DEF FollowsOn
  <2> HIDE DEF u, columns
  <2>4. TallyOf(diffs, C(D) \cup {<<k, c>> : c \in columns}, V)
    BY <1>3, <2>3, ListedTallies
  <2> HIDE DEF new
  <2>5. u = [compared |-> t.compared + 1, identical |-> same, diffs |-> diffs,
             baseOnly |-> t.baseOnly, newOnly |-> t.newOnly]
    BY <1>3, <2>2
  <2>6. /\ u.compared = t.compared + 1 /\ u.identical = same /\ u.diffs = diffs
        /\ u.baseOnly = t.baseOnly /\ u.newOnly = t.newOnly
    BY <2>5
  <2>7. TallyOf(u.diffs, C(E), V)
    BY <1>6, <2>1, <2>4, <2>6 DEF new
  <2> HIDE DEF E, K, B, N, diffs
  <2>8. /\ B \cap E = B \cap D /\ N \cap E = N \cap D
        /\ Cardinality(S \cap E) = t.compared + 1
    BY <1>3, <1>4, <1>5, <2>1
  <2>9. Cardinality(A \cap E) = same
    BY <1>3, <1>4, <1>5, <1>6, <2>1
  <2> HIDE DEF same
  <2> QED
    BY <1>3, <1>8, <2>5, <2>6, <2>7, <2>8, <2>9 DEF E, u
<1> QED
  BY <1>10, <1>11, <1>12

(* Nothing behind the walk: an empty table.                                 *)
LEMMA TableBegins ==
    ASSUME NEW b, NEW n, NEW rank
    PROVE  TableSoFar(EmptyTable, b, n, rank, {})
<1>1. /\ EmptyTable.compared = 0 /\ EmptyTable.identical = 0 /\ EmptyTable.diffs = None
      /\ EmptyTable.baseOnly = None /\ EmptyTable.newOnly = None
      /\ EmptyTable = [compared |-> 0, identical |-> 0, diffs |-> None,
                       baseOnly |-> None, newOnly |-> None]
  BY DEF EmptyTable
<1>2. Cardinality({}) = 0
  BY FS_EmptySet
<1>3. ChangedIn(b, n, {}) = {}
  BY DEF ChangedIn
<1>4. \A R : TallyOf(None, {}, R)
  BY NoneTallied
<1>5. \A S : S \cap {} = {}
  OBVIOUS
<1> QED
  BY <1>1, <1>2, <1>3, <1>4, <1>5 DEF TableSoFar

(* What a tally counts.                                                     *)
LEMMA TallyCounts ==
    ASSUME NEW s, NEW set, NEW R, TallyOf(s, set, R)
    PROVE  s.total = Cardinality(set) /\ s.total \in Nat /\ IsFiniteSet(set)
<1>1. IsFiniteSet(set) /\ s.total = Cardinality(set)
  BY DEF TallyOf, Tally
<1> QED
  BY <1>1, FS_CardinalityType

(* A side has the keys it shares and those it has alone.                    *)
LEMMA SharedAndAlone ==
    ASSUME NEW S, NEW T, IsFiniteSet(S)
    PROVE  Cardinality(S) = Cardinality(S \cap T) + Cardinality(S \ T)
<1> DEFINE A == S \cap T  B == S \ T
<1>1. IsFiniteSet(A) /\ IsFiniteSet(B)
  BY FS_Subset
<1>2. A \cup B = S /\ A \cap B = {}
  OBVIOUS
<1>3. Cardinality(A \cap B) = 0
  BY <1>2, FS_EmptySet
<1> HIDE DEF A, B
<1>4. /\ Cardinality(A) \in Nat /\ Cardinality(B) \in Nat
      /\ Cardinality(A \cup B) = Cardinality(A) + Cardinality(B) - Cardinality(A \cap B)
  BY <1>1, FS_CardinalityType, FS_Union
<1>5. Cardinality(S) = Cardinality(A) + Cardinality(B)
  BY <1>2, <1>3, <1>4
<1> QED
  BY <1>5 DEF A, B

(* Everything behind the walk: the table is what the sides amount to.       *)
TableIs(t, b, n, rank) ==
    /\ t.compared = Cardinality(Shared(b, n)) /\ t.identical = Cardinality(Alike(b, n))
    /\ TallyOf(t.baseOnly, DOMAIN b \ DOMAIN n, InKeys(b, n, rank))
    /\ TallyOf(t.newOnly, DOMAIN n \ DOMAIN b, InKeys(b, n, rank))
    /\ TallyOf(t.diffs, Changed(b, n), InValues(b, n, rank))
    /\ Changed(b, n) \subseteq (DOMAIN b \cup DOMAIN n) \X Int
    /\ BaseRows(t) = Cardinality(DOMAIN b) /\ NewRows(t) = Cardinality(DOMAIN n)

(* A table of every key is what the sides amount to.                        *)
LEMMA TableCounts ==
    ASSUME NEW b, NEW n, NEW rank, NEW m, AreSides(b, n, rank, m), AreRows(b, n), NEW t,
           TableSoFar(t, b, n, rank, DOMAIN b \cup DOMAIN n)
    PROVE  TableIs(t, b, n, rank)
<1> DEFINE K == DOMAIN b \cup DOMAIN n
<1>1. /\ Shared(b, n) \cap K = Shared(b, n) /\ Alike(b, n) \cap K = Alike(b, n)
      /\ (DOMAIN b \ DOMAIN n) \cap K = DOMAIN b \ DOMAIN n
      /\ (DOMAIN n \ DOMAIN b) \cap K = DOMAIN n \ DOMAIN b
  BY DEF Shared, Alike
<1>2. /\ Changed(b, n) \subseteq (DOMAIN b \cup DOMAIN n) \X Int
      /\ ChangedIn(b, n, K) = Changed(b, n)
  <2>1. \A l \in Shared(b, n) : DOMAIN b[l] \subseteq Int
    BY DEF AreRows
  <2>2. ASSUME NEW x \in Changed(b, n)
        PROVE  x \in (DOMAIN b \cup DOMAIN n) \X Int /\ x[1] \in K
    <3>1. PICK l \in Shared(b, n) : x \in {<<l, c>> : c \in {d \in DOMAIN b[l] : b[l][d] # n[l][d]}}
      BY DEF Changed
    <3>2. PICK c \in DOMAIN b[l] : x = <<l, c>>
      BY <3>1
    <3> QED
      BY <2>1, <3>2 DEF Shared
  <2> QED
    BY <2>2 DEF ChangedIn
<1>3. /\ t.compared = Cardinality(Shared(b, n)) /\ t.identical = Cardinality(Alike(b, n))
      /\ TallyOf(t.baseOnly, DOMAIN b \ DOMAIN n, InKeys(b, n, rank))
      /\ TallyOf(t.newOnly, DOMAIN n \ DOMAIN b, InKeys(b, n, rank))
      /\ TallyOf(t.diffs, Changed(b, n), InValues(b, n, rank))
  BY <1>1, <1>2 DEF TableSoFar
<1>4. t.baseOnly.total = Cardinality(DOMAIN b \ DOMAIN n)
      /\ t.newOnly.total = Cardinality(DOMAIN n \ DOMAIN b)
  BY <1>3, TallyCounts
<1>5. Cardinality(DOMAIN b) = Cardinality(DOMAIN b \cap DOMAIN n) + Cardinality(DOMAIN b \ DOMAIN n)
  BY SharedAndAlone DEF AreSides
<1>6. Cardinality(DOMAIN n) = Cardinality(DOMAIN n \cap DOMAIN b) + Cardinality(DOMAIN n \ DOMAIN b)
  BY SharedAndAlone DEF AreSides
<1>7. DOMAIN n \cap DOMAIN b = Shared(b, n) /\ DOMAIN b \cap DOMAIN n = Shared(b, n)
  BY DEF Shared
<1>8. BaseRows(t) = Cardinality(DOMAIN b)
  BY <1>3, <1>4, <1>5, <1>7 DEF BaseRows
<1>9. NewRows(t) = Cardinality(DOMAIN n)
  BY <1>3, <1>4, <1>6, <1>7 DEF NewRows
<1> QED
  BY <1>2, <1>3, <1>8, <1>9 DEF TableIs

(* In the order of the numbers, and in that of the columns.                 *)
LEMMA NumbersTallied ==
    ASSUME NEW b, NEW n, NEW t, TableIs(t, b, n, NumberRank(DOMAIN b \cup DOMAIN n))
    PROVE  Tallied(t, b, n, ByNumber)
<1> DEFINE K == DOMAIN b \cup DOMAIN n
           onlyB == DOMAIN b \ DOMAIN n  onlyN == DOMAIN n \ DOMAIN b
<1>1. /\ t.compared = Cardinality(Shared(b, n)) /\ t.identical = Cardinality(Alike(b, n))
      /\ TallyOf(t.baseOnly, onlyB, ByKey(NumberRank(K), K))
      /\ TallyOf(t.newOnly, onlyN, ByKey(NumberRank(K), K))
      /\ TallyOf(t.diffs, Changed(b, n), ByKey(ValueRank(NumberRank(K), K), K \X Int))
      /\ Changed(b, n) \subseteq K \X Int
      /\ BaseRows(t) = Cardinality(DOMAIN b) /\ NewRows(t) = Cardinality(DOMAIN n)
  BY DEF TableIs, InKeys, InValues
<1>2. onlyB \subseteq K /\ onlyN \subseteq K
  OBVIOUS
<1> HIDE DEF K, onlyB, onlyN
<1>3. Lists1(t.baseOnly, onlyB) /\ Lists1(t.newOnly, onlyN)
  BY <1>1, <1>2, NumbersListed
<1>4. LET ByValue(kc) == Append(ByNumber(kc[1]), kc[2])
      IN Lists(t.diffs.total, t.diffs.samples, Cap, Changed(b, n), ByValue)
  BY <1>1, NumberValuesListed
<1> QED
  BY <1>1, <1>3, <1>4 DEF Tallied, Lists1, onlyB, onlyN

(* The same of rows with a period and a month.                              *)
LEMMA ColumnsTallied ==
    ASSUME NEW b, NEW n, NEW t, TableIs(t, b, n, ColumnsRank(DOMAIN b \cup DOMAIN n))
    PROVE  Tallied(t, b, n, ByColumns)
<1> DEFINE K == DOMAIN b \cup DOMAIN n
           onlyB == DOMAIN b \ DOMAIN n  onlyN == DOMAIN n \ DOMAIN b
<1>1. /\ t.compared = Cardinality(Shared(b, n)) /\ t.identical = Cardinality(Alike(b, n))
      /\ TallyOf(t.baseOnly, onlyB, ByKey(ColumnsRank(K), K))
      /\ TallyOf(t.newOnly, onlyN, ByKey(ColumnsRank(K), K))
      /\ TallyOf(t.diffs, Changed(b, n), ByKey(ValueRank(ColumnsRank(K), K), K \X Int))
      /\ Changed(b, n) \subseteq K \X Int
      /\ BaseRows(t) = Cardinality(DOMAIN b) /\ NewRows(t) = Cardinality(DOMAIN n)
  BY DEF TableIs, InKeys, InValues
<1>2. onlyB \subseteq K /\ onlyN \subseteq K
  OBVIOUS
<1> HIDE DEF K, onlyB, onlyN
<1>3. Lists2(t.baseOnly, onlyB) /\ Lists2(t.newOnly, onlyN)
  BY <1>1, <1>2, ColumnsListed
<1>4. LET ByValue(kc) == Append(ByColumns(kc[1]), kc[2])
      IN Lists(t.diffs.total, t.diffs.samples, Cap, Changed(b, n), ByValue)
  BY <1>1, ColumnValuesListed
<1> QED
  BY <1>1, <1>3, <1>4 DEF Tallied, Lists2, onlyB, onlyN

-----------------------------------------------------------------------------
(* Drift: the values of the keys behind the walk, class by class.           *)
AreDriftRows(b, n) ==
    /\ \A k \in DOMAIN b : b[k] = [c \in ValueColumns |-> b[k][c]]
    /\ \A k \in DOMAIN n : n[k] = [c \in ValueColumns |-> n[k][c]]
RevisedValues(b, n) ==
    UNION {{<<k, c>> : k \in ValuesOf("revised", b, n, c)} : c \in ValueColumns}
RevisedIn(b, n, D) == {kc \in RevisedValues(b, n) : kc[1] \in D}
ClassesAre(values, b, n, D) ==
    \A c \in ValueColumns : \A class \in Classes :
        values[c][class] = Cardinality(ValuesOf(class, b, n, c) \cap D)
DriftSoFar(t, b, n, rank, D) ==
    /\ t = [aligned |-> t.aligned, baseOnly |-> t.baseOnly, newOnly |-> t.newOnly,
            revisions |-> t.revisions, values |-> t.values]
    /\ t.aligned = Cardinality(Shared(b, n) \cap D)
    /\ TallyOf(t.baseOnly, (DOMAIN b \ DOMAIN n) \cap D, InKeys(b, n, rank))
    /\ TallyOf(t.newOnly, (DOMAIN n \ DOMAIN b) \cap D, InKeys(b, n, rank))
    /\ TallyOf(t.revisions, RevisedIn(b, n, D), InValues(b, n, rank))
    /\ ClassesAre(t.values, b, n, D)

(* Each value of a row has one class, that of the definition.               *)
LEMMA OneClass ==
    ASSUME NEW b, NEW n, NEW k, NEW c, NEW class \in Classes
    PROVE  /\ k \in Shared(b, n) =>
                (k \in ValuesOf(class, b, n, c) <=> Class(b[k][c], n[k][c]) = class)
           /\ k \in DOMAIN b \ DOMAIN n =>
                (k \in ValuesOf(class, b, n, c)
                   <=> b[k][c] # <<>> /\ Class(b[k][c], <<>>) = class)
           /\ k \in DOMAIN n \ DOMAIN b =>
                (k \in ValuesOf(class, b, n, c)
                   <=> n[k][c] # <<>> /\ Class(<<>>, n[k][c]) = class)
<1> DEFINE old == ValueIn(b, k, c)  new == ValueIn(n, k, c)
<1>1. k \in ValuesOf(class, b, n, c) <=>
        /\ k \in DOMAIN b \cup DOMAIN n
        /\ CASE class = "identical" -> k \in Shared(b, n) /\ old = new
             [] class = "revised"   -> old # <<>> /\ new # <<>> /\ old # new
             [] class = "appended"  -> old = <<>> /\ new # <<>>
             [] class = "removed"   -> old # <<>> /\ new = <<>>
  BY DEF ValuesOf
<1>2. /\ k \in DOMAIN b => old = b[k][c]
      /\ k \notin DOMAIN b => old = <<>>
      /\ k \in DOMAIN n => new = n[k][c]
      /\ k \notin DOMAIN n => new = <<>>
  BY DEF ValueIn
<1>3. k \in Shared(b, n) <=> k \in DOMAIN b /\ k \in DOMAIN n
  BY DEF Shared
<1> HIDE DEF old, new
<1>4. \A x, y : /\ Class(x, y) = "identical" <=> x = y
                /\ Class(x, y) = "appended" <=> x # y /\ x = <<>>
                /\ Class(x, y) = "removed" <=> x # y /\ x # <<>> /\ y = <<>>
                /\ Class(x, y) = "revised" <=> x # y /\ x # <<>> /\ y # <<>>
  BY DEF Class
<1>5. CASE class = "identical"
  <2>1. k \in ValuesOf(class, b, n, c) <=> k \in Shared(b, n) /\ old = new
    BY <1>1, <1>3, <1>5
  <2> QED
    BY <1>2, <1>3, <1>4, <1>5, <2>1
<1>6. CASE class = "revised"
  <2>1. k \in ValuesOf(class, b, n, c)
          <=> k \in DOMAIN b \cup DOMAIN n /\ old # <<>> /\ new # <<>> /\ old # new
    BY <1>1, <1>6
  <2> QED
    BY <1>2, <1>3, <1>4, <1>6, <2>1
<1>7. CASE class = "appended"
  <2>1. k \in ValuesOf(class, b, n, c)
          <=> k \in DOMAIN b \cup DOMAIN n /\ old = <<>> /\ new # <<>>
    BY <1>1, <1>7
  <2> QED
    BY <1>2, <1>3, <1>4, <1>7, <2>1
<1>8. CASE class = "removed"
  <2>1. k \in ValuesOf(class, b, n, c)
          <=> k \in DOMAIN b \cup DOMAIN n /\ old # <<>> /\ new = <<>>
    BY <1>1, <1>8
  <2> QED
    BY <1>2, <1>3, <1>4, <1>8, <2>1
<1> QED
  BY <1>5, <1>6, <1>7, <1>8 DEF Classes

(* One more key's values are counted, each in its class.                    *)
Fits(b, n, k, columns, old, new) ==
    \A c \in ValueColumns : \A class \in Classes :
        k \in ValuesOf(class, b, n, c) <=> c \in columns /\ Class(old[c], new[c]) = class

(* The values of one more key are each counted in their class.              *)
LEMMA ClassesGrow ==
    ASSUME NEW b, NEW n, IsFiniteSet(DOMAIN b \cup DOMAIN n), NEW D, NEW k, k \notin D,
           NEW values, ClassesAre(values, b, n, D),
           NEW columns, NEW old, NEW new, Fits(b, n, k, columns, old, new)
    PROVE  ClassesAre(Classified(values, columns, old, new), b, n, D \cup {k})
<1> DEFINE more == Classified(values, columns, old, new)
<1> SUFFICES ASSUME NEW c \in ValueColumns, NEW class \in Classes
             PROVE  more[c][class] = Cardinality(ValuesOf(class, b, n, c) \cap (D \cup {k}))
  BY DEF ClassesAre
<1> DEFINE V == ValuesOf(class, b, n, c)
<1>1. more[c][class] = IF c \in columns /\ Class(old[c], new[c]) = class
                       THEN values[c][class] + 1 ELSE values[c][class]
  BY DEF Classified
<1>2. values[c][class] = Cardinality(V \cap D)
  BY DEF ClassesAre
<1>3. k \in V <=> c \in columns /\ Class(old[c], new[c]) = class
  BY DEF Fits
<1>4. V \subseteq DOMAIN b \cup DOMAIN n
  BY DEF ValuesOf
<1> HIDE DEF V, more
<1>5. IsFiniteSet(V)
  BY <1>4, FS_Subset
<1>6. /\ k \in V => Cardinality(V \cap (D \cup {k})) = Cardinality(V \cap D) + 1
      /\ k \notin V => V \cap (D \cup {k}) = V \cap D
  BY <1>5, OneMoreBehind
<1>7. more[c][class] = Cardinality(V \cap (D \cup {k}))
  BY <1>1, <1>2, <1>3, <1>6
<1> QED
  BY <1>7 DEF V, more

(* Revised is what both sides have, and differently.                        *)
RevisedColumns(b, n, k) == {c \in DOMAIN b[k] : Class(b[k][c], n[k][c]) = "revised"}

(* The revised values of one more key are those of its two rows.            *)
LEMMA RevisedGrows ==
    ASSUME NEW b, NEW n, AreDriftRows(b, n), NEW D, NEW k, k \notin D
    PROVE  /\ RevisedIn(b, n, D) \subseteq (Shared(b, n) \cap D) \X Int
           /\ k \in Shared(b, n) =>
                /\ RevisedIn(b, n, D \cup {k})
                     = RevisedIn(b, n, D) \cup {<<k, c>> : c \in RevisedColumns(b, n, k)}
                /\ IsFiniteSet(RevisedColumns(b, n, k)) /\ RevisedColumns(b, n, k) \subseteq Int
           /\ k \notin Shared(b, n) => RevisedIn(b, n, D \cup {k}) = RevisedIn(b, n, D)
<1>1. ASSUME NEW l, NEW c \in ValueColumns
      PROVE  l \in ValuesOf("revised", b, n, c)
               <=> l \in Shared(b, n) /\ c \in RevisedColumns(b, n, l)
  <2>1. "revised" \in Classes
    BY DEF Classes
  <2>2. l \in ValuesOf("revised", b, n, c) => l \in DOMAIN b \cup DOMAIN n
    BY DEF ValuesOf
  <2>3. /\ l \in Shared(b, n) => (l \in ValuesOf("revised", b, n, c)
                                    <=> Class(b[l][c], n[l][c]) = "revised")
        /\ l \in DOMAIN b \ DOMAIN n =>
             (l \in ValuesOf("revised", b, n, c)
                <=> b[l][c] # <<>> /\ Class(b[l][c], <<>>) = "revised")
        /\ l \in DOMAIN n \ DOMAIN b =>
             (l \in ValuesOf("revised", b, n, c)
                <=> n[l][c] # <<>> /\ Class(<<>>, n[l][c]) = "revised")
    BY <2>1, OneClass
  <2>4. \A x : Class(x, <<>>) # "revised" /\ Class(<<>>, x) # "revised"
    BY DEF Class
  <2>5. l \in Shared(b, n) => (c \in RevisedColumns(b, n, l)
                                 <=> Class(b[l][c], n[l][c]) = "revised")
    <3>1. l \in Shared(b, n) => c \in DOMAIN b[l]
      BY DEF AreDriftRows, Shared
    <3> QED
      BY <3>1 DEF RevisedColumns
  <2> QED
    BY <2>2, <2>3, <2>4, <2>5 DEF Shared
<1>2. \A l \in Shared(b, n) : RevisedColumns(b, n, l) \subseteq ValueColumns
  BY DEF RevisedColumns, AreDriftRows, Shared
<1>3. \A x : x \in RevisedValues(b, n) <=>
          \E l \in Shared(b, n) : \E c \in RevisedColumns(b, n, l) : x = <<l, c>>
  <2>1. ASSUME NEW x \in RevisedValues(b, n)
        PROVE  \E l \in Shared(b, n) : \E c \in RevisedColumns(b, n, l) : x = <<l, c>>
    <3>1. PICK c \in ValueColumns : \E l \in ValuesOf("revised", b, n, c) : x = <<l, c>>
      BY DEF RevisedValues
    <3> QED
      BY <1>1, <3>1
  <2>2. ASSUME NEW l \in Shared(b, n), NEW c \in RevisedColumns(b, n, l)
        PROVE  <<l, c>> \in RevisedValues(b, n)
    <3>1. c \in ValueColumns /\ l \in ValuesOf("revised", b, n, c)
      BY <1>1, <1>2
    <3> QED
      BY <3>1 DEF RevisedValues
  <2> QED
    BY <2>1, <2>2
<1>4. ValueColumns \subseteq Int /\ IsFiniteSet(ValueColumns)
  BY ComparisonAssumption, FS_Interval DEF ValueColumns
<1>5. RevisedIn(b, n, D) \subseteq (Shared(b, n) \cap D) \X Int
  <2>1. ASSUME NEW x \in RevisedIn(b, n, D) PROVE x \in (Shared(b, n) \cap D) \X Int
    <3>1. PICK l \in Shared(b, n) : \E c \in RevisedColumns(b, n, l) : x = <<l, c>>
      BY <1>3 DEF RevisedIn
    <3>2. PICK c \in RevisedColumns(b, n, l) : x = <<l, c>>
      BY <3>1
    <3>3. l \in D /\ c \in Int
      BY <1>2, <1>4, <3>2 DEF RevisedIn
    <3> QED
      BY <3>2, <3>3
  <2> QED
    BY <2>1
<1>6. ASSUME k \in Shared(b, n)
      PROVE  /\ RevisedIn(b, n, D \cup {k})
                  = RevisedIn(b, n, D) \cup {<<k, c>> : c \in RevisedColumns(b, n, k)}
             /\ IsFiniteSet(RevisedColumns(b, n, k)) /\ RevisedColumns(b, n, k) \subseteq Int
  <2> DEFINE new == {<<k, c>> : c \in RevisedColumns(b, n, k)}
  <2>1. ASSUME NEW x \in RevisedIn(b, n, D \cup {k}) PROVE x \in RevisedIn(b, n, D) \cup new
    <3>0. x \in RevisedValues(b, n) /\ x[1] \in D \cup {k}
      BY DEF RevisedIn
    <3>1. PICK l \in Shared(b, n) : \E c \in RevisedColumns(b, n, l) : x = <<l, c>>
      BY <1>3, <3>0
    <3>2. PICK c \in RevisedColumns(b, n, l) : x = <<l, c>>
      BY <3>1
    <3>3. x[1] = l
      BY <3>2
    <3>4. CASE l = k
      BY <3>2, <3>4
    <3>5. CASE l \in D
      BY <3>0, <3>3, <3>5 DEF RevisedIn
    <3> QED
      BY <3>0, <3>3, <3>4, <3>5
  <2>2. ASSUME NEW x \in new PROVE x \in RevisedIn(b, n, D \cup {k})
    <3>1. PICK c \in RevisedColumns(b, n, k) : x = <<k, c>>
      OBVIOUS
    <3>2. <<k, c>> \in RevisedValues(b, n) /\ <<k, c>>[1] = k
      BY <1>3, <1>6
    <3> QED
      BY <3>1, <3>2 DEF RevisedIn
  <2>3. RevisedIn(b, n, D) \subseteq RevisedIn(b, n, D \cup {k})
    BY DEF RevisedIn
  <2>4. IsFiniteSet(RevisedColumns(b, n, k)) /\ RevisedColumns(b, n, k) \subseteq Int
    BY <1>2, <1>4, <1>6, FS_Subset
  <2> QED
    BY <2>1, <2>2, <2>3, <2>4
<1>7. ASSUME k \notin Shared(b, n)
      PROVE  RevisedIn(b, n, D \cup {k}) = RevisedIn(b, n, D)
  <2>1. \A x \in RevisedValues(b, n) : x[1] # k
    BY <1>3, <1>7
  <2> QED
    BY <2>1 DEF RevisedIn
<1> QED
  BY <1>5, <1>6, <1>7

(* A row set beside its row of drift, or found on one side.                 *)
DriftBeside(t, b, n, k) ==
    IF k \notin DOMAIN n
    THEN [[t EXCEPT !.baseOnly = Add(@, k)]
            EXCEPT !.values = Classified(@, GivenIn(b[k]), b[k], Absent)]
    ELSE IF k \notin DOMAIN b
    THEN [[t EXCEPT !.newOnly = Add(@, k)]
            EXCEPT !.values = Classified(@, GivenIn(n[k]), Absent, n[k])]
    ELSE classifyAlignedRow(t, k, b[k], n[k])

(* The values the rows have, as they are classed.                           *)
LEMMA ValuesFit ==
    ASSUME NEW b, NEW n, AreDriftRows(b, n), NEW k
    PROVE  /\ k \in DOMAIN b \ DOMAIN n => Fits(b, n, k, GivenIn(b[k]), b[k], Absent)
           /\ k \in DOMAIN n \ DOMAIN b => Fits(b, n, k, GivenIn(n[k]), Absent, n[k])
           /\ k \in Shared(b, n) => Fits(b, n, k, ValueColumns, b[k], n[k])
<1>1. \A c \in ValueColumns : Absent[c] = <<>>
  BY DEF Absent
<1>2. \A row : \A c \in ValueColumns : c \in GivenIn(row) <=> row[c] # <<>>
  BY DEF GivenIn
<1>3. ASSUME NEW c \in ValueColumns, NEW class \in Classes
      PROVE  /\ k \in Shared(b, n) =>
                  (k \in ValuesOf(class, b, n, c) <=> Class(b[k][c], n[k][c]) = class)
             /\ k \in DOMAIN b \ DOMAIN n =>
                  (k \in ValuesOf(class, b, n, c)
                     <=> b[k][c] # <<>> /\ Class(b[k][c], <<>>) = class)
             /\ k \in DOMAIN n \ DOMAIN b =>
                  (k \in ValuesOf(class, b, n, c)
                     <=> n[k][c] # <<>> /\ Class(<<>>, n[k][c]) = class)
  BY OneClass
<1> QED
  BY <1>1, <1>2, <1>3 DEF Fits

(* A row of drift taken: every value it has is in its class.                *)
LEMMA DriftTakes ==
    ASSUME NEW b, NEW n, NEW rank, NEW m, AreSides(b, n, rank, m), AreDriftRows(b, n),
           NEW t, NEW D, DriftSoFar(t, b, n, rank, D), NEW k, Comes(k, D, b, n, rank)
    PROVE  DriftSoFar(DriftBeside(t, b, n, k), b, n, rank, D \cup {k})
<1> DEFINE K == DOMAIN b \cup DOMAIN n
           R == InKeys(b, n, rank)
           V == InValues(b, n, rank)
           E == D \cup {k}
           u == DriftBeside(t, b, n, k)
           B == DOMAIN b \ DOMAIN n
           N == DOMAIN n \ DOMAIN b
           S == Shared(b, n)
           C(X) == RevisedIn(b, n, X)
           columns == RevisedColumns(b, n, k)
           new == {<<k, c>> : c \in columns}
<1>1. /\ StrictOrder(R, K) /\ StrictOrder(V, K \X Int)
      /\ \A l, o \in K : <<l, o>> \in R <=> Before(rank[l], rank[o])
      /\ \A l, o \in K, c, d \in Int :
           <<<<l, c>>, <<o, d>>>> \in V <=> Before(rank[l], rank[o]) \/ (l = o /\ c < d)
  BY SidesOrdered
<1>2. /\ k \in K /\ k \notin D /\ D \subseteq K
      /\ k \in DOMAIN b => \A l \in D \cap DOMAIN b : Before(rank[l], rank[k])
      /\ k \notin DOMAIN b => \A l \in D \ DOMAIN b : Before(rank[l], rank[k])
  BY DEF Comes
<1>3. /\ t = [aligned |-> t.aligned, baseOnly |-> t.baseOnly, newOnly |-> t.newOnly,
              revisions |-> t.revisions, values |-> t.values]
      /\ t.aligned = Cardinality(S \cap D)
      /\ TallyOf(t.baseOnly, B \cap D, R) /\ TallyOf(t.newOnly, N \cap D, R)
      /\ TallyOf(t.revisions, C(D), V) /\ ClassesAre(t.values, b, n, D)
  BY DEF DriftSoFar
<1>4. /\ IsFiniteSet(S) /\ IsFiniteSet(B) /\ IsFiniteSet(N) /\ IsFiniteSet(K)
  <2>1. IsFiniteSet(DOMAIN b) /\ IsFiniteSet(DOMAIN n)
    BY DEF AreSides
  <2>2. IsFiniteSet(K)
    BY <2>1, FS_Union
  <2> QED
    BY <2>2, SidesFinite
<1>5. ASSUME NEW X, IsFiniteSet(X)
      PROVE  /\ Cardinality(X \cap D) \in Nat
             /\ k \in X => /\ X \cap E = (X \cap D) \cup {k}
                           /\ Cardinality(X \cap E) = Cardinality(X \cap D) + 1
             /\ k \notin X => X \cap E = X \cap D
  <2>1. k \notin D
    BY <1>2
  <2> QED
    BY <1>5, <2>1, OneMoreBehind
<1>6. /\ C(D) \subseteq (S \cap D) \X Int
      /\ k \in S => /\ C(E) = C(D) \cup new
                    /\ IsFiniteSet(columns) /\ columns \subseteq Int
      /\ k \notin S => C(E) = C(D)
  <2>1. k \notin D
    BY <1>2
  <2>2. C(D) \subseteq (S \cap D) \X Int
    BY <2>1, RevisedGrows
  <2>3. ASSUME k \in S
        PROVE  /\ RevisedIn(b, n, D \cup {k}) = RevisedIn(b, n, D)
                     \cup {<<k, c>> : c \in RevisedColumns(b, n, k)}
               /\ IsFiniteSet(columns) /\ columns \subseteq Int
    BY <2>1, <2>3, RevisedGrows
  <2>4. k \notin S => C(E) = C(D)
    BY <2>1, RevisedGrows
  <2> QED
    BY <2>2, <2>3, <2>4
<1>7. S = DOMAIN b \cap DOMAIN n
  BY DEF Shared
<1>8. ASSUME /\ u = [aligned |-> u.aligned, baseOnly |-> u.baseOnly, newOnly |-> u.newOnly,
                     revisions |-> u.revisions, values |-> u.values]
             /\ u.aligned = Cardinality(S \cap E)
             /\ TallyOf(u.baseOnly, B \cap E, R) /\ TallyOf(u.newOnly, N \cap E, R)
             /\ TallyOf(u.revisions, C(E), V) /\ ClassesAre(u.values, b, n, E)
      PROVE  DriftSoFar(u, b, n, rank, E)
  <2> HIDE DEF u, E
  <2> QED
    BY <1>8 DEF DriftSoFar
<1>9. ASSUME NEW given, NEW old, NEW now, Fits(b, n, k, given, old, now)
      PROVE  ClassesAre(Classified(t.values, given, old, now), b, n, E)
  <2>1. k \notin D
    BY <1>2
  <2> QED
    BY <1>3, <1>4, <1>9, <2>1, ClassesGrow
<1> HIDE DEF R, V, S, C
<1>10. CASE k \notin DOMAIN n
  <2> DEFINE values == Classified(t.values, GivenIn(b[k]), b[k], Absent)
  <2>1. k \in B /\ k \notin N /\ k \notin S
    BY <1>2, <1>4, <1>7, <1>10
  <2>2. u = [[t EXCEPT !.baseOnly = Add(@, k)]
               EXCEPT !.values = Classified(@, GivenIn(b[k]), b[k], Absent)]
    BY <1>10 DEF DriftBeside
  <2>3. ClassesAre(values, b, n, E)
    BY <1>9, <2>1, ValuesFit
  <2> HIDE DEF u
  <2>4. u = [aligned |-> t.aligned, baseOnly |-> Add(t.baseOnly, k), newOnly |-> t.newOnly,
             revisions |-> t.revisions, values |-> values]
    BY <1>3, <2>2
  <2> HIDE DEF values
  <2>5. /\ u.aligned = t.aligned /\ u.revisions = t.revisions /\ u.values = values
        /\ u.baseOnly = Add(t.baseOnly, k) /\ u.newOnly = t.newOnly
    BY <2>4
  <2>6. B \cap D \subseteq K /\ \A l \in B \cap D : <<l, k>> \in R
    BY <1>1, <1>2, <2>1
  <2> HIDE DEF K, B, N, E
  <2>7. After(k, B \cap D, R)
    BY <1>1, <1>2, <2>6, LaterIsAfter
  <2>8. TallyOf(u.baseOnly, (B \cap D) \cup {k}, R)
    BY <1>3, <2>5, <2>7, AddTallies
  <2>9. /\ S \cap E = S \cap D
        /\ N \cap E = N \cap D /\ B \cap E = (B \cap D) \cup {k} /\ C(E) = C(D)
    BY <1>4, <1>5, <1>6, <2>1
  <2> QED
    BY <1>3, <1>8, <2>3, <2>4, <2>5, <2>8, <2>9 DEF E, u
<1>11. CASE k \in DOMAIN n /\ k \notin DOMAIN b
  <2> DEFINE values == Classified(t.values, GivenIn(n[k]), Absent, n[k])
  <2>1. k \in N /\ k \notin B /\ k \notin S
    BY <1>2, <1>4, <1>7, <1>11
  <2>2. u = [[t EXCEPT !.newOnly = Add(@, k)]
               EXCEPT !.values = Classified(@, GivenIn(n[k]), Absent, n[k])]
    BY <1>11 DEF DriftBeside
  <2>3. ClassesAre(values, b, n, E)
    BY <1>9, <2>1, ValuesFit
  <2> HIDE DEF u
  <2>4. u = [aligned |-> t.aligned, baseOnly |-> t.baseOnly, newOnly |-> Add(t.newOnly, k),
             revisions |-> t.revisions, values |-> values]
    BY <1>3, <2>2
  <2> HIDE DEF values
  <2>5. /\ u.aligned = t.aligned /\ u.revisions = t.revisions /\ u.values = values
        /\ u.baseOnly = t.baseOnly /\ u.newOnly = Add(t.newOnly, k)
    BY <2>4
  <2>6. N \cap D \subseteq K /\ \A l \in N \cap D : <<l, k>> \in R
    BY <1>1, <1>2, <1>11
  <2> HIDE DEF K, B, N, E
  <2>7. After(k, N \cap D, R)
    BY <1>1, <1>2, <2>6, LaterIsAfter
  <2>8. TallyOf(u.newOnly, (N \cap D) \cup {k}, R)
    BY <1>3, <2>5, <2>7, AddTallies
  <2>9. /\ S \cap E = S \cap D
        /\ B \cap E = B \cap D /\ N \cap E = (N \cap D) \cup {k} /\ C(E) = C(D)
    BY <1>4, <1>5, <1>6, <2>1
  <2> QED
    BY <1>3, <1>8, <2>3, <2>4, <2>5, <2>8, <2>9 DEF E, u
<1>12. CASE k \in DOMAIN n /\ k \in DOMAIN b
  <2> DEFINE revisions == AddAll(t.revisions, Keyed(k, columns))
             values == Classified(t.values, ValueColumns, b[k], n[k])
  <2>1. k \notin N /\ k \notin B /\ k \in S
    BY <1>7, <1>12
  <2>2. u = [t EXCEPT !.aligned = @ + 1,
                      !.values = Classified(@, ValueColumns, b[k], n[k]),
                      !.revisions = AddAll(@, Keyed(k, columns))]
    <3>1. u = classifyAlignedRow(t, k, b[k], n[k])
      BY <1>12 DEF DriftBeside
    <3> HIDE DEF u
    <3> QED
      BY <3>1 DEF classifyAlignedRow, Revisions, RevisedColumns
  <2>3. ClassesAre(values, b, n, E)
    BY <1>9, <2>1, ValuesFit DEF S
  <2>4. FollowsOn(k, columns, C(D), K \X Int, V)
    <3>1. C(D) \subseteq K \X Int /\ IsFiniteSet(columns) /\ columns \subseteq Int
      BY <1>6, <1>7, <2>1
    <3> HIDE DEF columns
    <3>2. \A o \in S \cap D, c, d \in Int : <<<<o, c>>, <<k, d>>>> \in V
      BY <1>1, <1>2, <1>7, <1>12
    <3>3. \A l \in C(D) : \E o \in S \cap D : \E c \in Int : l = <<o, c>>
      BY <1>6
    <3>4. \A c \in columns : <<k, c>> \in K \X Int
                             /\ \A x \in C(D) : <<x, <<k, c>>>> \in V
      BY <1>2, <3>1, <3>2, <3>3
    <3>5. \A c, d \in columns : c < d => <<<<k, c>>, <<k, d>>>> \in V
      BY <1>1, <1>2, <3>1
    <3> QED
      BY <1>1, <3>1, <3>4, <3>5 DEF FollowsOn
  <2> HIDE DEF u, columns
  <2>5. TallyOf(revisions, C(D) \cup {<<k, c>> : c \in columns}, V)
    BY <1>3, <2>4, ListedTallies
  <2> HIDE DEF new
  <2>6. u = [aligned |-> t.aligned + 1, baseOnly |-> t.baseOnly, newOnly |-> t.newOnly,
             revisions |-> revisions, values |-> values]
    BY <1>3, <2>2
  <2> HIDE DEF values
  <2>7. /\ u.aligned = t.aligned + 1 /\ u.revisions = revisions /\ u.values = values
        /\ u.baseOnly = t.baseOnly /\ u.newOnly = t.newOnly
    BY <2>6
  <2>8. TallyOf(u.revisions, C(E), V)
    BY <1>6, <2>1, <2>5, <2>7 DEF new
  <2> HIDE DEF E, K, B, N, revisions
  <2>9. /\ B \cap E = B \cap D /\ N \cap E = N \cap D
        /\ Cardinality(S \cap E) = t.aligned + 1
    BY <1>3, <1>4, <1>5, <2>1
  <2> QED
    BY <1>3, <1>8, <2>3, <2>6, <2>7, <2>8, <2>9 DEF E, u
<1> QED
  BY <1>10, <1>11, <1>12

(* Nothing behind the walk: no drift.                                       *)
LEMMA DriftBegins ==
    ASSUME NEW b, NEW n, NEW rank
    PROVE  DriftSoFar(EmptyDrift, b, n, rank, {})
<1> DEFINE zero == [c \in ValueColumns |-> [class \in Classes |-> 0]]
<1>1. EmptyDrift = [aligned |-> 0, baseOnly |-> None, newOnly |-> None,
                    revisions |-> None, values |-> zero]
  BY DEF EmptyDrift
<1>2. /\ EmptyDrift.aligned = 0 /\ EmptyDrift.baseOnly = None /\ EmptyDrift.newOnly = None
      /\ EmptyDrift.revisions = None /\ EmptyDrift.values = zero
  BY <1>1
<1>3. Cardinality({}) = 0
  BY FS_EmptySet
<1>4. RevisedIn(b, n, {}) = {}
  BY DEF RevisedIn
<1>5. \A R : TallyOf(None, {}, R)
  BY NoneTallied
<1>6. \A S : S \cap {} = {}
  OBVIOUS
<1>7. ClassesAre(zero, b, n, {})
  BY <1>3, <1>6 DEF ClassesAre
<1> HIDE DEF zero
<1> QED
  BY <1>1, <1>2, <1>3, <1>4, <1>5, <1>6, <1>7 DEF DriftSoFar

(* Everything behind the walk: the drift is that of the sides.              *)
LEMMA DriftEnds ==
    ASSUME NEW b, NEW n, AreDriftRows(b, n), NEW t,
           DriftSoFar(t, b, n, ColumnsRank(DOMAIN b \cup DOMAIN n), DOMAIN b \cup DOMAIN n)
    PROVE  Drifted(t, b, n)
<1> DEFINE K == DOMAIN b \cup DOMAIN n
           rank == ColumnsRank(K)
           onlyB == DOMAIN b \ DOMAIN n  onlyN == DOMAIN n \ DOMAIN b
           revised == RevisedValues(b, n)
<1>1. /\ Shared(b, n) \cap K = Shared(b, n) /\ onlyB \cap K = onlyB /\ onlyN \cap K = onlyN
      /\ \A class, c : ValuesOf(class, b, n, c) \cap K = ValuesOf(class, b, n, c)
  BY DEF Shared, ValuesOf
<1>2. RevisedIn(b, n, K) \subseteq K \X Int
  <2> HIDE DEF K
  <2>1. ASSUME NEW x \in RevisedIn(b, n, K) PROVE x \in K \X Int
    <3>1. PICK c \in ValueColumns : \E k \in ValuesOf("revised", b, n, c) : x = <<k, c>>
      BY DEF RevisedIn, RevisedValues
    <3>2. ValueColumns \subseteq Int
      BY ComparisonAssumption DEF ValueColumns
    <3>3. x[1] \in K
      BY DEF RevisedIn
    <3> QED
      BY <3>1, <3>2, <3>3
  <2> QED
    BY <2>1
<1>3. RevisedIn(b, n, K) = revised
  <2>1. ASSUME NEW x \in revised PROVE x[1] \in K
    <3>1. PICK c \in ValueColumns : \E k \in ValuesOf("revised", b, n, c) : x = <<k, c>>
      BY DEF RevisedValues
    <3> QED
      BY <3>1 DEF ValuesOf
  <2> QED
    BY <2>1 DEF RevisedIn
<1>4. /\ t.aligned = Cardinality(Shared(b, n))
      /\ TallyOf(t.baseOnly, onlyB, ByKey(rank, K)) /\ TallyOf(t.newOnly, onlyN, ByKey(rank, K))
      /\ TallyOf(t.revisions, revised, ByKey(ValueRank(rank, K), K \X Int))
      /\ ClassesAre(t.values, b, n, K)
  BY <1>1, <1>3 DEF DriftSoFar, InKeys, InValues
<1>5. \A c \in ValueColumns : \A class \in Classes :
        t.values[c][class] = Cardinality(ValuesOf(class, b, n, c))
  BY <1>1, <1>4 DEF ClassesAre
<1>6. onlyB \subseteq K /\ onlyN \subseteq K /\ revised \subseteq K \X Int
  BY <1>2, <1>3
<1> HIDE DEF K, onlyB, onlyN, revised
<1>7. Lists2(t.baseOnly, onlyB) /\ Lists2(t.newOnly, onlyN)
  BY <1>4, <1>6, ColumnsListed
<1>8. LET ByValue(kc) == Append(ByColumns(kc[1]), kc[2])
      IN Lists(t.revisions.total, t.revisions.samples, Cap, revised, ByValue)
  BY <1>4, <1>6, ColumnValuesListed
<1>9. LET ByValue(kc) == Append(kc[1], kc[2])
      IN Lists(t.revisions.total, t.revisions.samples, Cap, revised, ByValue)
  BY <1>8 DEF ByColumns
<1> QED
  BY <1>4, <1>5, <1>7, <1>9 DEF Drifted, RevisedValues, onlyB, onlyN, revised

-----------------------------------------------------------------------------
(* Two slices in the order of their texts, merged.                          *)

(* The order of the columns is that of the rendered keys.                   *)
LEMMA PairOrder ==
    ASSUME NEW k \in Int \X Nat, NEW l \in Int \X Nat
    PROVE  /\ k \in [1 .. 2 -> Int]
           /\ Before(k, l) <=> k[1] < l[1] \/ (k[1] = l[1] /\ k[2] < l[2])
           /\ TextBefore(k, l) <=> Before(k, l)
           /\ TextBefore(rowKey(k), rowKey(l)) <=> Before(k, l)
<1>1. PICK p \in Int, a \in Nat : k = <<p, a>>
  OBVIOUS
<1>2. PICK q \in Int, c \in Nat : l = <<q, c>>
  OBVIOUS
<1>3. k \in [1 .. 2 -> Int]
  BY <1>1
<1>4. DOMAIN k = 1 .. 2 /\ DOMAIN l = 1 .. 2 /\ k[1] = p /\ k[2] = a /\ l[1] = q /\ l[2] = c
  BY <1>1, <1>2
<1>5. /\ 1 .. 2 = {1, 2} /\ 1 .. 1 - 1 = {} /\ 1 .. 2 - 1 = {1}
      /\ 1 .. 3 = {1, 2, 3} /\ 1 .. 3 - 1 = {1, 2}
  OBVIOUS
<1>6. Before(k, l) <=> p < q \/ (p = q /\ a < c)
  BY <1>4, <1>5 DEF Before
<1>7. TextBefore(k, l) <=> p < q \/ (p = q /\ a < c)
  BY <1>4, <1>5 DEF TextBefore
<1> DEFINE x == rowKey(k)  y == rowKey(l)
<1>8. /\ x = <<p, a \div 10, a % 10>> /\ y = <<q, c \div 10, c % 10>>
  BY <1>4 DEF rowKey
<1>9. /\ DOMAIN x = 1 .. 3 /\ DOMAIN y = 1 .. 3
      /\ x[1] = p /\ x[2] = a \div 10 /\ x[3] = a % 10
      /\ y[1] = q /\ y[2] = c \div 10 /\ y[3] = c % 10
  BY <1>8
<1> HIDE DEF x, y
<1>10. TextBefore(x, y) <=>
          \/ p < q
          \/ p = q /\ a \div 10 < c \div 10
          \/ p = q /\ a \div 10 = c \div 10 /\ a % 10 < c % 10
  BY <1>5, <1>9 DEF TextBefore
<1>11. a < c <=> a \div 10 < c \div 10 \/ (a \div 10 = c \div 10 /\ a % 10 < c % 10)
  OBVIOUS
<1> QED
  BY <1>3, <1>4, <1>6, <1>7, <1>10, <1>11 DEF x, y

(* Of two keys one comes first.                                             *)
LEMMA PairsTotal ==
    ASSUME NEW k \in Int \X Nat, NEW l \in Int \X Nat
    PROVE  /\ ~Before(k, k)
           /\ Before(k, l) \/ Before(l, k) \/ k = l
           /\ ~(Before(k, l) /\ Before(l, k))
<1>1. /\ Before(k, l) <=> k[1] < l[1] \/ (k[1] = l[1] /\ k[2] < l[2])
      /\ Before(l, k) <=> l[1] < k[1] \/ (l[1] = k[1] /\ l[2] < k[2])
      /\ Before(k, k) <=> k[1] < k[1] \/ (k[1] = k[1] /\ k[2] < k[2])
  BY PairOrder
<1>2. k = l <=> k[1] = l[1] /\ k[2] = l[2]
  OBVIOUS
<1> QED
  BY <1>1, <1>2

(* The rows of a table, in order.                                           *)
SelectedIs(q, table) ==
    /\ Len(q) = Cardinality(DOMAIN table) /\ Len(q) \in Nat
    /\ \A i \in 1 .. Len(q) : /\ q[i].key \in DOMAIN table
                              /\ q[i].values = table[q[i].key]
    /\ \A k \in DOMAIN table : \E i \in 1 .. Len(q) : q[i].key = k
    /\ \A i, j \in 1 .. Len(q) : i < j <=> Before(q[i].key, q[j].key)

(* The query gives the rows so.                                             *)
LEMMA SelectedOrders ==
    ASSUME NEW table, IsFiniteSet(DOMAIN table), DOMAIN table \subseteq Int \X Nat
    PROVE  SelectedIs(Selected(table), table)
<1> DEFINE S == DOMAIN table
           key == ColumnsRank(S)
           w == [i \in 1 .. Cardinality(S) |->
                    CHOOSE x \in S :
                        Cardinality({r \in S : Before(key[r], key[x])}) = i - 1]
           q == Selected(table)
<1>1. \A k \in S : key[k] = k /\ key[k] \in [1 .. 2 -> Int]
  BY PairOrder DEF ColumnsRank
<1>2. \A x \in S : {r \in S : Before(key[r], key[x])} = {r \in S : TextBefore(r, x)}
  BY <1>1, PairOrder
<1>3. q = [i \in 1 .. Cardinality(S) |-> [key |-> w[i], values |-> table[w[i]]]]
  <2> DEFINE Next1(i) == CHOOSE x \in S : Cardinality({r \in S : TextBefore(r, x)}) = i - 1
             Next2(i) == CHOOSE x \in S :
                 Cardinality({r \in S : Before(key[r], key[x])}) = i - 1
  <2> HIDE DEF key
  <2>1. \A i : Next1(i) = Next2(i)
    BY <1>2
  <2>2. q = [i \in 1 .. Cardinality(S) |->
                [key |-> Next1(i), values |-> table[Next1(i)]]]
    BY DEF Selected
  <2>3. w = [i \in 1 .. Cardinality(S) |-> Next2(i)]
    OBVIOUS
  <2> HIDE DEF q, Next1, Next2, w
  <2> QED
    BY <2>1, <2>2, <2>3
<1>4. InRank(w, ByKey(key, S), S)
  <2> DEFINE m == 2
  <2>1. m \in Nat /\ \A k \in S : key[k] \in [1 .. m -> Int]
    BY <1>1
  <2>2. \A k, l \in S : key[k] = key[l] => k = l
    BY <1>1
  <2>3. \E p : p = w
    OBVIOUS
  <2> HIDE DEF m, key
  <2> QED
    BY <2>1, <2>2, OrderedBy
<1>5. \A k, l \in S : <<k, l>> \in ByKey(key, S) <=> Before(k, l)
  BY <1>1 DEF ByKey
<1> HIDE DEF w, q, key
<1>6. /\ Cardinality(S) \in Nat
      /\ \A i \in 1 .. Cardinality(S) : w[i] \in S
      /\ \A k \in S : \E i \in 1 .. Cardinality(S) : w[i] = k
      /\ \A i, j \in 1 .. Cardinality(S) : i < j <=> Before(w[i], w[j])
  BY <1>4, <1>5 DEF InRank
<1> DEFINE size == Cardinality(S)
<1>7. Len(q) = size
  <2>1. size \in Nat /\ DOMAIN q = 1 .. size
    BY <1>3, <1>6
  <2> HIDE DEF size
  <2> QED
    BY <2>1
<1>8. \A i \in 1 .. Cardinality(S) : q[i].key = w[i] /\ q[i].values = table[w[i]]
  BY <1>3
<1>9. SelectedIs(q, table)
  <2> HIDE DEF size
  <2>1. size \in Nat /\ Len(q) = size /\ \A i \in 1 .. size : w[i] \in S /\ q[i].key = w[i]
    BY <1>6, <1>7, <1>8 DEF size
  <2>2. \A i \in 1 .. size : q[i].values = table[q[i].key]
    BY <1>8 DEF size
  <2>3. \A k \in S : \E i \in 1 .. size : q[i].key = k
    <3>1. \A k \in S : \E i \in 1 .. size : w[i] = k
      BY <1>6 DEF size
    <3> SUFFICES ASSUME NEW k \in S PROVE \E i \in 1 .. size : q[i].key = k
      OBVIOUS
    <3>2. PICK i \in 1 .. size : w[i] = k
      BY <3>1
    <3>3. q[i].key = k
      BY <2>1, <3>2
    <3> QED
      BY <3>3
  <2>4. \A i, j \in 1 .. size : i < j <=> Before(q[i].key, q[j].key)
    <3>1. \A i, j \in 1 .. size : i < j <=> Before(w[i], w[j])
      BY <1>6 DEF size
    <3> QED
      BY <2>1, <3>1
  <2> QED
    BY <2>1, <2>2, <2>3, <2>4 DEF SelectedIs, size
<1> QED
  BY <1>9 DEF q

(* What is behind a merge: the keys before both places, and no other.       *)
AreTables(b, n) ==
    /\ IsFiniteSet(DOMAIN b) /\ IsFiniteSet(DOMAIN n)
    /\ DOMAIN b \subseteq Int \X Nat /\ DOMAIN n \subseteq Int \X Nat
Behind(p, i, q, j, D, b, n) ==
    /\ i \in 1 .. Len(p) + 1 /\ j \in 1 .. Len(q) + 1
    /\ D \subseteq DOMAIN b \cup DOMAIN n
    /\ \A k \in D : \A l \in (DOMAIN b \cup DOMAIN n) \ D : Before(k, l)
    /\ \A a \in 1 .. Len(p) : p[a].key \in D <=> a < i
    /\ \A a \in 1 .. Len(q) : q[a].key \in D <=> a < j

(* The order of pairs, without their columns.                               *)
LEMMA OrderOfPairs ==
    ASSUME NEW K, K \subseteq Int \X Nat
    PROVE  /\ \A k \in K : ~Before(k, k)
           /\ \A k, l \in K : Before(k, l) \/ Before(l, k) \/ k = l
           /\ \A k, l \in K : ~(Before(k, l) /\ Before(l, k))
           /\ \A k, l, o \in K : Before(k, l) /\ Before(l, o) => Before(k, o)
<1>1. \A k, l \in K : /\ ~Before(k, k) /\ (Before(k, l) \/ Before(l, k) \/ k = l)
                      /\ ~(Before(k, l) /\ Before(l, k))
  BY PairsTotal
<1>2. ASSUME NEW k \in K, NEW l \in K, NEW o \in K, Before(k, l), Before(l, o)
      PROVE  Before(k, o)
  <2>1. /\ Before(k, l) <=> k[1] < l[1] \/ (k[1] = l[1] /\ k[2] < l[2])
        /\ Before(l, o) <=> l[1] < o[1] \/ (l[1] = o[1] /\ l[2] < o[2])
        /\ Before(k, o) <=> k[1] < o[1] \/ (k[1] = o[1] /\ k[2] < o[2])
    BY PairOrder
  <2>2. k[1] \in Int /\ k[2] \in Int /\ l[1] \in Int /\ l[2] \in Int /\ o[1] \in Int /\ o[2] \in Int
    OBVIOUS
  <2> QED
    BY <1>2, <2>1, <2>2
<1> QED
  BY <1>1, <1>2

(* A row of one slice alone: it is in no row of the other.                  *)
LEMMA MergeTakesOne ==
    ASSUME NEW b, NEW n, AreTables(b, n), NEW p, NEW q, SelectedIs(p, b), SelectedIs(q, n),
           NEW i, NEW j, NEW D, Behind(p, i, q, j, D, b, n),
           i <= Len(p), j <= Len(q) => Before(p[i].key, q[j].key)
    PROVE  /\ p[i].key \in (DOMAIN b \ DOMAIN n) \ D
           /\ \A l \in D : Before(l, p[i].key)
           /\ Behind(p, i + 1, q, j, D \cup {p[i].key}, b, n)
<1> DEFINE K == DOMAIN b \cup DOMAIN n
           k == p[i].key
           E == D \cup {k}
<1>1. /\ \A x \in K : ~Before(x, x)
      /\ \A x, y \in K : Before(x, y) \/ Before(y, x) \/ x = y
      /\ \A x, y, z \in K : Before(x, y) /\ Before(y, z) => Before(x, z)
  <2>1. K \subseteq Int \X Nat
    BY DEF AreTables
  <2> HIDE DEF K
  <2> QED
    BY <2>1, OrderOfPairs
<1>2. /\ Len(p) \in Nat /\ \A a \in 1 .. Len(p) : p[a].key \in DOMAIN b
      /\ \A x \in DOMAIN b : \E a \in 1 .. Len(p) : p[a].key = x
      /\ \A a, c \in 1 .. Len(p) : a < c <=> Before(p[a].key, p[c].key)
  BY DEF SelectedIs
<1>3. /\ Len(q) \in Nat /\ \A a \in 1 .. Len(q) : q[a].key \in DOMAIN n
      /\ \A x \in DOMAIN n : \E a \in 1 .. Len(q) : q[a].key = x
      /\ \A a, c \in 1 .. Len(q) : a < c <=> Before(q[a].key, q[c].key)
  BY DEF SelectedIs
<1>4. /\ i \in 1 .. Len(p) + 1 /\ j \in 1 .. Len(q) + 1 /\ D \subseteq K
      /\ \A x \in D : \A l \in K \ D : Before(x, l)
      /\ \A a \in 1 .. Len(p) : p[a].key \in D <=> a < i
      /\ \A a \in 1 .. Len(q) : q[a].key \in D <=> a < j
  BY DEF Behind
<1>5. i \in 1 .. Len(p) /\ i \in Nat /\ j \in Nat
  BY <1>2, <1>3, <1>4
<1>6. k \in DOMAIN b /\ k \in K /\ k \notin D
  BY <1>2, <1>4, <1>5
<1>7. ASSUME NEW a \in 1 .. Len(q), a >= j
      PROVE  Before(k, q[a].key)
  <2>1. j \in 1 .. Len(q) /\ Before(k, q[j].key)
    BY <1>3, <1>4, <1>7
  <2>2. q[j].key \in K /\ q[a].key \in K
    BY <1>3, <2>1
  <2>3. CASE a = j
    BY <2>1, <2>3
  <2>4. CASE a > j
    <3>1. Before(q[j].key, q[a].key)
      BY <1>3, <2>1, <2>4
    <3> QED
      BY <1>1, <1>6, <2>1, <2>2, <3>1
  <2> QED
    BY <1>5, <1>7, <2>3, <2>4
<1>8. k \notin DOMAIN n
  <2> SUFFICES ASSUME k \in DOMAIN n PROVE FALSE
    OBVIOUS
  <2>1. PICK a \in 1 .. Len(q) : q[a].key = k
    BY <1>3
  <2>2. a >= j
    BY <1>3, <1>4, <1>5, <1>6, <2>1
  <2>3. Before(k, k)
    BY <1>7, <2>1, <2>2
  <2> QED
    BY <1>1, <1>6, <2>3
<1>9. \A l \in D : Before(l, k)
  BY <1>4, <1>6
<1>10. ASSUME NEW x \in E, NEW l \in K \ E PROVE Before(x, l)
  <2>1. CASE x \in D
    BY <1>4, <2>1
  <2>2. CASE x = k /\ l \in DOMAIN n
    <3>1. PICK a \in 1 .. Len(q) : q[a].key = l
      BY <1>3, <2>2
    <3>2. a >= j
      BY <1>3, <1>4, <1>5, <3>1
    <3> QED
      BY <1>7, <2>2, <3>1, <3>2
  <2>3. CASE x = k /\ l \in DOMAIN b
    <3>1. PICK a \in 1 .. Len(p) : p[a].key = l
      BY <1>2, <2>3
    <3>2. a >= i /\ a # i
      BY <1>2, <1>4, <1>5, <3>1
    <3> QED
      BY SMTT(30), <1>2, <1>5, <2>3, <3>1, <3>2
  <2> QED
    BY <2>1, <2>2, <2>3
<1>11. \A a \in 1 .. Len(p) : p[a].key \in E <=> a < i + 1
  <2> TAKE a \in 1 .. Len(p)
  <2>1. p[a].key = k <=> a = i
    <3>1. p[a].key = k => ~(a < i) /\ ~(i < a)
      BY <1>1, <1>2, <1>5, <1>6
    <3> QED
      BY <1>5, <3>1
  <2>2. p[a].key \in D <=> a < i
    BY <1>4
  <2> HIDE DEF k
  <2> QED
    BY <1>5, <2>1, <2>2
<1>12. \A a \in 1 .. Len(q) : q[a].key \in E <=> a < j
  BY <1>3, <1>4, <1>8
<1>13. i + 1 \in 1 .. Len(p) + 1 /\ E \subseteq K
  BY <1>2, <1>4, <1>5, <1>6
<1> HIDE DEF E, k
<1>14. Behind(p, i + 1, q, j, E, b, n)
  BY <1>4, <1>10, <1>11, <1>12, <1>13 DEF Behind
<1> QED
  BY <1>6, <1>8, <1>9, <1>14 DEF E, k

(* The same with the slices exchanged.                                      *)
LEMMA BehindTurned ==
    ASSUME NEW b, NEW n, NEW p, NEW q, NEW i, NEW j, NEW D
    PROVE  /\ Behind(p, i, q, j, D, b, n) <=> Behind(q, j, p, i, D, n, b)
           /\ AreTables(b, n) <=> AreTables(n, b)
<1>1. DOMAIN b \cup DOMAIN n = DOMAIN n \cup DOMAIN b
  OBVIOUS
<1>2. Behind(p, i, q, j, D, b, n) <=> Behind(q, j, p, i, D, n, b)
  BY <1>1 DEF Behind
<1> QED
  BY <1>2 DEF AreTables

(* Two rows of which neither is first have one key.                         *)
LEMMA MergeTakesBoth ==
    ASSUME NEW b, NEW n, AreTables(b, n), NEW p, NEW q, SelectedIs(p, b), SelectedIs(q, n),
           NEW i, NEW j, NEW D, Behind(p, i, q, j, D, b, n),
           i <= Len(p), j <= Len(q),
           ~Before(p[i].key, q[j].key), ~Before(q[j].key, p[i].key)
    PROVE  /\ p[i].key = q[j].key
           /\ p[i].key \in (DOMAIN b \cap DOMAIN n) \ D
           /\ \A l \in D : Before(l, p[i].key)
           /\ Behind(p, i + 1, q, j + 1, D \cup {p[i].key}, b, n)
<1> DEFINE K == DOMAIN b \cup DOMAIN n
           k == p[i].key
           E == D \cup {k}
<1>1. /\ \A x \in K : ~Before(x, x)
      /\ \A x, y \in K : Before(x, y) \/ Before(y, x) \/ x = y
  <2>1. K \subseteq Int \X Nat
    BY DEF AreTables
  <2> HIDE DEF K
  <2> QED
    BY <2>1, OrderOfPairs
<1>2. /\ Len(p) \in Nat /\ \A a \in 1 .. Len(p) : p[a].key \in DOMAIN b
      /\ \A x \in DOMAIN b : \E a \in 1 .. Len(p) : p[a].key = x
      /\ \A a, c \in 1 .. Len(p) : a < c <=> Before(p[a].key, p[c].key)
  BY DEF SelectedIs
<1>3. /\ Len(q) \in Nat /\ \A a \in 1 .. Len(q) : q[a].key \in DOMAIN n
      /\ \A x \in DOMAIN n : \E a \in 1 .. Len(q) : q[a].key = x
      /\ \A a, c \in 1 .. Len(q) : a < c <=> Before(q[a].key, q[c].key)
  BY DEF SelectedIs
<1>4. /\ i \in 1 .. Len(p) + 1 /\ j \in 1 .. Len(q) + 1 /\ D \subseteq K
      /\ \A x \in D : \A l \in K \ D : Before(x, l)
      /\ \A a \in 1 .. Len(p) : p[a].key \in D <=> a < i
      /\ \A a \in 1 .. Len(q) : q[a].key \in D <=> a < j
  BY DEF Behind
<1>5. i \in 1 .. Len(p) /\ i \in Nat /\ j \in Nat /\ j \in 1 .. Len(q)
  BY <1>2, <1>3, <1>4
<1>6. k \in DOMAIN b /\ k \in K /\ k \notin D /\ q[j].key \in DOMAIN n /\ q[j].key \in K
  BY SMTT(30), <1>2, <1>3, <1>4, <1>5
<1>7. k = q[j].key
  BY <1>1, <1>6
<1>8. \A l \in D : Before(l, k)
  BY <1>4, <1>6
<1>9. ASSUME NEW a \in 1 .. Len(p) PROVE p[a].key = k <=> a = i
  <2>1. p[a].key = k => ~(a < i) /\ ~(i < a)
    BY <1>1, <1>2, <1>5, <1>6
  <2> QED
    BY <1>5, <2>1
<1>10. ASSUME NEW a \in 1 .. Len(q) PROVE q[a].key = k <=> a = j
  <2>1. q[a].key = k => ~(a < j) /\ ~(j < a)
    BY <1>1, <1>3, <1>5, <1>6, <1>7
  <2> QED
    BY <1>5, <1>7, <2>1
<1> HIDE DEF k
<1>11. ASSUME NEW x \in E, NEW l \in K \ E PROVE Before(x, l)
  <2>1. CASE x \in D
    BY <1>4, <2>1
  <2>2. CASE x = k /\ l \in DOMAIN n
    <3>1. PICK a \in 1 .. Len(q) : q[a].key = l
      BY <1>3, <2>2
    <3>2. a >= j /\ a # j
      BY <1>4, <1>5, <1>10, <3>1
    <3> QED
      BY SMTT(30), <1>3, <1>5, <1>7, <2>2, <3>1, <3>2
  <2>3. CASE x = k /\ l \in DOMAIN b
    <3>1. PICK a \in 1 .. Len(p) : p[a].key = l
      BY <1>2, <2>3
    <3>2. a >= i /\ a # i
      BY <1>4, <1>5, <1>9, <3>1
    <3> QED
      BY SMTT(30), <1>2, <1>5, <2>3, <3>1, <3>2 DEF k
  <2> QED
    BY <2>1, <2>2, <2>3
<1>12. \A a \in 1 .. Len(p) : p[a].key \in E <=> a < i + 1
  BY <1>4, <1>5, <1>9
<1>13. \A a \in 1 .. Len(q) : q[a].key \in E <=> a < j + 1
  BY <1>4, <1>5, <1>10
<1>14. i + 1 \in 1 .. Len(p) + 1 /\ j + 1 \in 1 .. Len(q) + 1 /\ E \subseteq K
  BY <1>2, <1>3, <1>4, <1>5, <1>6
<1> HIDE DEF E
<1>15. Behind(p, i + 1, q, j + 1, E, b, n)
  BY <1>4, <1>11, <1>12, <1>13, <1>14 DEF Behind
<1> QED
  BY <1>6, <1>7, <1>8, <1>15 DEF E, k

(* At the end of both slices everything is behind.                          *)
LEMMA MergeLeavesNone ==
    ASSUME NEW b, NEW n, NEW p, NEW q, SelectedIs(p, b), SelectedIs(q, n),
           NEW i, NEW j, NEW D, Behind(p, i, q, j, D, b, n), ~(i <= Len(p)), ~(j <= Len(q))
    PROVE  D = DOMAIN b \cup DOMAIN n
<1>1. /\ Len(p) \in Nat /\ \A x \in DOMAIN b : \E a \in 1 .. Len(p) : p[a].key = x
      /\ Len(q) \in Nat /\ \A x \in DOMAIN n : \E a \in 1 .. Len(q) : q[a].key = x
  BY DEF SelectedIs
<1>2. /\ i \in 1 .. Len(p) + 1 /\ j \in 1 .. Len(q) + 1 /\ D \subseteq DOMAIN b \cup DOMAIN n
      /\ \A a \in 1 .. Len(p) : p[a].key \in D <=> a < i
      /\ \A a \in 1 .. Len(q) : q[a].key \in D <=> a < j
  BY DEF Behind
<1>3. ASSUME NEW x \in DOMAIN b PROVE x \in D
  <2>1. PICK a \in 1 .. Len(p) : p[a].key = x
    BY <1>1
  <2> QED
    BY <1>1, <1>2, <2>1
<1>4. ASSUME NEW x \in DOMAIN n PROVE x \in D
  <2>1. PICK a \in 1 .. Len(q) : q[a].key = x
    BY <1>1
  <2> QED
    BY <1>1, <1>2, <2>1
<1> QED
  BY <1>2, <1>3, <1>4

(* At the beginning nothing is.                                             *)
LEMMA MergeBegins ==
    ASSUME NEW b, NEW n, NEW p, NEW q, SelectedIs(p, b), SelectedIs(q, n)
    PROVE  Behind(p, 1, q, 1, {}, b, n)
  BY DEF Behind, SelectedIs

(* What a table's job is made of.                                           *)
LEMMA TablesCompared ==
    ASSUME NEW gate \in {"table", "drift"}, NEW job \in Jobs[gate]
    PROVE  LET b == job.base  n == job.updated IN
           /\ AreTables(b, n) /\ AreDriftRows(b, n) /\ AreRows(b, n)
           /\ AreSides(b, n, ColumnsRank(DOMAIN b \cup DOMAIN n), 2)
           /\ SelectedIs(Selected(b), b) /\ SelectedIs(Selected(n), n)
<1> DEFINE b == job.base  n == job.updated  K == DOMAIN b \cup DOMAIN n
<1>1. /\ IsFiniteSet(DOMAIN b) /\ IsFiniteSet(DOMAIN n)
      /\ \A side \in {b, n} : /\ DOMAIN side \subseteq Int \X Nat
                              /\ \A k \in DOMAIN side :
                                   /\ side[k] = [c \in 1 .. Width |-> side[k][c]]
                                   /\ IsFiniteSet(1 .. Width) /\ 1 .. Width \subseteq Int
  BY JobsAssumption
<1> HIDE DEF b, n
<1>2. AreTables(b, n)
  BY <1>1 DEF AreTables
<1>3. AreDriftRows(b, n)
  BY <1>1 DEF AreDriftRows, ValueColumns
<1>4. AreRows(b, n)
  <2> SUFFICES ASSUME NEW k \in Shared(b, n)
               PROVE  /\ b[k] = [c \in DOMAIN b[k] |-> b[k][c]]
                      /\ n[k] = [c \in DOMAIN b[k] |-> n[k][c]]
                      /\ IsFiniteSet(DOMAIN b[k]) /\ DOMAIN b[k] \subseteq Int
    BY DEF AreRows
  <2>1. k \in DOMAIN b /\ k \in DOMAIN n
    BY DEF Shared
  <2>2. /\ b[k] = [c \in 1 .. Width |-> b[k][c]] /\ n[k] = [c \in 1 .. Width |-> n[k][c]]
        /\ IsFiniteSet(1 .. Width) /\ 1 .. Width \subseteq Int
    BY <1>1, <2>1
  <2>3. DOMAIN b[k] = 1 .. Width
    BY <2>2
  <2> QED
    BY <2>2, <2>3
<1>5. AreSides(b, n, ColumnsRank(K), 2)
  <2> DEFINE m == 2
  <2>1. m \in Nat /\ K \subseteq [1 .. m -> Int]
    <3>1. K \subseteq Int \X Nat
      BY <1>1
    <3>2. \A k \in K : k \in [1 .. 2 -> Int]
      BY <3>1, PairOrder
    <3> QED
      BY <3>2
  <2> HIDE DEF m, K
  <2>2. Ranks(ColumnsRank(K), K, m)
    BY <2>1, ColumnsRanked
  <2> QED
    BY <1>1, <2>2 DEF AreSides, m, K
<1>6. SelectedIs(Selected(b), b)
  BY <1>1, SelectedOrders
<1>7. SelectedIs(Selected(n), n)
  BY <1>1, SelectedOrders
<1> QED
  BY <1>2, <1>3, <1>4, <1>5, <1>6, <1>7 DEF b, n

(* What the two merges have gathered.                                       *)
MergedSoFar(gate, t, b, n, D) ==
    LET rank == ColumnsRank(DOMAIN b \cup DOMAIN n) IN
    IF gate = "drift" THEN DriftSoFar(t, b, n, rank, D) ELSE TableSoFar(t, b, n, rank, D)
MergeBeside(gate, t, b, n, k) ==
    IF gate = "drift" THEN DriftBeside(t, b, n, k) ELSE SetBeside(t, b, n, k)
Merging(c, gate, job, i, j) ==
    c = [at |-> "merge", gate |-> gate, job |-> job, i |-> i, j |-> j,
         base |-> Selected(job.base), updated |-> Selected(job.updated), tally |-> c.tally]
MergedTo(gate, job, i, j, t, D) ==
    /\ Behind(Selected(job.base), i, Selected(job.updated), j, D, job.base, job.updated)
    /\ MergedSoFar(gate, t, job.base, job.updated, D)
MergeInv ==
    \E gate \in {"table", "drift"} : \E job \in Jobs[gate] : \E i, j \in Nat : \E D :
        Merging(compare, gate, job, i, j) /\ MergedTo(gate, job, i, j, compare.tally, D)

(* One more key behind the merge.                                           *)
LEMMA MergedTakes ==
    ASSUME NEW gate \in {"table", "drift"}, NEW job \in Jobs[gate],
           NEW i, NEW j, NEW t, NEW D, MergedTo(gate, job, i, j, t, D),
           NEW k \in (DOMAIN job.base \cup DOMAIN job.updated) \ D,
           \A l \in D : Before(l, k),
           NEW x, NEW y, Behind(Selected(job.base), x, Selected(job.updated), y,
                                D \cup {k}, job.base, job.updated)
    PROVE  MergedTo(gate, job, x, y, MergeBeside(gate, t, job.base, job.updated, k), D \cup {k})
<1> DEFINE b == job.base  n == job.updated
           rank == ColumnsRank(DOMAIN b \cup DOMAIN n)
           m == 2
           u == MergeBeside(gate, t, b, n, k)
<1>1. AreDriftRows(b, n) /\ AreRows(b, n) /\ AreSides(b, n, rank, m)
  BY TablesCompared
<1>2. /\ D \subseteq DOMAIN b \cup DOMAIN n
      /\ MergedSoFar(gate, t, b, n, D)
  BY DEF MergedTo, Behind
<1>3. \A l \in DOMAIN b \cup DOMAIN n : rank[l] = l
  BY DEF ColumnsRank
<1> HIDE DEF b, n, rank, m
<1>4. Comes(k, D, b, n, rank)
  BY <1>2, <1>3 DEF Comes, b, n
<1>5. CASE gate = "drift"
  <2>1. DriftSoFar(t, b, n, rank, D)
    BY <1>2, <1>5 DEF MergedSoFar, rank
  <2>2. DriftSoFar(DriftBeside(t, b, n, k), b, n, rank, D \cup {k})
    BY <1>1, <1>4, <2>1, DriftTakes
  <2>3. MergedSoFar(gate, u, b, n, D \cup {k})
    BY <1>5, <2>2 DEF MergedSoFar, MergeBeside, rank
  <2> QED
    BY <2>3 DEF MergedTo, b, n
<1>6. CASE gate # "drift"
  <2>1. TableSoFar(t, b, n, rank, D)
    BY <1>2, <1>6 DEF MergedSoFar, rank
  <2>2. TableSoFar(SetBeside(t, b, n, k), b, n, rank, D \cup {k})
    BY <1>1, <1>4, <2>1, TableTakes
  <2>3. MergedSoFar(gate, u, b, n, D \cup {k})
    BY <1>6, <2>2 DEF MergedSoFar, MergeBeside, rank
  <2> QED
    BY <2>3 DEF MergedTo, b, n
<1> QED
  BY <1>5, <1>6

(* A merge starts with nothing behind it.                                   *)
LEMMA MergeStartsWell ==
    ASSUME NEW gate \in {"table", "drift"}, NEW job \in Jobs[gate],
           compare' = [at |-> "merge", gate |-> gate, job |-> job, i |-> 1, j |-> 1,
                       base |-> Selected(job.base), updated |-> Selected(job.updated),
                       tally |-> IF gate = "drift" THEN EmptyDrift ELSE EmptyTable]
    PROVE  MergeInv'
<1> DEFINE b == job.base  n == job.updated
           rank == ColumnsRank(DOMAIN b \cup DOMAIN n)
           t == IF gate = "drift" THEN EmptyDrift ELSE EmptyTable
<1>1. SelectedIs(Selected(b), b) /\ SelectedIs(Selected(n), n)
  BY TablesCompared
<1>2. Behind(Selected(b), 1, Selected(n), 1, {}, b, n)
  BY <1>1, MergeBegins
<1>3. DriftSoFar(EmptyDrift, b, n, rank, {}) /\ TableSoFar(EmptyTable, b, n, rank, {})
  BY DriftBegins, TableBegins
<1>4. MergedSoFar(gate, t, b, n, {})
  BY <1>3 DEF MergedSoFar
<1> HIDE DEF t
<1>5. compare' = [at |-> "merge", gate |-> gate, job |-> job, i |-> 1, j |-> 1,
                  base |-> Selected(job.base), updated |-> Selected(job.updated),
                  tally |-> t]
  BY DEF t
<1>6. compare'.tally = t
  BY <1>5
<1>7. Merging(compare', gate, job, 1, 1)
  BY <1>5, <1>6 DEF Merging
<1>8. MergedTo(gate, job, 1, 1, compare'.tally, {})
  BY <1>2, <1>4, <1>6 DEF MergedTo
<1> QED
  BY <1>7, <1>8 DEF MergeInv

(* What is read from the two places.                                        *)
LEMMA PlacesAre ==
    ASSUME NEW gate, NEW job, NEW i, NEW j, Merging(compare, gate, job, i, j)
    PROVE  LET p == Selected(job.base)  q == Selected(job.updated) IN
           /\ compare.gate = gate /\ compare.job = job /\ compare.i = i /\ compare.j = j
           /\ compare.at = "merge"
           /\ BaseLeft <=> i <= Len(p)
           /\ NewLeft <=> j <= Len(q)
           /\ BaseRow = p[i] /\ NewRow = q[j]
           /\ Drift <=> gate = "drift"
<1>1. /\ compare.gate = gate /\ compare.job = job /\ compare.i = i /\ compare.j = j
      /\ compare.at = "merge"
      /\ compare.base = Selected(job.base) /\ compare.updated = Selected(job.updated)
  BY DEF Merging
<1> QED
  BY <1>1 DEF BaseLeft, NewLeft, BaseRow, NewRow, Drift

(* A row of the base alone.                                                 *)
LEMMA BaseOnlyWell == MergeInv /\ MergeBaseOnly => MergeInv'
<1> SUFFICES ASSUME MergeInv, MergeBaseOnly PROVE MergeInv'
  OBVIOUS
<1>a. PICK gate \in {"table", "drift"} : \E job \in Jobs[gate] : \E i, j \in Nat : \E D :
          Merging(compare, gate, job, i, j) /\ MergedTo(gate, job, i, j, compare.tally, D)
  BY DEF MergeInv
<1>b. PICK job \in Jobs[gate] : \E i, j \in Nat : \E D :
          Merging(compare, gate, job, i, j) /\ MergedTo(gate, job, i, j, compare.tally, D)
  BY <1>a
<1>c. PICK i \in Nat, j \in Nat : \E D :
          Merging(compare, gate, job, i, j) /\ MergedTo(gate, job, i, j, compare.tally, D)
  BY <1>b
<1>1. PICK D :
          Merging(compare, gate, job, i, j) /\ MergedTo(gate, job, i, j, compare.tally, D)
  BY <1>c
<1> DEFINE b == job.base  n == job.updated
           p == Selected(b)  q == Selected(n)
           k == p[i].key
           u == MergeBeside(gate, compare.tally, b, n, k)
<1>2. /\ compare.gate = gate /\ compare.job = job /\ compare.i = i /\ compare.j = j
      /\ BaseLeft <=> i <= Len(p)
      /\ NewLeft <=> j <= Len(q)
      /\ BaseRow = p[i] /\ NewRow = q[j]
      /\ Drift <=> gate = "drift"
  BY <1>1, PlacesAre
<1>3. /\ AreTables(b, n) /\ SelectedIs(p, b) /\ SelectedIs(q, n)
  BY TablesCompared
<1>4. Behind(p, i, q, j, D, b, n)
  BY <1>1 DEF MergedTo
<1>5. i <= Len(p) /\ (j <= Len(q) => Before(p[i].key, q[j].key))
  <2>1. /\ i <= Len(p)
        /\ j <= Len(q) => TextBefore(rowKey(p[i].key), rowKey(q[j].key))
    BY <1>2 DEF MergeBaseOnly, TakesBase, BaseIsFirst
  <2>2. ASSUME j <= Len(q) PROVE p[i].key \in Int \X Nat /\ q[j].key \in Int \X Nat
    <3>1. i \in 1 .. Len(p) /\ j \in 1 .. Len(q)
      BY <1>3, <1>4, <2>1, <2>2 DEF Behind, SelectedIs
    <3> QED
      BY <1>3, <3>1 DEF SelectedIs, AreTables
  <2> QED
    BY <2>1, <2>2, PairOrder
<1>6. /\ k \in (DOMAIN b \ DOMAIN n) \ D /\ (\A l \in D : Before(l, k))
      /\ Behind(p, i + 1, q, j, D \cup {k}, b, n)
  <2> HIDE DEF b, n, p, q
  <2> QED
    BY <1>3, <1>4, <1>5, MergeTakesOne
<1>7. p[i].values = b[k]
  <2>1. i \in 1 .. Len(p)
    BY <1>3, <1>4, <1>5 DEF Behind, SelectedIs
  <2> QED
    BY <1>3, <2>1 DEF SelectedIs
<1>8. MergedTo(gate, job, i + 1, j, u, D \cup {k})
  BY <1>1, <1>6, MergedTakes
<1>9. compare' = [at |-> "merge", gate |-> gate, job |-> job, i |-> i + 1, j |-> j,
                  base |-> p, updated |-> q, tally |-> u]
  <2>1. compare = [at |-> "merge", gate |-> gate, job |-> job, i |-> i, j |-> j,
                   base |-> p, updated |-> q, tally |-> compare.tally]
    BY <1>1 DEF Merging
  <2> DEFINE t == compare.tally
  <2>2. k \notin DOMAIN n
    BY <1>6
  <2> HIDE DEF b, n, p, q, k
  <2>3. u = IF gate = "drift"
            THEN [[compare.tally EXCEPT !.baseOnly = Add(@, k)]
                    EXCEPT !.values = Classified(@, GivenIn(b[k]), b[k], Absent)]
            ELSE [compare.tally EXCEPT !.baseOnly = Add(@, k)]
    BY <2>2 DEF MergeBeside, DriftBeside, SetBeside
  <2> HIDE DEF u
  <2>4. compare' = [compare EXCEPT !.i = @ + 1, !.tally = u]
    BY <1>2, <1>7, <2>3 DEF MergeBaseOnly, k
  <2>5. compare = [at |-> "merge", gate |-> gate, job |-> job, i |-> i, j |-> j,
                   base |-> p, updated |-> q, tally |-> t]
    BY <2>1
  <2> HIDE DEF t
  <2> QED
    BY <2>4, <2>5
<1> HIDE DEF u, k, p, q
<1>10. compare'.tally = u
  BY <1>9
<1>11. Merging(compare', gate, job, i + 1, j)
  BY <1>9, <1>10 DEF Merging, p, q
<1> QED
  BY <1>8, <1>10, <1>11 DEF MergeInv

(* A row of the other side alone.                                           *)
LEMMA NewOnlyWell == MergeInv /\ MergeNewOnly => MergeInv'
<1> SUFFICES ASSUME MergeInv, MergeNewOnly PROVE MergeInv'
  OBVIOUS
<1>a. PICK gate \in {"table", "drift"} : \E job \in Jobs[gate] : \E i, j \in Nat : \E D :
          Merging(compare, gate, job, i, j) /\ MergedTo(gate, job, i, j, compare.tally, D)
  BY DEF MergeInv
<1>b. PICK job \in Jobs[gate] : \E i, j \in Nat : \E D :
          Merging(compare, gate, job, i, j) /\ MergedTo(gate, job, i, j, compare.tally, D)
  BY <1>a
<1>c. PICK i \in Nat, j \in Nat : \E D :
          Merging(compare, gate, job, i, j) /\ MergedTo(gate, job, i, j, compare.tally, D)
  BY <1>b
<1>1. PICK D :
          Merging(compare, gate, job, i, j) /\ MergedTo(gate, job, i, j, compare.tally, D)
  BY <1>c
<1> DEFINE b == job.base  n == job.updated
           p == Selected(b)  q == Selected(n)
           k == q[j].key
           u == MergeBeside(gate, compare.tally, b, n, k)
<1>2. /\ compare.gate = gate /\ compare.job = job /\ compare.i = i /\ compare.j = j
      /\ BaseLeft <=> i <= Len(p)
      /\ NewLeft <=> j <= Len(q)
      /\ BaseRow = p[i] /\ NewRow = q[j]
      /\ Drift <=> gate = "drift"
  BY <1>1, PlacesAre
<1>3. /\ AreTables(b, n) /\ SelectedIs(p, b) /\ SelectedIs(q, n)
  BY TablesCompared
<1>4. Behind(p, i, q, j, D, b, n)
  BY <1>1 DEF MergedTo
<1>5. j <= Len(q) /\ (i <= Len(p) => Before(q[j].key, p[i].key))
  <2>1. /\ j <= Len(q)
        /\ i <= Len(p) => TextBefore(rowKey(q[j].key), rowKey(p[i].key))
    BY <1>2 DEF MergeNewOnly, TakesNew, NewIsFirst
  <2>2. ASSUME i <= Len(p) PROVE p[i].key \in Int \X Nat /\ q[j].key \in Int \X Nat
    <3>1. i \in 1 .. Len(p) /\ j \in 1 .. Len(q)
      BY <1>3, <1>4, <2>1, <2>2 DEF Behind, SelectedIs
    <3> QED
      BY <1>3, <3>1 DEF SelectedIs, AreTables
  <2> QED
    BY <2>1, <2>2, PairOrder
<1>6. /\ k \in (DOMAIN n \ DOMAIN b) \ D /\ (\A l \in D : Before(l, k))
      /\ Behind(p, i, q, j + 1, D \cup {k}, b, n)
  <2> HIDE DEF b, n, p, q
  <2>1. Behind(q, j, p, i, D, n, b) /\ AreTables(n, b)
    BY <1>3, <1>4, BehindTurned
  <2>2. /\ k \in (DOMAIN n \ DOMAIN b) \ D /\ (\A l \in D : Before(l, k))
        /\ Behind(q, j + 1, p, i, D \cup {k}, n, b)
    BY <1>3, <1>5, <2>1, MergeTakesOne
  <2> HIDE DEF k
  <2> QED
    BY <2>2, BehindTurned
<1>7. q[j].values = n[k]
  <2>1. j \in 1 .. Len(q)
    BY <1>3, <1>4, <1>5 DEF Behind, SelectedIs
  <2> QED
    BY <1>3, <2>1 DEF SelectedIs
<1>8. MergedTo(gate, job, i, j + 1, u, D \cup {k})
  BY <1>1, <1>6, MergedTakes
<1>9. compare' = [at |-> "merge", gate |-> gate, job |-> job, i |-> i, j |-> j + 1,
                  base |-> p, updated |-> q, tally |-> u]
  <2>1. compare = [at |-> "merge", gate |-> gate, job |-> job, i |-> i, j |-> j,
                   base |-> p, updated |-> q, tally |-> compare.tally]
    BY <1>1 DEF Merging
  <2> DEFINE t == compare.tally
  <2>2. k \in DOMAIN n /\ k \notin DOMAIN b
    BY <1>6
  <2> HIDE DEF b, n, p, q, k
  <2>3. u = IF gate = "drift"
            THEN [[compare.tally EXCEPT !.newOnly = Add(@, k)]
                    EXCEPT !.values = Classified(@, GivenIn(n[k]), Absent, n[k])]
            ELSE [compare.tally EXCEPT !.newOnly = Add(@, k)]
    BY <2>2 DEF MergeBeside, DriftBeside, SetBeside
  <2> HIDE DEF u
  <2>4. compare' = [compare EXCEPT !.j = @ + 1, !.tally = u]
    BY <1>2, <1>7, <2>3 DEF MergeNewOnly, k
  <2>5. compare = [at |-> "merge", gate |-> gate, job |-> job, i |-> i, j |-> j,
                   base |-> p, updated |-> q, tally |-> t]
    BY <2>1
  <2> HIDE DEF t
  <2> QED
    BY <2>4, <2>5
<1> HIDE DEF u, k, p, q
<1>10. compare'.tally = u
  BY <1>9
<1>11. Merging(compare', gate, job, i, j + 1)
  BY <1>9, <1>10 DEF Merging, p, q
<1> QED
  <2>1. j + 1 \in Nat
    OBVIOUS
  <2> QED
    BY <1>8, <1>10, <1>11, <2>1 DEF MergeInv

(* A row of both.                                                           *)
LEMMA AlignedWell == MergeInv /\ MergeAligned => MergeInv'
<1> SUFFICES ASSUME MergeInv, MergeAligned PROVE MergeInv'
  OBVIOUS
<1>a. PICK gate \in {"table", "drift"} : \E job \in Jobs[gate] : \E i, j \in Nat : \E D :
          Merging(compare, gate, job, i, j) /\ MergedTo(gate, job, i, j, compare.tally, D)
  BY DEF MergeInv
<1>b. PICK job \in Jobs[gate] : \E i, j \in Nat : \E D :
          Merging(compare, gate, job, i, j) /\ MergedTo(gate, job, i, j, compare.tally, D)
  BY <1>a
<1>c. PICK i \in Nat, j \in Nat : \E D :
          Merging(compare, gate, job, i, j) /\ MergedTo(gate, job, i, j, compare.tally, D)
  BY <1>b
<1>1. PICK D :
          Merging(compare, gate, job, i, j) /\ MergedTo(gate, job, i, j, compare.tally, D)
  BY <1>c
<1> DEFINE b == job.base  n == job.updated
           p == Selected(b)  q == Selected(n)
           k == p[i].key
           u == MergeBeside(gate, compare.tally, b, n, k)
<1>2. /\ compare.gate = gate /\ compare.job = job /\ compare.i = i /\ compare.j = j
      /\ BaseLeft <=> i <= Len(p)
      /\ NewLeft <=> j <= Len(q)
      /\ BaseRow = p[i] /\ NewRow = q[j]
      /\ Drift <=> gate = "drift"
  BY <1>1, PlacesAre
<1>3. /\ AreTables(b, n) /\ SelectedIs(p, b) /\ SelectedIs(q, n)
  BY TablesCompared
<1>4. Behind(p, i, q, j, D, b, n)
  BY <1>1 DEF MergedTo
<1>5. i <= Len(p) /\ j <= Len(q) /\ i \in 1 .. Len(p) /\ j \in 1 .. Len(q)
  BY <1>2, <1>3, <1>4 DEF MergeAligned, Behind, SelectedIs
<1>6. ~Before(p[i].key, q[j].key) /\ ~Before(q[j].key, p[i].key)
  <2>1. /\ ~TextBefore(rowKey(p[i].key), rowKey(q[j].key))
        /\ ~TextBefore(rowKey(q[j].key), rowKey(p[i].key))
    BY <1>2 DEF MergeAligned, TakesBase, TakesNew, BaseIsFirst, NewIsFirst
  <2>2. p[i].key \in Int \X Nat /\ q[j].key \in Int \X Nat
    BY <1>3, <1>5 DEF SelectedIs, AreTables
  <2> QED
    BY <2>1, <2>2, PairOrder
<1>7. /\ k = q[j].key /\ k \in (DOMAIN b \cap DOMAIN n) \ D /\ (\A l \in D : Before(l, k))
      /\ Behind(p, i + 1, q, j + 1, D \cup {k}, b, n)
  <2> HIDE DEF b, n, p, q
  <2> QED
    BY <1>3, <1>4, <1>5, <1>6, MergeTakesBoth
<1>8. p[i].values = b[k] /\ q[j].values = n[k]
  BY <1>3, <1>5, <1>7 DEF SelectedIs
<1>9. MergedTo(gate, job, i + 1, j + 1, u, D \cup {k})
  BY <1>1, <1>7, MergedTakes
<1>10. compare' = [at |-> "merge", gate |-> gate, job |-> job, i |-> i + 1, j |-> j + 1,
                   base |-> p, updated |-> q, tally |-> u]
  <2>1. compare = [at |-> "merge", gate |-> gate, job |-> job, i |-> i, j |-> j,
                   base |-> p, updated |-> q, tally |-> compare.tally]
    BY <1>1 DEF Merging
  <2> DEFINE t == compare.tally
  <2>2. k \in DOMAIN b /\ k \in DOMAIN n
    BY <1>7
  <2> HIDE DEF b, n, p, q, k
  <2>3. u = IF gate = "drift" THEN classifyAlignedRow(compare.tally, k, b[k], n[k])
            ELSE Aligned(compare.tally, k, b[k], n[k])
    BY <2>2 DEF MergeBeside, DriftBeside, SetBeside
  <2> HIDE DEF u
  <2>4. compare' = [compare EXCEPT !.i = @ + 1, !.j = @ + 1, !.tally = u]
    BY <1>2, <1>8, <2>3 DEF MergeAligned, k
  <2>5. compare = [at |-> "merge", gate |-> gate, job |-> job, i |-> i, j |-> j,
                   base |-> p, updated |-> q, tally |-> t]
    BY <2>1
  <2> HIDE DEF t
  <2> QED
    BY <2>4, <2>5
<1> HIDE DEF u, k, p, q
<1>11. compare'.tally = u
  BY <1>10
<1>12. Merging(compare', gate, job, i + 1, j + 1)
  BY <1>10, <1>11 DEF Merging, p, q
<1> QED
  BY <1>9, <1>11, <1>12 DEF MergeInv

(* Both slices at their end: what is reported is what the tables amount to.  *)
LEMMA MergeEndsWell == MergeInv /\ MergeEnds => Compared' /\ compare'.at = "compared"
<1> SUFFICES ASSUME MergeInv, MergeEnds PROVE Compared' /\ compare'.at = "compared"
  OBVIOUS
<1>a. PICK gate \in {"table", "drift"} : \E job \in Jobs[gate] : \E i, j \in Nat : \E D :
          Merging(compare, gate, job, i, j) /\ MergedTo(gate, job, i, j, compare.tally, D)
  BY DEF MergeInv
<1>b. PICK job \in Jobs[gate] : \E i, j \in Nat : \E D :
          Merging(compare, gate, job, i, j) /\ MergedTo(gate, job, i, j, compare.tally, D)
  BY <1>a
<1>c. PICK i \in Nat, j \in Nat : \E D :
          Merging(compare, gate, job, i, j) /\ MergedTo(gate, job, i, j, compare.tally, D)
  BY <1>b
<1>1. PICK D :
          Merging(compare, gate, job, i, j) /\ MergedTo(gate, job, i, j, compare.tally, D)
  BY <1>c
<1> DEFINE b == job.base  n == job.updated
           p == Selected(b)  q == Selected(n)
           K == DOMAIN b \cup DOMAIN n
           rank == ColumnsRank(K)
           t == compare.tally
           m == 2
<1>2. /\ BaseLeft <=> i <= Len(p)
      /\ NewLeft <=> j <= Len(q)
  BY <1>1, PlacesAre
<1>3. /\ AreSides(b, n, rank, m) /\ AreRows(b, n) /\ AreDriftRows(b, n)
      /\ SelectedIs(p, b) /\ SelectedIs(q, n)
  BY TablesCompared
<1>4. D = K
  <2>1. ~(i <= Len(p)) /\ ~(j <= Len(q)) /\ Behind(p, i, q, j, D, b, n)
    BY <1>1, <1>2 DEF MergeEnds, MergedTo
  <2> HIDE DEF p, q, b, n
  <2> QED
    BY <1>3, <2>1, MergeLeavesNone
<1>5. MergedSoFar(gate, t, b, n, K)
  BY <1>1, <1>4 DEF MergedTo
<1>6. /\ compare'.at = "compared" /\ compare'.gate = gate /\ compare'.job = job
      /\ compare'.tally = t
  BY <1>1 DEF Merging, MergeEnds
<1>7. CASE gate = "drift"
  <2>1. DriftSoFar(t, b, n, rank, K)
    BY <1>5, <1>7 DEF MergedSoFar
  <2>2. Drifted(t, b, n)
    <3> HIDE DEF b, n, t
    <3> QED
      BY <1>3, <2>1, DriftEnds
  <2> HIDE DEF t
  <2> QED
    BY <1>6, <1>7, <2>2 DEF Compared
<1>8. CASE gate = "table"
  <2>1. TableSoFar(t, b, n, rank, K)
    BY <1>5, <1>8 DEF MergedSoFar
  <2>2. TableIs(t, b, n, rank)
    <3> HIDE DEF b, n, t, rank, m
    <3> QED
      BY <1>3, <2>1, TableCounts
  <2>3. Tallied(t, b, n, ByColumns)
    BY <2>2, ColumnsTallied
  <2> HIDE DEF t
  <2> QED
    BY <1>6, <1>8, <2>3 DEF Compared
<1> QED
  BY <1>7, <1>8

-----------------------------------------------------------------------------
(* The union of two key sets, walked.                                       *)

(* In the links a station that derives none comes after those that do.      *)
Ahead(gate, l, k, b) ==
    gate = "links" => (l \in DOMAIN b <=> k \in DOMAIN b)
InTurn(gate, l, k, b) == Ahead(gate, l, k, b) => l < k
WalkedTo(gate, left, D, b, n) ==
    /\ D \subseteq DOMAIN b \cup DOMAIN n
    /\ left \in Seq(DOMAIN b \cup DOMAIN n)
    /\ \A k \in DOMAIN b \cup DOMAIN n : k \in D \/ \E i \in 1 .. Len(left) : left[i] = k
    /\ \A i \in 1 .. Len(left) : left[i] \notin D
    /\ \A i, j \in 1 .. Len(left) : i < j =>
         left[i] # left[j] /\ InTurn(gate, left[i], left[j], b)
    /\ \A l \in D : \A i \in 1 .. Len(left) : InTurn(gate, l, left[i], b)

(* The first key left is the next one.                                      *)
LEMMA WalkTakes ==
    ASSUME NEW gate, NEW b, NEW n, NEW left, NEW D, WalkedTo(gate, left, D, b, n), left # <<>>
    PROVE  /\ Head(left) \in (DOMAIN b \cup DOMAIN n) \ D
           /\ \A l \in D : InTurn(gate, l, Head(left), b)
           /\ WalkedTo(gate, Tail(left), D \cup {Head(left)}, b, n)
<1> DEFINE K == DOMAIN b \cup DOMAIN n
           k == Head(left)
           rest == Tail(left)
           E == D \cup {k}
<1>1. /\ D \subseteq K /\ left \in Seq(K)
      /\ \A x \in K : x \in D \/ \E i \in 1 .. Len(left) : left[i] = x
      /\ \A i \in 1 .. Len(left) : left[i] \notin D
      /\ \A i, j \in 1 .. Len(left) : i < j =>
           left[i] # left[j] /\ InTurn(gate, left[i], left[j], b)
      /\ \A l \in D : \A i \in 1 .. Len(left) : InTurn(gate, l, left[i], b)
  BY DEF WalkedTo
<1> HIDE DEF K
<1>2. /\ k = left[1] /\ k \in K /\ Len(left) \in Nat /\ 1 \in 1 .. Len(left)
      /\ rest \in Seq(K) /\ Len(rest) = Len(left) - 1
      /\ \A i \in 1 .. Len(rest) : rest[i] = left[i + 1]
  <2>1. left \in Seq(K) /\ left # <<>>
    BY <1>1
  <2>2. Len(left) \in Nat /\ Len(left) > 0
    BY <2>1
  <2>3. /\ k = left[1] /\ k \in K /\ rest \in Seq(K) /\ Len(rest) = Len(left) - 1
        /\ \A i \in 1 .. Len(rest) : rest[i] = left[i + 1]
    BY <2>1, HeadTailProperties
  <2> QED
    BY <2>2, <2>3
<1> HIDE DEF k, rest
<1>3. \A i \in 1 .. Len(rest) : i + 1 \in 1 .. Len(left) /\ 1 < i + 1 /\ rest[i] = left[i + 1]
  BY <1>2
<1>4. ASSUME NEW x \in K PROVE x \in E \/ \E i \in 1 .. Len(rest) : rest[i] = x
  <2>1. CASE x \in D
    BY <2>1
  <2>2. CASE x \notin D
    <3>1. PICK i \in 1 .. Len(left) : left[i] = x
      BY <1>1, <2>2
    <3>2. CASE i = 1
      BY <1>2, <3>1, <3>2
    <3>3. CASE i # 1
      <4>1. i - 1 \in 1 .. Len(rest) /\ (i - 1) + 1 = i
        BY <1>2, <3>1, <3>3
      <4>2. rest[i - 1] = x
        BY <1>3, <3>1, <4>1
      <4> QED
        BY <4>1, <4>2
    <3> QED
      BY <3>2, <3>3
  <2> QED
    BY <2>1, <2>2
<1>5. \A i \in 1 .. Len(rest) : rest[i] \notin E /\ InTurn(gate, k, rest[i], b)
  BY <1>1, <1>2, <1>3
<1>6. \A i, j \in 1 .. Len(rest) : i < j =>
          rest[i] # rest[j] /\ InTurn(gate, rest[i], rest[j], b)
  <2> TAKE i, j \in 1 .. Len(rest)
  <2>1. /\ i + 1 \in 1 .. Len(left) /\ j + 1 \in 1 .. Len(left) /\ (i < j => i + 1 < j + 1)
        /\ rest[i] = left[i + 1] /\ rest[j] = left[j + 1]
    BY <1>3
  <2> QED
    BY <1>1, <2>1
<1>7. \A l \in E : \A i \in 1 .. Len(rest) : InTurn(gate, l, rest[i], b)
  BY <1>1, <1>3, <1>5
<1>8. E \subseteq K
  BY <1>1, <1>2
<1> HIDE DEF E
<1>9. WalkedTo(gate, rest, E, b, n)
  BY <1>2, <1>4, <1>5, <1>6, <1>7, <1>8 DEF WalkedTo, K
<1>10. k \in K \ D /\ \A l \in D : InTurn(gate, l, k, b)
  BY <1>1, <1>2
<1> QED
  BY <1>9, <1>10 DEF E, k, rest, K

(* At the beginning every key is left, in its turn.                         *)
LEMMA WalkBegins ==
    ASSUME NEW gate, NEW b, NEW n, IsFiniteSet(DOMAIN b), IsFiniteSet(DOMAIN n),
           DOMAIN b \cup DOMAIN n \subseteq Int
    PROVE  WalkedTo(gate, KeysToWalk(gate, b, n), {}, b, n)
<1> DEFINE K == DOMAIN b \cup DOMAIN n
           alone == DOMAIN n \ DOMAIN b
           p == Ordered(DOMAIN b)
           q == Ordered(alone)
           all == Ordered(K)
<1>1. /\ IsFiniteSet(K) /\ K \subseteq Int
      /\ IsFiniteSet(alone) /\ alone \subseteq Int /\ DOMAIN b \subseteq Int
  BY FS_Union, FS_Subset
<1>2. CASE gate # "links"
  <2>1. KeysToWalk(gate, b, n) = all
    BY <1>2 DEF KeysToWalk
  <2>2. InOrder(all, K)
    <3> HIDE DEF K
    <3> QED
      BY <1>1, OrderedIs
  <2>3. /\ all \in Seq(K) /\ Len(all) \in Nat
        /\ \A i, j \in 1 .. Len(all) : i < j <=> all[i] < all[j]
        /\ K = {all[i] : i \in 1 .. Len(all)}
    BY <2>2 DEF InOrder
  <2> HIDE DEF all
  <2>4. \A i, j \in 1 .. Len(all) : i < j => all[i] # all[j] /\ all[i] < all[j]
    <3>1. \A i \in 1 .. Len(all) : all[i] \in Int
      BY <1>1, <2>3
    <3> QED
      BY <2>3, <3>1
  <2>5. \A k \in K : \E i \in 1 .. Len(all) : all[i] = k
    BY <2>3
  <2>6. WalkedTo(gate, all, {}, b, n)
    BY <2>3, <2>4, <2>5 DEF WalkedTo, InTurn
  <2> QED
    BY <2>1, <2>6
<1>3. CASE gate = "links"
  <2> DEFINE left == p \o q
  <2>1. KeysToWalk(gate, b, n) = left
    BY <1>3 DEF KeysToWalk
  <2>2. InOrder(p, DOMAIN b) /\ InOrder(q, alone)
    <3> HIDE DEF alone
    <3> QED
      BY <1>1, OrderedIs
  <2>3. /\ p \in Seq(DOMAIN b) /\ Len(p) \in Nat
        /\ \A i, j \in 1 .. Len(p) : i < j <=> p[i] < p[j]
        /\ DOMAIN b = {p[i] : i \in 1 .. Len(p)}
        /\ q \in Seq(alone) /\ Len(q) \in Nat
        /\ \A i, j \in 1 .. Len(q) : i < j <=> q[i] < q[j]
        /\ alone = {q[i] : i \in 1 .. Len(q)}
    BY <2>2 DEF InOrder
  <2>4. p \in Seq(K) /\ q \in Seq(K)
    BY <2>3
  <2> HIDE DEF K, p, q
  <2>5. /\ left \in Seq(K) /\ Len(left) = Len(p) + Len(q)
        /\ \A i \in 1 .. Len(left) : left[i] = IF i <= Len(p) THEN p[i] ELSE q[i - Len(p)]
    BY <2>4, ConcatProperties
  <2> HIDE DEF left
  <2>6. ASSUME NEW i \in 1 .. Len(left)
        PROVE  /\ i <= Len(p) => i \in 1 .. Len(p) /\ left[i] = p[i] /\ left[i] \in DOMAIN b
               /\ i > Len(p) => /\ i - Len(p) \in 1 .. Len(q) /\ left[i] = q[i - Len(p)]
                                /\ left[i] \in DOMAIN n /\ left[i] \notin DOMAIN b
    <3>1. CASE i <= Len(p)
      <4>1. i \in 1 .. Len(p) /\ left[i] = p[i]
        BY <2>3, <2>5, <3>1
      <4> QED
        BY <2>3, <3>1, <4>1
    <3>2. CASE i > Len(p)
      <4>1. i - Len(p) \in 1 .. Len(q) /\ left[i] = q[i - Len(p)]
        BY <2>3, <2>5, <3>2
      <4>2. left[i] \in alone
        BY <2>3, <4>1
      <4> QED
        BY <2>3, <3>2, <4>1, <4>2
    <3> QED
      BY <2>3, <3>1, <3>2
  <2>7. ASSUME NEW i \in 1 .. Len(left), NEW j \in 1 .. Len(left), i < j
        PROVE  left[i] # left[j] /\ InTurn(gate, left[i], left[j], b)
    <3>1. CASE j <= Len(p)
      <4>1. i \in 1 .. Len(p) /\ j \in 1 .. Len(p)
        BY <2>3, <2>7, <3>1
      <4>2. p[i] < p[j] /\ p[i] \in DOMAIN b /\ p[j] \in DOMAIN b
        BY <2>3, <2>7, <4>1
      <4>3. left[i] = p[i] /\ left[j] = p[j]
        <5>1. i <= Len(p) /\ j <= Len(p)
          BY <2>3, <4>1
        <5> QED
          BY <2>6, <5>1
      <4>4. p[i] \in Int /\ p[j] \in Int
        BY <1>1, <4>2
      <4>5. left[i] < left[j] /\ left[i] # left[j]
        BY <4>2, <4>3, <4>4
      <4> QED
        BY <4>5 DEF InTurn
    <3>2. CASE i > Len(p)
      <4>1. /\ i - Len(p) \in 1 .. Len(q) /\ j - Len(p) \in 1 .. Len(q)
            /\ i - Len(p) < j - Len(p)
            /\ left[i] = q[i - Len(p)] /\ left[j] = q[j - Len(p)]
        BY <2>3, <2>6, <2>7, <3>2
      <4>2. left[i] < left[j]
        BY <2>3, <4>1
      <4>3. left[i] \in Int /\ left[j] \in Int
        BY <1>1, <2>3, <4>1
      <4> QED
        BY <4>2, <4>3 DEF InTurn
    <3>3. CASE i <= Len(p) /\ j > Len(p)
      <4>1. left[i] \in DOMAIN b /\ left[j] \notin DOMAIN b
        BY <2>6, <3>3
      <4> QED
        BY <1>3, <4>1 DEF InTurn, Ahead
    <3> QED
      BY <2>3, <3>1, <3>2, <3>3
  <2>8. ASSUME NEW k \in K PROVE \E i \in 1 .. Len(left) : left[i] = k
    <3>1. CASE k \in DOMAIN b
      <4>1. PICK i \in 1 .. Len(p) : p[i] = k
        BY <2>3, <3>1
      <4>2. i \in 1 .. Len(left) /\ left[i] = p[i]
        BY <2>3, <2>5, <4>1
      <4> QED
        BY <4>1, <4>2
    <3>2. CASE k \notin DOMAIN b
      <4>1. PICK i \in 1 .. Len(q) : q[i] = k
        BY <2>3, <3>2 DEF K
      <4>2. /\ i + Len(p) \in 1 .. Len(left) /\ ~(i + Len(p) <= Len(p))
            /\ (i + Len(p)) - Len(p) = i
        BY <2>3, <2>5, <4>1
      <4>3. left[i + Len(p)] = q[i]
        BY <2>5, <4>2
      <4> QED
        BY <4>1, <4>2, <4>3
    <3> QED
      BY <3>1, <3>2
  <2>9. WalkedTo(gate, left, {}, b, n)
    BY <2>5, <2>7, <2>8 DEF WalkedTo, K
  <2> QED
    BY <2>1, <2>9
<1> QED
  BY <1>2, <1>3

(* At the end none is.                                                      *)
LEMMA WalkEnds ==
    ASSUME NEW gate, NEW b, NEW n, NEW D, WalkedTo(gate, <<>>, D, b, n)
    PROVE  D = DOMAIN b \cup DOMAIN n
<1>1. Len(<<>>) = 0
  OBVIOUS
<1> QED
  BY <1>1 DEF WalkedTo

(* The next key of a walk comes after those behind it.                      *)
LEMMA NextComes ==
    ASSUME NEW gate, NEW b, NEW n, DOMAIN b \cup DOMAIN n \subseteq Int,
           NEW D, D \subseteq DOMAIN b \cup DOMAIN n,
           NEW k \in (DOMAIN b \cup DOMAIN n) \ D, \A l \in D : InTurn(gate, l, k, b)
    PROVE  Comes(k, D, b, n, NumberRank(DOMAIN b \cup DOMAIN n))
<1> DEFINE K == DOMAIN b \cup DOMAIN n
           rank == NumberRank(K)
<1>1. \A x, y \in K : Before(rank[x], rank[y]) <=> x < y
  <2>1. K \subseteq Int
    OBVIOUS
  <2> HIDE DEF K
  <2> QED
    BY <2>1, NumbersRanked
<1> HIDE DEF rank
<1>2. /\ k \in DOMAIN b => \A l \in D \cap DOMAIN b : l < k
      /\ k \notin DOMAIN b => \A l \in D \ DOMAIN b : l < k
  BY DEF InTurn, Ahead
<1>3. Comes(k, D, b, n, rank)
  BY <1>1, <1>2 DEF Comes
<1> QED
  BY <1>3 DEF rank

-----------------------------------------------------------------------------
(* Sums over the keys behind a walk.                                        *)

(* A sum is any of its summands and the rest.                               *)
LEMMA SumWithout ==
    ASSUME NEW S, IsFiniteSet(S), NEW f, \A x \in S : f[x] \in Int, NEW x \in S
    PROVE  /\ SumAt(f, S) = f[x] + SumAt(f, S \ {x})
           /\ SumAt(f, S) \in Int /\ SumAt(f, S \ {x}) \in Int
<1> DEFINE Holds(T) == \A y \in T : SumAt(f, T) = f[y] + SumAt(f, T \ {y})
           Bad == {T \in SUBSET S : ~Holds(T)}
<1>1. \A T \in SUBSET S : SumAt(f, T) \in Int
  BY SumStep
<1>2. Bad = {}
  <2> SUFFICES ASSUME Bad # {} PROVE FALSE
    OBVIOUS
  <2>1. PICK T \in Bad : \A s \in Bad : s \subseteq T => s = T
    <3>1. Bad \subseteq SUBSET S
      OBVIOUS
    <3> HIDE DEF Bad
    <3> QED
      BY <3>1, SmallestSubset
  <2>2. T \in SUBSET S /\ ~Holds(T)
    OBVIOUS
  <2>3. PICK y \in T : SumAt(f, T) # f[y] + SumAt(f, T \ {y})
    BY <2>2
  <2> DEFINE p == Pick(T)
  <2>4. /\ p \in T /\ SumAt(f, T) = f[p] + SumAt(f, T \ {p})
        /\ SumAt(f, T \ {p}) \in Int
    <3>1. T \in SUBSET S /\ T # {}
      BY <2>2, <2>3
    <3> HIDE DEF Holds, Bad
    <3>2. /\ Pick(T) \in T
          /\ SumAt(f, T) = f[Pick(T)] + SumAt(f, T \ {Pick(T)})
          /\ SumAt(f, T) \in Int /\ SumAt(f, T \ {Pick(T)}) \in Int
      BY <3>1, SumTakes
    <3> QED
      BY <3>2
  <2> HIDE DEF p
  <2>5. y # p
    BY <2>3, <2>4
  <2>6. ASSUME NEW z \in T PROVE T \ {z} \in SUBSET S /\ Holds(T \ {z})
    <3>1. T \ {z} \in SUBSET S /\ T \ {z} \subseteq T /\ T \ {z} # T
      BY <2>2
    <3>2. T \ {z} \notin Bad
      <4> HIDE DEF Bad
      <4> QED
        BY <2>1, <3>1
    <3> QED
      BY <3>1, <3>2
  <2>7. SumAt(f, T \ {p}) = f[y] + SumAt(f, (T \ {p}) \ {y})
    BY <2>4, <2>5, <2>6
  <2>8. SumAt(f, T \ {y}) = f[p] + SumAt(f, (T \ {y}) \ {p})
    BY <2>4, <2>5, <2>6
  <2>9. (T \ {p}) \ {y} = (T \ {y}) \ {p}
    OBVIOUS
  <2>10. f[p] \in Int /\ f[y] \in Int /\ SumAt(f, (T \ {p}) \ {y}) \in Int
    <3>1. (T \ {p}) \ {y} \in SUBSET S
      BY <2>2
    <3> QED
      BY <1>1, <2>2, <2>4, <3>1
  <2> HIDE DEF Holds, Bad
  <2> DEFINE rest == SumAt(f, (T \ {p}) \ {y})
  <2>11. SumAt(f, T \ {y}) = f[p] + rest
    BY <2>8, <2>9
  <2> HIDE DEF rest
  <2>12. SumAt(f, T) = f[p] + (f[y] + rest) /\ rest \in Int
    BY <2>4, <2>7, <2>10 DEF rest
  <2>13. SumAt(f, T) = f[y] + SumAt(f, T \ {y})
    BY <2>10, <2>11, <2>12
  <2> QED
    BY <2>3, <2>13
<1>3. S \in SUBSET S /\ S \ {x} \in SUBSET S
  OBVIOUS
<1>4. Holds(S)
  BY <1>2, <1>3
<1> QED
  BY <1>1, <1>3, <1>4

(* One more key behind the walk, if it is one of those that are added up.    *)
Adds(f, S) == IsFiniteSet(S) /\ \A x \in S : f[x] \in Int
AddedAt(f, S, k) == IF k \in S THEN f[k] ELSE 0
OneMoreAdded(f, S, D, k) ==
    /\ SumAt(f, S \cap (D \cup {k})) = SumAt(f, S \cap D) + AddedAt(f, S, k)
    /\ SumAt(f, S \cap D) \in Int /\ AddedAt(f, S, k) \in Int

(* A sum over the keys behind the walk takes in the next one's.             *)
LEMMA SumBehind ==
    ASSUME NEW S, NEW f, Adds(f, S), NEW D, NEW k, k \notin D
    PROVE  OneMoreAdded(f, S, D, k)
<1> DEFINE T == S \cap D
           U == S \cap (D \cup {k})
<1>0. IsFiniteSet(S) /\ \A x \in S : f[x] \in Int
  BY DEF Adds
<1>1. \A V \in SUBSET S : SumAt(f, V) \in Int
  BY <1>0, SumStep
<1>2. SumAt(f, T) \in Int
  BY <1>1
<1>3. CASE k \in S
  <2>1. U \ {k} = T /\ k \in U /\ U \subseteq S
    BY <1>3
  <2>2. IsFiniteSet(U) /\ \A x \in U : f[x] \in Int
    BY <1>0, <2>1, FS_Subset
  <2> HIDE DEF U, T
  <2>3. SumAt(f, U) = f[k] + SumAt(f, U \ {k})
    BY <2>1, <2>2, SumWithout
  <2>4. AddedAt(f, S, k) = f[k] /\ f[k] \in Int
    BY <1>0, <1>3 DEF AddedAt
  <2>5. SumAt(f, U) = f[k] + SumAt(f, T) /\ SumAt(f, T) \in Int
    BY <1>2, <2>1, <2>3 DEF T
  <2>6. SumAt(f, U) = SumAt(f, T) + AddedAt(f, S, k)
    BY <2>4, <2>5
  <2> QED
    BY <1>2, <2>4, <2>6 DEF OneMoreAdded, U, T
<1>4. CASE k \notin S
  <2>1. U = T
    BY <1>4
  <2> HIDE DEF U, T
  <2>2. AddedAt(f, S, k) = 0
    BY <1>4 DEF AddedAt
  <2>3. SumAt(f, U) = SumAt(f, T) + AddedAt(f, S, k)
    BY <1>2, <2>1, <2>2
  <2> QED
    BY <1>2, <2>2, <2>3 DEF OneMoreAdded, U, T
<1> QED
  BY <1>3, <1>4

(* What is added up counts, not the function it is read from.               *)
LEMMA SumSame ==
    ASSUME NEW S, IsFiniteSet(S), NEW f, NEW g, \A x \in S : f[x] \in Int /\ g[x] = f[x]
    PROVE  SumAt(g, S) = SumAt(f, S) /\ SumAt(f, S) \in Int /\ SumAt(f, {}) = 0
<1> DEFINE one == 1  zero == 0
<1>1. IsLinear(g, f, f, one, zero, zero, S) /\ one \in Int /\ zero \in Int
  BY DEF IsLinear
<1> HIDE DEF one, zero
<1>2. SumAt(g, S) = one * SumAt(f, S) + zero * SumAt(f, S) + zero * Cardinality(S)
  BY <1>1, SumLinear
<1>3. /\ SumAt(f, {}) = 0
      /\ \A T \in SUBSET S : SumAt(f, T) \in Int
  BY SumStep
<1>4. SumAt(f, S) \in Int /\ Cardinality(S) \in Nat
  BY <1>3, FS_CardinalityType
<1> HIDE DEF IsLinear
<1>5. /\ one * SumAt(f, S) = SumAt(f, S) /\ zero * SumAt(f, S) = 0
      /\ zero * Cardinality(S) = 0
  BY <1>4 DEF one, zero
<1> QED
  BY <1>2, <1>3, <1>4, <1>5

-----------------------------------------------------------------------------
(* Multisets of findings, one rule's not among the reference's apart.       *)
AreCounts(b, n) ==
    /\ IsFiniteSet(DOMAIN b) /\ IsFiniteSet(DOMAIN n)
    /\ DOMAIN b \subseteq Int /\ DOMAIN n \subseteq Int
    /\ \A k \in DOMAIN b : b[k] \in Nat \ {0}
    /\ \A k \in DOMAIN n : n[k] \in Nat \ {0}
CountIn(side, k) == IF k \in DOMAIN side THEN side[k] ELSE 0
Ours(side, native)   == [k \in DOMAIN side \ native |-> side[k]]
Theirs(side, native) == [k \in DOMAIN side \cap native |-> side[k]]
Excess(b, n, native) == Minus(Ours(b, native), Ours(n, native))

(* What one side has more of than the other.                                *)
LEMMA ExcessIs ==
    ASSUME NEW b, NEW n, AreCounts(b, n), NEW native
    PROVE  /\ DOMAIN Excess(b, n, native) = DOMAIN b \ native
           /\ \A k \in DOMAIN b \ native : Excess(b, n, native)[k] \in Int
           /\ \A k : k \notin native =>
                AddedAt(Excess(b, n, native), DOMAIN b \ native, k)
                  = CountIn(b, k) - Least(CountIn(b, k), CountIn(n, k))
           /\ \A k : k \in Surplus(Ours(b, native), Ours(n, native)) <=>
                k \notin native /\ CountIn(b, k) > CountIn(n, k)
<1> DEFINE E == Excess(b, n, native)
<1>1. /\ \A k \in DOMAIN b : b[k] \in Nat \ {0}
      /\ \A k \in DOMAIN n : n[k] \in Nat \ {0}
  BY DEF AreCounts
<1>2. /\ DOMAIN Ours(b, native) = DOMAIN b \ native
      /\ \A k \in DOMAIN b \ native : Ours(b, native)[k] = b[k]
      /\ DOMAIN Ours(n, native) = DOMAIN n \ native
      /\ \A k \in DOMAIN n \ native : Ours(n, native)[k] = n[k]
  BY DEF Ours
<1>3. /\ DOMAIN E = DOMAIN b \ native
      /\ \A k \in DOMAIN b \ native :
           E[k] = IF k \notin DOMAIN n THEN b[k]
                  ELSE IF b[k] > n[k] THEN b[k] - n[k] ELSE 0
  BY <1>2 DEF Excess, Minus
<1>4. \A k : k \in Surplus(Ours(b, native), Ours(n, native))
               <=> k \in DOMAIN b \ native /\ E[k] > 0
  BY <1>2 DEF Surplus, Excess
<1> HIDE DEF E
<1>5. \A k \in DOMAIN b \ native : E[k] \in Int
  BY <1>1, <1>3
<1>6. ASSUME NEW k, k \notin native
      PROVE  AddedAt(E, DOMAIN b \ native, k)
               = CountIn(b, k) - Least(CountIn(b, k), CountIn(n, k))
  <2>1. CASE k \in DOMAIN b /\ k \in DOMAIN n
    BY <1>1, <1>3, <1>6, <2>1 DEF AddedAt, CountIn, Least
  <2>2. CASE k \in DOMAIN b /\ k \notin DOMAIN n
    BY <1>1, <1>3, <1>6, <2>2 DEF AddedAt, CountIn, Least
  <2>3. CASE k \notin DOMAIN b /\ k \in DOMAIN n
    BY <1>1, <1>3, <1>6, <2>3 DEF AddedAt, CountIn, Least
  <2>4. CASE k \notin DOMAIN b /\ k \notin DOMAIN n
    BY <1>1, <1>3, <1>6, <2>4 DEF AddedAt, CountIn, Least
  <2> QED
    BY <2>1, <2>2, <2>3, <2>4
<1>7. ASSUME NEW k
      PROVE  k \in Surplus(Ours(b, native), Ours(n, native)) <=>
               k \notin native /\ CountIn(b, k) > CountIn(n, k)
  <2>1. CASE k \in DOMAIN b /\ k \in DOMAIN n
    BY <1>1, <1>3, <1>4, <2>1 DEF CountIn
  <2>2. CASE k \in DOMAIN b /\ k \notin DOMAIN n
    BY <1>1, <1>3, <1>4, <2>2 DEF CountIn
  <2>3. CASE k \notin DOMAIN b
    BY <1>1, <1>4, <2>3 DEF CountIn
  <2> QED
    BY <2>1, <2>2, <2>3
<1> QED
  BY <1>3, <1>5, <1>6, <1>7 DEF E

(* What has been counted behind the walk.                                   *)
CountedOf(side, keys, D) == SumAt(side, keys \cap D)
ValidateSoFar(t, b, n, native, D) ==
    LET R == InKeys(b, n, NumberRank(DOMAIN b \cup DOMAIN n)) IN
    /\ t = [baseRows |-> t.baseRows, newRows |-> t.newRows, identical |-> t.identical,
            native |-> t.native, baseOnly |-> t.baseOnly, newOnly |-> t.newOnly,
            baseOnlyRows |-> t.baseOnlyRows, newOnlyRows |-> t.newOnlyRows]
    /\ t.baseRows = CountedOf(b, DOMAIN b \ native, D)
    /\ t.newRows = CountedOf(n, DOMAIN n \ native, D)
    /\ t.native = <<CountedOf(b, DOMAIN b \cap native, D), CountedOf(n, DOMAIN n \cap native, D)>>
    /\ t.identical \in Int /\ t.newOnlyRows \in Int
    /\ t.identical + t.baseOnlyRows = t.baseRows
    /\ t.identical + t.newOnlyRows = t.newRows
    /\ t.baseOnlyRows = CountedOf(Excess(b, n, native), DOMAIN b \ native, D)
    /\ TallyOf(t.baseOnly, Surplus(Ours(b, native), Ours(n, native)) \cap D, R)
    /\ TallyOf(t.newOnly, Surplus(Ours(n, native), Ours(b, native)) \cap D, R)
ValidateBeside(t, b, n, native, k) ==
    LET x == CountIn(b, k)  y == CountIn(n, k) IN
    IF k \in native THEN [t EXCEPT !.native = <<@[1] + x, @[2] + y>>]
    ELSE [t EXCEPT !.baseRows = @ + x, !.newRows = @ + y,
                   !.identical = @ + Least(x, y),
                   !.baseOnly = IF x > y THEN Add(@, k) ELSE @,
                   !.newOnly  = IF y > x THEN Add(@, k) ELSE @,
                   !.baseOnlyRows = @ + x - Least(x, y),
                   !.newOnlyRows  = @ + y - Least(x, y)]

(* One more key in the sums.                                                *)
CountsOneMore(b, n, native, D, k) ==
    /\ CountIn(b, k) \in Int
    /\ CountedOf(b, DOMAIN b \ native, D) \in Int
    /\ CountedOf(b, DOMAIN b \cap native, D) \in Int
    /\ CountedOf(Excess(b, n, native), DOMAIN b \ native, D) \in Int
    /\ k \in native =>
         /\ CountedOf(b, DOMAIN b \ native, D \cup {k})
              = CountedOf(b, DOMAIN b \ native, D)
         /\ CountedOf(b, DOMAIN b \cap native, D \cup {k})
              = CountedOf(b, DOMAIN b \cap native, D) + CountIn(b, k)
         /\ CountedOf(Excess(b, n, native), DOMAIN b \ native, D \cup {k})
              = CountedOf(Excess(b, n, native), DOMAIN b \ native, D)
    /\ k \notin native =>
         /\ CountedOf(b, DOMAIN b \ native, D \cup {k})
              = CountedOf(b, DOMAIN b \ native, D) + CountIn(b, k)
         /\ CountedOf(b, DOMAIN b \cap native, D \cup {k})
              = CountedOf(b, DOMAIN b \cap native, D)
         /\ CountedOf(Excess(b, n, native), DOMAIN b \ native, D \cup {k})
              = CountedOf(Excess(b, n, native), DOMAIN b \ native, D)
                  + (CountIn(b, k) - Least(CountIn(b, k), CountIn(n, k)))

(* A key adds its multiplicity to the sum of its side, and no other.        *)
LEMMA CountsGrow ==
    ASSUME NEW b, NEW n, AreCounts(b, n), NEW native, NEW D, NEW k, k \notin D
    PROVE  CountsOneMore(b, n, native, D, k)
<1> DEFINE ours == DOMAIN b \ native
           theirs == DOMAIN b \cap native
           E == Excess(b, n, native)
<1>1. /\ Adds(b, ours) /\ Adds(b, theirs) /\ Adds(E, ours)
      /\ CountIn(b, k) \in Int
  <2>1. IsFiniteSet(DOMAIN b) /\ \A x \in DOMAIN b : b[x] \in Int
    BY DEF AreCounts
  <2>2. \A x \in ours : E[x] \in Int
    BY ExcessIs
  <2> HIDE DEF E
  <2> QED
    BY <2>1, <2>2, FS_Subset DEF Adds, CountIn
<1>2. /\ k \notin native => /\ AddedAt(b, ours, k) = CountIn(b, k)
                            /\ AddedAt(b, theirs, k) = 0
                            /\ AddedAt(E, ours, k)
                                 = CountIn(b, k) - Least(CountIn(b, k), CountIn(n, k))
      /\ k \in native => /\ AddedAt(b, ours, k) = 0
                         /\ AddedAt(b, theirs, k) = CountIn(b, k)
                         /\ AddedAt(E, ours, k) = 0
  <2>1. ASSUME k \notin native
        PROVE  AddedAt(E, ours, k) = CountIn(b, k) - Least(CountIn(b, k), CountIn(n, k))
    <3>1. \A l : l \notin native =>
            AddedAt(E, ours, l) = CountIn(b, l) - Least(CountIn(b, l), CountIn(n, l))
      BY ExcessIs
    <3> HIDE DEF E, ours
    <3> QED
      BY <2>1, <3>1
  <2> HIDE DEF E
  <2> QED
    BY <2>1 DEF AddedAt, CountIn
<1> HIDE DEF ours, theirs, E
<1>3. /\ CountedOf(b, ours, D \cup {k}) = CountedOf(b, ours, D) + AddedAt(b, ours, k)
      /\ CountedOf(b, ours, D) \in Int
  <2>1. OneMoreAdded(b, ours, D, k)
    BY <1>1, SumBehind
  <2> QED
    BY <2>1 DEF OneMoreAdded, CountedOf
<1>4. /\ CountedOf(b, theirs, D \cup {k}) = CountedOf(b, theirs, D) + AddedAt(b, theirs, k)
      /\ CountedOf(b, theirs, D) \in Int
  <2>1. OneMoreAdded(b, theirs, D, k)
    BY <1>1, SumBehind
  <2> QED
    BY <2>1 DEF OneMoreAdded, CountedOf
<1>5. /\ CountedOf(E, ours, D \cup {k}) = CountedOf(E, ours, D) + AddedAt(E, ours, k)
      /\ CountedOf(E, ours, D) \in Int
  <2>1. OneMoreAdded(E, ours, D, k)
    BY <1>1, SumBehind
  <2> QED
    BY <2>1 DEF OneMoreAdded, CountedOf
<1>6. CASE k \in native
  BY <1>1, <1>2, <1>3, <1>4, <1>5, <1>6 DEF CountsOneMore, ours, theirs, E
<1>7. CASE k \notin native
  BY <1>1, <1>2, <1>3, <1>4, <1>5, <1>7 DEF CountsOneMore, ours, theirs, E
<1> QED
  BY <1>6, <1>7

(* A tally that takes one more of its set, or nothing.                      *)
LEMMA TallyTakes ==
    ASSUME NEW K, NEW R, StrictOrder(R, K), NEW set, set \subseteq K, NEW D, D \subseteq K,
           NEW s, TallyOf(s, set \cap D, R), NEW k \in K \ D, \A l \in D : <<l, k>> \in R
    PROVE  /\ k \in set => TallyOf(Add(s, k), set \cap (D \cup {k}), R)
           /\ k \notin set => TallyOf(s, set \cap (D \cup {k}), R)
<1> DEFINE A == set \cap D
           B == set \cap (D \cup {k})
<1>1. ASSUME k \in set PROVE TallyOf(Add(s, k), B, R)
  <2>1. B = A \cup {k} /\ A \subseteq K /\ (\A l \in A : <<l, k>> \in R) /\ TallyOf(s, A, R)
    BY <1>1
  <2> HIDE DEF A, B
  <2>2. After(k, A, R)
    BY <2>1, LaterIsAfter
  <2>3. TallyOf(Add(s, k), A \cup {k}, R)
    BY <2>1, <2>2, AddTallies
  <2> QED
    BY <2>1, <2>3
<1>2. ASSUME k \notin set PROVE TallyOf(s, B, R)
  <2>1. B = A
    BY <1>2
  <2> QED
    BY <2>1
<1> QED
  BY <1>1, <1>2

ValidateSides(b, n, native, D, k) ==
    LET K == DOMAIN b \cup DOMAIN n IN
    /\ AreCounts(b, n) /\ D \subseteq K /\ k \in K \ D
    /\ \A l \in D : l < k

(* A key with its counts on the two sides.                                  *)
LEMMA ValidateTakes ==
    ASSUME NEW b, NEW n, NEW native, NEW D, NEW k, ValidateSides(b, n, native, D, k),
           NEW t, ValidateSoFar(t, b, n, native, D)
    PROVE  ValidateSoFar(ValidateBeside(t, b, n, native, k), b, n, native, D \cup {k})
<1> DEFINE K == DOMAIN b \cup DOMAIN n
           R == InKeys(b, n, NumberRank(K))
           E == D \cup {k}
           ours(side, sofar) == CountedOf(side, DOMAIN side \ native, sofar)
           theirs(side, sofar) == CountedOf(side, DOMAIN side \cap native, sofar)
           onlyB == Surplus(Ours(b, native), Ours(n, native))
           onlyN == Surplus(Ours(n, native), Ours(b, native))
           xb(sofar) == CountedOf(Excess(b, n, native), DOMAIN b \ native, sofar)
           xn(sofar) == CountedOf(Excess(n, b, native), DOMAIN n \ native, sofar)
           x == CountIn(b, k)
           y == CountIn(n, k)
<1>1. /\ AreCounts(b, n) /\ AreCounts(n, b) /\ D \subseteq K /\ k \in K \ D /\ k \notin D
      /\ K \subseteq Int
      /\ \A l \in D : l < k
  BY DEF ValidateSides, AreCounts
<1>2. /\ t = [baseRows |-> t.baseRows, newRows |-> t.newRows, identical |-> t.identical,
              native |-> t.native, baseOnly |-> t.baseOnly, newOnly |-> t.newOnly,
              baseOnlyRows |-> t.baseOnlyRows, newOnlyRows |-> t.newOnlyRows]
      /\ t.baseRows = ours(b, D) /\ t.newRows = ours(n, D)
      /\ t.native = <<theirs(b, D), theirs(n, D)>>
      /\ t.identical \in Int /\ t.newOnlyRows \in Int
      /\ t.identical + t.baseOnlyRows = t.baseRows
      /\ t.identical + t.newOnlyRows = t.newRows
      /\ t.baseOnlyRows = xb(D)
      /\ TallyOf(t.baseOnly, onlyB \cap D, R)
      /\ TallyOf(t.newOnly, onlyN \cap D, R)
  BY DEF ValidateSoFar
<1>3. /\ StrictOrder(R, K) /\ \A l \in D : <<l, k>> \in R
  <2> DEFINE rank == NumberRank(K)  m == 1
  <2> HIDE DEF K
  <2>1. Ranks(rank, K, m) /\ \A l, z \in K : Before(rank[l], rank[z]) <=> l < z
    BY <1>1, NumbersRanked
  <2> HIDE DEF rank, m
  <2>2. /\ StrictOrder(ByKey(rank, K), K)
        /\ \A l, z \in K : <<l, z>> \in ByKey(rank, K) <=> Before(rank[l], rank[z])
    BY <2>1, RanksOrder
  <2>3. R = ByKey(rank, K)
    BY DEF InKeys, K, rank
  <2> HIDE DEF R
  <2> QED
    BY <1>1, <2>1, <2>2, <2>3
<1>4. onlyB \subseteq K /\ onlyN \subseteq K
  BY DEF Surplus, Ours
<1>5. /\ k \in onlyB <=> k \notin native /\ x > y
      /\ k \in onlyN <=> k \notin native /\ y > x
  <2>1. /\ \A l : l \in onlyB <=> l \notin native /\ CountIn(b, l) > CountIn(n, l)
        /\ \A l : l \in onlyN <=> l \notin native /\ CountIn(n, l) > CountIn(b, l)
    BY <1>1, ExcessIs
  <2> HIDE DEF onlyB, onlyN
  <2> QED
    BY <2>1
<1>6. /\ x \in Int /\ y \in Int /\ Least(x, y) \in Int /\ Least(y, x) = Least(x, y)
  <2>1. x \in Int /\ y \in Int
    BY <1>1 DEF AreCounts, CountIn
  <2> HIDE DEF x, y
  <2> QED
    BY <2>1 DEF Least
<1>7. /\ ours(b, D) \in Int /\ theirs(b, D) \in Int /\ xb(D) \in Int
      /\ k \in native => /\ ours(b, E) = ours(b, D) /\ theirs(b, E) = theirs(b, D) + x
                         /\ xb(E) = xb(D)
      /\ k \notin native => /\ ours(b, E) = ours(b, D) + x /\ theirs(b, E) = theirs(b, D)
                            /\ xb(E) = xb(D) + (x - Least(x, y))
  <2>1. CountsOneMore(b, n, native, D, k)
    BY <1>1, CountsGrow
  <2> QED
    BY <2>1 DEF CountsOneMore
<1>8. /\ ours(n, D) \in Int /\ theirs(n, D) \in Int
      /\ k \in native => /\ ours(n, E) = ours(n, D) /\ theirs(n, E) = theirs(n, D) + y
      /\ k \notin native => /\ ours(n, E) = ours(n, D) + y /\ theirs(n, E) = theirs(n, D)
  <2>1. CountsOneMore(n, b, native, D, k)
    BY <1>1, CountsGrow
  <2> QED
    BY <2>1 DEF CountsOneMore
<1> HIDE DEF ours, theirs, onlyB, onlyN, xb, R
<1>9. /\ k \in onlyB => TallyOf(Add(t.baseOnly, k), onlyB \cap E, R)
      /\ k \notin onlyB => TallyOf(t.baseOnly, onlyB \cap E, R)
  <2> HIDE DEF K
  <2> QED
    BY <1>1, <1>2, <1>3, <1>4, TallyTakes
<1>10. /\ k \in onlyN => TallyOf(Add(t.newOnly, k), onlyN \cap E, R)
       /\ k \notin onlyN => TallyOf(t.newOnly, onlyN \cap E, R)
  <2> HIDE DEF K
  <2> QED
    BY <1>1, <1>2, <1>3, <1>4, TallyTakes
<1> DEFINE u == ValidateBeside(t, b, n, native, k)
           Bundle(v) ==
             /\ v = [baseRows |-> v.baseRows, newRows |-> v.newRows, identical |-> v.identical,
                     native |-> v.native, baseOnly |-> v.baseOnly, newOnly |-> v.newOnly,
                     baseOnlyRows |-> v.baseOnlyRows, newOnlyRows |-> v.newOnlyRows]
             /\ v.baseRows = ours(b, E) /\ v.newRows = ours(n, E)
             /\ v.native = <<theirs(b, E), theirs(n, E)>>
             /\ v.identical \in Int /\ v.newOnlyRows \in Int
             /\ v.identical + v.baseOnlyRows = v.baseRows
             /\ v.identical + v.newOnlyRows = v.newRows
             /\ v.baseOnlyRows = xb(E)
             /\ TallyOf(v.baseOnly, onlyB \cap E, R)
             /\ TallyOf(v.newOnly, onlyN \cap E, R)
<1>11. ASSUME k \in native PROVE Bundle(u)
  <2>1. u = [t EXCEPT !.native = <<@[1] + x, @[2] + y>>]
    BY <1>11 DEF ValidateBeside
  <2>2. t.native[1] = theirs(b, D) /\ t.native[2] = theirs(n, D)
    BY <1>2
  <2> HIDE DEF u, x, y, E
  <2>3. u = [baseRows |-> t.baseRows, newRows |-> t.newRows, identical |-> t.identical,
             native |-> <<theirs(b, D) + x, theirs(n, D) + y>>,
             baseOnly |-> t.baseOnly, newOnly |-> t.newOnly,
             baseOnlyRows |-> t.baseOnlyRows, newOnlyRows |-> t.newOnlyRows]
    BY <1>2, <2>1, <2>2
  <2>4. /\ u.baseRows = t.baseRows /\ u.newRows = t.newRows /\ u.identical = t.identical
        /\ u.native = <<theirs(b, D) + x, theirs(n, D) + y>>
        /\ u.baseOnly = t.baseOnly /\ u.newOnly = t.newOnly
        /\ u.baseOnlyRows = t.baseOnlyRows /\ u.newOnlyRows = t.newOnlyRows
    BY <2>3
  <2>5. TallyOf(u.baseOnly, onlyB \cap E, R) /\ TallyOf(u.newOnly, onlyN \cap E, R)
    BY <1>5, <1>9, <1>10, <1>11, <2>4
  <2> QED
    BY <1>2, <1>7, <1>8, <1>11, <2>3, <2>4, <2>5
<1>12. ASSUME k \notin native PROVE Bundle(u)
  <2> DEFINE least == Least(x, y)
             bo == IF x > y THEN Add(t.baseOnly, k) ELSE t.baseOnly
             no == IF y > x THEN Add(t.newOnly, k) ELSE t.newOnly
  <2>1. u = [t EXCEPT !.baseRows = @ + x, !.newRows = @ + y, !.identical = @ + least,
                      !.baseOnly = IF x > y THEN Add(@, k) ELSE @,
                      !.newOnly  = IF y > x THEN Add(@, k) ELSE @,
                      !.baseOnlyRows = @ + x - least, !.newOnlyRows  = @ + y - least]
    BY <1>12 DEF ValidateBeside
  <2>2. u = [t EXCEPT !.baseRows = @ + x, !.newRows = @ + y, !.identical = @ + least,
                      !.baseOnly = bo, !.newOnly  = no,
                      !.baseOnlyRows = @ + x - least, !.newOnlyRows  = @ + y - least]
    BY <2>1
  <2>3. /\ TallyOf(bo, onlyB \cap E, R) /\ TallyOf(no, onlyN \cap E, R)
    BY <1>5, <1>9, <1>10, <1>12
  <2>4. least \in Int
    BY <1>6
  <2> HIDE DEF u, x, y, E, least, bo, no
  <2>5. u = [baseRows |-> t.baseRows + x, newRows |-> t.newRows + y,
             identical |-> t.identical + least, native |-> t.native,
             baseOnly |-> bo, newOnly |-> no,
             baseOnlyRows |-> t.baseOnlyRows + x - least,
             newOnlyRows |-> t.newOnlyRows + y - least]
    BY <1>2, <2>2
  <2>6. /\ u.baseRows = t.baseRows + x /\ u.newRows = t.newRows + y
        /\ u.identical = t.identical + least /\ u.native = t.native
        /\ u.baseOnly = bo /\ u.newOnly = no
        /\ u.baseOnlyRows = t.baseOnlyRows + x - least
        /\ u.newOnlyRows = t.newOnlyRows + y - least
    BY <2>5
  <2>7. u.baseRows = ours(b, E) /\ u.newRows = ours(n, E)
    BY <1>2, <1>7, <1>8, <1>12, <2>6
  <2>8. u.native = <<theirs(b, E), theirs(n, E)>>
    BY <1>2, <1>7, <1>8, <1>12, <2>6
  <2>9. xb(E) = xb(D) + (x - least) /\ xb(D) \in Int
    BY <1>7, <1>12 DEF least
  <2>10. /\ u.baseOnlyRows = xb(E) /\ u.identical \in Int /\ u.newOnlyRows \in Int
         /\ u.identical + u.baseOnlyRows = u.baseRows
         /\ u.identical + u.newOnlyRows = u.newRows
    BY <1>2, <1>6, <2>4, <2>6, <2>9
  <2> QED
    BY <2>3, <2>5, <2>6, <2>7, <2>8, <2>10
<1>13. Bundle(u)
  BY <1>11, <1>12
<1> HIDE DEF u
<1> QED
  BY <1>13 DEF ValidateSoFar, ours, theirs, onlyB, onlyN, xb, R, u

(* Nothing counted yet.                                                     *)
LEMMA ValidateBegins ==
    ASSUME NEW b, NEW n, AreCounts(b, n), NEW native
    PROVE  ValidateSoFar(EmptyValidate, b, n, native, {})
<1> DEFINE R == InKeys(b, n, NumberRank(DOMAIN b \cup DOMAIN n))
           onlyB == Surplus(Ours(b, native), Ours(n, native))
           onlyN == Surplus(Ours(n, native), Ours(b, native))
<1>1. ASSUME NEW f PROVE SumAt(f, {}) = 0
  <2> DEFINE none == {}
  <2>1. IsFiniteSet(none) /\ \A x \in none : f[x] \in Int /\ f[x] = f[x]
    BY FS_EmptySet
  <2> HIDE DEF none
  <2> QED
    BY <2>1, SumSame
<1>2. ASSUME NEW f, NEW S PROVE CountedOf(f, S, {}) = 0
  <2>1. S \cap {} = {}
    OBVIOUS
  <2> QED
    BY <1>1, <2>1 DEF CountedOf
<1>3. TallyOf(None, onlyB \cap {}, R) /\ TallyOf(None, onlyN \cap {}, R)
  <2>1. onlyB \cap {} = {} /\ onlyN \cap {} = {}
    OBVIOUS
  <2> HIDE DEF onlyB, onlyN, R
  <2> QED
    BY <2>1, NoneTallied
<1> DEFINE none == None
<1>4. EmptyValidate = [baseRows |-> 0, newRows |-> 0, identical |-> 0, native |-> <<0, 0>>,
                       baseOnly |-> none, newOnly |-> none,
                       baseOnlyRows |-> 0, newOnlyRows |-> 0]
  BY DEF EmptyValidate
<1> HIDE DEF none, onlyB, onlyN, R
<1>5. TallyOf(none, onlyB \cap {}, R) /\ TallyOf(none, onlyN \cap {}, R)
  BY <1>3 DEF none
<1> QED
  BY <1>2, <1>4, <1>5 DEF ValidateSoFar, onlyB, onlyN, R

(* Everything counted: what is reported is what the multisets amount to.    *)
LEMMA ValidateEnds ==
    ASSUME NEW b, NEW n, AreCounts(b, n), NEW native, NEW t,
           ValidateSoFar(t, b, n, native, DOMAIN b \cup DOMAIN n)
    PROVE  Validated(t, b, n, native)
<1> DEFINE K == DOMAIN b \cup DOMAIN n
           R == InKeys(b, n, NumberRank(K))
           onlyB == Surplus(Ours(b, native), Ours(n, native))
           onlyN == Surplus(Ours(n, native), Ours(b, native))
<1>1. AreCounts(n, b) /\ onlyB \subseteq K /\ onlyN \subseteq K
  BY DEF AreCounts, Surplus, Ours
<1>2. ASSUME NEW s, AreCounts(s, s), DOMAIN s \subseteq K
      PROVE  /\ CountedOf(s, DOMAIN s \ native, K) = Total(Ours(s, native))
             /\ CountedOf(s, DOMAIN s \cap native, K) = Total(Theirs(s, native))
  <2> DEFINE ours == DOMAIN s \ native  theirs == DOMAIN s \cap native
  <2>1. IsFiniteSet(DOMAIN s) /\ \A x \in DOMAIN s : s[x] \in Int
    BY <1>2 DEF AreCounts
  <2>2. /\ IsFiniteSet(ours) /\ IsFiniteSet(theirs)
        /\ ours \cap K = ours /\ theirs \cap K = theirs
        /\ DOMAIN Ours(s, native) = ours /\ DOMAIN Theirs(s, native) = theirs
        /\ \A x \in ours : s[x] \in Int /\ Ours(s, native)[x] = s[x]
        /\ \A x \in theirs : s[x] \in Int /\ Theirs(s, native)[x] = s[x]
    BY <1>2, <2>1, FS_Subset DEF Ours, Theirs
  <2> HIDE DEF ours, theirs, K
  <2>3. SumAt(Ours(s, native), ours) = SumAt(s, ours)
    BY <2>2, SumSame
  <2>4. SumAt(Theirs(s, native), theirs) = SumAt(s, theirs)
    BY <2>2, SumSame
  <2> QED
    BY <2>2, <2>3, <2>4 DEF CountedOf, Total, ours, theirs
<1>3. /\ AreCounts(b, b) /\ AreCounts(n, n) /\ DOMAIN b \subseteq K /\ DOMAIN n \subseteq K
  BY DEF AreCounts
<1>4. CountedOf(Excess(b, n, native), DOMAIN b \ native, K) = Total(Excess(b, n, native))
  <2>1. DOMAIN Excess(b, n, native) = DOMAIN b \ native /\ (DOMAIN b \ native) \cap K = DOMAIN b \ native
    BY ExcessIs
  <2> QED
    BY <2>1 DEF CountedOf, Total
<1>5. onlyB \cap K = onlyB /\ onlyN \cap K = onlyN
  BY <1>1
<1>6. /\ t.baseRows = CountedOf(b, DOMAIN b \ native, K)
      /\ t.newRows = CountedOf(n, DOMAIN n \ native, K)
      /\ t.native = <<CountedOf(b, DOMAIN b \cap native, K), CountedOf(n, DOMAIN n \cap native, K)>>
      /\ t.identical + t.baseOnlyRows = t.baseRows
      /\ t.identical + t.newOnlyRows = t.newRows
      /\ t.baseOnlyRows = CountedOf(Excess(b, n, native), DOMAIN b \ native, K)
      /\ TallyOf(t.baseOnly, onlyB \cap K, R)
      /\ TallyOf(t.newOnly, onlyN \cap K, R)
  BY DEF ValidateSoFar
<1>7. Lists1(t.baseOnly, onlyB) /\ Lists1(t.newOnly, onlyN)
  <2>1. R = ByKey(NumberRank(K), K)
    BY DEF InKeys
  <2> HIDE DEF onlyB, onlyN, R, K
  <2> QED
    BY <1>1, <1>5, <1>6, <2>1, NumbersListed
<1>8. /\ CountedOf(b, DOMAIN b \ native, K) = Total(Ours(b, native))
      /\ CountedOf(b, DOMAIN b \cap native, K) = Total(Theirs(b, native))
      /\ CountedOf(n, DOMAIN n \ native, K) = Total(Ours(n, native))
      /\ CountedOf(n, DOMAIN n \cap native, K) = Total(Theirs(n, native))
  <2> HIDE DEF K
  <2> QED
    BY <1>2, <1>3
<1> HIDE DEF K
<1>9. /\ t.baseRows = Total(Ours(b, native)) /\ t.newRows = Total(Ours(n, native))
      /\ t.native = <<Total(Theirs(b, native)), Total(Theirs(n, native))>>
      /\ t.identical + t.baseOnlyRows = t.baseRows
      /\ t.identical + t.newOnlyRows = t.newRows
      /\ t.baseOnlyRows = Total(Excess(b, n, native))
  BY <1>4, <1>6, <1>8
<1> QED
  BY <1>7, <1>9 DEF Validated, Ours, Theirs, Excess

(* A multiset, as a table of one column.                                    *)
CountsAsRows(side) == [k \in DOMAIN side |-> <<side[k]>>]

(* Its rows are the multiplicities.                                         *)
LEMMA CountedRows ==
    ASSUME NEW b, NEW n, AreCounts(b, n)
    PROVE  /\ AreRows(CountsAsRows(b), CountsAsRows(n))
           /\ DOMAIN CountsAsRows(b) = DOMAIN b /\ DOMAIN CountsAsRows(n) = DOMAIN n
           /\ \A k \in DOMAIN b : CountsAsRows(b)[k] = <<CountIn(b, k)>> /\ CountIn(b, k) # 0
           /\ \A k \in DOMAIN n : CountsAsRows(n)[k] = <<CountIn(n, k)>> /\ CountIn(n, k) # 0
<1>1. /\ DOMAIN CountsAsRows(b) = DOMAIN b /\ DOMAIN CountsAsRows(n) = DOMAIN n
      /\ \A k \in DOMAIN b : CountsAsRows(b)[k] = <<b[k]>> /\ CountIn(b, k) = b[k] /\ b[k] # 0
      /\ \A k \in DOMAIN n : CountsAsRows(n)[k] = <<n[k]>> /\ CountIn(n, k) = n[k] /\ n[k] # 0
  BY DEF CountsAsRows, CountIn, AreCounts
<1>2. ASSUME NEW x PROVE <<x>> = [c \in 1 .. 1 |-> <<x>>[c]] /\ DOMAIN <<x>> = 1 .. 1
  OBVIOUS
<1>3. AreRows(CountsAsRows(b), CountsAsRows(n))
  <2> SUFFICES ASSUME NEW k \in Shared(CountsAsRows(b), CountsAsRows(n))
               PROVE  LET p == CountsAsRows(b)  q == CountsAsRows(n) IN
                      /\ p[k] = [c \in DOMAIN p[k] |-> p[k][c]]
                      /\ q[k] = [c \in DOMAIN p[k] |-> q[k][c]]
                      /\ IsFiniteSet(DOMAIN p[k]) /\ DOMAIN p[k] \subseteq Int
    BY DEF AreRows
  <2> DEFINE x == CountsAsRows(b)[k]  y == CountsAsRows(n)[k]
  <2>1. x = <<b[k]>> /\ y = <<n[k]>>
    BY <1>1 DEF Shared
  <2>2. IsFiniteSet(1 .. 1) /\ 1 .. 1 \subseteq Int
    <3> DEFINE m == 1
    <3>1. m \in Int
      OBVIOUS
    <3> HIDE DEF m
    <3>2. IsFiniteSet(m .. m)
      BY <3>1, FS_Interval
    <3>3. m .. m \subseteq Int
      BY <3>1
    <3> QED
      BY <3>2, <3>3 DEF m
  <2>3. /\ DOMAIN x = 1 .. 1
        /\ x = [c \in 1 .. 1 |-> x[c]] /\ y = [c \in 1 .. 1 |-> y[c]]
    BY <1>2, <2>1
  <2> HIDE DEF x, y
  <2>4. /\ x = [c \in DOMAIN x |-> x[c]] /\ y = [c \in DOMAIN x |-> y[c]]
        /\ IsFiniteSet(DOMAIN x) /\ DOMAIN x \subseteq Int
    BY <2>2, <2>3
  <2> QED
    BY <2>4 DEF x, y
<1> QED
  BY <1>1, <1>3

-----------------------------------------------------------------------------
(* The gates over a union of keys.                                          *)
UnionGates == {"universe", "links", "manifest", "warnings", "validate"}

(* What their jobs are made of.                                             *)
UnionJob(gate, b, n) ==
    LET K == DOMAIN b \cup DOMAIN n IN
    /\ AreSides(b, n, NumberRank(K), 1) /\ K \subseteq Int
    /\ gate \in {"universe", "links"} => AreRows(b, n)
    /\ gate \in {"warnings", "validate"} => AreCounts(b, n)

(* The assumption on the jobs says so of every union's.                     *)
LEMMA UnionsCompared ==
    ASSUME NEW gate \in UnionGates, NEW job \in Jobs[gate]
    PROVE  UnionJob(gate, job.base, job.updated)
<1> DEFINE b == job.base  n == job.updated  K == DOMAIN b \cup DOMAIN n  m == 1
<1>1. /\ IsFiniteSet(DOMAIN b) /\ IsFiniteSet(DOMAIN n)
  BY JobsAssumption DEF UnionGates
<1>2. ASSUME gate \in {"universe", "links"}
      PROVE  K \subseteq Int /\ AreRows(b, n)
  <2>1. /\ DOMAIN b \cup DOMAIN n \subseteq Int
        /\ \A k \in DOMAIN b : /\ b[k] = [c \in DOMAIN b[k] |-> b[k][c]]
                               /\ IsFiniteSet(DOMAIN b[k]) /\ DOMAIN b[k] \subseteq Int
        /\ \A k \in DOMAIN b \cap DOMAIN n : n[k] = [c \in DOMAIN b[k] |-> n[k][c]]
    BY ZenonT(60), <1>2, JobsAssumption
  <2> HIDE DEF b, n
  <2>2. AreRows(b, n)
    BY <2>1 DEF AreRows, Shared
  <2> QED
    BY <2>1, <2>2
<1>3. ASSUME gate = "manifest"
      PROVE  K \subseteq Int
  BY <1>3, JobsAssumption
<1>4. ASSUME gate \in {"warnings", "validate"}
      PROVE  K \subseteq Int /\ AreCounts(b, n)
  <2>1. \A side \in {b, n} : /\ DOMAIN side \subseteq Int
                             /\ \A k \in DOMAIN side : side[k] \in Nat \ {0}
    BY <1>4, JobsAssumption
  <2> HIDE DEF b, n
  <2>2. AreCounts(b, n) /\ K \subseteq Int
    BY <1>1, <2>1 DEF AreCounts
  <2> QED
    BY <2>2
<1>5. /\ K \subseteq Int
      /\ gate \in {"universe", "links"} => AreRows(b, n)
      /\ gate \in {"warnings", "validate"} => AreCounts(b, n)
  <2> HIDE DEF K
  <2> QED
    BY <1>2, <1>3, <1>4 DEF UnionGates
<1> HIDE DEF b, n
<1>6. AreSides(b, n, NumberRank(K), m)
  <2>1. K \subseteq Int
    BY <1>5
  <2> HIDE DEF K
  <2>2. Ranks(NumberRank(K), K, m)
    BY <2>1, NumbersRanked
  <2> QED
    BY <1>1, <2>2 DEF AreSides, K
<1> QED
  BY <1>5, <1>6 DEF UnionJob, b, n

(* What a gate has gathered of the keys behind its walk, and what it does    *)
(* with one more.                                                           *)
UnionSoFar(gate, t, job, D) ==
    LET b == job.base  n == job.updated  K == DOMAIN b \cup DOMAIN n  rank == NumberRank(K) IN
    IF gate = "validate" THEN ValidateSoFar(t, b, n, job.native, D)
    ELSE IF gate = "manifest" THEN TallyOf(t, (K \ Alike(b, n)) \cap D, InKeys(b, n, rank))
    ELSE IF gate = "warnings" THEN TableSoFar(t, CountsAsRows(b), CountsAsRows(n), rank, D)
    ELSE TableSoFar(t, b, n, rank, D)
UnionBeside(gate, t, job, k) ==
    LET b == job.base  n == job.updated IN
    IF gate = "validate" THEN ValidateBeside(t, b, n, job.native, k)
    ELSE IF gate = "manifest" THEN IF k \in Alike(b, n) THEN t ELSE Add(t, k)
    ELSE IF gate = "warnings" THEN SetBeside(t, CountsAsRows(b), CountsAsRows(n), k)
    ELSE SetBeside(t, b, n, k)

(* One more key behind the walk.                                            *)
LEMMA UnionTakes ==
    ASSUME NEW gate \in UnionGates, NEW job \in Jobs[gate],
           NEW left, NEW D, WalkedTo(gate, left, D, job.base, job.updated), left # <<>>,
           NEW t, UnionSoFar(gate, t, job, D)
    PROVE  /\ WalkedTo(gate, Tail(left), D \cup {Head(left)}, job.base, job.updated)
           /\ UnionSoFar(gate, UnionBeside(gate, t, job, Head(left)), job, D \cup {Head(left)})
<1> DEFINE b == job.base  n == job.updated  K == DOMAIN b \cup DOMAIN n
           rank == NumberRank(K)  m == 1
           k == Head(left)  E == D \cup {k}
           u == UnionBeside(gate, t, job, k)
<1>1. /\ AreSides(b, n, rank, m) /\ K \subseteq Int
      /\ gate \in {"universe", "links"} => AreRows(b, n)
      /\ gate \in {"warnings", "validate"} => AreCounts(b, n)
  BY UnionsCompared DEF UnionJob
<1>2. /\ k \in K \ D /\ (\A l \in D : InTurn(gate, l, k, b)) /\ D \subseteq K
      /\ WalkedTo(gate, Tail(left), E, b, n)
  <2>1. D \subseteq K
    BY DEF WalkedTo
  <2>2. /\ k \in K \ D /\ (\A l \in D : InTurn(gate, l, k, b))
        /\ WalkedTo(gate, Tail(left), E, b, n)
    BY WalkTakes
  <2> QED
    BY <2>1, <2>2
<1> HIDE DEF b, n, k
<1>3. Comes(k, D, b, n, rank)
  BY <1>1, <1>2, NextComes
<1>4. gate # "links" => \A l \in D : l < k
  BY <1>2 DEF InTurn, Ahead
<1>5. CASE gate = "validate"
  <2>1. ValidateSoFar(t, b, n, job.native, D)
    BY <1>5 DEF UnionSoFar, b, n
  <2>2. ValidateSides(b, n, job.native, D, k)
    BY <1>1, <1>2, <1>4, <1>5 DEF ValidateSides
  <2>3. ValidateSoFar(ValidateBeside(t, b, n, job.native, k), b, n, job.native, E)
    <3> HIDE DEF E
    <3>1. ValidateSoFar(ValidateBeside(t, b, n, job.native, k), b, n, job.native, D \cup {k})
      BY <2>1, <2>2, ValidateTakes
    <3> QED
      BY <3>1 DEF E
  <2>4. UnionSoFar(gate, u, job, E)
    BY <1>5, <2>3 DEF UnionSoFar, UnionBeside, b, n
  <2> QED
    BY <1>2, <2>4 DEF b, n, k
<1>6. CASE gate = "manifest"
  <2> DEFINE set == K \ Alike(b, n)
             R == InKeys(b, n, rank)
  <2>1. TallyOf(t, set \cap D, R)
    BY <1>6 DEF UnionSoFar, b, n
  <2>2. StrictOrder(R, K) /\ \A l, x \in K : <<l, x>> \in R <=> l < x
    <3>1. StrictOrder(R, K) /\ \A l, x \in K : <<l, x>> \in R <=> Before(rank[l], rank[x])
      <4> HIDE DEF rank, m
      <4> QED
        BY <1>1, SidesOrdered
    <3>2. \A l, x \in K : Before(rank[l], rank[x]) <=> l < x
      <4> HIDE DEF K
      <4> QED
        BY <1>1, NumbersRanked
    <3> HIDE DEF R, K, rank
    <3> QED
      BY <3>1, <3>2
  <2>3. (\A l \in D : <<l, k>> \in R) /\ set \subseteq K
    <3>1. set \subseteq K
      OBVIOUS
    <3> HIDE DEF R, K, rank, set
    <3> QED
      BY <1>2, <1>4, <1>6, <2>2, <3>1
  <2>4. /\ k \in set => TallyOf(Add(t, k), set \cap (D \cup {k}), R)
        /\ k \notin set => TallyOf(t, set \cap (D \cup {k}), R)
    <3> HIDE DEF R, K, rank, set
    <3> QED
      BY <1>2, <2>1, <2>2, <2>3, TallyTakes
  <2>5. k \in set <=> k \notin Alike(b, n)
    BY <1>2
  <2>6. TallyOf(IF k \in Alike(b, n) THEN t ELSE Add(t, k), set \cap E, R)
    <3> HIDE DEF R, set
    <3> QED
      BY <2>4, <2>5
  <2>7. UnionSoFar(gate, u, job, E)
    BY <1>6, <2>6 DEF UnionSoFar, UnionBeside, b, n
  <2> QED
    BY <1>2, <2>7 DEF b, n, k
<1>7. CASE gate = "warnings"
  <2> DEFINE p == CountsAsRows(b)  q == CountsAsRows(n)
  <2>1. TableSoFar(t, p, q, rank, D)
    BY <1>7 DEF UnionSoFar, b, n
  <2>2. AreRows(p, q) /\ DOMAIN p = DOMAIN b /\ DOMAIN q = DOMAIN n
    BY <1>1, <1>7, CountedRows
  <2>3. AreSides(p, q, rank, m) /\ Comes(k, D, p, q, rank)
    <3> HIDE DEF rank, m, p, q
    <3> QED
      BY <1>1, <1>3, <2>2 DEF AreSides, Comes
  <2>4. TableSoFar(SetBeside(t, p, q, k), p, q, rank, E)
    <3> HIDE DEF rank, m, p, q
    <3> QED
      BY <2>1, <2>2, <2>3, TableTakes
  <2>5. UnionSoFar(gate, u, job, E)
    BY <1>7, <2>4 DEF UnionSoFar, UnionBeside, b, n
  <2> QED
    BY <1>2, <2>5 DEF b, n, k
<1>8. CASE gate \in {"universe", "links"}
  <2>1. TableSoFar(t, b, n, rank, D)
    BY <1>8 DEF UnionSoFar, b, n
  <2>2. AreRows(b, n)
    BY <1>1, <1>8
  <2>3. TableSoFar(SetBeside(t, b, n, k), b, n, rank, E)
    <3> HIDE DEF rank, m
    <3> QED
      BY <1>1, <1>3, <2>1, <2>2, TableTakes
  <2>4. UnionSoFar(gate, u, job, E)
    BY <1>8, <2>3 DEF UnionSoFar, UnionBeside, b, n
  <2> QED
    BY <1>2, <2>4 DEF b, n, k
<1> QED
  BY <1>5, <1>6, <1>7, <1>8 DEF UnionGates

Walking(c, gate, job, left) ==
    c = [at |-> "union", gate |-> gate, job |-> job, left |-> left, tally |-> c.tally]
GatheredTo(gate, job, left, t, D) ==
    /\ WalkedTo(gate, left, D, job.base, job.updated)
    /\ UnionSoFar(gate, t, job, D)
UnionInv ==
    \E gate \in UnionGates : \E job \in Jobs[gate] : \E left, D :
        Walking(compare, gate, job, left) /\ GatheredTo(gate, job, left, compare.tally, D)

(* A union starts with every key before it.                                 *)
LEMMA UnionStartsWell ==
    ASSUME NEW gate \in UnionGates, NEW job \in Jobs[gate],
           compare' = [at |-> "union", gate |-> gate, job |-> job,
                       left |-> KeysToWalk(gate, job.base, job.updated),
                       tally |-> CASE gate = "validate" -> EmptyValidate
                                   [] gate = "manifest" -> None
                                   [] OTHER             -> EmptyTable]
    PROVE  UnionInv'
<1> DEFINE b == job.base  n == job.updated  K == DOMAIN b \cup DOMAIN n
           rank == NumberRank(K)  m == 1
           left == KeysToWalk(gate, b, n)
           t == CASE gate = "validate" -> EmptyValidate
                  [] gate = "manifest" -> None
                  [] OTHER             -> EmptyTable
<1>1. /\ AreSides(b, n, rank, m) /\ K \subseteq Int
      /\ gate \in {"warnings", "validate"} => AreCounts(b, n)
  BY UnionsCompared DEF UnionJob
<1>2. WalkedTo(gate, left, {}, b, n)
  <2>1. IsFiniteSet(DOMAIN b) /\ IsFiniteSet(DOMAIN n)
    BY <1>1 DEF AreSides
  <2> HIDE DEF b, n
  <2> QED
    BY <1>1, <2>1, WalkBegins
<1>3. UnionSoFar(gate, t, job, {})
  <2>1. CASE gate = "validate"
    <3>1. ValidateSoFar(EmptyValidate, b, n, job.native, {})
      <4> HIDE DEF b, n
      <4> QED
        BY <1>1, <2>1, ValidateBegins
    <3>2. t = EmptyValidate
      BY <2>1
    <3> HIDE DEF t
    <3> QED
      BY <2>1, <3>1, <3>2 DEF UnionSoFar
  <2>2. CASE gate = "manifest"
    <3> DEFINE set == (K \ Alike(b, n)) \cap {}
    <3>1. set = {} /\ t = None
      BY <2>2
    <3>2. TallyOf(None, {}, InKeys(b, n, rank))
      BY NoneTallied
    <3> HIDE DEF t
    <3> QED
      BY <2>2, <3>1, <3>2 DEF UnionSoFar
  <2>3. CASE gate = "warnings"
    <3>1. TableSoFar(EmptyTable, CountsAsRows(b), CountsAsRows(n), rank, {})
      BY TableBegins
    <3>2. t = EmptyTable
      BY <2>3
    <3> HIDE DEF t
    <3> QED
      BY <2>3, <3>1, <3>2 DEF UnionSoFar
  <2>4. CASE gate \in {"universe", "links"}
    <3>1. TableSoFar(EmptyTable, b, n, rank, {})
      BY TableBegins
    <3>2. t = EmptyTable
      BY <2>4
    <3> HIDE DEF t
    <3> QED
      BY <2>4, <3>1, <3>2 DEF UnionSoFar
  <2> QED
    BY <2>1, <2>2, <2>3, <2>4 DEF UnionGates
<1> HIDE DEF t, left
<1>4. compare' = [at |-> "union", gate |-> gate, job |-> job, left |-> left, tally |-> t]
  BY DEF t, left
<1>5. compare'.tally = t
  BY <1>4
<1>6. Walking(compare', gate, job, left)
  BY <1>4, <1>5 DEF Walking
<1>7. GatheredTo(gate, job, left, compare'.tally, {})
  BY <1>2, <1>3, <1>5 DEF GatheredTo
<1> QED
  BY <1>6, <1>7 DEF UnionInv

UnionStep == UniverseKey \/ ManifestField \/ WarningTuple \/ ValidateTuple

(* What each of the four does with the next key.                            *)
LEMMA UnionStepIs ==
    ASSUME NEW gate \in UnionGates, NEW job \in Jobs[gate], NEW left,
           Walking(compare, gate, job, left), UnionStep
    PROVE  /\ left # <<>>
           /\ compare' = [compare EXCEPT !.left = Tail(@),
                             !.tally = UnionBeside(gate, @, job, Head(left))]
<1> DEFINE b == job.base  n == job.updated  k == Head(left)
           t == compare.tally
           u == UnionBeside(gate, t, job, k)
<1>1. /\ compare.gate = gate /\ compare.job = job /\ compare.left = left
      /\ Job = job /\ Key = k
  BY DEF Walking, Job, Key
<1>2. /\ gate \in {"warnings", "validate"} => AreCounts(b, n)
  BY UnionsCompared DEF UnionJob
<1>3. CountIn(b, k) = Multiplicity(Job.base) /\ CountIn(n, k) = Multiplicity(Job.updated)
  BY <1>1 DEF CountIn, Multiplicity
<1> HIDE DEF k
<1>4. CASE UniverseKey
  <2>1. gate \in {"universe", "links"} /\ left # <<>>
    BY <1>1, <1>4 DEF UniverseKey
  <2>2. u = SetBeside(compare.tally, b, n, k)
    BY <2>1 DEF UnionBeside
  <2>3. u = IF k \notin DOMAIN n THEN [compare.tally EXCEPT !.baseOnly = Add(@, k)]
            ELSE IF k \notin DOMAIN b THEN [compare.tally EXCEPT !.newOnly = Add(@, k)]
            ELSE Aligned(compare.tally, k, b[k], n[k])
    <3> HIDE DEF u
    <3> QED
      BY <2>2 DEF SetBeside
  <2> HIDE DEF u
  <2>4. compare' = [compare EXCEPT !.left = Tail(@), !.tally = u]
    BY <1>1, <1>4, <2>3 DEF UniverseKey
  <2> QED
    BY <2>1, <2>4 DEF u, k
<1>5. CASE ManifestField
  <2>1. /\ gate = "manifest" /\ left # <<>>
        /\ compare' = [compare EXCEPT !.left = Tail(@),
             !.tally = IF Agrees(k) THEN @ ELSE Add(@, k)]
    BY <1>1, <1>5 DEF ManifestField
  <2>2. u = IF k \in Alike(b, n) THEN t ELSE Add(t, k)
    BY <2>1 DEF UnionBeside
  <2>3. Agrees(k) <=> k \in Alike(b, n)
    BY <1>1 DEF Agrees, Alike, Shared
  <2>4. compare' = [compare EXCEPT !.left = Tail(@), !.tally = u]
    <3>1. u = IF Agrees(k) THEN t ELSE Add(t, k)
      BY <2>2, <2>3
    <3> QED
      BY <2>1, <3>1
  <2> HIDE DEF u
  <2> QED
    BY <2>1, <2>4 DEF u, k
<1>6. CASE WarningTuple
  <2> DEFINE x == CountIn(b, k)  y == CountIn(n, k)
             p == CountsAsRows(b)  q == CountsAsRows(n)
  <2>1. gate = "warnings" /\ left # <<>>
    BY <1>1, <1>6 DEF WarningTuple
  <2>2. u = SetBeside(compare.tally, p, q, k)
    BY <2>1 DEF UnionBeside
  <2>3. /\ k \in DOMAIN p <=> x # 0
        /\ k \in DOMAIN q <=> y # 0
        /\ k \in DOMAIN p => p[k] = <<x>>
        /\ k \in DOMAIN q => q[k] = <<y>>
    <3>1. /\ DOMAIN p = DOMAIN b /\ DOMAIN q = DOMAIN n
          /\ \A l \in DOMAIN b : p[l] = <<CountIn(b, l)>> /\ CountIn(b, l) # 0
          /\ \A l \in DOMAIN n : q[l] = <<CountIn(n, l)>> /\ CountIn(n, l) # 0
      BY <1>2, <2>1, CountedRows
    <3>2. /\ k \notin DOMAIN b => CountIn(b, k) = 0
          /\ k \notin DOMAIN n => CountIn(n, k) = 0
      BY DEF CountIn
    <3> HIDE DEF p, q
    <3> QED
      BY <3>1, <3>2
  <2>4. u = IF y = 0 THEN [compare.tally EXCEPT !.baseOnly = Add(@, k)]
            ELSE IF x = 0 THEN [compare.tally EXCEPT !.newOnly = Add(@, k)]
            ELSE Aligned(compare.tally, k, <<x>>, <<y>>)
    <3> HIDE DEF x, y, p, q, u
    <3> QED
      BY <2>2, <2>3 DEF SetBeside
  <2> HIDE DEF u
  <2>5. x = Multiplicity(Job.base) /\ y = Multiplicity(Job.updated)
    BY <1>3
  <2>6. compare' = [compare EXCEPT !.left = Tail(@), !.tally = u]
    <3> HIDE DEF x, y
    <3> QED
      BY <1>1, <1>6, <2>4, <2>5 DEF WarningTuple
  <2> QED
    BY <2>1, <2>6 DEF u, k
<1>7. CASE ValidateTuple
  <2> DEFINE x == CountIn(b, k)  y == CountIn(n, k)
  <2>1. gate = "validate" /\ left # <<>>
    BY <1>1, <1>7 DEF ValidateTuple
  <2>2. u = ValidateBeside(compare.tally, b, n, job.native, k)
    BY <2>1 DEF UnionBeside
  <2>3. u = IF k \in job.native THEN [compare.tally EXCEPT !.native = <<@[1] + x, @[2] + y>>]
            ELSE [compare.tally EXCEPT !.baseRows = @ + x, !.newRows = @ + y,
                                       !.identical = @ + Least(x, y),
                                       !.baseOnly = IF x > y THEN Add(@, k) ELSE @,
                                       !.newOnly  = IF y > x THEN Add(@, k) ELSE @,
                                       !.baseOnlyRows = @ + x - Least(x, y),
                                       !.newOnlyRows  = @ + y - Least(x, y)]
    <3> HIDE DEF u
    <3> QED
      BY <2>2 DEF ValidateBeside
  <2> HIDE DEF u
  <2>4. x = Multiplicity(Job.base) /\ y = Multiplicity(Job.updated)
    BY <1>3
  <2>5. compare' = [compare EXCEPT !.left = Tail(@), !.tally = u]
    <3> HIDE DEF x, y
    <3> QED
      BY <1>1, <1>7, <2>3, <2>4 DEF ValidateTuple
  <2> QED
    BY <2>1, <2>5 DEF u, k
<1> QED
  BY <1>4, <1>5, <1>6, <1>7 DEF UnionStep

(* So the invariant stands at every key.                                    *)
LEMMA UnionStepWell == UnionInv /\ UnionStep => UnionInv'
<1> SUFFICES ASSUME UnionInv, UnionStep PROVE UnionInv'
  OBVIOUS
<1>a. PICK gate \in UnionGates : \E job \in Jobs[gate] : \E left, D :
          Walking(compare, gate, job, left) /\ GatheredTo(gate, job, left, compare.tally, D)
  BY DEF UnionInv
<1>b. PICK job \in Jobs[gate] : \E left, D :
          Walking(compare, gate, job, left) /\ GatheredTo(gate, job, left, compare.tally, D)
  BY <1>a
<1>1. PICK left, D :
          Walking(compare, gate, job, left) /\ GatheredTo(gate, job, left, compare.tally, D)
  BY <1>b
<1> DEFINE t == compare.tally
           k == Head(left)
           u == UnionBeside(gate, t, job, k)
           rest == Tail(left)
<1>2. left # <<>> /\ compare' = [compare EXCEPT !.left = Tail(@), !.tally = UnionBeside(gate, @, job, Head(left))]
  BY <1>1, UnionStepIs
<1>3. /\ WalkedTo(gate, rest, D \cup {k}, job.base, job.updated)
      /\ UnionSoFar(gate, u, job, D \cup {k})
  <2>1. WalkedTo(gate, left, D, job.base, job.updated) /\ UnionSoFar(gate, t, job, D)
    BY <1>1 DEF GatheredTo
  <2> QED
    BY <1>2, <2>1, UnionTakes
<1>4. compare = [at |-> "union", gate |-> gate, job |-> job, left |-> left, tally |-> t]
  BY <1>1 DEF Walking
<1>5. compare' = [compare EXCEPT !.left = Tail(@), !.tally = u]
  BY <1>2
<1> HIDE DEF u, k, t
<1>6. compare' = [at |-> "union", gate |-> gate, job |-> job, left |-> rest, tally |-> u]
  BY <1>4, <1>5
<1> HIDE DEF rest
<1>7. compare'.tally = u
  BY <1>6
<1>8. Walking(compare', gate, job, rest)
  BY <1>6, <1>7 DEF Walking
<1>9. GatheredTo(gate, job, rest, compare'.tally, D \cup {k})
  BY <1>3, <1>7 DEF GatheredTo
<1> QED
  BY <1>8, <1>9 DEF UnionInv

(* Every key behind the walk: what is reported is what the sides amount to.  *)
LEMMA UnionEndsWell == UnionInv /\ UnionEnds => Compared' /\ compare'.at = "compared"
<1> SUFFICES ASSUME UnionInv, UnionEnds PROVE Compared' /\ compare'.at = "compared"
  OBVIOUS
<1>a. PICK gate \in UnionGates : \E job \in Jobs[gate] : \E left, D :
          Walking(compare, gate, job, left) /\ GatheredTo(gate, job, left, compare.tally, D)
  BY DEF UnionInv
<1>b. PICK job \in Jobs[gate] : \E left, D :
          Walking(compare, gate, job, left) /\ GatheredTo(gate, job, left, compare.tally, D)
  BY <1>a
<1>1. PICK left, D :
          Walking(compare, gate, job, left) /\ GatheredTo(gate, job, left, compare.tally, D)
  BY <1>b
<1> DEFINE b == job.base  n == job.updated  K == DOMAIN b \cup DOMAIN n
           rank == NumberRank(K)  m == 1
           t == compare.tally
<1>2. /\ AreSides(b, n, rank, m) /\ K \subseteq Int
      /\ gate \in {"universe", "links"} => AreRows(b, n)
      /\ gate \in {"warnings", "validate"} => AreCounts(b, n)
  BY UnionsCompared DEF UnionJob
<1>3. D = K
  <2>1. left = <<>>
    BY <1>1 DEF UnionEnds, Walking
  <2>2. WalkedTo(gate, <<>>, D, b, n)
    BY <1>1, <2>1 DEF GatheredTo
  <2> QED
    BY <2>2, WalkEnds
<1>4. UnionSoFar(gate, t, job, K)
  BY <1>1, <1>3 DEF GatheredTo
<1>5. /\ compare'.at = "compared" /\ compare'.gate = gate /\ compare'.job = job
      /\ compare'.tally = t
  BY <1>1 DEF Walking, UnionEnds
<1>6. CASE gate = "validate"
  <2>1. ValidateSoFar(t, b, n, job.native, K)
    BY <1>4, <1>6 DEF UnionSoFar
  <2>2. Validated(t, b, n, job.native)
    <3> HIDE DEF b, n, t
    <3> QED
      BY <1>2, <1>6, <2>1, ValidateEnds
  <2> HIDE DEF t
  <2> QED
    BY <1>5, <1>6, <2>2 DEF Compared
<1>7. CASE gate = "manifest"
  <2> DEFINE set == K \ Alike(b, n)
  <2>1. TallyOf(t, set \cap K, InKeys(b, n, rank))
    BY <1>4, <1>7 DEF UnionSoFar
  <2>2. set \cap K = set /\ InKeys(b, n, rank) = ByKey(NumberRank(K), K) /\ set \subseteq K
    BY DEF InKeys
  <2>3. Lists1(t, set)
    <3> HIDE DEF set, K, t, rank
    <3> QED
      BY <2>1, <2>2, NumbersListed
  <2> HIDE DEF t
  <2> QED
    BY <1>5, <1>7, <2>3 DEF Compared
<1>8. CASE gate = "warnings"
  <2> DEFINE p == CountsAsRows(b)  q == CountsAsRows(n)
  <2>1. TableSoFar(t, p, q, rank, K)
    BY <1>4, <1>8 DEF UnionSoFar
  <2>2. AreRows(p, q) /\ DOMAIN p = DOMAIN b /\ DOMAIN q = DOMAIN n
    BY <1>2, <1>8, CountedRows
  <2>3. AreSides(p, q, rank, m) /\ K = DOMAIN p \cup DOMAIN q
    <3> HIDE DEF rank, m, p, q
    <3> QED
      BY <1>2, <2>2 DEF AreSides
  <2>4. TableIs(t, p, q, rank)
    <3> HIDE DEF rank, m, p, q, t, K
    <3> QED
      BY <2>1, <2>2, <2>3, TableCounts
  <2>5. TableIs(t, p, q, NumberRank(DOMAIN p \cup DOMAIN q))
    <3> HIDE DEF p, q, t, K
    <3> QED
      BY <2>3, <2>4 DEF rank
  <2>6. Tallied(t, p, q, ByNumber)
    BY <2>5, NumbersTallied
  <2> HIDE DEF t
  <2> QED
    BY <1>5, <1>8, <2>6 DEF Compared, CountsAsRows
<1>9. CASE gate \in {"universe", "links"}
  <2>1. TableSoFar(t, b, n, rank, K)
    BY <1>4, <1>9 DEF UnionSoFar
  <2>2. TableIs(t, b, n, rank)
    <3> HIDE DEF b, n, t, rank, m
    <3> QED
      BY <1>2, <1>9, <2>1, TableCounts
  <2>3. Tallied(t, b, n, ByNumber)
    BY <2>2, NumbersTallied
  <2> HIDE DEF t
  <2> QED
    BY <1>5, <1>9, <2>3 DEF Compared
<1> QED
  BY <1>6, <1>7, <1>8, <1>9 DEF UnionGates

-----------------------------------------------------------------------------
(* Two snapshots.  What is found of a station, of a date or a field of it,  *)
(* and of a field on a date.                                                *)
Order1(K) == ByKey(NumberRank(K), K)
Order2(K) == ByKey(ValueRank(NumberRank(K), K), K \X Int)
Order3(K) == ByKey(ValueRank(ValueRank(NumberRank(K), K), K \X Int), (K \X Int) \X Int)

(* The three orders are those of the numbers, column by column.             *)
ThreeOrders(K) ==
    /\ StrictOrder(Order1(K), K) /\ StrictOrder(Order2(K), K \X Int)
    /\ StrictOrder(Order3(K), (K \X Int) \X Int)
    /\ \A k, l \in K : <<k, l>> \in Order1(K) <=> k < l
    /\ \A k, l \in K : \A c, d \in Int :
         <<<<k, c>>, <<l, d>>>> \in Order2(K) <=> k < l \/ (k = l /\ c < d)
    /\ \A x, y \in K \X Int : \A c, d \in Int :
         <<<<x, c>>, <<y, d>>>> \in Order3(K) <=> <<x, y>> \in Order2(K) \/ (x = y /\ c < d)

(* They are, for any keys that are numbers.                                 *)
LEMMA OrdersAre ==
    ASSUME NEW K, K \subseteq Int
    PROVE  ThreeOrders(K)
<1> DEFINE one == 1  two == one + 1
           r1 == NumberRank(K)
           K2 == K \X Int
           r2 == ValueRank(r1, K)
           K3 == K2 \X Int
           r3 == ValueRank(r2, K2)
<1>1. Ranks(r1, K, one) /\ \A k, l \in K : Before(r1[k], r1[l]) <=> k < l
  BY NumbersRanked
<1> HIDE DEF one, r1
<1>2. /\ Ranks(r2, K2, two)
      /\ \A k, l \in K : \A c, d \in Int :
           Before(r2[<<k, c>>], r2[<<l, d>>]) <=> Before(r1[k], r1[l]) \/ (k = l /\ c < d)
  BY <1>1, ValuesRanked
<1> HIDE DEF two, r2, K2
<1>3. /\ Ranks(r3, K3, two + 1)
      /\ \A k, l \in K2 : \A c, d \in Int :
           Before(r3[<<k, c>>], r3[<<l, d>>]) <=> Before(r2[k], r2[l]) \/ (k = l /\ c < d)
  BY <1>2, ValuesRanked
<1>4. /\ StrictOrder(ByKey(r1, K), K)
      /\ \A k, l \in K : <<k, l>> \in ByKey(r1, K) <=> Before(r1[k], r1[l])
  BY <1>1, RanksOrder
<1>5. /\ StrictOrder(ByKey(r2, K2), K2)
      /\ \A k, l \in K2 : <<k, l>> \in ByKey(r2, K2) <=> Before(r2[k], r2[l])
  BY <1>2, RanksOrder
<1> HIDE DEF r3, K3
<1>6. /\ StrictOrder(ByKey(r3, K3), K3)
      /\ \A k, l \in K3 : <<k, l>> \in ByKey(r3, K3) <=> Before(r3[k], r3[l])
  BY <1>3, RanksOrder
<1>7. Order1(K) = ByKey(r1, K) /\ Order2(K) = ByKey(r2, K2) /\ Order3(K) = ByKey(r3, K3)
  BY DEF Order1, Order2, Order3, r1, r2, r3, K2, K3
<1>8. \A k, l \in K : <<k, l>> \in Order1(K) <=> k < l
  BY <1>1, <1>4, <1>7
<1>9. \A k, l \in K : \A c, d \in Int :
         <<<<k, c>>, <<l, d>>>> \in Order2(K) <=> k < l \/ (k = l /\ c < d)
  <2> TAKE k, l \in K
  <2> TAKE c, d \in Int
  <2>1. <<k, c>> \in K2 /\ <<l, d>> \in K2
    BY DEF K2
  <2>2. <<<<k, c>>, <<l, d>>>> \in ByKey(r2, K2) <=> Before(r2[<<k, c>>], r2[<<l, d>>])
    BY <1>5, <2>1
  <2>3. Before(r2[<<k, c>>], r2[<<l, d>>]) <=> k < l \/ (k = l /\ c < d)
    BY <1>1, <1>2
  <2> QED
    BY <1>7, <2>2, <2>3
<1>10. \A x, y \in K2 : \A c, d \in Int :
         <<<<x, c>>, <<y, d>>>> \in Order3(K) <=> <<x, y>> \in Order2(K) \/ (x = y /\ c < d)
  <2>1. \A x \in K2, c \in Int : <<x, c>> \in K3
    BY DEF K3
  <2> QED
    BY <1>3, <1>5, <1>6, <1>7, <2>1
<1> QED
  BY <1>4, <1>5, <1>6, <1>7, <1>8, <1>9, <1>10 DEF ThreeOrders, K2, K3

(* One element, and two, with one more after them.                          *)
LEMMA Appended ==
    ASSUME NEW V, NEW k \in V, NEW c \in V, NEW d \in V
    PROVE  /\ Append(<<k>>, c) = <<k, c>>
           /\ Append(<<k, c>>, d) = <<k, c, d>>
<1>1. ASSUME NEW s \in Seq(V), NEW x \in V
      PROVE  Append(s, x) = [i \in 1 .. Len(s) + 1 |-> IF i <= Len(s) THEN s[i] ELSE x]
  <2> DEFINE m == Len(s)  p == Append(s, x)
  <2>1. /\ m \in Nat /\ p \in Seq(V) /\ Len(p) = m + 1
        /\ \A i \in 1 .. m : p[i] = s[i]
        /\ p[m + 1] = x
    BY AppendProperties
  <2> HIDE DEF m, p
  <2>2. p = [i \in 1 .. m + 1 |-> p[i]]
    BY <2>1
  <2>3. \A i \in 1 .. m + 1 : p[i] = IF i <= m THEN s[i] ELSE x
    BY <2>1
  <2> QED
    BY <2>2, <2>3 DEF m, p
<1>2. <<k>> \in Seq(V) /\ Len(<<k>>) = 1 /\ <<k, c>> \in Seq(V) /\ Len(<<k, c>>) = 2
  OBVIOUS
<1>3. Append(<<k>>, c) = <<k, c>>
  <2>1. Append(<<k>>, c) = [i \in 1 .. Len(<<k>>) + 1 |-> IF i <= Len(<<k>>) THEN <<k>>[i] ELSE c]
    BY <1>1, <1>2
  <2>2. Len(<<k>>) + 1 = 2
    BY <1>2
  <2>3. \A i \in 1 .. 2 : (IF i <= Len(<<k>>) THEN <<k>>[i] ELSE c) = <<k, c>>[i]
    BY <1>2
  <2>4. <<k, c>> = [i \in 1 .. 2 |-> <<k, c>>[i]]
    OBVIOUS
  <2> QED
    BY <2>1, <2>2, <2>3, <2>4
<1>4. Append(<<k, c>>, d) = <<k, c, d>>
  <2> DEFINE s == <<k, c>>
  <2>1. Append(s, d) = [i \in 1 .. Len(s) + 1 |-> IF i <= Len(s) THEN s[i] ELSE d]
    BY <1>1, <1>2
  <2>2. Len(s) + 1 = 3
    BY <1>2
  <2>3. \A i \in 1 .. 3 : (IF i <= Len(s) THEN s[i] ELSE d) = <<k, c, d>>[i]
    BY <1>2
  <2>4. <<k, c, d>> = [i \in 1 .. 3 |-> <<k, c, d>>[i]]
    OBVIOUS
  <2> HIDE DEF s
  <2>5. Append(s, d) = <<k, c, d>>
    BY <2>1, <2>2, <2>3, <2>4
  <2> QED
    BY <2>5 DEF s
<1> QED
  BY <1>3, <1>4

(* A pair has its two parts.                                                *)
LEMMA PairIs ==
    ASSUME NEW S, NEW T, NEW x \in S \X T
    PROVE  x = <<x[1], x[2]>> /\ x[1] \in S /\ x[2] \in T
  OBVIOUS

(* A tally in the second order lists the pairs.                             *)
LEMMA PairsListed ==
    ASSUME NEW K, K \subseteq Int, NEW set, set \subseteq K \X Int, NEW s, TallyOf(s, set, Order2(K))
    PROVE  Lists2(s, set)
<1> DEFINE U == K \X Int
           rank == ValueRank(NumberRank(K), K)
<1>1. ASSUME NEW x \in U
      PROVE  rank[x] = x
  <2> DEFINE k == x[1]  c == x[2]
  <2>1. x = <<k, c>> /\ k \in K /\ c \in Int
    BY PairIs
  <2> HIDE DEF k, c
  <2>2. rank[x] = Append(<<k>>, c)
    BY <2>1 DEF ValueRank, NumberRank
  <2>3. Append(<<k>>, c) = <<k, c>>
    <3>1. k \in Int /\ c \in Int
      BY <2>1
    <3> QED
      BY <3>1, Appended
  <2> QED
    BY <2>1, <2>2, <2>3
<1>2. rank = [x \in U |-> rank[x]]
  BY DEF ValueRank
<1>3. rank = ColumnsRank(U)
  <2> HIDE DEF rank, U
  <2> QED
    BY <1>1, <1>2 DEF ColumnsRank
<1>4. TallyOf(s, set, ByKey(ColumnsRank(U), U))
  BY <1>3 DEF Order2
<1> HIDE DEF U
<1> QED
  BY <1>4, ColumnsListed DEF U

(* A tally in the third lists the triples.                                  *)
FlatOf(x) == <<x[1][1], x[1][2], x[2]>>

(* A tally in the third order is shown flat, and lists so.                  *)
LEMMA TriplesListed ==
    ASSUME NEW K, K \subseteq Int, NEW set, set \subseteq (K \X Int) \X Int,
           NEW s, TallyOf(s, set, Order3(K))
    PROVE  LET Flat(x) == <<x[1][1], x[1][2], x[2]>>
           IN Lists(s.total, s.samples, Cap, set, Flat)
<1> DEFINE rank == ValueRank(ValueRank(NumberRank(K), K), K \X Int)
<1>1. ListsFirst(s.total, s.samples, Cap, set, rank)
  BY ComparisonAssumption, TallyLists DEF TallyOf, Order3
<1>2. ASSUME NEW x \in set
      PROVE  rank[x] = FlatOf(x)
  <2>1. PICK kc \in K \X Int, d \in Int : x = <<kc, d>>
    OBVIOUS
  <2> DEFINE k == kc[1]  c == kc[2]
  <2>2. kc = <<k, c>> /\ k \in K /\ c \in Int
    BY PairIs
  <2> HIDE DEF k, c
  <2>3. rank[x] = Append(Append(<<k>>, c), d)
    BY <2>1, <2>2 DEF ValueRank, NumberRank
  <2>4. Append(<<k>>, c) = <<k, c>> /\ Append(<<k, c>>, d) = <<k, c, d>>
    <3>1. k \in Int /\ c \in Int
      BY <2>2
    <3> QED
      BY <3>1, Appended
  <2> QED
    BY <2>1, <2>2, <2>3, <2>4 DEF FlatOf
<1> HIDE DEF rank
<1>3. \A y \in set : Earlier(y, rank, set)
          = {x \in set : Before(FlatOf(x), FlatOf(y))}
  BY <1>2 DEF Earlier
<1> QED
  BY <1>1, <1>3 DEF ListsFirst, Lists, FlatOf

(* What is found of the stations of D, and of one more.                     *)
OfStation(set, D) == {x \in set : x[1] \in D}
OnDate(set, D) == {x \in set : x[1][1] \in D}

(* The findings of a station, behind those of the stations before it.       *)
LEMMA PairsMerged ==
    ASSUME NEW K, K \subseteq Int, NEW set, set \subseteq K \X Int,
           NEW D, D \subseteq K, NEW k \in K \ D, \A l \in D : l < k,
           NEW c, NEW o, TallyOf(c, OfStation(set, D), Order2(K)),
           TallyOf(o, OfStation(set, {k}), Order2(K))
    PROVE  TallyOf(Merge(c, o), OfStation(set, D \cup {k}), Order2(K))
<1> DEFINE A == OfStation(set, D)  B == OfStation(set, {k})  U == K \X Int
<1>1. ThreeOrders(K)
  BY OrdersAre
<1>2. A \subseteq U /\ B \subseteq U /\ A \cup B = OfStation(set, D \cup {k})
  BY DEF OfStation
<1>3. ASSUME NEW x \in A, NEW y \in B
      PROVE  <<x, y>> \in Order2(K)
  <2>0. x \in K \X Int /\ y \in K \X Int
    BY <1>2
  <2> DEFINE l == x[1]  a == x[2]
  <2>1. x = <<l, a>> /\ l \in K /\ a \in Int
    BY <2>0, PairIs
  <2> HIDE DEF l, a
  <2> DEFINE m == y[1]  e == y[2]
  <2>2. y = <<m, e>> /\ m \in K /\ e \in Int
    BY <2>0, PairIs
  <2> HIDE DEF m, e
  <2>3. l \in D /\ m = k
    BY <2>1, <2>2 DEF OfStation
  <2> QED
    BY <1>1, <2>1, <2>2, <2>3 DEF ThreeOrders
<1>4. StrictOrder(Order2(K), U)
  BY <1>1 DEF ThreeOrders
<1> HIDE DEF A, B, U
<1>5. TallyOf(c, A, Order2(K)) /\ TallyOf(o, B, Order2(K))
  BY DEF A, B
<1>6. TallyOf(Merge(c, o), A \cup B, Order2(K))
  BY <1>2, <1>3, <1>4, <1>5, MergeTallies
<1> QED
  BY <1>2, <1>6

(* The same of its fields on its dates.                                     *)
LEMMA TriplesMerged ==
    ASSUME NEW K, K \subseteq Int, NEW set, set \subseteq (K \X Int) \X Int,
           NEW D, D \subseteq K, NEW k \in K \ D, \A l \in D : l < k,
           NEW c, NEW o, TallyOf(c, OnDate(set, D), Order3(K)),
           TallyOf(o, OnDate(set, {k}), Order3(K))
    PROVE  TallyOf(Merge(c, o), OnDate(set, D \cup {k}), Order3(K))
<1> DEFINE A == OnDate(set, D)  B == OnDate(set, {k})  U == (K \X Int) \X Int
<1>1. ThreeOrders(K)
  BY OrdersAre
<1>2. A \subseteq U /\ B \subseteq U /\ A \cup B = OnDate(set, D \cup {k})
  BY DEF OnDate
<1>3. ASSUME NEW x \in A, NEW y \in B
      PROVE  <<x, y>> \in Order3(K)
  <2>0. x \in (K \X Int) \X Int /\ y \in (K \X Int) \X Int
    BY <1>2
  <2>1. PICK p \in K \X Int, a \in Int : x = <<p, a>>
    BY <2>0
  <2>2. PICK q \in K \X Int, e \in Int : y = <<q, e>>
    BY <2>0
  <2>3. p[1] \in D /\ q[1] = k /\ p = <<p[1], p[2]>> /\ q = <<q[1], q[2]>>
        /\ p[1] \in K /\ q[1] \in K /\ p[2] \in Int /\ q[2] \in Int
    BY <2>1, <2>2 DEF OnDate
  <2>4. <<p, q>> \in Order2(K)
    <3>1. p[1] < q[1]
      BY <2>3
    <3>2. \A i, j \in K : \A f, g \in Int :
            <<<<i, f>>, <<j, g>>>> \in Order2(K) <=> i < j \/ (i = j /\ f < g)
      BY <1>1 DEF ThreeOrders
    <3> QED
      BY <2>3, <3>1, <3>2
  <2> QED
    BY <1>1, <2>1, <2>2, <2>4 DEF ThreeOrders
<1>4. StrictOrder(Order3(K), U)
  BY <1>1 DEF ThreeOrders
<1> HIDE DEF A, B, U
<1>5. TallyOf(c, A, Order3(K)) /\ TallyOf(o, B, Order3(K))
  BY DEF A, B
<1>6. TallyOf(Merge(c, o), A \cup B, Order3(K))
  BY <1>2, <1>3, <1>4, <1>5, MergeTallies
<1> QED
  BY <1>2, <1>6

(* How many there are, of one more station.                                 *)
LEMMA PairsCounted ==
    ASSUME NEW set, NEW D, NEW k, k \notin D,
           IsFiniteSet(OfStation(set, D)), IsFiniteSet(OfStation(set, {k}))
    PROVE  /\ IsFiniteSet(OfStation(set, D \cup {k}))
           /\ Cardinality(OfStation(set, D \cup {k}))
                = Cardinality(OfStation(set, D)) + Cardinality(OfStation(set, {k}))
           /\ Cardinality(OfStation(set, D)) \in Nat
           /\ Cardinality(OfStation(set, {k})) \in Nat
<1> DEFINE A == OfStation(set, D)  B == OfStation(set, {k})
<1>1. A \cup B = OfStation(set, D \cup {k}) /\ A \cap B = {}
  BY DEF OfStation
<1>2. Cardinality(A \cap B) = 0
  BY <1>1, FS_EmptySet
<1> HIDE DEF A, B
<1>3. IsFiniteSet(A) /\ IsFiniteSet(B)
  BY DEF A, B
<1>4. /\ Cardinality(A) \in Nat /\ Cardinality(B) \in Nat /\ IsFiniteSet(A \cup B)
      /\ Cardinality(A \cup B) = Cardinality(A) + Cardinality(B) - Cardinality(A \cap B)
  BY <1>3, FS_CardinalityType, FS_Union
<1>5. Cardinality(A \cup B) = Cardinality(A) + Cardinality(B)
  BY <1>2, <1>4
<1> DEFINE C == OfStation(set, D \cup {k})
<1> HIDE DEF C
<1>6. C = A \cup B
  BY <1>1 DEF C
<1>7. IsFiniteSet(C) /\ Cardinality(C) = Cardinality(A) + Cardinality(B)
  BY <1>4, <1>5, <1>6
<1> QED
  BY <1>4, <1>7 DEF A, B, C

(* What AddAll counts.                                                      *)
LEMMA AddAllCounts ==
    ASSUME NEW V, NEW vs \in Seq(V), NEW s \in Samples(V)
    PROVE  /\ AddAll(s, vs) \in Samples(V)
           /\ AddAll(s, vs).total = s.total + Len(vs)
<1>1. PICK g : AddsUp(g, s, vs, V)
  BY AddAllGoes
<1> DEFINE n == Len(vs)
           Bad == {i \in 0 .. n : g[i].total # s.total + i}
<1>2. /\ n \in Nat /\ g \in [0 .. n -> Samples(V)] /\ g[0] = s
      /\ \A i \in 1 .. n : g[i] = Add(g[i - 1], vs[i])
      /\ AddAll(s, vs) = g[n]
  BY <1>1 DEF AddsUp
<1>3. s.total \in Nat
  BY DEF Samples
<1>4. Bad = {}
  <2> SUFFICES ASSUME Bad # {} PROVE FALSE
    OBVIOUS
  <2>1. Bad \subseteq Nat
    BY <1>2
  <2> HIDE DEF Bad
  <2>2. PICK i \in Bad : \A j \in Bad : i <= j
    BY <2>1, LeastOf
  <2>3. i \in 0 .. n /\ g[i].total # s.total + i
    BY <2>2 DEF Bad
  <2>4. i # 0
    BY <1>2, <1>3, <2>3
  <2>5. i \in 1 .. n /\ i - 1 \in 0 .. n /\ i - 1 \notin Bad
    <3>1. i \in 1 .. n /\ i - 1 \in 0 .. n /\ ~(i <= i - 1)
      BY <1>2, <2>3, <2>4
    <3> QED
      BY <2>2, <3>1
  <2>6. g[i - 1].total = s.total + (i - 1)
    BY <2>5 DEF Bad
  <2>7. g[i].total = g[i - 1].total + 1
    <3>1. g[i] = Add(g[i - 1], vs[i])
      BY <1>2, <2>5
    <3>2. ASSUME NEW x, NEW y PROVE Add(x, y).total = x.total + 1
      BY DEF Add
    <3> QED
      BY <3>1, <3>2
  <2> QED
    BY <1>2, <1>3, <2>3, <2>6, <2>7
<1>5. n \in 0 .. n
  BY <1>2
<1> QED
  BY <1>2, <1>4, <1>5

(* The findings of a key, in the order of their columns.                    *)
LEMMA KeyedIn ==
    ASSUME NEW key, NEW columns, IsFiniteSet(columns), columns \subseteq Int,
           NEW V, \A c \in columns : <<key, c>> \in V
    PROVE  Keyed(key, columns) \in Seq(V)
<1> DEFINE q == Ordered(columns)  m == Len(q)
<1>1. q \in Seq(columns) /\ m \in Nat
  BY OrderedIs DEF InOrder
<1>2. DOMAIN q = 1 .. m /\ \A i \in 1 .. m : q[i] \in columns
  BY <1>1
<1> HIDE DEF q, m
<1>3. Keyed(key, columns) \in [1 .. m -> V]
  BY <1>2 DEF Keyed, q
<1> QED
  BY <1>1, <1>3

(* RevisedFields takes the dates in their order.                            *)
RevisedUp(g, s, b, n, dates, V) ==
    /\ g \in [0 .. Len(dates) -> Samples(V)]
    /\ g[0] = None
    /\ \A i \in 1 .. Len(dates) :
         g[i] = AddAll(g[i - 1], Diffs(<<s, dates[i]>>, b[dates[i]], n[dates[i]]))
    /\ RevisedFields(s, b, n, dates) = g[Len(dates)]

(* RevisedFields is reached one date at a time.                             *)
LEMMA RevisedGoes ==
    ASSUME NEW V, NEW D, NEW dates \in Seq(D), NEW s, NEW b, NEW n,
           \A d \in D : Diffs(<<s, d>>, b[d], n[d]) \in Seq(V)
    PROVE  \E g : RevisedUp(g, s, b, n, dates, V)
<1> DEFINE m == Len(dates)
           W == Samples(V)
           Of(w, d) == AddAll(w, Diffs(<<s, d>>, b[d], n[d]))
           step == [z \in (1 .. m) \X W |-> Of(z[2], dates[z[1]])]
<1>1. m \in Nat /\ \A i \in 1 .. m : dates[i] \in D
  OBVIOUS
<1>2. ASSUME NEW i \in 1 .. m, NEW w \in W
      PROVE  Of(w, dates[i]) \in W
  BY <1>1, AddAllCounts
<1>3. Steps(step, m, W)
  <2> HIDE DEF W, Of
  <2> QED
    BY <1>2 DEF Steps
<1>4. None \in W
  BY DEF None, Samples
<1> DEFINE F == CHOOSE f : f = [T \in SUBSET (1 .. m) |->
                              IF T = {} THEN None ELSE Of(f[T \ {Max(T)}], dates[Max(T)])]
<1>5. RevisedFields(s, b, n, dates) = F[1 .. m]
  <2>1. DOMAIN dates = 1 .. m
    OBVIOUS
  <2>2. RevisedFields(s, b, n, dates) = (CHOOSE f : f = [T \in SUBSET (DOMAIN dates) |->
             IF T = {} THEN None ELSE Of(f[T \ {Max(T)}], dates[Max(T)])])[DOMAIN dates]
    BY Zenon DEF RevisedFields, FoldLeft, MapThenFoldSet
  <2> HIDE DEF Of
  <2> QED
    BY <2>1, <2>2
<1> HIDE DEF Of
<1>6. F = [T \in SUBSET (1 .. m) |->
              IF T = {} THEN None ELSE Of(F[T \ {Max(T)}], dates[Max(T)])]
  <2>1. PICK h \in [SUBSET (1 .. m) -> W] : FoldsByMax(h, m, None, step)
    <3> HIDE DEF step, W, m
    <3> QED
      BY <1>1, <1>3, <1>4, FoldByMax
  <2>2. ASSUME NEW T \in SUBSET (1 .. m)
        PROVE  h[T] = IF T = {} THEN None ELSE Of(h[T \ {Max(T)}], dates[Max(T)])
    <3>1. T # {} => Max(T) \in 1 .. m
      BY <1>1, MaxOfFirst
    <3>2. h[T \ {Max(T)}] \in W
      BY <2>1
    <3>3. h[T] = IF T = {} THEN None ELSE step[<<Max(T), h[T \ {Max(T)}]>>]
      <4> HIDE DEF step, m
      <4> QED
        BY <2>1 DEF FoldsByMax
    <3> HIDE DEF W
    <3> QED
      BY <3>1, <3>2, <3>3
  <2>3. h = [T \in SUBSET (1 .. m) |->
               IF T = {} THEN None ELSE Of(h[T \ {Max(T)}], dates[Max(T)])]
    <3>1. h = [T \in SUBSET (1 .. m) |-> h[T]]
      OBVIOUS
    <3> QED
      BY <2>2, <3>1
  <2> QED
    BY <2>3
<1> HIDE DEF F
<1>7. \A T \in SUBSET (1 .. m) : T # {} /\ F[T \ {Max(T)}] \in W =>
          F[T] = step[<<Max(T), F[T \ {Max(T)}]>>]
  <2> TAKE T \in SUBSET (1 .. m)
  <2> SUFFICES ASSUME T # {}, F[T \ {Max(T)}] \in W
               PROVE  F[T] = step[<<Max(T), F[T \ {Max(T)}]>>]
    OBVIOUS
  <2>1. Max(T) \in 1 .. m
    BY <1>1, MaxOfFirst
  <2>2. F[T] = Of(F[T \ {Max(T)}], dates[Max(T)])
    BY <1>6
  <2> HIDE DEF W
  <2> QED
    BY <2>1, <2>2
<1>8. F[{}] = None
  <2>1. {} \in SUBSET (1 .. m)
    OBVIOUS
  <2> QED
    BY <1>6, <2>1
<1>9. \A i \in 0 .. m : /\ F[1 .. i] \in W
                        /\ i = 0 => F[1 .. i] = None
                        /\ i # 0 => F[1 .. i] = step[<<i, F[1 .. (i - 1)]>>]
  <2> HIDE DEF step, W, m
  <2>1. FoldsWithin(F, m, W, None, step)
    BY <1>7, <1>8 DEF FoldsWithin
  <2>2. GoesUp(F, m, W, None, step)
    BY <1>1, <1>3, <1>4, <2>1, FoldGoesUp
  <2> QED
    BY <2>2 DEF GoesUp
<1> DEFINE g == [i \in 0 .. m |-> F[1 .. i]]
<1>10. g \in [0 .. m -> W] /\ g[0] = None /\ RevisedFields(s, b, n, dates) = g[m]
  <2> HIDE DEF W, m, step
  <2>1. m \in 0 .. m /\ 0 \in 0 .. m
    BY <1>1
  <2> QED
    BY <1>5, <1>9, <2>1
<1>11. ASSUME NEW i \in 1 .. m
       PROVE  g[i] = Of(g[i - 1], dates[i])
  <2>1. i - 1 \in 0 .. m /\ i \in 0 .. m /\ i # 0
    BY <1>1
  <2>2. F[1 .. (i - 1)] \in W
    BY <1>9, <2>1
  <2>3. F[1 .. i] = step[<<i, F[1 .. (i - 1)]>>]
    <3> HIDE DEF step
    <3> QED
      BY <1>9, <2>1
  <2> HIDE DEF W
  <2> QED
    BY <2>1, <2>2, <2>3
<1> HIDE DEF g
<1>12. RevisedUp(g, s, b, n, dates, V)
  BY <1>10, <1>11 DEF RevisedUp, Of
<1> QED
  BY <1>12

(* The columns of one key, listed by themselves.                            *)
LEMMA KeyedTallies ==
    ASSUME NEW K, K \subseteq Int, NEW s \in K,
           NEW columns, IsFiniteSet(columns), columns \subseteq Int
    PROVE  TallyOf(AddAll(None, Keyed(s, columns)), {<<s, c>> : c \in columns}, Order2(K))
<1> DEFINE U == K \X Int  R == Order2(K)  none == {}
<1>1. ThreeOrders(K)
  BY OrdersAre
<1>2. StrictOrder(R, U) /\ none \subseteq U
  BY <1>1 DEF ThreeOrders
<1>3. \A c \in columns : <<s, c>> \in U /\ \A x \in none : <<x, <<s, c>>>> \in R
  OBVIOUS
<1>4. \A c, d \in columns : c < d => <<<<s, c>>, <<s, d>>>> \in R
  BY <1>1 DEF ThreeOrders
<1>5. TallyOf(None, none, R)
  BY NoneTallied
<1> DEFINE start == None  key == s  fields == columns  set == {<<s, c>> : c \in columns}
<1> HIDE DEF U, R, none, start
<1>6. FollowsOn(s, columns, none, U, R)
  BY <1>2, <1>3, <1>4 DEF FollowsOn
<1>7. TallyOf(start, none, R)
  BY <1>5 DEF start
<1>8. FollowsOn(key, fields, none, U, R)
  BY <1>6
<1>9. {<<key, c>> : c \in fields} = set
  OBVIOUS
<1> HIDE DEF key, fields, set
<1>10. TallyOf(AddAll(start, Keyed(key, fields)), none \cup {<<key, c>> : c \in fields}, R)
  BY <1>7, <1>8, ListedTallies
<1>11. none \cup {<<key, c>> : c \in fields} = set
  BY <1>9 DEF none
<1>12. TallyOf(AddAll(start, Keyed(key, fields)), set, R)
  BY <1>10, <1>11
<1> QED
  BY <1>12 DEF R, start, key, fields, set

(* The fields that a station has otherwise, date by date.                   *)
FieldsOf(s, b, n) == {<<<<s, dc[1]>>, dc[2]>> : dc \in Changed(b, n)}
AreDays(b, n) ==
    /\ IsFiniteSet(DOMAIN b) /\ IsFiniteSet(DOMAIN n)
    /\ DOMAIN b \subseteq Int /\ DOMAIN n \subseteq Int
    /\ AreRows(b, n)
Unlike(b, n) == {d \in Shared(b, n) : b[d] # n[d]}

(* The revised fields of a station are tallied date by date.                *)
LEMMA RevisedTallies ==
    ASSUME NEW K, K \subseteq Int, NEW s \in K, NEW b, NEW n, AreDays(b, n)
    PROVE  TallyOf(RevisedFields(s, b, n, Ordered(Unlike(b, n))), FieldsOf(s, b, n), Order3(K))
<1> DEFINE revised == Unlike(b, n)
           dates == Ordered(revised)
           m == Len(dates)
           U == (K \X Int) \X Int
           R == Order3(K)
           Differing(d) == DiffColumns(b[d], n[d])
           Fields(d) == {<<<<s, d>>, c>> : c \in Differing(d)}
           So(i) == UNION {Fields(dates[j]) : j \in 1 .. i}
<1>1. ThreeOrders(K)
  BY OrdersAre
<1>2. IsFiniteSet(revised) /\ revised \subseteq Int
  <2>1. revised \subseteq DOMAIN b
    BY DEF Unlike, Shared
  <2> QED
    BY <2>1, FS_Subset DEF AreDays
<1>3. /\ dates \in Seq(revised) /\ m \in Nat
      /\ \A i, j \in 1 .. m : i < j <=> dates[i] < dates[j]
      /\ revised = {dates[i] : i \in 1 .. m}
  <2> HIDE DEF revised
  <2> QED
    BY <1>2, OrderedIs DEF InOrder
<1>4. \A i \in 1 .. m : dates[i] \in revised
  BY <1>3
<1>5. ASSUME NEW d \in revised
      PROVE  /\ IsFiniteSet(Differing(d)) /\ Differing(d) \subseteq Int
             /\ d \in Int /\ <<s, d>> \in K \X Int
             /\ \A c \in Differing(d) : <<<<s, d>>, c>> \in U
             /\ Diffs(<<s, d>>, b[d], n[d]) \in Seq(U)
  <2> DEFINE none == {}
  <2>1. AreRows(b, n) /\ d \in Shared(b, n) /\ d \notin none
    BY DEF AreDays, Unlike
  <2> HIDE DEF none
  <2>2. IsFiniteSet(DiffColumns(b[d], n[d])) /\ DiffColumns(b[d], n[d]) \subseteq Int
    BY <2>1, ChangedGrows
  <2>3. d \in Int
    BY <1>2
  <2>4. <<s, d>> \in K \X Int
    BY <2>3
  <2>5. \A c \in Differing(d) : <<<<s, d>>, c>> \in U
    BY <2>2, <2>4
  <2>6. Keyed(<<s, d>>, DiffColumns(b[d], n[d])) \in Seq(U)
    <3> HIDE DEF U
    <3> QED
      BY <2>2, <2>5, KeyedIn
  <2> QED
    BY <2>2, <2>3, <2>4, <2>5, <2>6 DEF Diffs
<1>6. PICK g : /\ g[0] = None
               /\ \A i \in 1 .. m :
                    g[i] = AddAll(g[i - 1], Diffs(<<s, dates[i]>>, b[dates[i]], n[dates[i]]))
               /\ RevisedFields(s, b, n, dates) = g[m]
  <2>1. \A d \in revised : Diffs(<<s, d>>, b[d], n[d]) \in Seq(U)
    BY <1>5
  <2> HIDE DEF revised, dates, U, m
  <2>2. PICK g : RevisedUp(g, s, b, n, dates, U)
    BY <1>3, <2>1, RevisedGoes
  <2> QED
    BY <2>2 DEF RevisedUp, m
<1> HIDE DEF revised, dates, m
<1> DEFINE Bad == {i \in 0 .. m : ~TallyOf(g[i], So(i), R)}
<1>7. 0 \notin Bad
  <2>1. So(0) = {}
    OBVIOUS
  <2>2. TallyOf(None, {}, R)
    BY NoneTallied
  <2> HIDE DEF So, R
  <2> QED
    BY <1>6, <2>1, <2>2
<1>8. ASSUME NEW i \in 1 .. m, TallyOf(g[i - 1], So(i - 1), R)
      PROVE  TallyOf(g[i], So(i), R)
  <2> DEFINE d == dates[i]  k == <<s, d>>  columns == Differing(d)  A == So(i - 1)
  <2>1. d \in revised /\ IsFiniteSet(columns) /\ columns \subseteq Int
    BY <1>4, <1>5
  <2>2. So(i) = A \cup {<<k, c>> : c \in columns}
    <3>1. 1 .. i = (1 .. (i - 1)) \cup {i}
      BY <1>3
    <3>2. Fields(d) = {<<k, c>> : c \in columns}
      OBVIOUS
    <3> HIDE DEF Fields
    <3>3. So(i) = So(i - 1) \cup Fields(dates[i])
      BY <3>1
    <3> QED
      BY <3>2, <3>3
  <2>3. A \subseteq U
    <3>1. \A j \in 1 .. (i - 1) : dates[j] \in revised
      <4>1. \A j \in 1 .. (i - 1) : j \in 1 .. m
        BY <1>3
      <4> QED
        BY <1>4, <4>1
    <3>2. \A e \in revised : Fields(e) \subseteq U
      BY <1>5
    <3> HIDE DEF Fields, U
    <3> QED
      BY <3>1, <3>2
  <2>4. \A c \in columns : <<k, c>> \in U
    BY <1>5, <2>1
  <2>5. ASSUME NEW x \in A, NEW c \in columns
        PROVE  <<x, <<k, c>>>> \in R
    <3>1. PICK j \in 1 .. (i - 1) : x \in Fields(dates[j])
      OBVIOUS
    <3>2. PICK f \in Differing(dates[j]) : x = <<<<s, dates[j]>>, f>>
      BY <3>1
    <3>3. j \in 1 .. m /\ i \in 1 .. m /\ j < i
      BY <1>3
    <3>4. dates[j] < dates[i] /\ dates[j] \in revised /\ dates[i] \in revised
      BY <1>3, <1>4, <3>3
    <3> DEFINE e == dates[j]
    <3> HIDE DEF d, e, Differing
    <3>5. e < d /\ e \in Int /\ d \in Int /\ f \in Int /\ c \in Int
          /\ <<s, e>> \in K \X Int /\ <<s, d>> \in K \X Int
      BY <1>5, <2>1, <3>2, <3>4 DEF d, e
    <3>6. <<<<s, e>>, <<s, d>>>> \in Order2(K)
      BY <1>1, <3>5 DEF ThreeOrders
    <3>7. <<<<<<s, e>>, f>>, <<<<s, d>>, c>>>> \in Order3(K)
      <4>1. \A p, q \in K \X Int : \A a, o \in Int :
               <<<<p, a>>, <<q, o>>>> \in Order3(K) <=> <<p, q>> \in Order2(K) \/ (p = q /\ a < o)
        BY <1>1 DEF ThreeOrders
      <4> QED
        BY <3>5, <3>6, <4>1
    <3> QED
      BY <3>2, <3>7 DEF d, e
  <2>6. \A c, f \in columns : c < f => <<<<k, c>>, <<k, f>>>> \in R
    <3>1. k \in K \X Int
      BY <1>5, <2>1
    <3> HIDE DEF k, columns
    <3> QED
      BY <1>1, <2>1, <3>1 DEF ThreeOrders
  <2>7. StrictOrder(R, U)
    BY <1>1 DEF ThreeOrders
  <2> DEFINE t == g[i - 1]
  <2> HIDE DEF A, k, columns, U, R, t
  <2>8. FollowsOn(k, columns, A, U, R)
    BY <2>1, <2>3, <2>4, <2>5, <2>6, <2>7 DEF FollowsOn
  <2>9. TallyOf(t, A, R)
    BY <1>8 DEF A, t
  <2>10. TallyOf(AddAll(t, Keyed(k, columns)), A \cup {<<k, c>> : c \in columns}, R)
    BY <2>8, <2>9, ListedTallies
  <2>11. g[i] = AddAll(t, Keyed(k, columns))
    BY <1>6 DEF t, k, columns, Diffs
  <2> HIDE DEF So
  <2> QED
    BY <2>2, <2>10, <2>11
<1>9. Bad = {}
  <2> SUFFICES ASSUME Bad # {} PROVE FALSE
    OBVIOUS
  <2>1. Bad \subseteq Nat
    BY <1>3
  <2> HIDE DEF Bad
  <2>2. PICK i \in Bad : \A j \in Bad : i <= j
    BY <2>1, LeastOf
  <2> HIDE DEF So, R
  <2>3. i \in 0 .. m /\ ~TallyOf(g[i], So(i), R)
    BY <2>2 DEF Bad
  <2>4. i # 0
    BY <1>7, <2>2
  <2>5. i \in 1 .. m /\ i - 1 \in 0 .. m /\ i - 1 \notin Bad
    <3>1. i \in 1 .. m /\ i - 1 \in 0 .. m /\ ~(i <= i - 1)
      BY <1>3, <2>3, <2>4
    <3> QED
      BY <2>2, <3>1
  <2> QED
    BY <1>8, <2>3, <2>5 DEF Bad
<1>10. m \in 0 .. m
  BY <1>3
<1>11. TallyOf(g[m], So(m), R)
  <2> HIDE DEF So, R
  <2> QED
    BY <1>9, <1>10
<1>12. So(m) = FieldsOf(s, b, n)
  <2>1. So(m) \subseteq FieldsOf(s, b, n)
    <3> SUFFICES ASSUME NEW x \in So(m) PROVE x \in FieldsOf(s, b, n)
      OBVIOUS
    <3>1. PICK j \in 1 .. m : x \in Fields(dates[j])
      OBVIOUS
    <3>2. PICK c \in Differing(dates[j]) : x = <<<<s, dates[j]>>, c>>
      BY <3>1
    <3>3. dates[j] \in Shared(b, n)
      BY <1>4 DEF revised, Unlike
    <3>4. <<dates[j], c>> \in Changed(b, n)
      BY <3>2, <3>3 DEF Changed, DiffColumns
    <3> QED
      BY <3>2, <3>4 DEF FieldsOf
  <2>2. FieldsOf(s, b, n) \subseteq So(m)
    <3> SUFFICES ASSUME NEW x \in FieldsOf(s, b, n) PROVE x \in So(m)
      OBVIOUS
    <3>1. PICK dc \in Changed(b, n) : x = <<<<s, dc[1]>>, dc[2]>>
      BY DEF FieldsOf
    <3>2. PICK d \in Shared(b, n) : dc \in {<<d, c>> : c \in {e \in DOMAIN b[d] : b[d][e] # n[d][e]}}
      BY DEF Changed
    <3>3. PICK c \in {e \in DOMAIN b[d] : b[d][e] # n[d][e]} : dc = <<d, c>>
      BY <3>2
    <3>4. d \in revised
      BY <3>3 DEF revised, Unlike
    <3>5. PICK j \in 1 .. m : dates[j] = d
      BY <1>3, <3>4
    <3>6. x \in Fields(dates[j])
      BY <3>1, <3>3, <3>5 DEF DiffColumns
    <3> HIDE DEF Fields
    <3> QED
      BY <3>6
  <2> QED
    BY <2>1, <2>2
<1> QED
  BY <1>6, <1>11, <1>12 DEF dates, revised

(* As many pairs as second parts.                                           *)
LEMMA PairedCounts ==
    ASSUME NEW s, NEW S, IsFiniteSet(S)
    PROVE  /\ IsFiniteSet({<<s, d>> : d \in S})
           /\ Cardinality({<<s, d>> : d \in S}) = Cardinality(S)
<1> DEFINE T == {<<s, d>> : d \in S}  f == [d \in S |-> <<s, d>>]
<1>1. f \in [S -> T] /\ (\A d, e \in S : f[d] = f[e] => d = e) /\ \A x \in T : \E d \in S : f[d] = x
  OBVIOUS
<1> HIDE DEF f, T
<1>2. f \in Bijection(S, T)
  BY <1>1 DEF Bijection, Injection, Surjection, IsInjective
<1>3. ExistsBijection(S, T)
  BY <1>2 DEF ExistsBijection
<1>4. IsFiniteSet(T) /\ Cardinality(T) = Cardinality(S)
  BY <1>3, FS_Bijection
<1> QED
  BY <1>4 DEF T

(* Two snapshots whose files can be set side by side where both parse.      *)
AreFiles(x, y) ==
    /\ AreDays(x.rows, y.rows)
    /\ x.rows = [d \in DOMAIN x.rows |-> x.rows[d]]
    /\ y.rows = [d \in DOMAIN y.rows |-> y.rows[d]]
    /\ IsFiniteSet(DOMAIN x.header) /\ DOMAIN x.header \subseteq Int
    /\ x.header = [c \in DOMAIN x.header |-> x.header[c]]
    /\ y.header = [c \in DOMAIN x.header |-> y.header[c]]
    /\ x = [parses |-> TRUE, header |-> x.header, rows |-> x.rows, warnings |-> x.warnings]
    /\ y = [parses |-> TRUE, header |-> y.header, rows |-> y.rows, warnings |-> y.warnings]
AreSnapshots(b, n) ==
    /\ IsFiniteSet(DOMAIN b) /\ IsFiniteSet(DOMAIN n)
    /\ DOMAIN b \subseteq Int /\ DOMAIN n \subseteq Int
    /\ \A s \in Comparable(b, n) : AreFiles(b[s], n[s])

(* The assumption on the jobs says so of the snapshots.                     *)
LEMMA SnapshotsCompared ==
    ASSUME NEW job \in Jobs["snapshots"]
    PROVE  AreSnapshots(job.base, job.updated)
<1> DEFINE b == job.base  n == job.updated
           Row(r, columns) == /\ r = [c \in columns |-> r[c]]
                              /\ IsFiniteSet(columns) /\ columns \subseteq Int
           Parsed(f) == /\ IsFiniteSet(DOMAIN f.rows) /\ DOMAIN f.rows \subseteq Int
                        /\ f.rows = [d \in DOMAIN f.rows |-> f.rows[d]]
                        /\ Row(f.header, DOMAIN f.header)
                        /\ f = [parses |-> TRUE, header |-> f.header, rows |-> f.rows,
                                warnings |-> f.warnings]
           SameColumns(p, q) ==
               /\ \A k \in DOMAIN p : Row(p[k], DOMAIN p[k])
               /\ \A k \in DOMAIN p \cap DOMAIN q : Row(q[k], DOMAIN p[k])
<1>1. IsFiniteSet(DOMAIN b) /\ IsFiniteSet(DOMAIN n)
  BY JobsAssumption
<1>2. /\ DOMAIN b \cup DOMAIN n \subseteq Int
      /\ \A s \in DOMAIN b : b[s].parses => Parsed(b[s])
      /\ \A s \in DOMAIN n : n[s].parses => Parsed(n[s])
      /\ \A s \in DOMAIN b \cap DOMAIN n : b[s].parses /\ n[s].parses =>
           /\ DOMAIN b[s].header = DOMAIN n[s].header
           /\ SameColumns(b[s].rows, n[s].rows)
  BY JobsAssumption
<1> HIDE DEF b, n
<1>3. ASSUME NEW s \in Comparable(b, n)
      PROVE  AreFiles(b[s], n[s])
  <2> DEFINE x == b[s]  y == n[s]
  <2>1. Parsed(x) /\ Parsed(y) /\ DOMAIN x.header = DOMAIN y.header /\ SameColumns(x.rows, y.rows)
    BY <1>2 DEF Comparable, Shared
  <2> HIDE DEF x, y
  <2>2. AreRows(x.rows, y.rows)
    BY <2>1 DEF AreRows, Shared
  <2>3. AreDays(x.rows, y.rows)
    BY <2>1, <2>2 DEF AreDays
  <2> QED
    BY <2>1, <2>3 DEF AreFiles, x, y
<1> QED
  BY <1>1, <1>2, <1>3 DEF AreSnapshots, b, n

(* What is found of the stations, all of them together.                     *)
BrokenFiles(b, n) == {<<s, "base">> : s \in {r \in Shared(b, n) : ~b[r].parses}}
                \cup {<<s, "new">> : s \in {r \in Shared(b, n) : ~n[r].parses}}
WarnedApart(b, n) == {s \in Comparable(b, n) : b[s].warnings # n[s].warnings}
RowsAlike(b, n) ==
    UNION {{<<s, d>> : d \in Alike(b[s].rows, n[s].rows)} : s \in Comparable(b, n)}
RowsUnlike(b, n) ==
    UNION {{<<s, d>> : d \in Unlike(b[s].rows, n[s].rows)} : s \in Comparable(b, n)}

(* What each of them is at one station.                                     *)
AtStation(b, n, s) ==
    /\ OfStation(OnlyIn(b, n), {s}) = {<<s, d>> : d \in DOMAIN b[s].rows \ DOMAIN n[s].rows}
    /\ OfStation(OnlyIn(n, b), {s}) = {<<s, d>> : d \in DOMAIN n[s].rows \ DOMAIN b[s].rows}
    /\ OfStation(HeadersChanged(b, n), {s})
         = {<<s, c>> : c \in DiffColumns(b[s].header, n[s].header)}
    /\ OfStation(RowsAlike(b, n), {s}) = {<<s, d>> : d \in Alike(b[s].rows, n[s].rows)}
    /\ OfStation(RowsUnlike(b, n), {s}) = {<<s, d>> : d \in Unlike(b[s].rows, n[s].rows)}
    /\ OnDate(FieldsChanged(b, n), {s}) = FieldsOf(s, b[s].rows, n[s].rows)
NoneAt(b, n, s) ==
    /\ OfStation(OnlyIn(b, n), {s}) = {} /\ OfStation(OnlyIn(n, b), {s}) = {}
    /\ OfStation(HeadersChanged(b, n), {s}) = {}
    /\ OfStation(RowsAlike(b, n), {s}) = {} /\ OfStation(RowsUnlike(b, n), {s}) = {}
    /\ OnDate(FieldsChanged(b, n), {s}) = {}

(* Of a family of pairs, those of one first part.                           *)
PairsIn(f, S) == UNION {{<<k, d>> : d \in f[k]} : k \in S}
PairsOf(f, S, s) == IF s \in S THEN {<<s, d>> : d \in f[s]} ELSE {}

(* Of the pairs of every station, those of one.                             *)
LEMMA PairsOfOne ==
    ASSUME NEW S, NEW f, NEW s
    PROVE  OfStation(PairsIn(f, S), {s}) = PairsOf(f, S, s)
<1> DEFINE all == UNION {{<<k, d>> : d \in f[k]} : k \in S}
<1>1. ASSUME NEW x \in all, x[1] = s
      PROVE  s \in S /\ x \in {<<s, d>> : d \in f[s]}
  <2>1. PICK k \in S : x \in {<<k, d>> : d \in f[k]}
    OBVIOUS
  <2>2. PICK d \in f[k] : x = <<k, d>>
    BY <2>1
  <2> QED
    BY <1>1, <2>2
<1>2. ASSUME s \in S
      PROVE  {<<s, d>> : d \in f[s]} \subseteq OfStation(all, {s})
  <2> SUFFICES ASSUME NEW d \in f[s] PROVE <<s, d>> \in all
    BY DEF OfStation
  <2> QED
    BY <1>2
<1> QED
  BY <1>1, <1>2 DEF OfStation, PairsIn, PairsOf

(* The fields changed, by the dates both files have.                        *)
DatesShared(b, n) ==
    UNION {{<<s, d>> : d \in Shared(b[s].rows, n[s].rows)} : s \in Comparable(b, n)}
FieldsAt(b, n, sd) ==
    {<<sd, c>> : c \in {e \in DOMAIN b[sd[1]].rows[sd[2]] :
                            b[sd[1]].rows[sd[2]][e] # n[sd[1]].rows[sd[2]][e]}}

(* The fields that changed are those of the dates both files have.          *)
LEMMA FieldsByDate ==
    ASSUME NEW b, NEW n
    PROVE  FieldsChanged(b, n) = UNION {FieldsAt(b, n, sd) : sd \in DatesShared(b, n)}
<1> DEFINE Either(x, y) == TRUE
<1>1. RowsShared(b, n, Either) = DatesShared(b, n)
  BY DEF RowsShared, DatesShared
<1>2. FieldsChanged(b, n) = UNION {FieldsAt(b, n, sd) : sd \in RowsShared(b, n, Either)}
  BY DEF FieldsChanged, FieldsAt
<1> QED
  BY <1>1, <1>2

(* What is found of one station is found of its two files alone.            *)
LEMMA FoundAt ==
    ASSUME NEW b, NEW n, NEW s
    PROVE  IF s \in Comparable(b, n) THEN AtStation(b, n, s) ELSE NoneAt(b, n, s)
<1> DEFINE S == Comparable(b, n)
           gone == [k \in S |-> DOMAIN b[k].rows \ DOMAIN n[k].rows]
           added == [k \in S |-> DOMAIN n[k].rows \ DOMAIN b[k].rows]
           heads == [k \in S |-> DiffColumns(b[k].header, n[k].header)]
           alike == [k \in S |-> Alike(b[k].rows, n[k].rows)]
           unlike == [k \in S |-> Unlike(b[k].rows, n[k].rows)]
           shared == [k \in S |-> Shared(b[k].rows, n[k].rows)]
<1>1. /\ OnlyIn(b, n) = PairsIn(gone, S) /\ HeadersChanged(b, n) = PairsIn(heads, S)
      /\ RowsAlike(b, n) = PairsIn(alike, S) /\ RowsUnlike(b, n) = PairsIn(unlike, S)
      /\ DatesShared(b, n) = PairsIn(shared, S)
  BY DEF OnlyIn, HeadersChanged, RowsAlike, RowsUnlike, DatesShared, DiffColumns, PairsIn
<1>2. OnlyIn(n, b) = PairsIn(added, S)
  <2>1. Comparable(n, b) = S
    BY DEF Comparable, Shared
  <2> QED
    BY <2>1 DEF OnlyIn, PairsIn
<1>3. ASSUME s \in S
      PROVE  /\ gone[s] = DOMAIN b[s].rows \ DOMAIN n[s].rows
             /\ added[s] = DOMAIN n[s].rows \ DOMAIN b[s].rows
             /\ heads[s] = DiffColumns(b[s].header, n[s].header)
             /\ alike[s] = Alike(b[s].rows, n[s].rows)
             /\ unlike[s] = Unlike(b[s].rows, n[s].rows)
             /\ shared[s] = Shared(b[s].rows, n[s].rows)
  BY <1>3
<1> HIDE DEF S, gone, added, heads, alike, unlike, shared
<1>4. ASSUME NEW f
      PROVE  OfStation(PairsIn(f, S), {s}) = PairsOf(f, S, s)
  BY PairsOfOne
<1>5. CASE s \in S
  <2>1. /\ OfStation(OnlyIn(b, n), {s}) = {<<s, d>> : d \in gone[s]}
        /\ OfStation(OnlyIn(n, b), {s}) = {<<s, d>> : d \in added[s]}
        /\ OfStation(HeadersChanged(b, n), {s}) = {<<s, d>> : d \in heads[s]}
        /\ OfStation(RowsAlike(b, n), {s}) = {<<s, d>> : d \in alike[s]}
        /\ OfStation(RowsUnlike(b, n), {s}) = {<<s, d>> : d \in unlike[s]}
        /\ OfStation(DatesShared(b, n), {s}) = {<<s, d>> : d \in shared[s]}
    <3>1. ASSUME NEW f
          PROVE  OfStation(PairsIn(f, S), {s}) = {<<s, d>> : d \in f[s]}
      BY <1>4, <1>5 DEF PairsOf
    <3> QED
      BY <1>1, <1>2, <3>1
  <2>2. OnDate(FieldsChanged(b, n), {s}) = FieldsOf(s, b[s].rows, n[s].rows)
    <3> DEFINE p == b[s].rows  q == n[s].rows
    <3>1. OfStation(DatesShared(b, n), {s}) = {<<s, d>> : d \in Shared(p, q)}
      BY <1>3, <1>5, <2>1
    <3>2. ASSUME NEW x \in FieldsChanged(b, n), x[1][1] = s
          PROVE  x \in FieldsOf(s, p, q)
      <4>1. PICK sd \in DatesShared(b, n) : x \in FieldsAt(b, n, sd)
        BY FieldsByDate
      <4>2. PICK c \in DOMAIN b[sd[1]].rows[sd[2]] :
                /\ b[sd[1]].rows[sd[2]][c] # n[sd[1]].rows[sd[2]][c]
                /\ x = <<sd, c>>
        BY <4>1 DEF FieldsAt
      <4>3. sd[1] = s
        BY <3>2, <4>2
      <4>4. PICK d \in Shared(p, q) : sd = <<s, d>>
        BY <3>1, <4>3 DEF OfStation
      <4>5. c \in DOMAIN p[d] /\ p[d][c] # q[d][c]
        BY <4>2, <4>4
      <4>6. <<d, c>> \in Changed(p, q)
        <5> HIDE DEF p, q
        <5> QED
          BY <4>5 DEF Changed
      <4> HIDE DEF p, q
      <4> QED
        BY <4>2, <4>4, <4>6 DEF FieldsOf
    <3>3. ASSUME NEW x \in FieldsOf(s, p, q)
          PROVE  x \in FieldsChanged(b, n) /\ x[1][1] = s
      <4>1. PICK dc \in Changed(p, q) : x = <<<<s, dc[1]>>, dc[2]>>
        <5> HIDE DEF p, q
        <5> QED
          BY DEF FieldsOf
      <4>2. PICK d \in Shared(p, q) : dc \in {<<d, c>> : c \in {e \in DOMAIN p[d] : p[d][e] # q[d][e]}}
        <5> HIDE DEF p, q
        <5> QED
          BY DEF Changed
      <4>3. PICK c \in {e \in DOMAIN p[d] : p[d][e] # q[d][e]} : dc = <<d, c>>
        BY <4>2
      <4>4. <<s, d>> \in DatesShared(b, n)
        BY <3>1 DEF OfStation
      <4>5. x = <<<<s, d>>, c>>
        BY <4>1, <4>3
      <4>6. x \in FieldsAt(b, n, <<s, d>>)
        BY <4>3, <4>5 DEF FieldsAt
      <4> QED
        BY <4>4, <4>5, <4>6, FieldsByDate
    <3> HIDE DEF p, q
    <3>4. OnDate(FieldsChanged(b, n), {s}) = FieldsOf(s, p, q)
      BY <3>2, <3>3 DEF OnDate
    <3> QED
      BY <3>4 DEF p, q
  <2> QED
    BY <1>3, <1>5, <2>1, <2>2 DEF AtStation, S
<1>6. CASE s \notin S
  <2>1. /\ OfStation(OnlyIn(b, n), {s}) = {} /\ OfStation(OnlyIn(n, b), {s}) = {}
        /\ OfStation(HeadersChanged(b, n), {s}) = {}
        /\ OfStation(RowsAlike(b, n), {s}) = {} /\ OfStation(RowsUnlike(b, n), {s}) = {}
        /\ OfStation(DatesShared(b, n), {s}) = {}
    <3>1. ASSUME NEW f
          PROVE  OfStation(PairsIn(f, S), {s}) = {}
      BY <1>4, <1>6 DEF PairsOf
    <3> QED
      BY <1>1, <1>2, <3>1
  <2>2. OnDate(FieldsChanged(b, n), {s}) = {}
    <3> SUFFICES ASSUME NEW x \in FieldsChanged(b, n), x[1][1] = s PROVE FALSE
      BY DEF OnDate
    <3>1. PICK sd \in DatesShared(b, n) : x \in FieldsAt(b, n, sd)
      BY FieldsByDate
    <3>2. sd[1] = s
      BY <3>1 DEF FieldsAt
    <3> QED
      BY <2>1, <3>1, <3>2 DEF OfStation
  <2> QED
    BY <1>6, <2>1, <2>2 DEF NoneAt, S
<1> QED
  BY <1>5, <1>6 DEF S

(* The files of one station that do not parse.                              *)
Errs == Int \X {"base", "new"}
BrokenFit(errors, b, n, s) ==
    /\ errors \in Seq(Errs)
    /\ IsFiniteSet(OfStation(BrokenFiles(b, n), {s}))
    /\ Len(errors) = Cardinality(OfStation(BrokenFiles(b, n), {s}))

(* The errors of a station name its files that do not parse.                *)
LEMMA BrokenAt ==
    ASSUME NEW b, NEW n, NEW s \in Int
    PROVE  /\ s \in Shared(b, n) /\ s \notin Comparable(b, n) =>
                BrokenFit(Broken(s, b[s], n[s]), b, n, s)
           /\ ~(s \in Shared(b, n) /\ s \notin Comparable(b, n)) => BrokenFit(<<>>, b, n, s)
<1> DEFINE x == b[s]  y == n[s]
           set == OfStation(BrokenFiles(b, n), {s})
           parses == <<x.parses, y.parses>>
           apart == {i \in 1 .. 2 : ~parses[i]}
           m == Cardinality(apart)
           errors == Broken(s, x, y)
<1>1. \A z : z \in set <=> \/ z = <<s, "base">> /\ s \in Shared(b, n) /\ ~x.parses
                           \/ z = <<s, "new">> /\ s \in Shared(b, n) /\ ~y.parses
  BY DEF OfStation, BrokenFiles
<1>2. errors = [i \in 1 .. m |-> <<s, Sides[IF x.parses THEN 2 ELSE i]>>]
  BY DEF Broken
<1>3. /\ 1 \in apart <=> ~x.parses
      /\ 2 \in apart <=> ~y.parses
      /\ apart \subseteq {1, 2}
  OBVIOUS
<1>4. Sides[1] = "base" /\ Sides[2] = "new"
  BY DEF Sides
<1>5. /\ \A z : IsFiniteSet({z}) /\ Cardinality({z}) = 1
      /\ \A z, w : z # w => IsFiniteSet({z, w}) /\ Cardinality({z, w}) = 2
  <2>1. \A z : IsFiniteSet({z}) /\ Cardinality({z}) = 1
    BY FS_Singleton
  <2>2. ASSUME NEW z, NEW w, z # w
        PROVE  IsFiniteSet({z, w}) /\ Cardinality({z, w}) = 2
    <3> DEFINE S == {z}
    <3>1. S \cup {w} = {z, w} /\ w \notin S /\ IsFiniteSet(S) /\ Cardinality(S) = 1
      BY <2>1, <2>2
    <3> HIDE DEF S
    <3>2. IsFiniteSet(S \cup {w}) /\ Cardinality(S \cup {w}) = Cardinality(S) + 1
      BY <3>1, FS_AddElement
    <3> QED
      BY <3>1, <3>2
  <2> QED
    BY <2>1, <2>2
<1>6. <<s, "base">> # <<s, "new">> /\ <<s, "base">> \in Errs /\ <<s, "new">> \in Errs
  BY DEF Errs
<1> HIDE DEF errors, parses, apart, m, set
<1>7. ASSUME s \in Shared(b, n), s \notin Comparable(b, n)
      PROVE  BrokenFit(errors, b, n, s)
  <2>1. ~x.parses \/ ~y.parses
    BY <1>7 DEF Comparable
  <2>2. m \in {1, 2} /\ IsFiniteSet(set) /\ Cardinality(set) = m /\ (m = 2 => ~x.parses)
    <3>1. CASE ~x.parses /\ ~y.parses
      <4>1. apart = {1, 2} /\ set = {<<s, "base">>, <<s, "new">>}
        BY <1>1, <1>3, <1>7, <3>1
      <4> DEFINE one == 1  two == 2
      <4>2. one # two /\ apart = {one, two}
        BY <4>1
      <4> HIDE DEF one, two
      <4>3. Cardinality(apart) = 2
        BY <1>5, <4>2
      <4>4. IsFiniteSet(set) /\ Cardinality(set) = 2
        BY <1>5, <1>6, <4>1
      <4> QED
        BY <3>1, <4>3, <4>4 DEF m
    <3>2. CASE ~x.parses /\ y.parses
      <4>1. apart = {1} /\ set = {<<s, "base">>}
        BY <1>1, <1>3, <1>7, <3>2
      <4> DEFINE place == 1
      <4>2. apart = {place}
        BY <4>1
      <4> HIDE DEF place
      <4>3. Cardinality(apart) = 1
        BY <1>5, <4>2
      <4>4. IsFiniteSet(set) /\ Cardinality(set) = 1
        BY <1>5, <4>1
      <4> QED
        BY <4>3, <4>4 DEF m
    <3>3. CASE x.parses /\ ~y.parses
      <4>1. apart = {2} /\ set = {<<s, "new">>}
        BY <1>1, <1>3, <1>7, <3>3
      <4> DEFINE place == 2
      <4>2. apart = {place}
        BY <4>1
      <4> HIDE DEF place
      <4>3. Cardinality(apart) = 1
        BY <1>5, <4>2
      <4>4. IsFiniteSet(set) /\ Cardinality(set) = 1
        BY <1>5, <4>1
      <4> QED
        BY <4>3, <4>4 DEF m
    <3> QED
      BY <2>1, <3>1, <3>2, <3>3
  <2>3. \A i \in 1 .. m : <<s, Sides[IF x.parses THEN 2 ELSE i]>> \in Errs
    <3>1. \A i \in 1 .. m : i = 1 \/ i = 2
      BY <2>2
    <3>2. <<s, Sides[1]>> \in Errs /\ <<s, Sides[2]>> \in Errs
      BY <1>4, <1>6
    <3> QED
      BY <3>1, <3>2
  <2>4. errors \in [1 .. m -> Errs] /\ m \in Nat
    BY <1>2, <2>2, <2>3
  <2>5. errors \in Seq(Errs) /\ Len(errors) = m
    BY <2>4
  <2> QED
    BY <2>2, <2>5 DEF BrokenFit, set
<1>8. ASSUME ~(s \in Shared(b, n) /\ s \notin Comparable(b, n))
      PROVE  BrokenFit(<<>>, b, n, s)
  <2>1. set = {}
    BY <1>1, <1>8 DEF Comparable
  <2>2. IsFiniteSet(set) /\ Cardinality(set) = 0
    BY <2>1, FS_EmptySet
  <2>3. <<>> \in Seq(Errs) /\ Len(<<>>) = 0
    OBVIOUS
  <2> QED
    BY <2>2, <2>3 DEF BrokenFit, set
<1> QED
  BY <1>7, <1>8 DEF errors

(* The outcome of a station: what is found of it, whoever works on it.      *)
OutcomeFits(o, b, n, daily, s) ==
    LET K == DOMAIN b \cup DOMAIN n IN
    /\ BrokenFit(o.errors, b, n, s)
    /\ o.compared <=> s \in Comparable(b, n)
    /\ o.identical <=> s \in SameStation(b, n)
    /\ o.warningDiff <=> s \in WarnedApart(b, n)
    /\ TallyOf(o.appended, OfStation(OnlyIn(n, b), {s}), Order2(K))
    /\ TallyOf(o.removed, OfStation(OnlyIn(b, n), {s}), Order2(K))
    /\ TallyOf(o.headerDiffs, OfStation(HeadersChanged(b, n), {s}), Order2(K))
    /\ TallyOf(o.revisions, OnDate(FieldsChanged(b, n), {s}), Order3(K))
    /\ IsFiniteSet(OfStation(RowsAlike(b, n), {s}))
    /\ IsFiniteSet(OfStation(RowsUnlike(b, n), {s}))
    /\ daily => /\ o.rowsIdentical = Cardinality(OfStation(RowsAlike(b, n), {s}))
                /\ o.rowsRevised = Cardinality(OfStation(RowsUnlike(b, n), {s}))
    /\ o.rowsIdentical \in Nat /\ o.rowsRevised \in Nat

(* A station that is not compared.                                          *)
LEMMA UnreadFits ==
    ASSUME NEW b, NEW n, NEW daily, NEW s, s \notin Comparable(b, n),
           NEW errors, BrokenFit(errors, b, n, s)
    PROVE  OutcomeFits([Unread EXCEPT !.errors = errors], b, n, daily, s)
<1> DEFINE o == [Unread EXCEPT !.errors = errors]
           none == None  zero == 0
           K == DOMAIN b \cup DOMAIN n
<1>1. /\ o.errors = errors /\ o.compared = FALSE /\ o.identical = FALSE
      /\ o.warningDiff = FALSE
      /\ o.appended = none /\ o.removed = none /\ o.headerDiffs = none /\ o.revisions = none
      /\ o.rowsIdentical = zero /\ o.rowsRevised = zero
  BY DEF Unread
<1> HIDE DEF o
<1>2. NoneAt(b, n, s)
  BY FoundAt
<1>3. s \notin SameStation(b, n) /\ s \notin WarnedApart(b, n)
  BY DEF SameStation, WarnedApart
<1>4. IsFiniteSet({}) /\ Cardinality({}) = zero /\ zero \in Nat
  BY FS_EmptySet
<1>5. \A R : TallyOf(none, {}, R)
  BY NoneTallied
<1> HIDE DEF none, zero
<1>6. /\ o.compared <=> s \in Comparable(b, n)
      /\ o.identical <=> s \in SameStation(b, n)
      /\ o.warningDiff <=> s \in WarnedApart(b, n)
  BY <1>1, <1>3
<1>7. BrokenFit(o.errors, b, n, s)
  BY <1>1
<1>8. /\ TallyOf(o.appended, OfStation(OnlyIn(n, b), {s}), Order2(K))
      /\ TallyOf(o.removed, OfStation(OnlyIn(b, n), {s}), Order2(K))
      /\ TallyOf(o.headerDiffs, OfStation(HeadersChanged(b, n), {s}), Order2(K))
      /\ TallyOf(o.revisions, OnDate(FieldsChanged(b, n), {s}), Order3(K))
  BY <1>1, <1>2, <1>5 DEF NoneAt
<1>9. /\ IsFiniteSet(OfStation(RowsAlike(b, n), {s}))
      /\ IsFiniteSet(OfStation(RowsUnlike(b, n), {s}))
      /\ o.rowsIdentical = Cardinality(OfStation(RowsAlike(b, n), {s}))
      /\ o.rowsRevised = Cardinality(OfStation(RowsUnlike(b, n), {s}))
      /\ o.rowsIdentical \in Nat /\ o.rowsRevised \in Nat
  BY <1>1, <1>2, <1>4 DEF NoneAt
<1>10. OutcomeFits(o, b, n, daily, s)
  BY <1>6, <1>7, <1>8, <1>9 DEF OutcomeFits
<1> QED
  BY <1>10 DEF o

(* Two files are the same when no date, field or warning is different.      *)
LEMMA FilesSame ==
    ASSUME NEW x, NEW y, AreFiles(x, y)
    PROVE  x = y <=> /\ DOMAIN x.rows \subseteq DOMAIN y.rows /\ DOMAIN y.rows \subseteq DOMAIN x.rows
                     /\ Unlike(x.rows, y.rows) = {}
                     /\ DiffColumns(x.header, y.header) = {}
                     /\ x.warnings = y.warnings
<1>1. /\ x.rows = [d \in DOMAIN x.rows |-> x.rows[d]]
      /\ y.rows = [d \in DOMAIN y.rows |-> y.rows[d]]
      /\ x.header = [c \in DOMAIN x.header |-> x.header[c]]
      /\ y.header = [c \in DOMAIN x.header |-> y.header[c]]
      /\ x = [parses |-> TRUE, header |-> x.header, rows |-> x.rows, warnings |-> x.warnings]
      /\ y = [parses |-> TRUE, header |-> y.header, rows |-> y.rows, warnings |-> y.warnings]
  BY DEF AreFiles
<1> DEFINE p == x.rows  q == y.rows  h == x.header  g == y.header
<1>2. p = q <=> DOMAIN p \subseteq DOMAIN q /\ DOMAIN q \subseteq DOMAIN p /\ Unlike(p, q) = {}
  <2> HIDE DEF p, q
  <2>1. p = q => DOMAIN p \subseteq DOMAIN q /\ DOMAIN q \subseteq DOMAIN p /\ Unlike(p, q) = {}
    BY DEF Unlike
  <2>2. ASSUME DOMAIN p \subseteq DOMAIN q, DOMAIN q \subseteq DOMAIN p, Unlike(p, q) = {}
        PROVE  p = q
    <3>1. DOMAIN p = DOMAIN q
      BY <2>2
    <3>2. \A d \in DOMAIN p : p[d] = q[d]
      BY <2>2, <3>1 DEF Unlike, Shared
    <3>3. p = [d \in DOMAIN p |-> p[d]] /\ q = [d \in DOMAIN q |-> q[d]]
      BY <1>1 DEF p, q
    <3> QED
      BY <3>1, <3>2, <3>3
  <2> QED
    BY <2>1, <2>2
<1>3. h = g <=> DiffColumns(h, g) = {}
  <2> HIDE DEF h, g
  <2>1. h = g => DiffColumns(h, g) = {}
    BY DEF DiffColumns
  <2>2. ASSUME DiffColumns(h, g) = {}
        PROVE  h = g
    <3>1. \A c \in DOMAIN h : h[c] = g[c]
      BY <2>2 DEF DiffColumns
    <3>2. h = [c \in DOMAIN h |-> h[c]] /\ g = [c \in DOMAIN h |-> g[c]]
      BY <1>1 DEF h, g
    <3> QED
      BY <3>1, <3>2
  <2> QED
    BY <2>1, <2>2
<1>4. x = y <=> p = q /\ h = g /\ x.warnings = y.warnings
  <2>1. ASSUME p = q, h = g, x.warnings = y.warnings PROVE x = y
    <3> DEFINE w == x.warnings
    <3>1. x = [parses |-> TRUE, header |-> h, rows |-> p, warnings |-> w]
      BY <1>1
    <3>2. y = [parses |-> TRUE, header |-> g, rows |-> q, warnings |-> w]
      BY <1>1, <2>1
    <3> HIDE DEF p, q, h, g, w
    <3> QED
      BY <2>1, <3>1, <3>2
  <2> QED
    BY <2>1
<1> QED
  BY <1>2, <1>3, <1>4

(* The outcome of a station whose two files parse.                          *)
LEMMA ComparedFits ==
    ASSUME NEW b, NEW n, AreSnapshots(b, n), NEW daily, NEW s \in Comparable(b, n)
    PROVE  OutcomeFits(Outcome(daily, s, b[s], n[s]), b, n, daily, s)
<1> DEFINE x == b[s]  y == n[s]
           K == DOMAIN b \cup DOMAIN n
           o == Outcome(daily, s, x, y)
           p == x.rows  q == y.rows
           added == DOMAIN q \ DOMAIN p  gone == DOMAIN p \ DOMAIN q
           heading == DiffColumns(x.header, y.header)
<1>1. AreFiles(x, y) /\ K \subseteq Int /\ s \in K /\ x.parses /\ y.parses
  BY DEF AreSnapshots, Comparable, Shared
<1>2. AreDays(p, q) /\ IsFiniteSet(heading) /\ heading \subseteq Int
  <2>1. AreDays(p, q) /\ IsFiniteSet(DOMAIN x.header) /\ DOMAIN x.header \subseteq Int
    BY <1>1 DEF AreFiles
  <2>2. heading \subseteq DOMAIN x.header
    BY DEF DiffColumns
  <2> QED
    BY <2>1, <2>2, FS_Subset
<1>3. /\ IsFiniteSet(added) /\ added \subseteq Int /\ IsFiniteSet(gone) /\ gone \subseteq Int
      /\ IsFiniteSet(Alike(p, q)) /\ IsFiniteSet(Unlike(p, q))
  <2>1. /\ IsFiniteSet(DOMAIN p) /\ IsFiniteSet(DOMAIN q)
        /\ DOMAIN p \subseteq Int /\ DOMAIN q \subseteq Int
    BY <1>2 DEF AreDays
  <2>2. Alike(p, q) \subseteq DOMAIN p /\ Unlike(p, q) \subseteq DOMAIN p
    BY DEF Alike, Unlike, Shared
  <2> HIDE DEF p, q
  <2> QED
    BY <2>1, <2>2, FS_Subset
<1>4. AtStation(b, n, s)
  BY FoundAt
<1>5. (DOMAIN p \cap DOMAIN q) \ Unlike(p, q) = Alike(p, q)
  BY DEF Unlike, Alike, Shared
<1>6. /\ o.errors = <<>> /\ o.compared = TRUE
      /\ o.identical = (added \cup gone \cup Unlike(p, q) \cup heading = {} /\ x.warnings = y.warnings)
      /\ o.rowsIdentical = IF daily THEN Cardinality((DOMAIN p \cap DOMAIN q) \ Unlike(p, q)) ELSE 0
      /\ o.rowsRevised = IF daily THEN Cardinality(Unlike(p, q)) ELSE 0
      /\ o.appended = Datewise(s, added) /\ o.removed = Datewise(s, gone)
      /\ o.revisions = RevisedFields(s, p, q, Ordered(Unlike(p, q)))
      /\ o.headerDiffs = AddAll(None, Diffs(s, x.header, y.header))
      /\ o.warningDiff = (x.warnings # y.warnings)
  BY <1>1 DEF Outcome, Unlike, Shared
<1>7. /\ TallyOf(o.appended, {<<s, d>> : d \in added}, Order2(K))
      /\ TallyOf(o.removed, {<<s, d>> : d \in gone}, Order2(K))
      /\ TallyOf(o.headerDiffs, {<<s, c>> : c \in heading}, Order2(K))
  <2>1. /\ o.appended = AddAll(None, Keyed(s, added)) /\ o.removed = AddAll(None, Keyed(s, gone))
        /\ o.headerDiffs = AddAll(None, Keyed(s, heading))
    BY <1>6 DEF Datewise, Diffs
  <2> HIDE DEF K, o, added, gone, heading
  <2> QED
    BY <1>1, <1>2, <1>3, <2>1, KeyedTallies
<1>8. TallyOf(o.revisions, FieldsOf(s, p, q), Order3(K))
  <2> HIDE DEF K, o, p, q
  <2> QED
    BY <1>1, <1>2, <1>6, RevisedTallies
<1>9. BrokenFit(o.errors, b, n, s)
  <2>1. BrokenFit(<<>>, b, n, s)
    BY <1>1, BrokenAt
  <2> QED
    BY <1>6, <2>1
<1>10. o.identical <=> s \in SameStation(b, n)
  <2>1. x = y <=> /\ DOMAIN p \subseteq DOMAIN q /\ DOMAIN q \subseteq DOMAIN p
                  /\ Unlike(p, q) = {} /\ heading = {} /\ x.warnings = y.warnings
    BY <1>1, FilesSame
  <2>2. added \cup gone \cup Unlike(p, q) \cup heading = {}
          <=> /\ DOMAIN p \subseteq DOMAIN q /\ DOMAIN q \subseteq DOMAIN p
              /\ Unlike(p, q) = {} /\ heading = {}
    OBVIOUS
  <2>3. s \in SameStation(b, n) <=> x = y
    BY DEF SameStation
  <2> HIDE DEF o, x, y, p, q, added, gone, heading
  <2> QED
    BY <1>6, <2>1, <2>2, <2>3
<1>11. o.warningDiff <=> s \in WarnedApart(b, n)
  BY <1>6 DEF WarnedApart
<1>12. /\ IsFiniteSet(OfStation(RowsAlike(b, n), {s}))
       /\ IsFiniteSet(OfStation(RowsUnlike(b, n), {s}))
       /\ Cardinality(OfStation(RowsAlike(b, n), {s})) = Cardinality(Alike(p, q))
       /\ Cardinality(OfStation(RowsUnlike(b, n), {s})) = Cardinality(Unlike(p, q))
       /\ Cardinality(Alike(p, q)) \in Nat /\ Cardinality(Unlike(p, q)) \in Nat
  <2>1. /\ OfStation(RowsAlike(b, n), {s}) = {<<s, d>> : d \in Alike(p, q)}
        /\ OfStation(RowsUnlike(b, n), {s}) = {<<s, d>> : d \in Unlike(p, q)}
    BY <1>4 DEF AtStation
  <2> DEFINE A == Alike(p, q)  B == Unlike(p, q)
             C == OfStation(RowsAlike(b, n), {s})  D == OfStation(RowsUnlike(b, n), {s})
  <2>2. /\ IsFiniteSet(A) /\ IsFiniteSet(B)
        /\ C = {<<s, d>> : d \in A} /\ D = {<<s, d>> : d \in B}
    BY <1>3, <2>1
  <2> HIDE DEF A, B, C, D
  <2>3. IsFiniteSet(C) /\ Cardinality(C) = Cardinality(A)
    BY <2>2, PairedCounts
  <2>4. IsFiniteSet(D) /\ Cardinality(D) = Cardinality(B)
    BY <2>2, PairedCounts
  <2>5. Cardinality(A) \in Nat /\ Cardinality(B) \in Nat
    BY <2>2, FS_CardinalityType
  <2> QED
    BY <2>3, <2>4, <2>5 DEF A, B, C, D
<1>13. /\ daily => /\ o.rowsIdentical = Cardinality(OfStation(RowsAlike(b, n), {s}))
                   /\ o.rowsRevised = Cardinality(OfStation(RowsUnlike(b, n), {s}))
       /\ o.rowsIdentical \in Nat /\ o.rowsRevised \in Nat
  <2> DEFINE alike == Cardinality(Alike(p, q))  unlike == Cardinality(Unlike(p, q))
  <2>1. /\ o.rowsIdentical = IF daily THEN alike ELSE 0
        /\ o.rowsRevised = IF daily THEN unlike ELSE 0
    <3> HIDE DEF o, p, q
    <3> QED
      BY <1>5, <1>6
  <2>2. /\ Cardinality(OfStation(RowsAlike(b, n), {s})) = alike
        /\ Cardinality(OfStation(RowsUnlike(b, n), {s})) = unlike
        /\ alike \in Nat /\ unlike \in Nat
    BY <1>12
  <2> HIDE DEF o, p, q, alike, unlike
  <2>3. CASE daily
    BY <2>1, <2>2, <2>3
  <2>4. CASE ~daily
    BY <2>1, <2>2, <2>4
  <2> QED
    BY <2>3, <2>4
<1>14. /\ TallyOf(o.appended, OfStation(OnlyIn(n, b), {s}), Order2(K))
       /\ TallyOf(o.removed, OfStation(OnlyIn(b, n), {s}), Order2(K))
       /\ TallyOf(o.headerDiffs, OfStation(HeadersChanged(b, n), {s}), Order2(K))
       /\ TallyOf(o.revisions, OnDate(FieldsChanged(b, n), {s}), Order3(K))
  <2> HIDE DEF o
  <2> QED
    BY <1>4, <1>7, <1>8 DEF AtStation
<1>15. o.compared <=> s \in Comparable(b, n)
  BY <1>6
<1> HIDE DEF o, x, y
<1>16. OutcomeFits(o, b, n, daily, s)
  BY <1>9, <1>10, <1>11, <1>12, <1>13, <1>14, <1>15 DEF OutcomeFits
<1> QED
  BY <1>16 DEF o, x, y

(* The outcome of any station.                                              *)
OutcomeAt(daily, s, b, n) ==
    IF s \in DOMAIN b /\ s \in DOMAIN n THEN Outcome(daily, s, b[s], n[s]) ELSE Unread

(* It fits what is found of the station, compared or not.                   *)
LEMMA OutcomeFit ==
    ASSUME NEW b, NEW n, AreSnapshots(b, n), NEW daily, NEW s \in DOMAIN b \cup DOMAIN n
    PROVE  OutcomeFits(OutcomeAt(daily, s, b, n), b, n, daily, s)
<1>1. s \in Int
  BY DEF AreSnapshots
<1>2. CASE s \in Comparable(b, n)
  <2>1. OutcomeAt(daily, s, b, n) = Outcome(daily, s, b[s], n[s])
    BY <1>2 DEF OutcomeAt, Comparable, Shared
  <2> QED
    BY <1>2, <2>1, ComparedFits
<1>3. CASE s \in Shared(b, n) /\ s \notin Comparable(b, n)
  <2> DEFINE errors == Broken(s, b[s], n[s])
  <2>1. OutcomeAt(daily, s, b, n) = [Unread EXCEPT !.errors = errors]
    BY <1>3 DEF OutcomeAt, Outcome, Comparable, Shared
  <2>2. BrokenFit(errors, b, n, s)
    BY <1>1, <1>3, BrokenAt
  <2> HIDE DEF errors
  <2> QED
    BY <1>3, <2>1, <2>2, UnreadFits
<1>4. CASE s \notin Shared(b, n)
  <2> DEFINE errors == <<>>
  <2>1. OutcomeAt(daily, s, b, n) = Unread
    BY <1>4 DEF OutcomeAt, Shared
  <2>2. Unread = [Unread EXCEPT !.errors = errors]
    <3> DEFINE none == None  no == FALSE  zero == 0  u == Unread
    <3>1. u = [errors |-> errors, compared |-> no, identical |-> no,
               rowsIdentical |-> zero, rowsRevised |-> zero, appended |-> none,
               removed |-> none, revisions |-> none, headerDiffs |-> none, warningDiff |-> no]
      BY DEF Unread
    <3> HIDE DEF none, no, zero, errors, u
    <3>2. u = [u EXCEPT !.errors = errors]
      BY <3>1
    <3> QED
      BY <3>2 DEF u
  <2>3. BrokenFit(errors, b, n, s)
    BY <1>1, <1>4, BrokenAt
  <2>4. s \notin Comparable(b, n)
    BY <1>4 DEF Comparable
  <2> HIDE DEF errors
  <2>5. OutcomeFits([Unread EXCEPT !.errors = errors], b, n, daily, s)
    BY <2>3, <2>4, UnreadFits
  <2> QED
    BY <2>1, <2>2, <2>5
<1> QED
  BY <1>2, <1>3, <1>4

(* What is found is of a station both sides have, by its numbers.           *)
LEMMA FoundWithin ==
    ASSUME NEW b, NEW n, AreSnapshots(b, n)
    PROVE  LET K == DOMAIN b \cup DOMAIN n IN
           /\ OnlyIn(b, n) \subseteq K \X Int /\ OnlyIn(n, b) \subseteq K \X Int
           /\ HeadersChanged(b, n) \subseteq K \X Int
           /\ FieldsChanged(b, n) \subseteq (K \X Int) \X Int
<1> DEFINE K == DOMAIN b \cup DOMAIN n
<1>1. ASSUME NEW s \in Comparable(b, n)
      PROVE  /\ s \in K
             /\ DOMAIN b[s].rows \subseteq Int /\ DOMAIN n[s].rows \subseteq Int
             /\ DOMAIN b[s].header \subseteq Int
             /\ \A d \in Shared(b[s].rows, n[s].rows) : DOMAIN b[s].rows[d] \subseteq Int
  <2>1. AreFiles(b[s], n[s]) /\ s \in K
    BY DEF AreSnapshots, Comparable, Shared
  <2>2. AreDays(b[s].rows, n[s].rows) /\ DOMAIN b[s].header \subseteq Int
    BY <2>1 DEF AreFiles
  <2> QED
    BY <2>1, <2>2 DEF AreDays, AreRows
<1> HIDE DEF K
<1>2. ASSUME NEW x \in OnlyIn(b, n) PROVE x \in K \X Int
  <2>1. PICK s \in Comparable(b, n) : \E d \in DOMAIN b[s].rows \ DOMAIN n[s].rows : x = <<s, d>>
    BY DEF OnlyIn
  <2>2. PICK d \in DOMAIN b[s].rows \ DOMAIN n[s].rows : x = <<s, d>>
    BY <2>1
  <2> QED
    BY <1>1, <2>2
<1>3. ASSUME NEW x \in OnlyIn(n, b) PROVE x \in K \X Int
  <2>1. Comparable(n, b) = Comparable(b, n)
    BY DEF Comparable, Shared
  <2>2. PICK s \in Comparable(b, n) : \E d \in DOMAIN n[s].rows \ DOMAIN b[s].rows : x = <<s, d>>
    BY <2>1 DEF OnlyIn
  <2>3. PICK d \in DOMAIN n[s].rows \ DOMAIN b[s].rows : x = <<s, d>>
    BY <2>2
  <2> QED
    BY <1>1, <2>3
<1>4. ASSUME NEW x \in HeadersChanged(b, n) PROVE x \in K \X Int
  <2>1. PICK s \in Comparable(b, n) : \E c \in DOMAIN b[s].header : x = <<s, c>>
    BY DEF HeadersChanged
  <2>2. PICK c \in DOMAIN b[s].header : x = <<s, c>>
    BY <2>1
  <2> QED
    BY <1>1, <2>2
<1>5. ASSUME NEW x \in FieldsChanged(b, n) PROVE x \in (K \X Int) \X Int
  <2>1. PICK sd \in DatesShared(b, n) : x \in FieldsAt(b, n, sd)
    BY FieldsByDate
  <2>2. PICK s \in Comparable(b, n) : \E d \in Shared(b[s].rows, n[s].rows) : sd = <<s, d>>
    BY DEF DatesShared
  <2>3. PICK d \in Shared(b[s].rows, n[s].rows) : sd = <<s, d>>
    BY <2>2
  <2>4. sd[1] = s /\ sd[2] = d
    BY <2>3
  <2>5. PICK c \in DOMAIN b[s].rows[d] : x = <<sd, c>>
    BY <2>1, <2>4 DEF FieldsAt
  <2>6. d \in Int /\ c \in Int /\ s \in K
    BY <1>1, <2>3, <2>5 DEF Shared
  <2> QED
    BY <2>3, <2>5, <2>6
<1>6. /\ OnlyIn(b, n) \subseteq K \X Int /\ OnlyIn(n, b) \subseteq K \X Int
      /\ HeadersChanged(b, n) \subseteq K \X Int
      /\ FieldsChanged(b, n) \subseteq (K \X Int) \X Int
  BY <1>2, <1>3, <1>4, <1>5
<1> QED
  BY <1>6 DEF K

(* What a kind has gathered of the stations behind the reduction.           *)
OnSides(kr, b, n, D) ==
    LET R == Order1(DOMAIN b \cup DOMAIN n) IN
    /\ kr.both = Cardinality(Shared(b, n) \cap D)
    /\ TallyOf(kr.baseOnly, (DOMAIN b \ DOMAIN n) \cap D, R)
    /\ TallyOf(kr.newOnly, (DOMAIN n \ DOMAIN b) \cap D, R)
    /\ TallyOf(kr.warningDiffs, WarnedApart(b, n) \cap D, R)
InNumbers(kr, b, n, daily, D) ==
    /\ kr.errors \in Samples(Errs)
    /\ IsFiniteSet(OfStation(BrokenFiles(b, n), D))
    /\ kr.errors.total = Cardinality(OfStation(BrokenFiles(b, n), D))
    /\ kr.same = Cardinality(SameStation(b, n) \cap D) /\ kr.revised \in Int
    /\ kr.same + kr.revised = Cardinality(Comparable(b, n) \cap D)
    /\ IsFiniteSet(OfStation(RowsAlike(b, n), D))
    /\ IsFiniteSet(OfStation(RowsUnlike(b, n), D))
    /\ daily => /\ kr.rowsIdentical = Cardinality(OfStation(RowsAlike(b, n), D))
                /\ kr.rowsRevised = Cardinality(OfStation(RowsUnlike(b, n), D))
InFindings(kr, b, n, D) ==
    LET K == DOMAIN b \cup DOMAIN n IN
    /\ TallyOf(kr.appended, OfStation(OnlyIn(n, b), D), Order2(K))
    /\ TallyOf(kr.removed, OfStation(OnlyIn(b, n), D), Order2(K))
    /\ TallyOf(kr.headerDiffs, OfStation(HeadersChanged(b, n), D), Order2(K))
    /\ TallyOf(kr.revisions, OnDate(FieldsChanged(b, n), D), Order3(K))
IsKind(kr) ==
    kr = [both |-> kr.both, same |-> kr.same, revised |-> kr.revised, errors |-> kr.errors,
          rowsIdentical |-> kr.rowsIdentical, rowsRevised |-> kr.rowsRevised,
          appended |-> kr.appended, removed |-> kr.removed, revisions |-> kr.revisions,
          headerDiffs |-> kr.headerDiffs, warningDiffs |-> kr.warningDiffs,
          baseOnly |-> kr.baseOnly, newOnly |-> kr.newOnly]
KindSoFar(kr, b, n, daily, D) ==
    /\ IsKind(kr) /\ OnSides(kr, b, n, D)
    /\ InNumbers(kr, b, n, daily, D) /\ InFindings(kr, b, n, D)

(* What the reduction makes of it with one more station's outcome.          *)
KindNext(u, kr, b, n, s, o) ==
    /\ IsKind(u)
    /\ u.baseOnly = IF s \notin DOMAIN n THEN Add(kr.baseOnly, s) ELSE kr.baseOnly
    /\ u.newOnly = IF s \notin DOMAIN b THEN Add(kr.newOnly, s) ELSE kr.newOnly
    /\ u.both = IF s \in Shared(b, n) THEN kr.both + 1 ELSE kr.both
    /\ u.errors = AddAll(kr.errors, o.errors)
    /\ u.same = IF o.compared /\ o.identical THEN kr.same + 1 ELSE kr.same
    /\ u.revised = IF o.compared /\ ~o.identical THEN kr.revised + 1 ELSE kr.revised
    /\ u.rowsIdentical = kr.rowsIdentical + o.rowsIdentical
    /\ u.rowsRevised = kr.rowsRevised + o.rowsRevised
    /\ u.appended = Merge(kr.appended, o.appended)
    /\ u.removed = Merge(kr.removed, o.removed)
    /\ u.revisions = Merge(kr.revisions, o.revisions)
    /\ u.headerDiffs = Merge(kr.headerDiffs, o.headerDiffs)
    /\ u.warningDiffs = IF o.warningDiff THEN Add(kr.warningDiffs, s) ELSE kr.warningDiffs
StationComes(s, D, b, n) ==
    /\ AreSnapshots(b, n)
    /\ D \subseteq DOMAIN b \cup DOMAIN n /\ s \in (DOMAIN b \cup DOMAIN n) \ D
    /\ \A l \in D : l < s

(* On which sides the station is, and whether it is warned of differently.  *)
LEMMA SidesTake ==
    ASSUME NEW b, NEW n, NEW daily, NEW s, NEW D, StationComes(s, D, b, n),
           NEW o, OutcomeFits(o, b, n, daily, s),
           NEW kr, OnSides(kr, b, n, D), NEW u, KindNext(u, kr, b, n, s, o)
    PROVE  OnSides(u, b, n, D \cup {s})
<1> DEFINE K == DOMAIN b \cup DOMAIN n  R == Order1(K)  E == D \cup {s}
           bo == DOMAIN b \ DOMAIN n  no == DOMAIN n \ DOMAIN b
           shared == Shared(b, n)  warned == WarnedApart(b, n)
<1>1. /\ K \subseteq Int /\ D \subseteq K /\ s \in K \ D /\ s \notin D /\ \A l \in D : l < s
  BY DEF StationComes, AreSnapshots
<1>2. StrictOrder(R, K) /\ \A l \in D : <<l, s>> \in R
  <2>1. ThreeOrders(K)
    BY <1>1, OrdersAre
  <2>2. StrictOrder(R, K) /\ \A k, l \in K : <<k, l>> \in R <=> k < l
    BY <2>1 DEF ThreeOrders
  <2> HIDE DEF R
  <2> QED
    BY <1>1, <2>2
<1>3. /\ s \in bo <=> s \notin DOMAIN n
      /\ s \in no <=> s \notin DOMAIN b
      /\ bo \subseteq K /\ no \subseteq K
      /\ shared \subseteq K /\ warned \subseteq K
  BY <1>1 DEF WarnedApart, Comparable, Shared
<1>4. IsFiniteSet(shared)
  <2>1. IsFiniteSet(DOMAIN b) /\ shared \subseteq DOMAIN b
    BY DEF StationComes, AreSnapshots, Shared
  <2> QED
    BY <2>1, FS_Subset
<1>5. /\ kr.both = Cardinality(shared \cap D)
      /\ TallyOf(kr.baseOnly, bo \cap D, R) /\ TallyOf(kr.newOnly, no \cap D, R)
      /\ TallyOf(kr.warningDiffs, warned \cap D, R)
  BY DEF OnSides
<1>6. o.warningDiff <=> s \in warned
  BY DEF OutcomeFits
<1>7. /\ u.baseOnly = IF s \notin DOMAIN n THEN Add(kr.baseOnly, s) ELSE kr.baseOnly
      /\ u.newOnly = IF s \notin DOMAIN b THEN Add(kr.newOnly, s) ELSE kr.newOnly
      /\ u.both = IF s \in shared THEN kr.both + 1 ELSE kr.both
      /\ u.warningDiffs = IF o.warningDiff THEN Add(kr.warningDiffs, s) ELSE kr.warningDiffs
  BY DEF KindNext
<1> DEFINE key == s
<1>8. /\ key \in K \ D /\ key \notin D /\ \A l \in D : <<l, key>> \in R
      /\ E = D \cup {key}
  BY <1>1, <1>2
<1> HIDE DEF K, R, E, bo, no, shared, warned, key
<1>9. /\ key \in bo => TallyOf(Add(kr.baseOnly, key), bo \cap E, R)
      /\ key \notin bo => TallyOf(kr.baseOnly, bo \cap E, R)
  BY <1>1, <1>2, <1>3, <1>5, <1>8, TallyTakes
<1>10. /\ key \in no => TallyOf(Add(kr.newOnly, key), no \cap E, R)
       /\ key \notin no => TallyOf(kr.newOnly, no \cap E, R)
  BY <1>1, <1>2, <1>3, <1>5, <1>8, TallyTakes
<1>11. /\ key \in warned => TallyOf(Add(kr.warningDiffs, key), warned \cap E, R)
       /\ key \notin warned => TallyOf(kr.warningDiffs, warned \cap E, R)
  BY <1>1, <1>2, <1>3, <1>5, <1>8, TallyTakes
<1>12. /\ key \in shared => Cardinality(shared \cap E) = Cardinality(shared \cap D) + 1
       /\ key \notin shared => shared \cap E = shared \cap D
  BY <1>4, <1>8, OneMoreBehind
<1>13. u.both = Cardinality(shared \cap E)
  BY <1>5, <1>7, <1>12 DEF key
<1>14. /\ TallyOf(u.baseOnly, bo \cap E, R) /\ TallyOf(u.newOnly, no \cap E, R)
       /\ TallyOf(u.warningDiffs, warned \cap E, R)
  <2>1. key = s
    BY DEF key
  <2>2. TallyOf(u.baseOnly, bo \cap E, R)
    BY <1>3, <1>7, <1>9, <2>1
  <2>3. TallyOf(u.newOnly, no \cap E, R)
    BY <1>3, <1>7, <1>10, <2>1
  <2>4. TallyOf(u.warningDiffs, warned \cap E, R)
    BY <1>6, <1>7, <1>11, <2>1
  <2> QED
    BY <2>2, <2>3, <2>4
<1> QED
  BY <1>13, <1>14 DEF OnSides, K, R, E, bo, no, shared, warned

(* How many files, stations and rows there are of each kind.                *)
LEMMA NumbersTake ==
    ASSUME NEW b, NEW n, NEW daily, NEW s, NEW D, StationComes(s, D, b, n),
           NEW o, OutcomeFits(o, b, n, daily, s),
           NEW kr, InNumbers(kr, b, n, daily, D), NEW u, KindNext(u, kr, b, n, s, o)
    PROVE  InNumbers(u, b, n, daily, D \cup {s})
<1> DEFINE E == D \cup {s}
           broken == BrokenFiles(b, n)  alike == RowsAlike(b, n)  unlike == RowsUnlike(b, n)
           same == SameStation(b, n)  compared == Comparable(b, n)
           key == s
<1>1. key \notin D /\ E = D \cup {key}
  BY DEF StationComes
<1>2. /\ kr.errors \in Samples(Errs)
      /\ IsFiniteSet(OfStation(broken, D)) /\ kr.errors.total = Cardinality(OfStation(broken, D))
      /\ kr.same = Cardinality(same \cap D) /\ kr.revised \in Int
      /\ kr.same + kr.revised = Cardinality(compared \cap D)
      /\ IsFiniteSet(OfStation(alike, D)) /\ IsFiniteSet(OfStation(unlike, D))
      /\ daily => /\ kr.rowsIdentical = Cardinality(OfStation(alike, D))
                  /\ kr.rowsRevised = Cardinality(OfStation(unlike, D))
  BY DEF InNumbers
<1>3. /\ o.errors \in Seq(Errs) /\ IsFiniteSet(OfStation(broken, {key}))
      /\ Len(o.errors) = Cardinality(OfStation(broken, {key}))
      /\ o.compared <=> key \in compared
      /\ o.identical <=> key \in same
      /\ IsFiniteSet(OfStation(alike, {key})) /\ IsFiniteSet(OfStation(unlike, {key}))
      /\ daily => /\ o.rowsIdentical = Cardinality(OfStation(alike, {key}))
                  /\ o.rowsRevised = Cardinality(OfStation(unlike, {key}))
  BY DEF OutcomeFits, BrokenFit
<1>4. /\ u.errors = AddAll(kr.errors, o.errors)
      /\ u.same = IF o.compared /\ o.identical THEN kr.same + 1 ELSE kr.same
      /\ u.revised = IF o.compared /\ ~o.identical THEN kr.revised + 1 ELSE kr.revised
      /\ u.rowsIdentical = kr.rowsIdentical + o.rowsIdentical
      /\ u.rowsRevised = kr.rowsRevised + o.rowsRevised
  BY DEF KindNext
<1>5. same \subseteq compared /\ IsFiniteSet(compared)
  <2>1. IsFiniteSet(DOMAIN b) /\ compared \subseteq DOMAIN b
    BY DEF StationComes, AreSnapshots, Comparable, Shared
  <2>2. same \subseteq compared
    BY DEF SameStation
  <2> QED
    BY <2>1, <2>2, FS_Subset
<1>6. IsFiniteSet(same)
  BY <1>5, FS_Subset
<1> HIDE DEF E, broken, alike, unlike, same, compared, key
<1>7. /\ u.errors \in Samples(Errs)
      /\ u.errors.total = kr.errors.total + Len(o.errors)
  <2> DEFINE v == u.errors  was == kr.errors  more == o.errors
  <2>1. v = AddAll(was, more) /\ was \in Samples(Errs) /\ more \in Seq(Errs)
    BY <1>2, <1>3, <1>4
  <2> HIDE DEF v, was, more
  <2>2. v \in Samples(Errs) /\ v.total = was.total + Len(more)
    BY <2>1, AddAllCounts
  <2> QED
    BY <2>2 DEF v, was, more
<1>8. /\ IsFiniteSet(OfStation(broken, E))
      /\ Cardinality(OfStation(broken, E))
           = Cardinality(OfStation(broken, D)) + Cardinality(OfStation(broken, {key}))
  BY SMTT(30), <1>1, <1>2, <1>3, PairsCounted
<1>9. /\ IsFiniteSet(OfStation(alike, E))
      /\ Cardinality(OfStation(alike, E))
           = Cardinality(OfStation(alike, D)) + Cardinality(OfStation(alike, {key}))
  BY <1>1, <1>2, <1>3, PairsCounted
<1>10. /\ IsFiniteSet(OfStation(unlike, E))
       /\ Cardinality(OfStation(unlike, E))
            = Cardinality(OfStation(unlike, D)) + Cardinality(OfStation(unlike, {key}))
  BY <1>1, <1>2, <1>3, PairsCounted
<1>11. /\ Cardinality(same \cap D) \in Nat
       /\ key \in same => Cardinality(same \cap E) = Cardinality(same \cap D) + 1
       /\ key \notin same => same \cap E = same \cap D
  BY <1>1, <1>6, OneMoreBehind
<1>12. /\ Cardinality(compared \cap D) \in Nat
       /\ key \in compared => Cardinality(compared \cap E) = Cardinality(compared \cap D) + 1
       /\ key \notin compared => compared \cap E = compared \cap D
  BY <1>1, <1>5, OneMoreBehind
<1>13. /\ u.same = Cardinality(same \cap E) /\ u.revised \in Int
       /\ u.same + u.revised = Cardinality(compared \cap E)
  <2> DEFINE wasSame == Cardinality(same \cap D)  wasAll == Cardinality(compared \cap D)
             isSame == Cardinality(same \cap E)  all == Cardinality(compared \cap E)
  <2>1. /\ kr.same = wasSame /\ kr.revised \in Int /\ kr.same + kr.revised = wasAll
        /\ wasSame \in Nat /\ wasAll \in Nat
    BY <1>2, <1>11, <1>12
  <2>2. /\ key \in same => isSame = wasSame + 1
        /\ key \notin same => isSame = wasSame
        /\ key \in compared => all = wasAll + 1
        /\ key \notin compared => all = wasAll
    BY <1>11, <1>12
  <2> HIDE DEF wasSame, wasAll, isSame, all
  <2>3. CASE key \in same
    BY <1>3, <1>4, <1>5, <2>1, <2>2, <2>3 DEF isSame, all
  <2>4. CASE key \in compared /\ key \notin same
    BY <1>3, <1>4, <1>5, <2>1, <2>2, <2>4 DEF isSame, all
  <2>5. CASE key \notin compared
    BY <1>3, <1>4, <1>5, <2>1, <2>2, <2>5 DEF isSame, all
  <2> QED
    BY <2>3, <2>4, <2>5
<1>14. u.errors.total = Cardinality(OfStation(broken, E))
  BY <1>2, <1>3, <1>7, <1>8
<1>15. daily => /\ u.rowsIdentical = Cardinality(OfStation(alike, E))
                /\ u.rowsRevised = Cardinality(OfStation(unlike, E))
  BY <1>2, <1>3, <1>4, <1>9, <1>10
<1> QED
  BY <1>7, <1>8, <1>9, <1>10, <1>13, <1>14, <1>15
  DEF InNumbers, E, broken, alike, unlike, same, compared

(* The findings of the station are behind those of the stations before it.  *)
LEMMA FindingsTake ==
    ASSUME NEW b, NEW n, NEW daily, NEW s, NEW D, StationComes(s, D, b, n),
           NEW o, OutcomeFits(o, b, n, daily, s),
           NEW kr, InFindings(kr, b, n, D), NEW u, KindNext(u, kr, b, n, s, o)
    PROVE  InFindings(u, b, n, D \cup {s})
<1> DEFINE K == DOMAIN b \cup DOMAIN n  E == D \cup {s}  key == s
           added == OnlyIn(n, b)  gone == OnlyIn(b, n)
           heading == HeadersChanged(b, n)  fields == FieldsChanged(b, n)
<1>1. /\ K \subseteq Int /\ D \subseteq K /\ key \in K \ D /\ (\A l \in D : l < key)
      /\ E = D \cup {key}
  BY DEF StationComes, AreSnapshots
<1>2. /\ added \subseteq K \X Int /\ gone \subseteq K \X Int /\ heading \subseteq K \X Int
      /\ fields \subseteq (K \X Int) \X Int
  BY FoundWithin DEF StationComes
<1>3. /\ TallyOf(kr.appended, OfStation(added, D), Order2(K))
      /\ TallyOf(kr.removed, OfStation(gone, D), Order2(K))
      /\ TallyOf(kr.headerDiffs, OfStation(heading, D), Order2(K))
      /\ TallyOf(kr.revisions, OnDate(fields, D), Order3(K))
  BY DEF InFindings
<1>4. /\ TallyOf(o.appended, OfStation(added, {key}), Order2(K))
      /\ TallyOf(o.removed, OfStation(gone, {key}), Order2(K))
      /\ TallyOf(o.headerDiffs, OfStation(heading, {key}), Order2(K))
      /\ TallyOf(o.revisions, OnDate(fields, {key}), Order3(K))
  BY DEF OutcomeFits
<1>5. /\ u.appended = Merge(kr.appended, o.appended)
      /\ u.removed = Merge(kr.removed, o.removed)
      /\ u.revisions = Merge(kr.revisions, o.revisions)
      /\ u.headerDiffs = Merge(kr.headerDiffs, o.headerDiffs)
  BY DEF KindNext
<1> HIDE DEF K, E, key, added, gone, heading, fields
<1>6. TallyOf(Merge(kr.appended, o.appended), OfStation(added, E), Order2(K))
  BY <1>1, <1>2, <1>3, <1>4, PairsMerged
<1>7. TallyOf(Merge(kr.removed, o.removed), OfStation(gone, E), Order2(K))
  BY <1>1, <1>2, <1>3, <1>4, PairsMerged
<1>8. TallyOf(Merge(kr.headerDiffs, o.headerDiffs), OfStation(heading, E), Order2(K))
  BY <1>1, <1>2, <1>3, <1>4, PairsMerged
<1>9. TallyOf(Merge(kr.revisions, o.revisions), OnDate(fields, E), Order3(K))
  BY <1>1, <1>2, <1>3, <1>4, TriplesMerged
<1>10. /\ TallyOf(u.appended, OfStation(added, E), Order2(K))
       /\ TallyOf(u.removed, OfStation(gone, E), Order2(K))
       /\ TallyOf(u.headerDiffs, OfStation(heading, E), Order2(K))
       /\ TallyOf(u.revisions, OnDate(fields, E), Order3(K))
  BY <1>5, <1>6, <1>7, <1>8, <1>9
<1> QED
  BY <1>10 DEF InFindings, K, E, added, gone, heading, fields

(* One more station behind the reduction.                                   *)
LEMMA KindTakes ==
    ASSUME NEW b, NEW n, NEW daily, NEW s, NEW D, StationComes(s, D, b, n),
           NEW o, OutcomeFits(o, b, n, daily, s),
           NEW kr, KindSoFar(kr, b, n, daily, D), NEW u, KindNext(u, kr, b, n, s, o)
    PROVE  KindSoFar(u, b, n, daily, D \cup {s})
<1>1. OnSides(u, b, n, D \cup {s})
  BY SidesTake DEF KindSoFar
<1>2. InNumbers(u, b, n, daily, D \cup {s})
  BY NumbersTake DEF KindSoFar
<1>3. InFindings(u, b, n, D \cup {s})
  BY FindingsTake DEF KindSoFar
<1>4. IsKind(u)
  BY DEF KindNext
<1> QED
  BY <1>1, <1>2, <1>3, <1>4 DEF KindSoFar

(* What Reduced makes of a kind.                                            *)
LEMMA ReducedIs ==
    ASSUME NEW b, NEW n, Job.base = b, Job.updated = n, NEW kr, IsKind(kr), NEW s, NEW o
    PROVE  KindNext(Reduced(kr, s, o), kr, b, n, s, o)
<1> DEFINE bo == IF s \notin DOMAIN n THEN Add(kr.baseOnly, s) ELSE kr.baseOnly
           no == IF s \notin DOMAIN b THEN Add(kr.newOnly, s) ELSE kr.newOnly
           both == IF s \in Shared(b, n) THEN kr.both + 1 ELSE kr.both
           errors == AddAll(kr.errors, o.errors)
           same == IF o.compared /\ o.identical THEN kr.same + 1 ELSE kr.same
           revised == IF o.compared /\ ~o.identical THEN kr.revised + 1 ELSE kr.revised
           ri == kr.rowsIdentical + o.rowsIdentical
           rr == kr.rowsRevised + o.rowsRevised
           appended == Merge(kr.appended, o.appended)
           removed == Merge(kr.removed, o.removed)
           revisions == Merge(kr.revisions, o.revisions)
           headerDiffs == Merge(kr.headerDiffs, o.headerDiffs)
           warned == IF o.warningDiff THEN Add(kr.warningDiffs, s) ELSE kr.warningDiffs
           u == Reduced(kr, s, o)
<1>1. Both(s) <=> s \in Shared(b, n)
  BY DEF Both, Shared
<1>2. u = [kr EXCEPT !.baseOnly = bo, !.newOnly = no, !.both = both, !.errors = errors,
                     !.same = same, !.revised = revised,
                     !.rowsIdentical = ri, !.rowsRevised = rr,
                     !.appended = appended, !.removed = removed, !.revisions = revisions,
                     !.headerDiffs = headerDiffs, !.warningDiffs = warned]
  BY ZenonT(60), <1>1 DEF Reduced
<1> HIDE DEF bo, no, both, errors, same, revised, ri, rr, appended, removed, revisions,
             headerDiffs, warned, u
<1>3. u = [both |-> both, same |-> same, revised |-> revised, errors |-> errors,
           rowsIdentical |-> ri, rowsRevised |-> rr,
           appended |-> appended, removed |-> removed, revisions |-> revisions,
           headerDiffs |-> headerDiffs, warningDiffs |-> warned,
           baseOnly |-> bo, newOnly |-> no]
  BY <1>2 DEF IsKind
<1>4. /\ u.baseOnly = bo /\ u.newOnly = no /\ u.both = both /\ u.errors = errors
      /\ u.same = same /\ u.revised = revised /\ u.rowsIdentical = ri /\ u.rowsRevised = rr
      /\ u.appended = appended /\ u.removed = removed /\ u.revisions = revisions
      /\ u.headerDiffs = headerDiffs /\ u.warningDiffs = warned
  BY <1>3
<1>5. IsKind(u)
  BY <1>3, <1>4 DEF IsKind
<1>6. KindNext(u, kr, b, n, s, o)
  BY <1>4, <1>5 DEF KindNext, bo, no, both, errors, same, revised, ri, rr, appended, removed,
     revisions, headerDiffs, warned
<1> QED
  BY <1>6 DEF u

(* No station behind the reduction: an empty kind.                          *)
LEMMA KindBegins ==
    ASSUME NEW b, NEW n, NEW daily
    PROVE  KindSoFar(EmptyKind, b, n, daily, {})
<1> DEFINE kr == EmptyKind  none == None  zero == 0
           K == DOMAIN b \cup DOMAIN n
<1>1. kr = [both |-> zero, same |-> zero, revised |-> zero, errors |-> none,
            rowsIdentical |-> zero, rowsRevised |-> zero, appended |-> none,
            removed |-> none, revisions |-> none, headerDiffs |-> none,
            warningDiffs |-> none, baseOnly |-> none, newOnly |-> none]
  BY DEF EmptyKind
<1>2. \A R : TallyOf(none, {}, R)
  BY NoneTallied
<1>3. none \in Samples(Errs) /\ none.total = zero
  BY DEF None, Samples
<1>4. IsFiniteSet({}) /\ Cardinality({}) = zero /\ zero \in Int /\ zero + zero = zero
  BY FS_EmptySet
<1> HIDE DEF kr, none, zero
<1>5. /\ kr.both = zero /\ kr.same = zero /\ kr.revised = zero /\ kr.errors = none
      /\ kr.rowsIdentical = zero /\ kr.rowsRevised = zero
      /\ kr.appended = none /\ kr.removed = none /\ kr.revisions = none
      /\ kr.headerDiffs = none /\ kr.warningDiffs = none
      /\ kr.baseOnly = none /\ kr.newOnly = none
  BY <1>1
<1>6. IsKind(kr)
  BY <1>1, <1>5 DEF IsKind
<1>7. /\ \A S : S \cap {} = {} /\ OfStation(S, {}) = {} /\ OnDate(S, {}) = {}
  BY DEF OfStation, OnDate
<1>8. OnSides(kr, b, n, {})
  BY <1>2, <1>4, <1>5, <1>7 DEF OnSides
<1>9. InNumbers(kr, b, n, daily, {})
  BY <1>3, <1>4, <1>5, <1>7 DEF InNumbers
<1>10. InFindings(kr, b, n, {})
  BY <1>2, <1>5, <1>7 DEF InFindings
<1>11. KindSoFar(kr, b, n, daily, {})
  BY <1>6, <1>8, <1>9, <1>10 DEF KindSoFar
<1> QED
  BY <1>11 DEF kr

(* Every station behind it: what is reported is what the snapshots are.     *)
LEMMA KindEnds ==
    ASSUME NEW b, NEW n, NEW daily, AreSnapshots(b, n), NEW kr,
           KindSoFar(kr, b, n, daily, DOMAIN b \cup DOMAIN n)
    PROVE  Snapshotted(kr, b, n, daily)
<1> DEFINE K == DOMAIN b \cup DOMAIN n
           bo == DOMAIN b \ DOMAIN n  no == DOMAIN n \ DOMAIN b
           warned == {s \in Comparable(b, n) : b[s].warnings # n[s].warnings}
           added == OnlyIn(n, b)  gone == OnlyIn(b, n)
           heading == HeadersChanged(b, n)  fields == FieldsChanged(b, n)
           shared == Shared(b, n)  same == SameStation(b, n)  compared == Comparable(b, n)
           broken == BrokenFiles(b, n)  alike == RowsAlike(b, n)  unlike == RowsUnlike(b, n)
           ofKey(x) == x[1]
<1>1. K \subseteq Int
  BY DEF AreSnapshots
<1>2. /\ added \subseteq K \X Int /\ gone \subseteq K \X Int /\ heading \subseteq K \X Int
      /\ fields \subseteq (K \X Int) \X Int
  BY FoundWithin
<1>3. /\ shared \cap K = shared /\ bo \cap K = bo /\ no \cap K = no
      /\ same \cap K = same /\ compared \cap K = compared
      /\ warned \cap K = warned /\ warned = WarnedApart(b, n)
      /\ bo \subseteq K /\ no \subseteq K /\ warned \subseteq K
  BY DEF Shared, SameStation, Comparable, WarnedApart
<1>4. /\ OfStation(added, K) = added /\ OfStation(gone, K) = gone
      /\ OfStation(heading, K) = heading /\ OnDate(fields, K) = fields
  <2>1. ASSUME NEW S, S \subseteq K \X Int PROVE OfStation(S, K) = S
    BY <2>1 DEF OfStation
  <2>2. ASSUME NEW S, S \subseteq (K \X Int) \X Int PROVE OnDate(S, K) = S
    BY <2>2 DEF OnDate
  <2> HIDE DEF K, added, gone, heading, fields
  <2> QED
    BY <1>2, <2>1, <2>2
<1>5. OfStation(broken, K) = broken /\ OfStation(alike, K) = alike /\ OfStation(unlike, K) = unlike
  <2>1. ASSUME NEW x \in broken PROVE x[1] \in K
    BY DEF BrokenFiles, Shared
  <2>2. ASSUME NEW x \in alike PROVE x[1] \in K
    BY DEF RowsAlike, Comparable, Shared
  <2>3. ASSUME NEW x \in unlike PROVE x[1] \in K
    BY DEF RowsUnlike, Comparable, Shared
  <2> HIDE DEF K, broken, alike, unlike
  <2> QED
    BY <2>1, <2>2, <2>3 DEF OfStation
<1>6. /\ kr.both = Cardinality(shared)
      /\ TallyOf(kr.baseOnly, bo, Order1(K)) /\ TallyOf(kr.newOnly, no, Order1(K))
      /\ TallyOf(kr.warningDiffs, warned, Order1(K))
  BY <1>3 DEF KindSoFar, OnSides
<1>7. /\ kr.errors.total = Cardinality(broken)
      /\ kr.same = Cardinality(same) /\ kr.same + kr.revised = Cardinality(compared)
      /\ daily => /\ kr.rowsIdentical = Cardinality(alike)
                  /\ kr.rowsRevised = Cardinality(unlike)
  BY <1>3, <1>5 DEF KindSoFar, InNumbers
<1>8. /\ TallyOf(kr.appended, added, Order2(K)) /\ TallyOf(kr.removed, gone, Order2(K))
      /\ TallyOf(kr.headerDiffs, heading, Order2(K)) /\ TallyOf(kr.revisions, fields, Order3(K))
  BY <1>4 DEF KindSoFar, InFindings
<1>9. /\ Lists1(kr.baseOnly, bo) /\ Lists1(kr.newOnly, no) /\ Lists1(kr.warningDiffs, warned)
  <2>1. Order1(K) = ByKey(NumberRank(K), K)
    BY DEF Order1
  <2> HIDE DEF K, bo, no, warned
  <2> QED
    BY <1>3, <1>6, <2>1, NumbersListed
<1>10. /\ Lists2(kr.appended, added) /\ Lists2(kr.removed, gone) /\ Lists2(kr.headerDiffs, heading)
  <2> HIDE DEF K, added, gone, heading
  <2> QED
    BY <1>1, <1>2, <1>8, PairsListed
<1>11. LET Flat(x) == <<x[1][1], x[1][2], x[2]>>
       IN Lists(kr.revisions.total, kr.revisions.samples, Cap, fields, Flat)
  <2> DEFINE s == kr.revisions
  <2>1. TallyOf(s, fields, Order3(K))
    BY <1>8
  <2> HIDE DEF K, fields, s
  <2>2. LET Flat(x) == <<x[1][1], x[1][2], x[2]>>
        IN Lists(s.total, s.samples, Cap, fields, Flat)
    BY <1>1, <1>2, <2>1, TriplesListed
  <2> QED
    BY <2>2 DEF s
<1>12. /\ alike = RowsShared(b, n, LAMBDA x, y : x = y)
       /\ unlike = RowsShared(b, n, LAMBDA x, y : x # y)
  BY DEF RowsAlike, RowsUnlike, RowsShared, Alike, Unlike
<1>13. broken = {<<s, "base">> : s \in {r \in Shared(b, n) : ~b[r].parses}}
                  \cup {<<s, "new">> : s \in {r \in Shared(b, n) : ~n[r].parses}}
  BY DEF BrokenFiles
<1> HIDE DEF bo, no, warned, added, gone, heading, fields, shared, same, compared, broken,
             alike, unlike
<1> QED
  BY <1>6, <1>7, <1>9, <1>10, <1>11, <1>12, <1>13
  DEF Snapshotted, bo, no, warned, added, gone, heading, fields, shared, same, compared

-----------------------------------------------------------------------------
(* The pool: while no one cancels, a station that was handed out has its    *)
(* outcome, or a worker has it in hand.                                     *)
PoolStations(job) == Ordered(DOMAIN job.base \cup DOMAIN job.updated)
RightOutcome(job, i) == OutcomeAt(job.daily, PoolStations(job)[i], job.base, job.updated)
FedInto(job, fed, ctx, working, outcomes) ==
    LET last == Len(PoolStations(job)) IN
    /\ last \in Nat /\ fed \in 0 .. last
    /\ outcomes = [i \in 1 .. last |-> outcomes[i]]
    /\ working = [w \in Workers |-> working[w]]
    /\ \A w \in Workers : working[w] \in 0 .. fed
    /\ ctx = "live" => \A i \in 1 .. fed :
         outcomes[i] = RightOutcome(job, i) \/ \E w \in Workers : working[w] = i

(* Nothing is handed out at first.                                          *)
LEMMA FedBegins ==
    ASSUME NEW job \in Jobs["snapshots"]
    PROVE  LET all == DOMAIN job.base \cup DOMAIN job.updated IN
           FedInto(job, 0, "live", [w \in Workers |-> 0],
                   [i \in 1 .. Cardinality(all) |-> NotYet])
<1> DEFINE K == DOMAIN job.base \cup DOMAIN job.updated
           p == PoolStations(job)  last == Len(p)
           working == [w \in Workers |-> 0]
           outcomes == [i \in 1 .. Cardinality(K) |-> NotYet]
<1>1. AreSnapshots(job.base, job.updated)
  BY SnapshotsCompared
<1>2. IsFiniteSet(K) /\ K \subseteq Int
  BY <1>1, FS_Union DEF AreSnapshots
<1>3. last = Cardinality(K) /\ last \in Nat
  <2>1. InOrder(Ordered(K), K)
    <3> HIDE DEF K
    <3> QED
      BY <1>2, OrderedIs
  <2> QED
    BY <2>1 DEF InOrder, PoolStations
<1>4. /\ outcomes = [i \in 1 .. last |-> outcomes[i]]
      /\ working = [w \in Workers |-> working[w]] /\ \A w \in Workers : working[w] = 0
  <2> HIDE DEF K, p, last
  <2> QED
    BY <1>3
<1> HIDE DEF last, p, working, outcomes, K
<1>5. FedInto(job, 0, "live", working, outcomes)
  BY <1>3, <1>4 DEF FedInto, last, p
<1> QED
  BY <1>5 DEF working, outcomes, K

(* The next station goes to a worker that has none.                         *)
LEMMA FedOneMore ==
    ASSUME NEW job, NEW fed, NEW ctx, NEW working, NEW outcomes,
           FedInto(job, fed, ctx, working, outcomes),
           fed < Len(PoolStations(job)), NEW w \in Workers, working[w] = 0
    PROVE  FedInto(job, fed + 1, ctx, [working EXCEPT ![w] = fed + 1], outcomes)
<1> DEFINE last == Len(PoolStations(job))  now == [working EXCEPT ![w] = fed + 1]
<1>1. /\ last \in Nat /\ fed \in 0 .. last /\ fed < last
      /\ outcomes = [i \in 1 .. last |-> outcomes[i]]
      /\ working = [v \in Workers |-> working[v]]
      /\ \A v \in Workers : working[v] \in 0 .. fed
      /\ ctx = "live" => \A i \in 1 .. fed :
           outcomes[i] = RightOutcome(job, i) \/ \E v \in Workers : working[v] = i
  BY DEF FedInto
<1> HIDE DEF last, now
<1>2. /\ now = [v \in Workers |-> now[v]] /\ now[w] = fed + 1
      /\ \A v \in Workers : v # w => now[v] = working[v]
  BY <1>1 DEF now
<1>3. \A v \in Workers : now[v] \in 0 .. fed + 1
  <2> SUFFICES ASSUME NEW v \in Workers PROVE now[v] \in 0 .. fed + 1
    OBVIOUS
  <2>1. working[v] \in 0 .. fed /\ (v # w => now[v] = working[v]) /\ (v = w => now[v] = fed + 1)
    BY <1>1, <1>2
  <2> QED
    BY <1>1, <2>1
<1>4. ASSUME ctx = "live", NEW i \in 1 .. fed + 1
      PROVE  outcomes[i] = RightOutcome(job, i) \/ \E v \in Workers : now[v] = i
  <2>1. CASE i = fed + 1
    BY <1>2, <2>1
  <2>2. CASE i # fed + 1
    <3>1. i \in 1 .. fed /\ i # 0
      BY <1>1, <2>2
    <3>2. CASE outcomes[i] = RightOutcome(job, i)
      BY <3>2
    <3>3. CASE \E v \in Workers : working[v] = i
      <4>1. PICK v \in Workers : working[v] = i
        BY <3>3
      <4>2. v # w
        BY <3>1, <4>1
      <4>3. now[v] = i
        BY <1>2, <4>1, <4>2
      <4> QED
        BY <4>3
    <3> QED
      BY <1>1, <1>4, <3>1, <3>2, <3>3
  <2> QED
    BY <2>1, <2>2
<1>5. fed + 1 \in 0 .. last
  BY <1>1
<1>6. FedInto(job, fed + 1, ctx, now, outcomes)
  BY <1>1, <1>2, <1>3, <1>4, <1>5 DEF FedInto, last
<1> QED
  BY <1>6 DEF now

(* A worker stores its outcome and has none in hand.                        *)
LEMMA OutcomeStored ==
    ASSUME NEW job, NEW fed, NEW ctx, NEW working, NEW outcomes,
           FedInto(job, fed, ctx, working, outcomes), NEW w \in Workers, working[w] # 0
    PROVE  FedInto(job, fed, ctx, [working EXCEPT ![w] = 0],
                   [outcomes EXCEPT ![working[w]] = RightOutcome(job, working[w])])
<1> DEFINE last == Len(PoolStations(job))  now == [working EXCEPT ![w] = 0]
           place == working[w]  right == RightOutcome(job, place)
           stored == [outcomes EXCEPT ![place] = right]
<1>1. /\ last \in Nat /\ fed \in 0 .. last
      /\ outcomes = [i \in 1 .. last |-> outcomes[i]]
      /\ working = [v \in Workers |-> working[v]]
      /\ \A v \in Workers : working[v] \in 0 .. fed
      /\ ctx = "live" => \A i \in 1 .. fed :
           outcomes[i] = RightOutcome(job, i) \/ \E v \in Workers : working[v] = i
  BY DEF FedInto
<1> HIDE DEF last
<1>2. place \in 1 .. fed /\ place \in 1 .. last
  <2>1. place \in 0 .. fed /\ place # 0
    BY <1>1
  <2> HIDE DEF place
  <2> QED
    BY <1>1, <2>1
<1>3. /\ now = [v \in Workers |-> now[v]] /\ now[w] = 0
      /\ \A v \in Workers : v # w => now[v] = working[v]
  BY <1>1
<1>4. /\ stored = [i \in 1 .. last |-> stored[i]] /\ stored[place] = right
      /\ \A i \in 1 .. last : i # place => stored[i] = outcomes[i]
  <2> HIDE DEF place, right
  <2> QED
    BY <1>1, <1>2
<1> HIDE DEF now, stored, right
<1>5. \A v \in Workers : now[v] \in 0 .. fed
  <2> SUFFICES ASSUME NEW v \in Workers PROVE now[v] \in 0 .. fed
    OBVIOUS
  <2>1. working[v] \in 0 .. fed /\ (v # w => now[v] = working[v]) /\ (v = w => now[v] = 0)
    BY <1>1, <1>3
  <2> QED
    BY <1>1, <2>1
<1>6. ASSUME ctx = "live", NEW i \in 1 .. fed
      PROVE  stored[i] = RightOutcome(job, i) \/ \E v \in Workers : now[v] = i
  <2>1. CASE i = place
    BY <1>4, <2>1 DEF right
  <2>2. CASE i # place
    <3>1. i \in 1 .. last
      BY <1>1
    <3>2. stored[i] = outcomes[i]
      BY <1>4, <2>2, <3>1
    <3>3. CASE outcomes[i] = RightOutcome(job, i)
      BY <3>2, <3>3
    <3>4. CASE \E v \in Workers : working[v] = i
      <4>1. PICK v \in Workers : working[v] = i
        BY <3>4
      <4>2. v # w
        BY <2>2, <4>1
      <4> QED
        BY <1>3, <4>1, <4>2
    <3> QED
      BY <1>1, <1>6, <3>3, <3>4
  <2> QED
    BY <2>1, <2>2
<1>7. FedInto(job, fed, ctx, now, stored)
  BY <1>1, <1>3, <1>4, <1>5, <1>6 DEF FedInto, last
<1> QED
  BY <1>7 DEF now, stored, right

(* Once the context is dead nothing is promised of the outcomes.            *)
LEMMA OutcomeDropped ==
    ASSUME NEW job, NEW fed, NEW ctx, NEW working, NEW outcomes,
           FedInto(job, fed, ctx, working, outcomes)
    PROVE  /\ FedInto(job, fed, "cancelled", working, outcomes)
           /\ \A w \in Workers :
                FedInto(job, fed, "cancelled", [working EXCEPT ![w] = 0], outcomes)
<1> DEFINE last == Len(PoolStations(job))
<1>1. /\ last \in Nat /\ fed \in 0 .. last
      /\ outcomes = [i \in 1 .. last |-> outcomes[i]]
      /\ working = [v \in Workers |-> working[v]]
      /\ \A v \in Workers : working[v] \in 0 .. fed
  BY DEF FedInto
<1>2. FedInto(job, fed, "cancelled", working, outcomes)
  BY <1>1 DEF FedInto
<1>3. ASSUME NEW w \in Workers
      PROVE  FedInto(job, fed, "cancelled", [working EXCEPT ![w] = 0], outcomes)
  <2> DEFINE now == [working EXCEPT ![w] = 0]
  <2> HIDE DEF last
  <2>1. /\ now = [v \in Workers |-> now[v]]
        /\ \A v \in Workers : v # w => now[v] = working[v]
        /\ now[w] = 0
    BY <1>1
  <2> HIDE DEF now
  <2>2. \A v \in Workers : now[v] \in 0 .. fed
    <3> SUFFICES ASSUME NEW v \in Workers PROVE now[v] \in 0 .. fed
      OBVIOUS
    <3>1. working[v] \in 0 .. fed /\ (v # w => now[v] = working[v]) /\ (v = w => now[v] = 0)
      BY <1>1, <2>1
    <3> QED
      BY <1>1, <3>1
  <2>3. FedInto(job, fed, "cancelled", now, outcomes)
    BY <1>1, <2>1, <2>2 DEF FedInto, last
  <2> QED
    BY <2>3 DEF now
<1> QED
  BY <1>2, <1>3

(* The pool at work, and its outcomes being reduced.                        *)
Pooling(c, job, at, fed, ctx, working, outcomes, tally, next) ==
    c = [at |-> at, gate |-> "snapshots", job |-> job, fed |-> fed, ctx |-> ctx,
         working |-> working, outcomes |-> outcomes, tally |-> tally, next |-> next]
AtWork(job, at, fed, ctx, working, outcomes) ==
    /\ at \in {"pool", "drain"} /\ ctx \in {"live", "cancelled"}
    /\ at = "drain" => ctx = "cancelled"
    /\ FedInto(job, fed, ctx, working, outcomes)
FeedingInv ==
    \E job \in Jobs["snapshots"] : \E at, fed, ctx, working, outcomes :
        /\ Pooling(compare, job, at, fed, ctx, working, outcomes, EmptyKind, 1)
        /\ AtWork(job, at, fed, ctx, working, outcomes)

ReducedTo(job, outcomes, tally, next) ==
    LET p == PoolStations(job) IN
    /\ next \in 1 .. Len(p) + 1
    /\ \A i \in 1 .. Len(p) : outcomes[i] = RightOutcome(job, i)
    /\ KindSoFar(tally, job.base, job.updated, job.daily, {p[i] : i \in 1 .. next - 1})
ReducingInv ==
    \E job \in Jobs["snapshots"] : \E fed, working, outcomes, tally, next :
        /\ Pooling(compare, job, "reduce", fed, "live", working, outcomes, tally, next)
        /\ ReducedTo(job, outcomes, tally, next)

(* Of a pool at work, what the actions read.                                *)
LEMMA PoolReads ==
    ASSUME NEW job, NEW at, NEW fed, NEW ctx, NEW working, NEW outcomes, NEW tally, NEW next,
           Pooling(compare, job, at, fed, ctx, working, outcomes, tally, next)
    PROVE  /\ compare.at = at /\ compare.gate = "snapshots" /\ compare.job = job
           /\ compare.fed = fed /\ compare.ctx = ctx /\ compare.working = working
           /\ compare.outcomes = outcomes /\ compare.tally = tally /\ compare.next = next
           /\ Job = job /\ Stations = PoolStations(job)
           /\ \A i : OutcomeOf(i) = RightOutcome(job, i)
<1>1. /\ compare.at = at /\ compare.gate = "snapshots" /\ compare.job = job
      /\ compare.fed = fed /\ compare.ctx = ctx /\ compare.working = working
      /\ compare.outcomes = outcomes /\ compare.tally = tally /\ compare.next = next
  BY DEF Pooling
<1>2. Job = job
  BY <1>1 DEF Job
<1>3. Stations = PoolStations(job)
  BY <1>2 DEF Stations, PoolStations
<1>4. ASSUME NEW i PROVE OutcomeOf(i) = RightOutcome(job, i)
  <2> DEFINE s == PoolStations(job)[i]
  <2>1. OutcomeOf(i) = IF Both(s) THEN Outcome(job.daily, s, job.base[s], job.updated[s])
                       ELSE Unread
    BY <1>2, <1>3 DEF OutcomeOf
  <2>2. Both(s) <=> s \in DOMAIN job.base /\ s \in DOMAIN job.updated
    BY <1>2 DEF Both
  <2>3. RightOutcome(job, i) = OutcomeAt(job.daily, s, job.base, job.updated)
    BY DEF RightOutcome
  <2> HIDE DEF s
  <2> QED
    BY <2>1, <2>2, <2>3 DEF OutcomeAt
<1> QED
  BY <1>1, <1>2, <1>3, <1>4

(* The pool starts with every station before it.                            *)
LEMMA PoolStartsWell == PoolStarts => FeedingInv'
<1> SUFFICES ASSUME PoolStarts PROVE FeedingInv'
  OBVIOUS
<1>1. PICK job \in Jobs["snapshots"] :
         LET all == DOMAIN job.base \cup DOMAIN job.updated IN
         compare' = [at |-> "pool", gate |-> "snapshots", job |-> job, fed |-> 0,
                     ctx |-> "live", working |-> [w \in Workers |-> 0],
                     outcomes |-> [i \in 1 .. Cardinality(all) |-> NotYet],
                     tally |-> EmptyKind, next |-> 1]
  BY DEF PoolStarts
<1> DEFINE all == DOMAIN job.base \cup DOMAIN job.updated
           working == [w \in Workers |-> 0]
           outcomes == [i \in 1 .. Cardinality(all) |-> NotYet]
<1>2. FedInto(job, 0, "live", working, outcomes)
  BY FedBegins
<1>3. Pooling(compare', job, "pool", 0, "live", working, outcomes, EmptyKind, 1)
  BY <1>1 DEF Pooling
<1> HIDE DEF working, outcomes
<1>4. AtWork(job, "pool", 0, "live", working, outcomes)
  BY <1>2 DEF AtWork
<1> QED
  BY <1>3, <1>4 DEF FeedingInv

(* A step of the feeder or of a worker leaves the pool at work.             *)
PoolStep == (\E w \in Workers : Feed(w) \/ WorkerDone(w)) \/ FeedStops \/ PoolCancelled

(* It is at work after any step but the last.                               *)
LEMMA PoolStepWell == FeedingInv /\ PoolStep => FeedingInv'
<1> SUFFICES ASSUME FeedingInv, PoolStep PROVE FeedingInv'
  OBVIOUS
<1>a. PICK job \in Jobs["snapshots"] : \E at, fed, ctx, working, outcomes :
        /\ Pooling(compare, job, at, fed, ctx, working, outcomes, EmptyKind, 1)
        /\ AtWork(job, at, fed, ctx, working, outcomes)
  BY DEF FeedingInv
<1>b. PICK at, fed, ctx, working, outcomes :
        /\ Pooling(compare, job, at, fed, ctx, working, outcomes, EmptyKind, 1)
        /\ AtWork(job, at, fed, ctx, working, outcomes)
  BY <1>a
<1> DEFINE none == EmptyKind  one == 1
<1>1. Pooling(compare, job, at, fed, ctx, working, outcomes, none, one)
  BY <1>b
<1> HIDE DEF none, one
<1>2. /\ compare.at = at /\ compare.fed = fed /\ compare.ctx = ctx
      /\ compare.working = working /\ compare.outcomes = outcomes
      /\ Stations = PoolStations(job)
      /\ \A i : OutcomeOf(i) = RightOutcome(job, i)
  BY <1>1, PoolReads
<1>3. /\ at \in {"pool", "drain"} /\ ctx \in {"live", "cancelled"}
      /\ at = "drain" => ctx = "cancelled"
      /\ FedInto(job, fed, ctx, working, outcomes)
  BY <1>b DEF AtWork
<1>4. compare = [at |-> at, gate |-> "snapshots", job |-> job, fed |-> fed, ctx |-> ctx,
                 working |-> working, outcomes |-> outcomes, tally |-> none, next |-> one]
  BY <1>1 DEF Pooling
<1>5. ASSUME NEW to, NEW more, NEW seen, NEW now, NEW stored,
             compare' = [at |-> to, gate |-> "snapshots", job |-> job, fed |-> more,
                         ctx |-> seen, working |-> now, outcomes |-> stored,
                         tally |-> none, next |-> one],
             AtWork(job, to, more, seen, now, stored)
      PROVE  FeedingInv'
  <2>1. Pooling(compare', job, to, more, seen, now, stored, EmptyKind, 1)
    BY <1>5 DEF Pooling, none, one
  <2> QED
    BY <1>5, <2>1 DEF FeedingInv
<1>6. ASSUME NEW w \in Workers, Feed(w) PROVE FeedingInv'
  <2> DEFINE now == [working EXCEPT ![w] = fed + 1]
  <2>1. at = "pool" /\ fed < Len(PoolStations(job)) /\ working[w] = 0
    BY <1>2, <1>6 DEF Feed
  <2>2. compare' = [compare EXCEPT !.fed = fed + 1, !.working = now]
    BY <1>2, <1>4, <1>6 DEF Feed
  <2>3. FedInto(job, fed + 1, ctx, now, outcomes)
    BY <1>3, <2>1, FedOneMore
  <2> HIDE DEF now
  <2>4. compare' = [at |-> at, gate |-> "snapshots", job |-> job, fed |-> fed + 1, ctx |-> ctx,
                    working |-> now, outcomes |-> outcomes, tally |-> none, next |-> one]
    BY <1>4, <2>2
  <2>5. AtWork(job, at, fed + 1, ctx, now, outcomes)
    BY <1>3, <2>3 DEF AtWork
  <2> QED
    BY <1>5, <2>4, <2>5
<1>7. ASSUME NEW w \in Workers, WorkerDone(w) PROVE FeedingInv'
  <2> DEFINE now == [working EXCEPT ![w] = 0]  place == working[w]
             right == RightOutcome(job, place)
             stored == [outcomes EXCEPT ![place] = right]
  <2>1. place # 0
    BY <1>2, <1>7 DEF WorkerDone
  <2>2. \/ compare' = [compare EXCEPT !.working = now, !.outcomes = stored]
        \/ ctx = "cancelled" /\ compare' = [compare EXCEPT !.working = now]
    <3>1. CASE compare' = [compare EXCEPT !.working[w] = 0,
                 !.outcomes[compare.working[w]] = OutcomeOf(compare.working[w])]
      <4>1. OutcomeOf(compare.working[w]) = right /\ compare.working[w] = place
        BY <1>2
      <4> HIDE DEF right, place
      <4>2. compare' = [compare EXCEPT !.working[w] = 0, !.outcomes[place] = right]
        BY <3>1, <4>1
      <4>3. compare' = [compare EXCEPT !.working = now, !.outcomes = stored]
        BY <1>2, <1>4, <4>2
      <4> QED
        BY <4>3 DEF right, place
    <3>2. CASE ctx = "cancelled" /\ compare' = [compare EXCEPT !.working[w] = 0]
      BY <1>2, <1>4, <3>2
    <3> QED
      BY <1>2, <1>7, <3>1, <3>2 DEF WorkerDone
  <2>3. FedInto(job, fed, ctx, now, stored)
    BY <1>3, <2>1, OutcomeStored
  <2>4. ctx = "cancelled" => FedInto(job, fed, ctx, now, outcomes)
    BY <1>3, OutcomeDropped
  <2> HIDE DEF now, stored, right, place
  <2>5. CASE compare' = [compare EXCEPT !.working = now, !.outcomes = stored]
    <3>1. compare' = [at |-> at, gate |-> "snapshots", job |-> job, fed |-> fed, ctx |-> ctx,
                      working |-> now, outcomes |-> stored, tally |-> none, next |-> one]
      BY <1>4, <2>5
    <3>2. AtWork(job, at, fed, ctx, now, stored)
      BY <1>3, <2>3 DEF AtWork
    <3> QED
      BY <1>5, <3>1, <3>2
  <2>6. CASE ctx = "cancelled" /\ compare' = [compare EXCEPT !.working = now]
    <3>1. compare' = [at |-> at, gate |-> "snapshots", job |-> job, fed |-> fed, ctx |-> ctx,
                      working |-> now, outcomes |-> outcomes, tally |-> none, next |-> one]
      BY <1>4, <2>6
    <3>2. AtWork(job, at, fed, ctx, now, outcomes)
      BY <1>3, <2>4, <2>6 DEF AtWork
    <3> QED
      BY <1>5, <3>1, <3>2
  <2> QED
    BY <2>2, <2>5, <2>6
<1>8. CASE FeedStops
  <2>1. ctx = "cancelled" /\ compare' = [compare EXCEPT !.at = "drain"]
    BY <1>2, <1>8 DEF FeedStops
  <2>2. compare' = [at |-> "drain", gate |-> "snapshots", job |-> job, fed |-> fed, ctx |-> ctx,
                    working |-> working, outcomes |-> outcomes, tally |-> none, next |-> one]
    BY <1>4, <2>1
  <2>3. AtWork(job, "drain", fed, ctx, working, outcomes)
    BY <1>3, <2>1 DEF AtWork
  <2> QED
    BY <1>5, <2>2, <2>3
<1>9. CASE PoolCancelled
  <2>1. compare' = [compare EXCEPT !.ctx = "cancelled"]
    BY <1>9 DEF PoolCancelled
  <2>2. compare' = [at |-> at, gate |-> "snapshots", job |-> job, fed |-> fed,
                    ctx |-> "cancelled", working |-> working, outcomes |-> outcomes,
                    tally |-> none, next |-> one]
    BY <1>4, <2>1
  <2>3. FedInto(job, fed, "cancelled", working, outcomes)
    BY <1>3, OutcomeDropped
  <2>4. AtWork(job, at, fed, "cancelled", working, outcomes)
    BY <1>3, <2>3 DEF AtWork
  <2> QED
    BY <1>5, <2>2, <2>4
<1> QED
  BY <1>6, <1>7, <1>8, <1>9 DEF PoolStep

(* The stations behind the reduction, and the next one.                     *)
LEMMA StationsInTurn ==
    ASSUME NEW job \in Jobs["snapshots"]
    PROVE  LET p == PoolStations(job)  K == DOMAIN job.base \cup DOMAIN job.updated IN
           /\ Len(p) \in Nat /\ K = {p[i] : i \in 1 .. Len(p)}
           /\ \A next \in 1 .. Len(p) :
                /\ StationComes(p[next], {p[i] : i \in 1 .. next - 1}, job.base, job.updated)
                /\ {p[i] : i \in 1 .. next} = {p[i] : i \in 1 .. next - 1} \cup {p[next]}
<1> DEFINE K == DOMAIN job.base \cup DOMAIN job.updated  p == PoolStations(job)
<1>1. AreSnapshots(job.base, job.updated)
  BY SnapshotsCompared
<1>2. IsFiniteSet(K) /\ K \subseteq Int
  BY <1>1, FS_Union DEF AreSnapshots
<1>3. InOrder(p, K)
  <2>1. InOrder(Ordered(K), K)
    <3> HIDE DEF K
    <3> QED
      BY <1>2, OrderedIs
  <2> QED
    BY <2>1 DEF PoolStations
<1>4. /\ Len(p) \in Nat /\ K = {p[i] : i \in 1 .. Len(p)}
      /\ \A i, j \in 1 .. Len(p) : i < j <=> p[i] < p[j]
      /\ \A i \in 1 .. Len(p) : p[i] \in K /\ p[i] \in Int
  <2>1. /\ Len(p) \in Nat /\ K = {p[i] : i \in 1 .. Len(p)}
        /\ \A i, j \in 1 .. Len(p) : i < j <=> p[i] < p[j]
    BY <1>3 DEF InOrder
  <2> HIDE DEF K, p
  <2>2. \A i \in 1 .. Len(p) : p[i] \in K
    BY <2>1
  <2> QED
    BY <1>2, <2>1, <2>2
<1>5. ASSUME NEW next \in 1 .. Len(p)
      PROVE  /\ StationComes(p[next], {p[i] : i \in 1 .. next - 1}, job.base, job.updated)
             /\ {p[i] : i \in 1 .. next} = {p[i] : i \in 1 .. next - 1} \cup {p[next]}
  <2> DEFINE D == {p[i] : i \in 1 .. next - 1}  s == p[next]
  <2>1. \A i \in 1 .. next - 1 : i \in 1 .. Len(p) /\ i < next
    BY <1>4
  <2>2. \A i \in 1 .. next - 1 : p[i] < s /\ p[i] \in K /\ p[i] \in Int
    BY <1>4, <2>1
  <2>3. s \in K /\ s \in Int
    BY <1>4
  <2>4. D \subseteq K /\ \A l \in D : l < s /\ l \in Int
    <3> HIDE DEF K, p, s
    <3> QED
      BY <2>2
  <2>5. s \notin D
    <3> HIDE DEF D, s
    <3> QED
      BY <2>3, <2>4
  <2>6. StationComes(s, D, job.base, job.updated)
    <3> HIDE DEF D, s
    <3> QED
      BY <1>1, <2>3, <2>4, <2>5 DEF StationComes
  <2>7. \A i : i \in 1 .. next <=> i \in 1 .. next - 1 \/ i = next
    BY <1>4
  <2>8. {p[i] : i \in 1 .. next} = D \cup {s}
    <3> HIDE DEF p
    <3> QED
      BY <2>7
  <2> QED
    BY <2>6, <2>8
<1> QED
  BY <1>4, <1>5

(* A pool that ends is reduced, or it was cancelled and reports nothing.    *)
Abandoned == compare.at = "abandoned" /\ Compared

(* It ends reduced when no one cancelled it, and abandoned otherwise.       *)
LEMMA PoolEndsWell == FeedingInv /\ PoolEnds => ReducingInv' \/ Abandoned'
<1> SUFFICES ASSUME FeedingInv, PoolEnds PROVE ReducingInv' \/ Abandoned'
  OBVIOUS
<1>a. PICK job \in Jobs["snapshots"] : \E at, fed, ctx, working, outcomes :
        /\ Pooling(compare, job, at, fed, ctx, working, outcomes, EmptyKind, 1)
        /\ AtWork(job, at, fed, ctx, working, outcomes)
  BY DEF FeedingInv
<1>b. PICK at, fed, ctx, working, outcomes :
        /\ Pooling(compare, job, at, fed, ctx, working, outcomes, EmptyKind, 1)
        /\ AtWork(job, at, fed, ctx, working, outcomes)
  BY <1>a
<1> DEFINE none == EmptyKind  one == 1
<1>1. Pooling(compare, job, at, fed, ctx, working, outcomes, none, one)
  BY <1>b
<1> HIDE DEF none, one
<1>2. /\ compare.at = at /\ compare.fed = fed /\ compare.ctx = ctx
      /\ compare.working = working /\ Stations = PoolStations(job)
  BY <1>1, PoolReads
<1>3. /\ at \in {"pool", "drain"} /\ ctx \in {"live", "cancelled"}
      /\ at = "drain" => ctx = "cancelled"
      /\ FedInto(job, fed, ctx, working, outcomes)
  BY <1>b DEF AtWork
<1>4. compare = [at |-> at, gate |-> "snapshots", job |-> job, fed |-> fed, ctx |-> ctx,
                 working |-> working, outcomes |-> outcomes, tally |-> none, next |-> one]
  BY <1>1 DEF Pooling
<1>5. /\ at = "drain" \/ (at = "pool" /\ fed = Len(PoolStations(job)))
      /\ \A w \in Workers : working[w] = 0
      /\ compare' = [compare EXCEPT !.at = IF ctx = "live" THEN "reduce" ELSE "abandoned"]
  BY <1>2 DEF PoolEnds
<1>6. CASE ctx = "live"
  <2>1. compare' = [at |-> "reduce", gate |-> "snapshots", job |-> job, fed |-> fed,
                    ctx |-> "live", working |-> working, outcomes |-> outcomes,
                    tally |-> none, next |-> one]
    BY <1>4, <1>5, <1>6
  <2>2. Pooling(compare', job, "reduce", fed, "live", working, outcomes, none, one)
    BY <2>1 DEF Pooling
  <2>3. Len(PoolStations(job)) \in Nat /\ fed = Len(PoolStations(job))
    BY <1>3, <1>5, <1>6 DEF FedInto
  <2>4. \A i \in 1 .. Len(PoolStations(job)) : outcomes[i] = RightOutcome(job, i)
    <3> SUFFICES ASSUME NEW i \in 1 .. Len(PoolStations(job))
                 PROVE  outcomes[i] = RightOutcome(job, i)
      OBVIOUS
    <3>1. outcomes[i] = RightOutcome(job, i) \/ \E w \in Workers : working[w] = i
      BY <1>3, <1>6, <2>3 DEF FedInto
    <3>2. i # 0
      BY <2>3
    <3> QED
      BY <1>5, <3>1, <3>2
  <2>5. KindSoFar(none, job.base, job.updated, job.daily, {PoolStations(job)[i] : i \in 1 .. one - 1})
    <3>1. {PoolStations(job)[i] : i \in 1 .. one - 1} = {}
      BY DEF one
    <3>2. KindSoFar(none, job.base, job.updated, job.daily, {})
      BY KindBegins DEF none
    <3> QED
      BY <3>1, <3>2
  <2>6. one \in 1 .. Len(PoolStations(job)) + 1
    BY <2>3 DEF one
  <2>7. ReducedTo(job, outcomes, none, one)
    BY <2>4, <2>5, <2>6 DEF ReducedTo
  <2> QED
    BY <2>2, <2>7 DEF ReducingInv
<1>7. CASE ctx = "cancelled"
  <2>1. compare' = [at |-> "abandoned", gate |-> "snapshots", job |-> job, fed |-> fed,
                    ctx |-> "cancelled", working |-> working, outcomes |-> outcomes,
                    tally |-> none, next |-> one]
    BY <1>4, <1>5, <1>7
  <2>2. compare'.at = "abandoned" /\ compare'.tally = EmptyKind /\ compare'.ctx = "cancelled"
    BY <2>1 DEF none
  <2> QED
    BY <2>2 DEF Abandoned, Compared
<1> QED
  BY <1>3, <1>6, <1>7

(* The next station's outcome is taken.                                     *)
LEMMA ReduceWell == ReducingInv /\ Reduce => ReducingInv'
<1> SUFFICES ASSUME ReducingInv, Reduce PROVE ReducingInv'
  OBVIOUS
<1>a. PICK job \in Jobs["snapshots"] : \E fed, working, outcomes, tally, next :
        /\ Pooling(compare, job, "reduce", fed, "live", working, outcomes, tally, next)
        /\ ReducedTo(job, outcomes, tally, next)
  BY DEF ReducingInv
<1>1. PICK fed, working, outcomes, tally, next :
        /\ Pooling(compare, job, "reduce", fed, "live", working, outcomes, tally, next)
        /\ ReducedTo(job, outcomes, tally, next)
  BY <1>a
<1> DEFINE p == PoolStations(job)  b == job.base  n == job.updated
           s == p[next]  o == outcomes[next]
           D == {p[i] : i \in 1 .. next - 1}
           u == Reduced(tally, s, o)
<1>2. /\ compare.outcomes = outcomes /\ compare.tally = tally /\ compare.next = next
      /\ Job = job /\ Stations = p
  BY <1>1, PoolReads
<1>3. /\ next \in 1 .. Len(p) + 1
      /\ \A i \in 1 .. Len(p) : outcomes[i] = RightOutcome(job, i)
      /\ KindSoFar(tally, b, n, job.daily, D)
  BY <1>1 DEF ReducedTo
<1>4. /\ Len(p) \in Nat
      /\ \A i \in 1 .. Len(p) :
           /\ StationComes(p[i], {p[j] : j \in 1 .. i - 1}, b, n)
           /\ {p[j] : j \in 1 .. i} = {p[j] : j \in 1 .. i - 1} \cup {p[i]}
  BY StationsInTurn
<1>5. next \in 1 .. Len(p) /\ compare' = [compare EXCEPT !.next = next + 1, !.tally = u]
  <2>1. next <= Len(p) /\ compare' = [compare EXCEPT !.next = @ + 1, !.tally = Reduced(@, s, o)]
    BY <1>2 DEF Reduce
  <2> HIDE DEF p
  <2> QED
    BY <1>2, <1>3, <1>4, <2>1
<1>6. StationComes(s, D, b, n) /\ {p[i] : i \in 1 .. next} = D \cup {s}
  BY <1>4, <1>5
<1>7. o = OutcomeAt(job.daily, s, b, n)
  BY <1>3, <1>5 DEF RightOutcome
<1>8. KindSoFar(u, b, n, job.daily, D \cup {s})
  <2>1. AreSnapshots(b, n) /\ s \in DOMAIN b \cup DOMAIN n
    BY <1>6 DEF StationComes
  <2> DEFINE daily == job.daily
  <2>2. KindSoFar(tally, b, n, daily, D) /\ IsKind(tally)
    BY <1>3 DEF KindSoFar
  <2>3. Job.base = b /\ Job.updated = n
    BY <1>2
  <2> HIDE DEF s, o, D, b, n, u, daily
  <2>4. OutcomeFits(o, b, n, daily, s)
    BY <1>7, <2>1, OutcomeFit DEF daily
  <2>5. KindNext(u, tally, b, n, s, o)
    BY <2>2, <2>3, ReducedIs DEF u
  <2>6. KindSoFar(u, b, n, daily, D \cup {s})
    BY <1>6, <2>2, <2>4, <2>5, KindTakes
  <2> QED
    BY <2>6 DEF daily
<1>9. next \in Int /\ next + 1 - 1 = next /\ next + 1 \in 1 .. Len(p) + 1
  <2> HIDE DEF p
  <2> QED
    BY <1>4, <1>5
<1>10. KindSoFar(u, b, n, job.daily, {p[i] : i \in 1 .. next + 1 - 1})
  BY <1>6, <1>8, <1>9
<1>11. compare = [at |-> "reduce", gate |-> "snapshots", job |-> job, fed |-> fed, ctx |-> "live",
                  working |-> working, outcomes |-> outcomes, tally |-> tally, next |-> next]
  BY <1>1 DEF Pooling
<1> DEFINE after == next + 1
<1>12. after \in 1 .. Len(p) + 1 /\ KindSoFar(u, b, n, job.daily, {p[i] : i \in 1 .. after - 1})
  BY <1>9, <1>10
<1>13. compare' = [compare EXCEPT !.next = after, !.tally = u]
  BY <1>5
<1> HIDE DEF u, after
<1>14. compare' = [at |-> "reduce", gate |-> "snapshots", job |-> job, fed |-> fed,
                   ctx |-> "live", working |-> working, outcomes |-> outcomes,
                   tally |-> u, next |-> after]
  BY <1>11, <1>13
<1>15. Pooling(compare', job, "reduce", fed, "live", working, outcomes, u, after)
  BY <1>14 DEF Pooling
<1>16. ReducedTo(job, outcomes, u, after)
  BY <1>3, <1>12 DEF ReducedTo
<1> QED
  BY <1>15, <1>16 DEF ReducingInv

(* Every outcome taken: what is reported is what the snapshots amount to.   *)
LEMMA ReportedWell == ReducingInv /\ Reported => Compared' /\ compare'.at = "compared"
<1> SUFFICES ASSUME ReducingInv, Reported PROVE Compared' /\ compare'.at = "compared"
  OBVIOUS
<1>a. PICK job \in Jobs["snapshots"] : \E fed, working, outcomes, tally, next :
        /\ Pooling(compare, job, "reduce", fed, "live", working, outcomes, tally, next)
        /\ ReducedTo(job, outcomes, tally, next)
  BY DEF ReducingInv
<1>1. PICK fed, working, outcomes, tally, next :
        /\ Pooling(compare, job, "reduce", fed, "live", working, outcomes, tally, next)
        /\ ReducedTo(job, outcomes, tally, next)
  BY <1>a
<1> DEFINE p == PoolStations(job)  b == job.base  n == job.updated
<1>2. compare.next = next /\ Stations = p
  BY <1>1, PoolReads
<1>3. /\ next \in 1 .. Len(p) + 1
      /\ KindSoFar(tally, b, n, job.daily, {p[i] : i \in 1 .. next - 1})
  BY <1>1 DEF ReducedTo
<1>4. Len(p) \in Nat /\ DOMAIN b \cup DOMAIN n = {p[i] : i \in 1 .. Len(p)}
  BY StationsInTurn
<1>5. next - 1 = Len(p)
  <2>1. next > Len(p)
    BY <1>2 DEF Reported
  <2> HIDE DEF p
  <2> QED
    BY <1>3, <1>4, <2>1
<1>6. KindSoFar(tally, b, n, job.daily, DOMAIN b \cup DOMAIN n)
  BY <1>3, <1>4, <1>5
<1>7. Snapshotted(tally, b, n, job.daily)
  <2>1. AreSnapshots(b, n)
    BY SnapshotsCompared
  <2> HIDE DEF b, n
  <2> QED
    BY <1>6, <2>1, KindEnds
<1>8. /\ compare'.at = "compared" /\ compare'.gate = "snapshots" /\ compare'.job = job
      /\ compare'.tally = tally
  BY <1>1 DEF Pooling, Reported
<1> QED
  BY <1>7, <1>8 DEF Compared

-----------------------------------------------------------------------------
(* Whatever the gate compares, at every moment.                             *)
Finished == compare.at \in {"compared", "abandoned"} /\ Compared
CompareInv == \/ compare = Uncompared \/ MergeInv \/ UnionInv
              \/ FeedingInv \/ ReducingInv \/ Finished

(* Where each of them is.                                                   *)
LEMMA PhasesAre ==
    /\ compare = Uncompared => compare.at = "idle"
    /\ MergeInv => compare.at = "merge"
    /\ UnionInv => compare.at = "union"
    /\ FeedingInv => compare.at \in {"pool", "drain"}
    /\ ReducingInv => compare.at = "reduce"
<1>1. compare = Uncompared => compare.at = "idle"
  BY DEF Uncompared
<1>2. MergeInv => compare.at = "merge"
  BY DEF MergeInv, Merging
<1>3. UnionInv => compare.at = "union"
  BY DEF UnionInv, Walking
<1>4. FeedingInv => compare.at \in {"pool", "drain"}
  BY DEF FeedingInv, Pooling, AtWork
<1>5. ReducingInv => compare.at = "reduce"
  BY DEF ReducingInv, Pooling
<1> QED
  BY <1>1, <1>2, <1>3, <1>4, <1>5

(* A comparison that starts.                                                *)
CompareStarts == MergeStarts \/ UnionStarts \/ PoolStarts

(* Each of the three ways to start.                                         *)
LEMMA CompareStartsWell == CompareStarts => CompareInv'
<1>1. MergeStarts => MergeInv'
  <2> SUFFICES ASSUME MergeStarts PROVE MergeInv'
    OBVIOUS
  <2>1. PICK gate \in {"table", "drift"} : \E job \in Jobs[gate] :
         compare' = [at |-> "merge", gate |-> gate, job |-> job, i |-> 1, j |-> 1,
                     base |-> Selected(job.base), updated |-> Selected(job.updated),
                     tally |-> IF gate = "drift" THEN EmptyDrift ELSE EmptyTable]
    BY DEF MergeStarts
  <2>2. PICK job \in Jobs[gate] :
         compare' = [at |-> "merge", gate |-> gate, job |-> job, i |-> 1, j |-> 1,
                     base |-> Selected(job.base), updated |-> Selected(job.updated),
                     tally |-> IF gate = "drift" THEN EmptyDrift ELSE EmptyTable]
    BY <2>1
  <2> QED
    BY <2>2, MergeStartsWell
<1>2. UnionStarts => UnionInv'
  <2> SUFFICES ASSUME UnionStarts PROVE UnionInv'
    OBVIOUS
  <2>1. PICK gate \in UnionGates : \E job \in Jobs[gate] :
           compare' = [at |-> "union", gate |-> gate, job |-> job,
                       left |-> KeysToWalk(gate, job.base, job.updated),
                       tally |-> CASE gate = "validate" -> EmptyValidate
                                   [] gate = "manifest" -> None
                                   [] OTHER             -> EmptyTable]
    BY DEF UnionStarts, UnionGates
  <2>2. PICK job \in Jobs[gate] :
           compare' = [at |-> "union", gate |-> gate, job |-> job,
                       left |-> KeysToWalk(gate, job.base, job.updated),
                       tally |-> CASE gate = "validate" -> EmptyValidate
                                   [] gate = "manifest" -> None
                                   [] OTHER             -> EmptyTable]
    BY <2>1
  <2> QED
    BY <2>2, UnionStartsWell
<1> QED
  BY <1>1, <1>2, PoolStartsWell DEF CompareInv, CompareStarts

(* Every step of a comparison keeps the invariant.                          *)
LEMMA CompareStepWell == CompareInv /\ CompareNext => CompareInv'
<1> SUFFICES ASSUME CompareInv, CompareNext PROVE CompareInv'
  OBVIOUS
<1>1. CASE CompareStarts
  BY <1>1, CompareStartsWell
<1>2. CASE MergeBaseOnly \/ MergeNewOnly \/ MergeAligned \/ MergeEnds
  <2>1. compare.at = "merge"
    BY <1>2 DEF MergeBaseOnly, MergeNewOnly, MergeAligned, MergeEnds
  <2>2. MergeInv
    BY <2>1, PhasesAre DEF CompareInv, Finished
  <2>3. MergeInv' \/ (Compared' /\ compare'.at = "compared")
    BY <1>2, <2>2, BaseOnlyWell, NewOnlyWell, AlignedWell, MergeEndsWell
  <2> QED
    BY <2>3 DEF CompareInv, Finished
<1>3. CASE UnionStep \/ UnionEnds
  <2>1. compare.at = "union"
    BY <1>3 DEF UnionStep, UniverseKey, ManifestField, WarningTuple, ValidateTuple, UnionEnds
  <2>2. UnionInv
    BY <2>1, PhasesAre DEF CompareInv, Finished
  <2>3. UnionInv' \/ (Compared' /\ compare'.at = "compared")
    BY <1>3, <2>2, UnionStepWell, UnionEndsWell
  <2> QED
    BY <2>3 DEF CompareInv, Finished
<1>4. CASE PoolStep \/ PoolEnds
  <2>1. compare.at \in {"pool", "drain"}
    BY <1>4 DEF PoolStep, Feed, WorkerDone, FeedStops, PoolCancelled, PoolEnds
  <2>2. FeedingInv
    BY <2>1, PhasesAre DEF CompareInv, Finished
  <2>3. FeedingInv' \/ ReducingInv' \/ Abandoned'
    BY <1>4, <2>2, PoolStepWell, PoolEndsWell
  <2> QED
    BY <2>3 DEF CompareInv, Finished, Abandoned
<1>5. CASE Reduce \/ Reported
  <2>1. compare.at = "reduce"
    BY <1>5 DEF Reduce, Reported
  <2>2. ReducingInv
    BY <2>1, PhasesAre DEF CompareInv, Finished
  <2>3. ReducingInv' \/ (Compared' /\ compare'.at = "compared")
    BY <1>5, <2>2, ReduceWell, ReportedWell
  <2> QED
    BY <2>3 DEF CompareInv, Finished
<1> QED
  BY <1>1, <1>2, <1>3, <1>4, <1>5 DEF CompareNext, CompareStarts, UnionStep, PoolStep

(* So does every step of the readings.                                      *)
LEMMA CompareInvKept == CompareInv /\ [Next]_vars => CompareInv'
<1> SUFFICES ASSUME CompareInv, [Next]_vars PROVE CompareInv'
  OBVIOUS
<1>1. CASE UNCHANGED compare
  BY <1>1 DEF CompareInv, Finished, MergeInv, UnionInv, FeedingInv, ReducingInv, Compared
<1>2. CASE CompareNext
  BY <1>2, CompareStepWell
<1> QED
  BY <1>1, <1>2 DEF Next, Terminated, vars

(* The invariant says what is reported.                                     *)
LEMMA CompareInvSays == CompareInv => Compared
<1>1. ASSUME compare.at \notin {"compared", "abandoned"} PROVE Compared
  BY <1>1 DEF Compared
<1> QED
  BY <1>1, PhasesAre DEF CompareInv, Finished

(* A comparison that ends has set every row and every station of both sides *)
(* against the other's, each counted once, whatever order the workers took  *)
(* them in, and shows the first of each finding; one that is cancelled      *)
(* reports nothing: for any two sides, any number of workers and any cap    *)
(* (parity db.go:248, powerdrift.go:207, parity.go:168).                    *)
THEOREM SidesComparedWhole == Spec => []Compared
<1>1. Init => CompareInv
  BY DEF Init, CompareInit, CompareInv
<1> QED
  BY <1>1, CompareInvKept, CompareInvSays, PTL DEF Spec
=============================================================================
