---------------------------- MODULE ReadingProofs ----------------------------
(***************************************************************************)
(* What a cell gets from POWER, for any registry, any holdings, any        *)
(* requests, batches of any size and any number of attempts; and what the  *)
(* parsers make of a file and of a catalog, for any lines and any rows.    *)
(***************************************************************************)
EXTENDS Readings, FiniteSetTheorems, SequenceTheorems,
        WellFoundedInduction, TLAPS

-----------------------------------------------------------------------------
(* Arithmetic.                                                              *)

(* A quotient is what its divisor goes into.                                *)
LEMMA Quotient ==
    ASSUME NEW a \in Nat, NEW c \in Nat \ {0}
    PROVE  /\ a \div c \in Nat
           /\ (a \div c) * c <= a /\ a < (a \div c) * c + c
  OBVIOUS

(* The grid point chosen is at most half a step away.                       *)
LEMMA SnapsNearest ==
    ASSUME NEW x \in Int
    PROVE  /\ 2 * Abs(Snap(x, LatStep) - x) <= LatStep
           /\ 2 * Abs(Snap(x, LonStep) - x) <= LonStep
  BY DEF Abs, Snap, LatStep, LonStep

(* The position of a parameter is in the batch BatchOf says, and there are   *)
(* as many batches as that takes.                                          *)
LEMMA InItsBatch ==
    ASSUME NEW n \in Nat, NEW c \in Nat \ {0}, NEW i \in 1 .. n
    PROVE  LET b == (i - 1) \div c + 1 IN
           /\ b \in 1 .. (n + c - 1) \div c
           /\ i \in (b - 1) * c + 1 .. (IF b * c < n THEN b * c ELSE n)
<1> DEFINE q == (i - 1) \div c
           m == (n + c - 1) \div c
<1>1. q \in Nat /\ q * c <= i - 1 /\ i - 1 < q * c + c
  BY Quotient
<1>2. m \in Nat /\ n + c - 1 < m * c + c
  BY Quotient
<1>3. q * c < m * c
  <2>1. q * c \in Nat /\ m * c \in Nat
    BY <1>1, <1>2
  <2> QED
    BY <1>1, <1>2, <2>1
<1>4. q < m
  <2> SUFFICES ASSUME m <= q PROVE FALSE
    BY <1>1, <1>2
  <2>1. m * c <= q * c
    BY <1>1, <1>2
  <2> QED
    BY <1>1, <1>2, <1>3, <2>1
<1>5. (q + 1) * c = q * c + c /\ q * c \in Nat
  BY <1>1
<1> QED
  BY <1>1, <1>2, <1>4, <1>5

-----------------------------------------------------------------------------
(* The batches of a request.                                                *)
BatchesOf(request) ==
    IF Valid(request) THEN Batches(request.params, BatchCap[Form(request)]) ELSE <<>>

(* The parameters answered for before batch b.                              *)
AskedBefore(request, b) == UNION {ToSet(BatchesOf(request)[a]) : a \in 1 .. b - 1}

(* The forms a request has, with their batch sizes.                         *)
LEMMA Forms ==
    ASSUME NEW request
    PROVE  Form(request) \in {"monthly", "daily"} /\ BatchCap[Form(request)] \in Nat \ {0}
  BY RetrievalAssumption DEF Form

(* There are finitely many batches, and at least one for what is valid.     *)
LEMMA BatchCount ==
    ASSUME NEW request \in Requests, Valid(request)
    PROVE  LET cap == BatchCap[Form(request)]
               n   == (Len(request.params) + cap - 1) \div cap IN
           /\ n \in Nat \ {0} /\ Len(BatchesOf(request)) = n
           /\ DOMAIN BatchesOf(request) = 1 .. n
           /\ Len(request.params) \in Nat
           /\ DOMAIN request.params = 1 .. Len(request.params)
           /\ \A b \in 1 .. n : BatchesOf(request)[b] =
                SubSeq(request.params, (b - 1) * cap + 1,
                       IF b * cap < Len(request.params) THEN b * cap
                                                        ELSE Len(request.params))
<1> DEFINE cap == BatchCap[Form(request)]
           len == Len(request.params)
           n   == (len + cap - 1) \div cap
<1>1. cap \in Nat \ {0}
  BY Forms
<1>2. request.params \in Seq(ToSet(request.params)) /\ request.params # <<>>
  BY RequestsAssumption DEF Valid
<1>3. len \in Nat \ {0} /\ DOMAIN request.params = 1 .. len
  BY <1>2, EmptySeq, LenProperties
<1>4. n \in 1 .. n /\ n \in Nat
  <2>1. \A i \in 1 .. len : (i - 1) \div cap + 1 \in 1 .. n
    BY <1>1, <1>3, InItsBatch
  <2>2. \E b \in 1 .. n : TRUE
    BY <1>3, <2>1
  <2>3. n \in Nat
    BY <1>1, <1>3, Quotient
  <2> QED
    BY <2>2, <2>3
<1>5. BatchesOf(request) = Batches(request.params, cap)
  BY DEF BatchesOf
<1> HIDE DEF cap
<1>6. /\ DOMAIN BatchesOf(request) = 1 .. n
      /\ \A b \in 1 .. n : BatchesOf(request)[b] =
            SubSeq(request.params, (b - 1) * cap + 1, IF b * cap < len THEN b * cap ELSE len)
  BY <1>5 DEF Batches
<1>7. Len(BatchesOf(request)) = n
  BY <1>4, <1>5 DEF Batches
<1> QED
  BY <1>3, <1>4, <1>6, <1>7 DEF cap

(* Every parameter is in the batch of its position, and no other name is in  *)
(* a batch.                                                                *)
LEMMA BatchesCover ==
    ASSUME NEW request \in Requests, Valid(request)
    PROVE  /\ AskedBefore(request, Len(BatchesOf(request)) + 1) = ToSet(request.params)
           /\ \A p \in ToSet(request.params) :
                 BatchOf(request, p) \in DOMAIN BatchesOf(request)
<1> DEFINE cap == BatchCap[Form(request)]
           len == Len(request.params)
           n   == (len + cap - 1) \div cap
           Lo(b) == (b - 1) * cap + 1
           Hi(b) == IF b * cap < len THEN b * cap ELSE len
<1>1. cap \in Nat \ {0}
  BY Forms
<1>2. /\ n \in Nat /\ len \in Nat /\ Len(BatchesOf(request)) = n
      /\ DOMAIN BatchesOf(request) = 1 .. n
      /\ DOMAIN request.params = 1 .. len
      /\ \A b \in 1 .. n : BatchesOf(request)[b] = SubSeq(request.params, Lo(b), Hi(b))
  BY BatchCount
<1> HIDE DEF cap
<1>3. ASSUME NEW b \in 1 .. n
      PROVE  ToSet(BatchesOf(request)[b]) = {request.params[i] : i \in Lo(b) .. Hi(b)}
  <2>1. Lo(b) \in Nat \ {0} /\ Hi(b) \in Int /\ Hi(b) <= len
    <3>1. (b - 1) * cap \in Nat /\ b * cap \in Nat
      BY <1>1, <1>2
    <3> QED
      BY <1>2, <3>1
  <2> HIDE DEF Lo, Hi
  <2> DEFINE lo == Lo(b)
             hi == Hi(b)
             s  == SubSeq(request.params, lo, hi)
  <2>2. \A i \in lo .. hi : request.params[i] \in ToSet(request.params)
    BY SMTT(30), <1>2, <2>1 DEF ToSet
  <2>3. /\ s \in Seq(ToSet(request.params))
        /\ Len(s) = IF lo <= hi THEN hi - lo + 1 ELSE 0
        /\ \A i \in 1 .. hi - lo + 1 : s[i] = request.params[lo + i - 1]
    BY SMTT(30), <2>1, <2>2, SubSeqProperties
  <2>4. DOMAIN s = 1 .. hi - lo + 1
    BY <2>1, <2>3, LenProperties
  <2> HIDE DEF lo, hi
  <2>5. ToSet(s) = {request.params[i] : i \in lo .. hi}
    <3>1. ASSUME NEW j \in 1 .. hi - lo + 1
          PROVE  s[j] \in {request.params[i] : i \in lo .. hi}
      <4>1. lo + j - 1 \in lo .. hi
        BY <2>1 DEF lo, hi
      <4> QED
        BY <2>3, <4>1
    <3>2. ASSUME NEW i \in lo .. hi PROVE request.params[i] \in ToSet(s)
      <4>1. i - lo + 1 \in 1 .. hi - lo + 1 /\ lo + (i - lo + 1) - 1 = i
        BY <2>1 DEF lo, hi
      <4>2. s[i - lo + 1] = request.params[i]
        BY <2>3, <4>1
      <4> QED
        BY <2>4, <4>1, <4>2 DEF ToSet
    <3> QED
      BY <2>4, <3>1, <3>2 DEF ToSet
  <2> QED
    BY <1>2, <2>5 DEF lo, hi
<1>4. ASSUME NEW i \in 1 .. len
      PROVE  LET b == (i - 1) \div cap + 1 IN b \in 1 .. n /\ i \in Lo(b) .. Hi(b)
  BY <1>1, <1>2, InItsBatch
<1>6. ToSet(request.params) = {request.params[i] : i \in 1 .. len}
  BY <1>2 DEF ToSet
<1>7. \A b \in 1 .. n : Lo(b) .. Hi(b) \subseteq 1 .. len
  <2>1. \A b \in 1 .. n : (b - 1) * cap \in Nat /\ b * cap \in Nat
    BY <1>1, <1>2
  <2> QED
    BY <1>2, <2>1
<1> HIDE DEF Lo, Hi, n, len
<1>5. AskedBefore(request, n + 1) = UNION {ToSet(BatchesOf(request)[b]) : b \in 1 .. n}
  <2>1. 1 .. (n + 1) - 1 = 1 .. n
    BY <1>2
  <2> QED
    BY <2>1 DEF AskedBefore
<1>8. AskedBefore(request, n + 1) = ToSet(request.params)
  <2>1. ASSUME NEW p \in AskedBefore(request, n + 1) PROVE p \in ToSet(request.params)
    <3>1. PICK b \in 1 .. n : p \in ToSet(BatchesOf(request)[b])
      BY <1>5, <2>1
    <3>2. PICK i \in Lo(b) .. Hi(b) : p = request.params[i]
      BY <1>3, <3>1
    <3> QED
      BY <1>6, <1>7, <3>2
  <2>2. ASSUME NEW i \in 1 .. len PROVE request.params[i] \in AskedBefore(request, n + 1)
    <3>1. PICK b \in 1 .. n : i \in Lo(b) .. Hi(b)
      BY <1>4
    <3>2. request.params[i] \in ToSet(BatchesOf(request)[b])
      BY <1>3, <3>1
    <3> QED
      BY <1>5, <3>2
  <2> QED
    BY <1>6, <2>1, <2>2
<1>9. ASSUME NEW p \in ToSet(request.params)
      PROVE  BatchOf(request, p) \in DOMAIN BatchesOf(request)
  <2>1. \E i \in DOMAIN request.params : request.params[i] = p
    BY DEF ToSet
  <2>2. Position(request, p) \in 1 .. len
    BY <1>2, <2>1 DEF Position
  <2> QED
    BY <1>2, <1>4, <2>2 DEF BatchOf, cap
<1> QED
  BY <1>2, <1>8, <1>9
-----------------------------------------------------------------------------
(* The client's invariant.                                                  *)
GetFields == {"at", "request", "cell", "batches", "batch", "attempt", "ctx", "fill",
              "merged", "rows", "asked"}
Asks == [batch : Nat, outcome : Transient \cup {"4xx", "ok"},
         fill : {0, Fill, OtherFill}]

GetType ==
    /\ get = [field \in GetFields |-> get[field]]
    /\ get.at \in {"ask", "backoff", "write", "written", "failed"}
    /\ get.ctx \in {"live", "cancelled"}
    /\ get.request \in Requests
    /\ get.cell = CellFor(get.request.place)
    /\ get.batches = BatchesOf(get.request)
    /\ get.at # "failed" => Valid(get.request)
    /\ ~Valid(get.request) => get.asked = <<>>
    /\ get.attempt \in 1 .. MaxAttempts
    /\ get.batch \in Nat \ {0}
    /\ get.at \in {"ask", "backoff"} => get.batch <= Len(get.batches)
    /\ get.at \in {"write", "written"} => get.batch = Len(get.batches) + 1
    /\ get.asked \in Seq(Asks)

(* What was asked stops at the batch at hand; what was answered before it    *)
(* has the fill all share.                                                 *)
Logged ==
    \A i \in DOMAIN get.asked :
        LET ask == get.asked[i] IN
        /\ ask.batch \in 1 .. get.batch
        /\ ask.outcome = "ok" /\ get.at # "failed" =>
               ask.batch < get.batch /\ ask.fill = get.fill
AnsweredBefore == \A b \in 1 .. get.batch - 1 : GoodAnswers(b) # {}

(* The last question is the one the batch and the attempt at hand follow.   *)
Follows ==
    LET last == get.asked[Len(get.asked)] IN
    /\ get.at = "ask" /\ get.asked = <<>> => get.batch = 1
    /\ get.at = "ask" /\ get.asked # <<>> =>
          /\ last.outcome \in Transient \cup {"ok"}
          /\ get.batch = last.batch + (IF last.outcome = "ok" THEN 1 ELSE 0)
    /\ get.at = "backoff" =>
          get.asked # <<>> /\ last.outcome \in Transient /\ last.batch = get.batch
Attempted ==
    /\ get.at = "ask" => Cardinality(AnswersTo(get.batch)) = get.attempt - 1
    /\ get.at = "backoff" => /\ Cardinality(AnswersTo(get.batch)) = get.attempt
                             /\ get.attempt < MaxAttempts

(* The series merged are those of the batches answered.                     *)
SeriesOf(request, names) ==
    [p \in names \cap DOMAIN Served[Form(request)] |-> Served[Form(request)][p]]
Merged ==
    get.at # "failed" =>
        get.merged = SeriesOf(get.request, AskedBefore(get.request, get.batch))

GetInv == get # Unasked =>
    /\ GetType /\ Logged /\ AnsweredBefore /\ Follows /\ Attempted /\ Merged
    /\ FetchedWhole

-----------------------------------------------------------------------------
(* Numbers.  A set of natural numbers that is not empty has a least one, and *)
(* a greatest one if it has a bound.                                       *)
LEMMA LeastOf ==
    ASSUME NEW T, T \subseteq Nat, T # {}
    PROVE  /\ \E x \in T : \A y \in T : x <= y
           /\ Min(T) \in T /\ \A y \in T : Min(T) <= y
<1> DEFINE R == {pair \in Nat \X Nat : pair[1] < pair[2]}
<1>1. IsWellFoundedOn(R, Nat)
  BY NatLessThanWellFounded DEF OpToRel
<1>2. PICK x \in T : \A y \in T : ~(<<y, x>> \in R)
  <2> HIDE DEF R
  <2> QED
    BY <1>1, WFMin
<1>3. \A y \in T : ~(y < x)
  BY <1>2
<1>4. x \in Nat /\ \A y \in T : y \in Nat
  OBVIOUS
<1>5. \A y \in T : x <= y
  BY <1>3, <1>4
<1> QED
  BY <1>5 DEF Min

(* The greatest is the one at the least distance from the bound.            *)
LEMMA GreatestOf ==
    ASSUME NEW n \in Nat, NEW T, T \subseteq 0 .. n, T # {}
    PROVE  Max(T) \in T /\ \A y \in T : y <= Max(T)
<1> DEFINE S == {n - x : x \in T}
<1>1. S \subseteq Nat /\ S # {}
  <2>1. \A x \in T : n - x \in Nat
    OBVIOUS
  <2> QED
    BY <2>1
<1>2. PICK m \in S : \A k \in S : m <= k
  <2> HIDE DEF S
  <2> QED
    BY <1>1, LeastOf
<1>3. PICK x \in T : m = n - x
  OBVIOUS
<1>4. \A y \in T : n - x <= n - y
  BY <1>2, <1>3
<1>5. \A y \in T : x >= y
  BY <1>4
<1> QED
  BY <1>5 DEF Max

-----------------------------------------------------------------------------
(* What a question adds to the log.                                         *)
LEMMA LogGrows ==
    ASSUME get.asked \in Seq(Asks), NEW ask \in Asks,
           get'.asked = Append(get.asked, ask)
    PROVE  LET n == Len(get.asked) IN
           /\ n \in Nat /\ DOMAIN get.asked = 1 .. n
           /\ get'.asked \in Seq(Asks)
           /\ Len(get'.asked) = n + 1 /\ DOMAIN get'.asked = 1 .. n + 1
           /\ \A i \in 1 .. n : get'.asked[i] = get.asked[i]
           /\ get'.asked[n + 1] = ask
<1>1. /\ Len(get.asked) \in Nat /\ DOMAIN get.asked = 1 .. Len(get.asked)
  BY LenProperties
<1>2. /\ get'.asked \in Seq(Asks)
      /\ Len(get'.asked) = Len(get.asked) + 1
      /\ \A i \in 1 .. Len(get.asked) : get'.asked[i] = get.asked[i]
      /\ get'.asked[Len(get.asked) + 1] = ask
  BY AppendProperties
<1> QED
  BY <1>1, <1>2, LenProperties

(* It is one more answer for its batch, and none for another.               *)
LEMMA AnswersGrow ==
    ASSUME get.asked \in Seq(Asks), NEW ask \in Asks,
           get'.asked = Append(get.asked, ask)
    PROVE  \A b :
           /\ AnswersTo(b)' = AnswersTo(b) \cup
                                 {i \in {Len(get.asked) + 1} : b = ask.batch}
           /\ GoodAnswers(b)' = GoodAnswers(b) \cup
                  {i \in {Len(get.asked) + 1} : b = ask.batch /\ ask.outcome = "ok"}
           /\ Cardinality(AnswersTo(b)) \in Nat
           /\ Cardinality(AnswersTo(b))' =
                 Cardinality(AnswersTo(b)) + (IF b = ask.batch THEN 1 ELSE 0)
<1> DEFINE n == Len(get.asked)
<1>1. /\ n \in Nat /\ DOMAIN get.asked = 1 .. n /\ DOMAIN get'.asked = 1 .. n + 1
      /\ \A i \in 1 .. n : get'.asked[i] = get.asked[i]
      /\ get'.asked[n + 1] = ask
  BY LogGrows
<1> SUFFICES ASSUME NEW b
    PROVE  /\ AnswersTo(b)' = AnswersTo(b) \cup {i \in {n + 1} : b = ask.batch}
           /\ GoodAnswers(b)' = GoodAnswers(b) \cup
                  {i \in {n + 1} : b = ask.batch /\ ask.outcome = "ok"}
           /\ Cardinality(AnswersTo(b)) \in Nat
           /\ Cardinality(AnswersTo(b))' =
                 Cardinality(AnswersTo(b)) + (IF b = ask.batch THEN 1 ELSE 0)
  OBVIOUS
<1> HIDE DEF n
<1>2. 1 .. n + 1 = (1 .. n) \cup {n + 1} /\ n + 1 \notin 1 .. n
  BY <1>1
<1>3. AnswersTo(b)' = AnswersTo(b) \cup {i \in {n + 1} : b = ask.batch}
  BY <1>1, <1>2 DEF AnswersTo
<1>4. GoodAnswers(b)' = GoodAnswers(b) \cup
          {i \in {n + 1} : b = ask.batch /\ ask.outcome = "ok"}
  <2>1. ASSUME NEW i
        PROVE  i \in GoodAnswers(b)' <=>
                  i \in AnswersTo(b)' /\ get'.asked[i].outcome = "ok"
    BY DEF GoodAnswers
  <2>2. ASSUME NEW i
        PROVE  i \in GoodAnswers(b) <=>
                  i \in AnswersTo(b) /\ get.asked[i].outcome = "ok"
    BY DEF GoodAnswers
  <2>3. AnswersTo(b) \subseteq 1 .. n
    BY <1>1 DEF AnswersTo
  <2> QED
    BY <1>1, <1>2, <1>3, <2>1, <2>2, <2>3
<1>5. IsFiniteSet(AnswersTo(b)) /\ n + 1 \notin AnswersTo(b)
  <2>1. AnswersTo(b) \subseteq 1 .. n
    BY <1>1 DEF AnswersTo
  <2>2. IsFiniteSet(1 .. n)
    BY <1>1, FS_Interval
  <2>3. IsFiniteSet(AnswersTo(b))
    BY <2>1, <2>2, FS_Subset
  <2> QED
    BY <1>2, <2>1, <2>3
<1>6. Cardinality(AnswersTo(b)) \in Nat
  BY <1>5, FS_CardinalityType
<1>7. Cardinality(AnswersTo(b)') =
          Cardinality(AnswersTo(b)) + (IF b = ask.batch THEN 1 ELSE 0)
  <2>1. CASE b = ask.batch
    <3>1. AnswersTo(b)' = AnswersTo(b) \cup {n + 1}
      BY <1>3, <2>1
    <3> QED
      BY <1>5, <2>1, <3>1, FS_AddElement
  <2>2. CASE b # ask.batch
    <3>1. AnswersTo(b)' = AnswersTo(b)
      BY <1>3, <2>2
    <3> QED
      BY <1>6, <2>2, <3>1
  <2> QED
    BY <2>1, <2>2
<1>8. (Cardinality(AnswersTo(b)))' = Cardinality(AnswersTo(b)')
  OBVIOUS
<1> QED
  BY <1>3, <1>4, <1>6, <1>7, <1>8

(* A log that is left alone says the same.                                  *)
LEMMA LogKept ==
    ASSUME get'.asked = get.asked
    PROVE  /\ \A b : AnswersTo(b)' = AnswersTo(b) /\ GoodAnswers(b)' = GoodAnswers(b)
           /\ AskedInOrder' <=> AskedInOrder
<1>1. \A b : AnswersTo(b)' = AnswersTo(b)
  BY DEF AnswersTo
<1>2. \A b : GoodAnswers(b)' = GoodAnswers(b)
  BY <1>1 DEF GoodAnswers
<1> QED
  BY <1>1, <1>2 DEF AskedInOrder

(* A question that follows what was asked keeps the order.                  *)
LEMMA OrderKept ==
    ASSUME GetType, Follows, Attempted, AskedInOrder, get.at = "ask",
           NEW ask \in Asks, ask.batch = get.batch,
           get'.asked = Append(get.asked, ask)
    PROVE  AskedInOrder'
<1> DEFINE n == Len(get.asked)
<1>1. get.asked \in Seq(Asks) /\ get.attempt \in 1 .. MaxAttempts /\ MaxAttempts \in Nat
  BY RetrievalAssumption DEF GetType
<1>2. /\ n \in Nat /\ DOMAIN get.asked = 1 .. n /\ DOMAIN get'.asked = 1 .. n + 1
      /\ Len(get'.asked) = n + 1
      /\ \A i \in 1 .. n : get'.asked[i] = get.asked[i]
      /\ get'.asked[n + 1] = ask
  BY <1>1, LogGrows
<1>3. \A b : /\ Cardinality(AnswersTo(b)) \in Nat
             /\ Cardinality(AnswersTo(b))' =
                  Cardinality(AnswersTo(b)) + (IF b = get.batch THEN 1 ELSE 0)
  BY <1>1, AnswersGrow
<1>4. Cardinality(AnswersTo(get.batch)) = get.attempt - 1
  BY DEF Attempted
<1>5. get.asked # <<>> => n # 0
  BY <1>1, EmptySeq
<1> HIDE DEF n
<1> DEFINE Now(b) == {j \in DOMAIN get'.asked : get'.asked[j].batch = b}
<1>6. ASSUME NEW i \in 1 .. n + 1
      PROVE  Cardinality(Now(get'.asked[i].batch)) <= MaxAttempts
  <2> DEFINE b == get'.asked[i].batch
  <2>1. Cardinality(Now(b)) = Cardinality(AnswersTo(b)) + (IF b = get.batch THEN 1 ELSE 0)
    <3>1. \A c : Cardinality(Now(c)) =
                    Cardinality(AnswersTo(c)) + (IF c = get.batch THEN 1 ELSE 0)
      BY <1>3 DEF AnswersTo
    <3> QED
      BY <3>1
  <2> HIDE DEF Now
  <2>2. ASSUME b # get.batch PROVE Cardinality(AnswersTo(b)) <= MaxAttempts
    <3>1. i \in 1 .. n /\ b = get.asked[i].batch
      BY <1>2, <2>2
    <3> QED
      BY <1>2, <3>1 DEF AskedInOrder
  <2>3. Cardinality(AnswersTo(b)) \in Nat
    BY <1>3
  <2> HIDE DEF b
  <2>4. Cardinality(Now(b)) <= MaxAttempts
    BY <1>1, <1>4, <2>1, <2>2, <2>3
  <2> QED
    BY <2>4 DEF b
<1>7. ASSUME NEW i \in 1 .. n + 1, i < n + 1
      PROVE  /\ get'.asked[i].outcome \in Transient \cup {"ok"}
             /\ get'.asked[i + 1].batch = get'.asked[i].batch
                   + (IF get'.asked[i].outcome = "ok" THEN 1 ELSE 0)
  <2>1. CASE i < n
    <3>1. i \in 1 .. n /\ i + 1 \in 1 .. n
      BY <1>2, <2>1
    <3> QED
      BY <1>2, <2>1, <3>1 DEF AskedInOrder, n
  <2>2. CASE i = n
    <3>1. get.asked # <<>>
      <4>1. 1 .. n # {}
        BY <1>2, <2>2
      <4> QED
        BY <1>2, <4>1
    <3>2. /\ get.asked[n].outcome \in Transient \cup {"ok"}
          /\ get.batch = get.asked[n].batch + (IF get.asked[n].outcome = "ok" THEN 1 ELSE 0)
      BY <3>1 DEF Follows, n
    <3> QED
      BY <1>2, <2>2, <3>2
  <2> QED
    BY <1>2, <1>7, <2>1, <2>2
<1> QED
  BY <1>2, <1>6, <1>7 DEF AskedInOrder, AnswersTo

-----------------------------------------------------------------------------
(* What is written.  The fill of a parameter that was answered for is the    *)
(* client's: its batch has a good answer, and all of those agree.           *)
LEMMA FillIsShared ==
    ASSUME get.asked \in Seq(Asks), get.at # "failed", Logged,
           NEW p, GoodAnswers(BatchOf(get.request, p)) # {}
    PROVE  FillOf(p) = get.fill
<1> DEFINE good == GoodAnswers(BatchOf(get.request, p))
           n    == Len(get.asked)
<1>1. n \in Nat /\ DOMAIN get.asked = 1 .. n
  BY LenProperties
<1>2. good \subseteq 0 .. n
  BY <1>1 DEF GoodAnswers, AnswersTo
<1>3. Max(good) \in good
  <2> HIDE DEF good, n
  <2> QED
    BY <1>1, <1>2, GreatestOf DEF good
<1>4. get.asked[Max(good)].fill = get.fill
  BY <1>3 DEF GoodAnswers, AnswersTo, Logged
<1> QED
  BY <1>4 DEF FillOf

(* A date with dashes is in the window by its numbers.                      *)
LEMMA WindowOfDates ==
    ASSUME NEW request \in Requests, Valid(request), Form(request) = "daily", NEW k
    PROVE  InWindow(request, k) <=>
              ~Before(k, request.from.day) /\ ~Before(request.to.day, k)
<1>1. ~Years(request)
  BY DEF Form
<1>2. DateRange(request)
  BY <1>1, Zenon DEF Valid, DateRange, Years
<1>3. request.from.shape = "dashed" /\ request.to.shape = "dashed"
  BY <1>2, RequestsAssumption DEF Valid, Dated
<1> QED
  BY <1>3 DEF InWindow, BeforeFrom, AfterTo, Precedes, Before

(* The keys that a row counts are its month's years or its date, of those    *)
(* POWER holds, but for the fills; and every key that counts is of a row.   *)
LEMMA RowCounts ==
    ASSUME NEW request \in Requests, Valid(request),
           NEW p \in DOMAIN Served[Form(request)]
    PROVE  LET series  == Served[Form(request)][p]
               counted == Counted(request, series, FillOf(p)) IN
           /\ \A row \in RowKeys(request) :
                 {k \in counted : RowOf(request, k) = row} = Counting(request, p, row)
           /\ \A k \in counted : RowOf(request, k) \in RowKeys(request)
<1> DEFINE series  == Served[Form(request)][p]
           counted == Counted(request, series, FillOf(p))
<1>1. DOMAIN series \subseteq Seq(Int)
  BY Forms, RequestsAssumption
<1>2. CASE Form(request) = "monthly"
  <2>1. ASSUME NEW k \in counted
        PROVE  RowOf(request, k) \in RowKeys(request)
    BY <1>2 DEF RowOf, RowKeys, Counted, parseYYYYMM
  <2>2. ASSUME NEW row \in RowKeys(request), NEW k \in counted, RowOf(request, k) = row
        PROVE  k \in Counting(request, p, row)
    <3>1. /\ k \in DOMAIN series /\ series[k] # FillOf(p) /\ k \in Seq(Int)
          /\ Len(k) = 2 /\ k[1] \in request.first .. request.last /\ k[2] = row
      BY <1>1, <1>2, <2>2 DEF RowOf, Counted, parseYYYYMM
    <3>2. k = <<k[1], row>>
      BY <3>1
    <3>3. k \in KeysOf(request, row)
      BY <1>2, <3>1, <3>2 DEF KeysOf
    <3> QED
      BY <3>1, <3>3 DEF Counting
  <2>3. ASSUME NEW row \in RowKeys(request), NEW k \in Counting(request, p, row)
        PROVE  k \in counted /\ RowOf(request, k) = row
    <3>1. k \in DOMAIN series /\ series[k] # FillOf(p) /\ k \in KeysOf(request, row)
      BY DEF Counting
    <3>2. PICK year \in request.first .. request.last : k = <<year, row>>
      BY <1>2, <3>1 DEF KeysOf
    <3>3. Len(k) = 2 /\ k[1] = year /\ k[2] = row /\ row \in 1 .. 12
      BY <1>2, <3>2 DEF RowKeys
    <3> QED
      BY <1>2, <3>1, <3>2, <3>3 DEF Counted, parseYYYYMM, RowOf
  <2> QED
    BY <2>1, <2>2, <2>3
<1>3. CASE Form(request) = "daily"
  <2>1. \A k : k \in counted <=>
           /\ k \in DOMAIN series /\ series[k] # FillOf(p) /\ parseYYYYMMDD(k)
           /\ ~Before(k, request.from.day) /\ ~Before(request.to.day, k)
    BY <1>3, WindowOfDates DEF Counted
  <2>2. \A k : RowOf(request, k) = k /\ KeysOf(request, k) = {k}
    BY <1>3 DEF RowOf, KeysOf
  <2>3. \A k : k \in RowKeys(request) <=>
           /\ k \in UNION {DOMAIN Served["daily"][q] : q \in DOMAIN Served["daily"]}
           /\ parseYYYYMMDD(k)
           /\ ~Before(k, request.from.day) /\ ~Before(request.to.day, k)
    BY <1>3 DEF RowKeys, parseYYYYMMDD
  <2>4. ASSUME NEW k \in counted PROVE k \in RowKeys(request)
    BY <1>3, <2>1, <2>3
  <2> HIDE DEF counted
  <2>5. ASSUME NEW row \in RowKeys(request)
        PROVE  {k \in counted : RowOf(request, k) = row} = Counting(request, p, row)
    BY <2>1, <2>2, <2>3 DEF Counting
  <2> QED
    BY <2>2, <2>4, <2>5 DEF counted
<1> QED
  BY <1>2, <1>3, Forms

(* The rows written are the rows to write.                                  *)
LEMMA RowsWhole ==
    ASSUME get.at = "write", GetType, Logged, AnsweredBefore, Merged
    PROVE  Rows([p \in DOMAIN get.merged |->
                    RollUp(get.request, get.merged[p], get.fill, p)]) = ToWrite(get.request)
<1> DEFINE request == get.request
           held == Held(request)
           folded == [p \in DOMAIN get.merged |->
                         RollUp(request, get.merged[p], get.fill, p)]
<1>1. /\ request \in Requests /\ Valid(request)
      /\ get.batches = BatchesOf(request)
      /\ get.asked \in Seq(Asks)
      /\ get.batch = Len(BatchesOf(request)) + 1
  BY DEF GetType
<1>2. get.merged = SeriesOf(request, ToSet(request.params))
  BY <1>1, BatchesCover DEF Merged
<1>3. /\ DOMAIN get.merged = ToSet(request.params) \cap DOMAIN Served[Form(request)]
      /\ \A p \in DOMAIN get.merged : get.merged[p] = Served[Form(request)][p]
  BY <1>2 DEF SeriesOf
<1>4. Columns(folded) = held
  BY <1>3 DEF Columns, Held
<1>5. ASSUME NEW p \in held PROVE FillOf(p) = get.fill
  <2>1. BatchOf(request, p) \in DOMAIN BatchesOf(request)
    BY <1>1, BatchesCover DEF Held
  <2>2. BatchOf(request, p) \in 1 .. get.batch - 1
    BY <1>1, <2>1, BatchCount
  <2> QED
    BY <1>1, <2>2, FillIsShared DEF AnsweredBefore
<1>6. ASSUME NEW p \in held
      PROVE  /\ DOMAIN folded[p] = {row \in RowKeys(request) : Counting(request, p, row) # {}}
             /\ \A row \in DOMAIN folded[p] : folded[p][row] = ValueOf(request, p, row)
  <2> DEFINE series  == Served[Form(request)][p]
             counted == Counted(request, series, get.fill)
  <2>1. folded[p] = RollUp(request, series, get.fill, p)
    BY <1>3 DEF Held
  <2>2. /\ \A row \in RowKeys(request) :
              {k \in counted : RowOf(request, k) = row} = Counting(request, p, row)
        /\ \A k \in counted : RowOf(request, k) \in RowKeys(request)
    BY <1>1, <1>5, RowCounts DEF Held
  <2>3. /\ DOMAIN folded[p] = {RowOf(request, k) : k \in counted}
        /\ \A row \in DOMAIN folded[p] :
              folded[p][row] = Mean(p, series, {k \in counted : RowOf(request, k) = row})
    BY <2>1 DEF RollUp
  <2> HIDE DEF counted
  <2>4. DOMAIN folded[p] = {row \in RowKeys(request) : Counting(request, p, row) # {}}
    <3>1. ASSUME NEW row \in {RowOf(request, k) : k \in counted}
          PROVE  row \in RowKeys(request) /\ Counting(request, p, row) # {}
      BY <2>2
    <3>2. ASSUME NEW row \in RowKeys(request), Counting(request, p, row) # {}
          PROVE  row \in {RowOf(request, k) : k \in counted}
      BY <2>2, <3>2
    <3> HIDE DEF folded
    <3> QED
      BY <2>3, <3>1, <3>2
  <2>5. ASSUME NEW row \in DOMAIN folded[p]
        PROVE  folded[p][row] = ValueOf(request, p, row)
    <3>1. folded[p][row] = Mean(p, series, Counting(request, p, row))
      BY <2>2, <2>3, <2>4
    <3>2. Mean(p, series, Counting(request, p, row)) = ValueOf(request, p, row)
      BY DEF Mean, ValueOf
    <3> QED
      BY <3>1, <3>2
  <2> QED
    BY <2>4, <2>5
<1> HIDE DEF folded, held, request
<1> DEFINE With(row) == {p \in held : Counting(request, p, row) # {}}
           New(row)  == [row |-> row, values |-> [p \in With(row) |-> ValueOf(request, p, row)]]
<1>7. UNION {DOMAIN folded[p] : p \in held} = {r \in RowKeys(request) : With(r) # {}}
  BY <1>6
<1>8. ASSUME NEW row \in {r \in RowKeys(request) : With(r) # {}}
      PROVE  [row |-> row,
              values |-> [p \in {q \in held : row \in DOMAIN folded[q]} |->
                             folded[p][row]]] = New(row)
  <2>1. {q \in held : row \in DOMAIN folded[q]} = With(row)
    BY <1>6
  <2>2. \A p \in With(row) : folded[p][row] = ValueOf(request, p, row)
    BY <1>6
  <2>3. [p \in With(row) |-> folded[p][row]] = [p \in With(row) |-> ValueOf(request, p, row)]
    BY <2>2
  <2> QED
    BY <2>1, <2>3
<1>9. Rows(folded) = {New(row) : row \in {r \in RowKeys(request) : With(r) # {}}}
  <2> DEFINE Old(row) == [row |-> row,
                          values |-> [p \in {q \in held : row \in DOMAIN folded[q]} |->
                                         folded[p][row]]]
             all == {r \in RowKeys(request) : With(r) # {}}
  <2>1. Rows(folded) = {Old(row) : row \in all}
    BY <1>4, <1>7 DEF Rows
  <2>2. \A row \in all : Old(row) = New(row)
    BY <1>8
  <2> HIDE DEF Old, New, all
  <2>3. Rows(folded) = {New(row) : row \in all}
    BY <2>1, <2>2
  <2> QED
    BY <2>3 DEF all
<1>10. ToWrite(request) = {New(row) : row \in {r \in RowKeys(request) : With(r) # {}}}
  BY DEF ToWrite, held
<1> QED
  BY <1>9, <1>10 DEF folded, request

-----------------------------------------------------------------------------
(* The steps of the client.                                                 *)
LEMMA Nearest ==
    ASSUME GetType
    PROVE  /\ 2 * Abs(get.cell.lat - get.request.place.lat) <= LatStep
           /\ 2 * Abs(get.cell.lon - get.request.place.lon) <= LonStep
<1>1. get.request.place.lat \in Int /\ get.request.place.lon \in Int
  BY RequestsAssumption DEF GetType
<1>2. /\ get.cell.lat = Snap(get.request.place.lat, LatStep)
      /\ get.cell.lon = Snap(get.request.place.lon, LonStep)
  BY DEF GetType, CellFor
<1> QED
  BY <1>1, <1>2, SnapsNearest

(* The numbers of a client that is asking.                                  *)
LEMMA Counters ==
    ASSUME GetType
    PROVE  /\ MaxAttempts \in Nat \ {0} /\ get.attempt \in 1 .. MaxAttempts
           /\ get.batch \in Nat \ {0} /\ get.request \in Requests
           /\ get.at # "failed" =>
                 /\ Valid(get.request) /\ get.batches = BatchesOf(get.request)
                 /\ Len(get.batches) \in Nat \ {0}
                 /\ DOMAIN get.batches = 1 .. Len(get.batches)
  BY RetrievalAssumption, BatchCount DEF GetType

(* The first request: nothing is asked yet.                                 *)
LEMMA StartsWell ==
    ASSUME GetStarts
    PROVE  GetInv'
<1>1. PICK request \in Requests :
       get' = [at |-> IF Valid(request) THEN "ask" ELSE "failed",
               request |-> request, cell |-> CellFor(request.place),
               batches |-> IF Valid(request)
                           THEN Batches(request.params, BatchCap[Form(request)])
                           ELSE <<>>,
               batch |-> 1, attempt |-> 1, ctx |-> "live", fill |-> 0,
               merged |-> <<>>, rows |-> {}, asked |-> <<>>]
  BY DEF GetStarts
<1>2. /\ get'.at = IF Valid(request) THEN "ask" ELSE "failed"
      /\ get'.request = request /\ get'.cell = CellFor(request.place)
      /\ get'.batches = BatchesOf(request)
      /\ get'.batch = 1 /\ get'.attempt = 1 /\ get'.ctx = "live"
      /\ get'.merged = <<>> /\ get'.rows = {} /\ get'.asked = <<>>
  BY <1>1 DEF BatchesOf
<1>3. GetType'
  <2>1. get' = [field \in GetFields |-> get'[field]]
    BY <1>1 DEF GetFields
  <2>2. Valid(request) => 1 <= Len(BatchesOf(request))
    BY BatchCount
  <2>3. <<>> \in Seq(Asks) /\ 1 \in 1 .. MaxAttempts
    BY EmptySeq, RetrievalAssumption
  <2> QED
    BY <1>2, <2>1, <2>2, <2>3 DEF GetType
<1>4. \A i : i \notin DOMAIN get'.asked
  BY <1>2, EmptySeq
<1>5. \A b : AnswersTo(b)' = {}
  BY <1>4 DEF AnswersTo
<1>6. Logged' /\ AskedInOrder'
  BY <1>4 DEF Logged, AskedInOrder
<1>7. AnsweredBefore'
  BY <1>2 DEF AnsweredBefore
<1>8. Follows'
  BY <1>2 DEF Follows
<1>9. Attempted'
  <2>1. Cardinality(AnswersTo(1))' = 0
    BY <1>5, FS_EmptySet
  <2> QED
    BY <1>2, <2>1 DEF Attempted, AnswersTo
<1>10. Merged'
  <2>1. AskedBefore(request, 1) = {}
    BY DEF AskedBefore
  <2>2. SeriesOf(request, {}) = <<>>
    BY DEF SeriesOf
  <2> QED
    BY <1>2, <2>1, <2>2 DEF Merged
<1>11. FetchedWhole'
  <2>1. /\ 2 * Abs(get'.cell.lat - get'.request.place.lat) <= LatStep
        /\ 2 * Abs(get'.cell.lon - get'.request.place.lon) <= LonStep
    BY <1>1, <1>2, SnapsNearest, RequestsAssumption DEF CellFor
  <2> QED
    BY <1>2, <1>6, <2>1 DEF FetchedWhole
<1> QED
  BY <1>3, <1>6, <1>7, <1>8, <1>9, <1>10, <1>11 DEF GetInv

(* The series of a batch join those of the batches before it.               *)
LEMMA RepliesJoin ==
    ASSUME GetType, Merged, get.at = "ask"
    PROVE  MergeOver(Reply, get.merged) =
              SeriesOf(get.request, AskedBefore(get.request, get.batch + 1))
<1> DEFINE served == Served[Form(get.request)]
           before == AskedBefore(get.request, get.batch)
           now    == ToSet(get.batches[get.batch])
<1>1. AskedBefore(get.request, get.batch + 1) = before \cup now
  <2>1. get.batch \in Nat \ {0} /\ get.batches = BatchesOf(get.request)
    BY DEF GetType
  <2>2. 1 .. (get.batch + 1) - 1 = (1 .. get.batch - 1) \cup {get.batch}
    BY <2>1
  <2> QED
    BY <2>1, <2>2 DEF AskedBefore
<1>2. Reply = [p \in now \cap DOMAIN served |-> served[p]]
  BY DEF Reply, Batch
<1>3. get.merged = [p \in before \cap DOMAIN served |-> served[p]]
  BY DEF Merged, SeriesOf
<1> HIDE DEF served, before, now
<1>4. MergeOver(Reply, get.merged) = [p \in (before \cup now) \cap DOMAIN served |-> served[p]]
  <2> DEFINE R == Reply
             M == get.merged
  <2>1. DOMAIN R = now \cap DOMAIN served /\ \A p \in DOMAIN R : R[p] = served[p]
    BY <1>2
  <2>2. DOMAIN M = before \cap DOMAIN served /\ \A p \in DOMAIN M : M[p] = served[p]
    BY <1>3
  <2>3. MergeOver(R, M) = [p \in DOMAIN R \cup DOMAIN M |-> IF p \in DOMAIN R THEN R[p] ELSE M[p]]
    BY DEF MergeOver
  <2> HIDE DEF R, M
  <2>4. DOMAIN R \cup DOMAIN M = (before \cup now) \cap DOMAIN served
    BY <2>1, <2>2
  <2>5. \A p \in (before \cup now) \cap DOMAIN served :
           (IF p \in DOMAIN R THEN R[p] ELSE M[p]) = served[p]
    BY <2>1, <2>2
  <2>6. MergeOver(R, M) = [p \in (before \cup now) \cap DOMAIN served |-> served[p]]
    BY <2>3, <2>4, <2>5
  <2> QED
    BY <2>6 DEF R, M
<1> QED
  BY <1>1, <1>4 DEF SeriesOf, served

(* A batch answered with the fill the others have.                          *)
LEMMA AnswersWell ==
    ASSUME get # Unasked, GetInv, NEW fill \in {Fill, OtherFill},
           BatchAnswered(fill), SameFill(fill)
    PROVE  GetInv'
<1>1. /\ GetType /\ Logged /\ AnsweredBefore /\ Follows /\ Attempted /\ Merged
      /\ AskedInOrder /\ get.rows = {}
      /\ get.at = "ask" /\ get.ctx = "live"
  BY DEF GetInv, FetchedWhole, BatchAnswered
<1> DEFINE ask == [batch |-> get.batch, outcome |-> "ok", fill |-> fill]
           n   == Len(get.asked)
<1>2. get' = [get EXCEPT
                !.at = IF get.batch = Len(get.batches) THEN "write" ELSE @,
                !.batch = @ + 1, !.attempt = 1, !.fill = fill,
                !.merged = MergeOver(Reply, @), !.asked = Append(get.asked, ask)]
  BY DEF BatchAnswered, Answered
<1>3. get = [field \in GetFields |-> get[field]] /\ get.asked \in Seq(Asks)
  BY <1>1 DEF GetType
<1>4. /\ get' = [field \in GetFields |-> get'[field]]
      /\ get'.at = IF get.batch = Len(get.batches) THEN "write" ELSE "ask"
      /\ get'.request = get.request /\ get'.cell = get.cell
      /\ get'.batches = get.batches /\ get'.ctx = get.ctx /\ get'.rows = get.rows
      /\ get'.batch = get.batch + 1 /\ get'.attempt = 1 /\ get'.fill = fill
      /\ get'.merged = MergeOver(Reply, get.merged)
      /\ get'.asked = Append(get.asked, ask)
  BY <1>1, <1>2, <1>3 DEF GetFields
<1>5. /\ MaxAttempts \in Nat \ {0} /\ get.batch \in Nat \ {0}
      /\ Len(get.batches) \in Nat \ {0} /\ get.batch <= Len(get.batches)
  BY <1>1, Counters DEF GetType
<1>6. ask \in Asks /\ ask.batch = get.batch /\ ask.outcome = "ok" /\ ask.fill = fill
  BY <1>5 DEF Asks
<1> HIDE DEF ask
<1>7. /\ n \in Nat /\ DOMAIN get.asked = 1 .. n
      /\ get'.asked \in Seq(Asks)
      /\ Len(get'.asked) = n + 1 /\ DOMAIN get'.asked = 1 .. n + 1
      /\ \A i \in 1 .. n : get'.asked[i] = get.asked[i]
      /\ get'.asked[n + 1] = ask
  BY <1>3, <1>4, <1>6, LogGrows
<1>8. \A b : /\ AnswersTo(b)' = AnswersTo(b) \cup {i \in {n + 1} : b = get.batch}
             /\ GoodAnswers(b)' = GoodAnswers(b) \cup {i \in {n + 1} : b = get.batch}
  BY SMTT(30), <1>3, <1>4, <1>6, AnswersGrow
<1> HIDE DEF n
<1>9. AskedInOrder'
  BY <1>1, <1>4, <1>6, OrderKept
<1>10. GetType'
  BY <1>1, <1>4, <1>5, <1>7 DEF GetType
<1>11. Logged'
  <2> SUFFICES ASSUME NEW i \in 1 .. n + 1
      PROVE  /\ get'.asked[i].batch \in 1 .. get.batch + 1
             /\ get'.asked[i].outcome = "ok" =>
                   get'.asked[i].batch < get.batch + 1 /\ get'.asked[i].fill = fill
    BY <1>4, <1>7 DEF Logged
  <2>1. CASE i = n + 1
    BY <1>5, <1>6, <1>7, <2>1
  <2>2. CASE i \in 1 .. n
    <3>1. /\ get.asked[i].batch \in 1 .. get.batch
          /\ get.asked[i].outcome = "ok" =>
                get.asked[i].batch < get.batch /\ get.asked[i].fill = get.fill
      BY <1>1, <1>7, <2>2 DEF Logged
    <3>2. get.asked[i].outcome = "ok" => get.fill = fill
      BY <1>5, <3>1 DEF SameFill
    <3> QED
      BY SMTT(30), <1>5, <1>7, <2>2, <3>1, <3>2
  <2> QED
    BY <1>7, <2>1, <2>2
<1>12. AnsweredBefore'
  <2>1. \A b \in 1 .. get.batch - 1 : GoodAnswers(b)' # {}
    BY <1>1, <1>8 DEF AnsweredBefore
  <2>2. \A b \in 1 .. get.batch : GoodAnswers(b)' # {}
    <3>1. \A b : b = get.batch => n + 1 \in GoodAnswers(b)'
      BY <1>8
    <3>2. \A b \in 1 .. get.batch : b = get.batch \/ b \in 1 .. get.batch - 1
      BY <1>5
    <3> QED
      BY <2>1, <3>1, <3>2
  <2>3. (get.batch + 1) - 1 = get.batch
    BY <1>5
  <2> QED
    BY <1>4, <2>2, <2>3 DEF AnsweredBefore
<1>13. Follows'
  <2>1. get'.asked # <<>>
    BY <1>7, EmptySeq
  <2> QED
    BY <1>4, <1>6, <1>7, <2>1 DEF Follows
<1>14. Attempted'
  <2>1. \A b : b = get.batch + 1 => AnswersTo(b)' = {}
    <3>1. \A b : b = get.batch + 1 => AnswersTo(b) = {} /\ b # get.batch
      BY <1>1, <1>5 DEF AnswersTo, Logged
    <3> QED
      BY <1>8, <3>1
  <2>2. {j \in DOMAIN get'.asked : get'.asked[j].batch = get'.batch} = {}
    BY <1>4, <2>1 DEF AnswersTo
  <2>3. Cardinality({j \in DOMAIN get'.asked : get'.asked[j].batch = get'.batch}) = 0
    BY <2>2, FS_EmptySet
  <2>4. get'.at # "backoff" /\ get'.attempt - 1 = 0
    BY <1>4
  <2> QED
    BY <2>3, <2>4 DEF Attempted, AnswersTo
<1>15. Merged'
  BY <1>1, <1>4, RepliesJoin DEF Merged
<1>16. FetchedWhole'
  <2>1. /\ 2 * Abs(get'.cell.lat - get'.request.place.lat) <= LatStep
        /\ 2 * Abs(get'.cell.lon - get'.request.place.lon) <= LonStep
    BY <1>1, <1>4, Nearest
  <2> QED
    BY <1>1, <1>4, <1>9, <2>1 DEF FetchedWhole
<1> QED
  BY <1>9, <1>10, <1>11, <1>12, <1>13, <1>14, <1>15, <1>16 DEF GetInv

(* Two that differ are more than one.                                       *)
LEMMA TwoOf ==
    ASSUME NEW S, IsFiniteSet(S), NEW x \in S, NEW y \in S, x # y
    PROVE  ~(Cardinality(S) <= 1)
<1>1. IsFiniteSet({x}) /\ Cardinality({x}) = 1
  BY FS_Singleton
<1>2. Cardinality({x} \cup {y}) = 2 /\ IsFiniteSet({x} \cup {y})
  BY <1>1, FS_AddElement
<1>3. Cardinality({x} \cup {y}) <= Cardinality(S)
  BY FS_Subset
<1> QED
  BY SMTT(30), <1>2, <1>3, FS_CardinalityType

(* A batch answered with another fill than the one before it: two fills.    *)
LEMMA RefusesWell ==
    ASSUME get # Unasked, GetInv, NEW fill \in {Fill, OtherFill},
           BatchAnswered(fill), ~SameFill(fill)
    PROVE  GetInv'
<1>1. /\ GetType /\ Logged /\ AnsweredBefore /\ Follows /\ Attempted
      /\ AskedInOrder /\ get.rows = {}
      /\ get.at = "ask" /\ get.ctx = "live"
  BY DEF GetInv, FetchedWhole, BatchAnswered
<1> DEFINE ask == [batch |-> get.batch, outcome |-> "ok", fill |-> fill]
           n   == Len(get.asked)
<1>2. get' = [get EXCEPT !.at = "failed", !.asked = Append(get.asked, ask)]
  BY DEF BatchAnswered, Answered
<1>3. get = [field \in GetFields |-> get[field]] /\ get.asked \in Seq(Asks)
  BY <1>1 DEF GetType
<1>4. /\ get' = [field \in GetFields |-> get'[field]]
      /\ get'.at = "failed"
      /\ get'.request = get.request /\ get'.cell = get.cell
      /\ get'.batches = get.batches /\ get'.ctx = get.ctx /\ get'.rows = get.rows
      /\ get'.batch = get.batch /\ get'.attempt = get.attempt /\ get'.fill = get.fill
      /\ get'.asked = Append(get.asked, ask)
  BY <1>1, <1>2, <1>3 DEF GetFields
<1>5. /\ get.batch \in Nat \ {0} /\ get.batch # 1
      /\ DOMAIN get.batches = 1 .. Len(get.batches)
      /\ Len(get.batches) \in Nat \ {0} /\ get.batch <= Len(get.batches)
  BY <1>1, Counters DEF GetType, SameFill
<1>6. ask \in Asks /\ ask.batch = get.batch /\ ask.outcome = "ok" /\ ask.fill = fill
  BY <1>5 DEF Asks
<1> HIDE DEF ask
<1>7. /\ n \in Nat /\ DOMAIN get.asked = 1 .. n
      /\ get'.asked \in Seq(Asks) /\ DOMAIN get'.asked = 1 .. n + 1
      /\ \A i \in 1 .. n : get'.asked[i] = get.asked[i]
      /\ get'.asked[n + 1] = ask
  BY <1>3, <1>4, <1>6, LogGrows
<1>8. \A b : GoodAnswers(b)' = GoodAnswers(b) \cup {i \in {n + 1} : b = get.batch}
  BY <1>3, <1>4, <1>6, AnswersGrow
<1> HIDE DEF n
<1>9. AskedInOrder'
  BY <1>1, <1>4, <1>6, OrderKept
<1>10. GetType'
  BY <1>1, <1>4, <1>7, RequestsAssumption DEF GetType
<1>11. Logged'
  <2>1. \A i \in 1 .. n : get.asked[i].batch \in 1 .. get.batch
    BY <1>1, <1>7 DEF Logged
  <2>2. \A i \in 1 .. n + 1 : get'.asked[i].batch \in 1 .. get.batch
    BY <1>5, <1>6, <1>7, <2>1
  <2> QED
    BY <1>4, <1>7, <2>2 DEF Logged
<1>12. AnsweredBefore'
  BY <1>1, <1>4, <1>8 DEF AnsweredBefore
<1>13. Follows' /\ Attempted' /\ Merged'
  BY <1>4 DEF Follows, Attempted, Merged
<1>14. ~OneFill'
  <2> DEFINE good(b) == {i \in {j \in DOMAIN get'.asked : get'.asked[j].batch = b} :
                            get'.asked[i].outcome = "ok"}
             fills == {get'.asked[i].fill :
                          i \in UNION {good(b) : b \in DOMAIN get'.batches}}
  <2>1. OneFill' <=> Cardinality(fills) <= 1
    BY DEF OneFill, GoodAnswers, AnswersTo
  <2>2. PICK i : i \in GoodAnswers(1)
    BY <1>1, <1>5 DEF AnsweredBefore
  <2>3. i \in 1 .. n /\ get.asked[i].batch = 1 /\ get.asked[i].outcome = "ok"
    BY <1>7, <2>2 DEF GoodAnswers, AnswersTo
  <2>4. get.asked[i].fill = get.fill
    BY <1>1, <1>7, <2>3 DEF Logged
  <2>5. i \in good(1) /\ n + 1 \in good(get.batch)
    BY <1>6, <1>7, <2>3
  <2>6. 1 \in DOMAIN get'.batches /\ get.batch \in DOMAIN get'.batches
    BY <1>4, <1>5
  <2>7. get.fill \in fills /\ fill \in fills
    <3>1. get'.asked[i].fill = get.fill /\ get'.asked[n + 1].fill = fill
      BY <1>6, <1>7, <2>3, <2>4
    <3> QED
      BY <2>5, <2>6, <3>1
  <2>8. IsFiniteSet(fills)
    <3>1. fills \subseteq {0} \cup {Fill} \cup {OtherFill}
      <4>1. \A j \in DOMAIN get'.asked : get'.asked[j] \in Asks
        BY <1>7, ElementOfSeq
      <4> QED
        BY <4>1 DEF Asks
    <3>2. IsFiniteSet({0} \cup {Fill} \cup {OtherFill})
      BY FS_Singleton, FS_AddElement
    <3> HIDE DEF fills
    <3> QED
      BY <3>1, <3>2, FS_Subset
  <2>9. get.fill # fill
    BY DEF SameFill
  <2> HIDE DEF fills
  <2> QED
    BY <2>1, <2>7, <2>8, <2>9, TwoOf
<1>15. FetchedWhole'
  <2>1. /\ 2 * Abs(get'.cell.lat - get'.request.place.lat) <= LatStep
        /\ 2 * Abs(get'.cell.lon - get'.request.place.lon) <= LonStep
    BY <1>1, <1>4, Nearest
  <2> QED
    BY <1>1, <1>4, <1>9, <1>14, <2>1 DEF FetchedWhole
<1> QED
  BY <1>10, <1>11, <1>12, <1>13, <1>15 DEF GetInv

(* A batch that fails waits for another attempt, or was the last.           *)
LEMMA FailsWell ==
    ASSUME get # Unasked, GetInv, NEW outcome \in Transient \cup {"4xx"},
           BatchFails(outcome)
    PROVE  GetInv'
<1>1. /\ GetType /\ Logged /\ AnsweredBefore /\ Follows /\ Attempted /\ Merged
      /\ AskedInOrder /\ get.rows = {}
      /\ get.at = "ask" /\ get.ctx = "live"
  BY DEF GetInv, FetchedWhole, BatchFails
<1> DEFINE ask == [batch |-> get.batch, outcome |-> outcome, fill |-> 0]
           n   == Len(get.asked)
           again == outcome \in Transient /\ get.attempt < MaxAttempts
<1>2. get' = [get EXCEPT !.asked = Append(get.asked, ask),
                         !.at = IF again THEN "backoff" ELSE "failed"]
  BY DEF BatchFails, Answered
<1>3. get = [field \in GetFields |-> get[field]] /\ get.asked \in Seq(Asks)
  BY <1>1 DEF GetType
<1>4. /\ get' = [field \in GetFields |-> get'[field]]
      /\ get'.at = IF again THEN "backoff" ELSE "failed"
      /\ get'.request = get.request /\ get'.cell = get.cell
      /\ get'.batches = get.batches /\ get'.ctx = get.ctx /\ get'.rows = get.rows
      /\ get'.batch = get.batch /\ get'.attempt = get.attempt /\ get'.fill = get.fill
      /\ get'.merged = get.merged
      /\ get'.asked = Append(get.asked, ask)
  BY <1>1, <1>2, <1>3 DEF GetFields
<1>5. /\ MaxAttempts \in Nat \ {0} /\ get.attempt \in 1 .. MaxAttempts
      /\ get.batch \in Nat \ {0}
      /\ Len(get.batches) \in Nat \ {0} /\ get.batch <= Len(get.batches)
      /\ Cardinality(AnswersTo(get.batch)) = get.attempt - 1
  BY <1>1, Counters DEF GetType, Attempted
<1>6. /\ ask \in Asks /\ ask.batch = get.batch
      /\ ask.outcome = outcome /\ outcome # "ok"
  BY <1>5 DEF Asks, Transient
<1> HIDE DEF ask
<1>7. /\ n \in Nat /\ DOMAIN get.asked = 1 .. n
      /\ get'.asked \in Seq(Asks)
      /\ Len(get'.asked) = n + 1 /\ DOMAIN get'.asked = 1 .. n + 1
      /\ \A i \in 1 .. n : get'.asked[i] = get.asked[i]
      /\ get'.asked[n + 1] = ask
  BY <1>3, <1>4, <1>6, LogGrows
<1>8. \A b : /\ GoodAnswers(b)' = GoodAnswers(b)
             /\ b = get.batch => Cardinality(AnswersTo(b))' = get.attempt
  <2>1. \A b : /\ GoodAnswers(b)' = GoodAnswers(b) \cup
                       {i \in {n + 1} : b = ask.batch /\ ask.outcome = "ok"}
               /\ Cardinality(AnswersTo(b))' =
                     Cardinality(AnswersTo(b)) + (IF b = ask.batch THEN 1 ELSE 0)
    BY <1>3, <1>4, <1>6, AnswersGrow
  <2>2. {i \in {n + 1} : FALSE} = {}
    OBVIOUS
  <2>3. (get.attempt - 1) + 1 = get.attempt
    BY <1>5
  <2> HIDE DEF n
  <2> QED
    BY <1>5, <1>6, <2>1, <2>2, <2>3
<1> HIDE DEF n
<1>9. Cardinality({i \in DOMAIN get'.asked : get'.asked[i].batch = get.batch}) = get.attempt
  BY <1>8 DEF AnswersTo
<1>10. AskedInOrder'
  BY <1>1, <1>4, <1>6, OrderKept
<1>11. GetType'
  BY <1>1, <1>4, <1>7, RequestsAssumption DEF GetType
<1>12. Logged'
  <2>1. \A i \in 1 .. n :
           /\ get.asked[i].batch \in 1 .. get.batch
           /\ get.asked[i].outcome = "ok" =>
                 get.asked[i].batch < get.batch /\ get.asked[i].fill = get.fill
    BY <1>1, <1>7 DEF Logged
  <2>2. \A i \in 1 .. n + 1 :
           /\ get'.asked[i].batch \in 1 .. get.batch
           /\ get'.asked[i].outcome = "ok" =>
                 get'.asked[i].batch < get.batch /\ get'.asked[i].fill = get.fill
    BY SMTT(30), <1>5, <1>6, <1>7, <2>1
  <2> QED
    BY <1>4, <1>7, <2>2 DEF Logged
<1>13. AnsweredBefore'
  BY <1>1, <1>4, <1>8 DEF AnsweredBefore
<1>14. get'.asked # <<>>
  BY <1>7, EmptySeq
<1>15. Follows'
  BY <1>4, <1>6, <1>7, <1>14 DEF Follows
<1>16. Attempted'
  BY <1>4, <1>9 DEF Attempted, AnswersTo
<1>17. Merged'
  BY <1>1, <1>4 DEF Merged
<1>18. ~again => GaveUp'
  <2>1. Last(get'.asked) = ask
    BY <1>7 DEF Last
  <2>2. outcome \notin Transient => outcome = "4xx"
    OBVIOUS
  <2>3. ~(get.attempt < MaxAttempts) => get.attempt = MaxAttempts
    BY <1>5
  <2> QED
    BY <1>6, <1>9, <1>14, <2>1, <2>2, <2>3 DEF GaveUp, AnswersTo
<1>19. FetchedWhole'
  <2>1. /\ 2 * Abs(get'.cell.lat - get'.request.place.lat) <= LatStep
        /\ 2 * Abs(get'.cell.lon - get'.request.place.lon) <= LonStep
    BY <1>1, <1>4, Nearest
  <2> QED
    BY <1>1, <1>4, <1>10, <1>18, <2>1 DEF FetchedWhole
<1> QED
  BY <1>11, <1>12, <1>13, <1>15, <1>16, <1>17, <1>19 DEF GetInv

(* A step that asks nothing and merges nothing leaves what was asked.       *)
LEMMA QuietStep ==
    ASSUME GetType, Logged, AnsweredBefore, Merged, AskedInOrder, get.at # "failed",
           get'.request = get.request, get'.cell = get.cell, get'.batch = get.batch,
           get'.fill = get.fill, get'.merged = get.merged, get'.asked = get.asked
    PROVE  /\ Logged' /\ AnsweredBefore' /\ Merged' /\ AskedInOrder'
           /\ \A b : AnswersTo(b)' = AnswersTo(b) /\ GoodAnswers(b)' = GoodAnswers(b)
           /\ 2 * Abs(get'.cell.lat - get'.request.place.lat) <= LatStep
           /\ 2 * Abs(get'.cell.lon - get'.request.place.lon) <= LonStep
<1>1. /\ \A b : AnswersTo(b)' = AnswersTo(b) /\ GoodAnswers(b)' = GoodAnswers(b)
      /\ AskedInOrder'
  BY LogKept
<1>2. Logged' /\ Merged'
  BY DEF Logged, Merged
<1>3. AnsweredBefore'
  BY <1>1 DEF AnsweredBefore
<1> QED
  BY <1>1, <1>2, <1>3, Nearest

(* Every batch is answered, and with one fill, when the rows are written.   *)
LEMMA AllAnsweredAtWrite ==
    ASSUME GetType, Logged, AnsweredBefore, get.at = "write"
    PROVE  AllAnswered /\ OneFill
<1>1. /\ get.batch = Len(get.batches) + 1 /\ Len(get.batches) \in Nat
      /\ DOMAIN get.batches = 1 .. Len(get.batches)
  BY Counters DEF GetType
<1>2. AllAnswered
  BY <1>1 DEF AllAnswered, AnsweredBefore
<1> DEFINE fills == {get.asked[i].fill : i \in UNION {GoodAnswers(b) : b \in DOMAIN get.batches}}
<1>3. fills \subseteq {get.fill}
  BY DEF GoodAnswers, AnswersTo, Logged
<1> HIDE DEF fills
<1>4. IsFiniteSet({get.fill}) /\ Cardinality({get.fill}) = 1
  BY FS_Singleton
<1>5. Cardinality(fills) <= 1
  BY <1>3, <1>4, FS_Subset
<1> QED
  BY <1>2, <1>5 DEF OneFill, fills

(* What there is to write depends on the request and on what was asked.     *)
LEMMA ToWriteKept ==
    ASSUME get'.request = get.request, get'.asked = get.asked
    PROVE  ToWrite(get.request)' = ToWrite(get.request)
<1>1. \A p : FillOf(p)' = FillOf(p)
  BY DEF FillOf, GoodAnswers, AnswersTo
<1>2. \A p, row : Counting(get.request, p, row)' = Counting(get.request, p, row)
  BY <1>1 DEF Counting
<1>3. \A p, row : ValueOf(get.request, p, row)' = ValueOf(get.request, p, row)
  <2> SUFFICES ASSUME NEW p, NEW row
      PROVE  ValueOf(get.request, p, row)' = ValueOf(get.request, p, row)
    OBVIOUS
  <2>1. Counting(get.request, p, row)' = Counting(get.request, p, row)
    BY <1>2
  <2> QED
    BY <2>1 DEF ValueOf
<1> DEFINE W(row) == {p \in Held(get.request) : Counting(get.request, p, row) # {}}
           Old(row) == [row |-> row,
                        values |-> [p \in W(row) |-> ValueOf(get.request, p, row)]]
           New(row) == [row |-> row,
                        values |-> [p \in W(row)' |-> ValueOf(get.request, p, row)']]
<1>4. \A row : W(row)' = W(row)
  BY <1>2
<1>5. \A row : New(row) = Old(row)
  BY <1>3, <1>4
<1>6. /\ ToWrite(get.request) =
            {Old(row) : row \in {r \in RowKeys(get.request) : W(r) # {}}}
      /\ ToWrite(get.request)' =
            {New(row) : row \in {r \in RowKeys(get'.request) : W(r)' # {}}}
  BY DEF ToWrite
<1> HIDE DEF W, Old, New
<1> QED
  BY <1>4, <1>5, <1>6

(* The wait is over: the batch is asked for again.                          *)
LEMMA BackoffWell ==
    ASSUME get # Unasked, GetInv, BackoffEnds
    PROVE  GetInv'
<1>1. /\ GetType /\ Logged /\ AnsweredBefore /\ Follows /\ Attempted /\ Merged
      /\ AskedInOrder /\ get.rows = {} /\ get.at = "backoff"
      /\ get = [field \in GetFields |-> get[field]]
  BY DEF GetInv, FetchedWhole, BackoffEnds, GetType
<1>2. /\ get' = [field \in GetFields |-> get'[field]]
      /\ get'.at = "ask" /\ get'.attempt = get.attempt + 1
      /\ get'.request = get.request /\ get'.cell = get.cell
      /\ get'.batches = get.batches /\ get'.ctx = get.ctx /\ get'.rows = get.rows
      /\ get'.batch = get.batch /\ get'.fill = get.fill
      /\ get'.merged = get.merged /\ get'.asked = get.asked
  BY <1>1 DEF BackoffEnds, GetFields
<1>3. /\ Logged' /\ AnsweredBefore' /\ Merged' /\ AskedInOrder'
      /\ \A b : AnswersTo(b)' = AnswersTo(b)
      /\ 2 * Abs(get'.cell.lat - get'.request.place.lat) <= LatStep
      /\ 2 * Abs(get'.cell.lon - get'.request.place.lon) <= LonStep
  BY <1>1, <1>2, QuietStep
<1>4. /\ get.attempt \in 1 .. MaxAttempts /\ MaxAttempts \in Nat /\ get.attempt < MaxAttempts
      /\ Cardinality(AnswersTo(get.batch)) = get.attempt /\ get.batch \in Nat
  BY <1>1, Counters DEF Attempted
<1>5. GetType'
  BY <1>1, <1>2, <1>4 DEF GetType
<1>6. Follows'
  BY <1>1, <1>2, <1>4 DEF Follows, Transient, GetType
<1>7. Attempted'
  <2>1. Cardinality({i \in DOMAIN get'.asked : get'.asked[i].batch = get'.batch})
           = get'.attempt - 1
    BY <1>2, <1>4 DEF AnswersTo
  <2> QED
    BY <1>2, <2>1 DEF Attempted, AnswersTo
<1>8. FetchedWhole'
  BY <1>1, <1>2, <1>3 DEF FetchedWhole
<1> QED
  BY <1>3, <1>5, <1>6, <1>7, <1>8 DEF GetInv

(* A request whose context ends goes on until it looks.                     *)
LEMMA CancelsWell ==
    ASSUME get # Unasked, GetInv, GetCancelled
    PROVE  GetInv'
<1>1. /\ GetType /\ Logged /\ AnsweredBefore /\ Follows /\ Attempted /\ Merged
      /\ AskedInOrder /\ get.rows = {} /\ get.at \in {"ask", "backoff", "write"}
      /\ get = [field \in GetFields |-> get[field]]
  BY DEF GetInv, FetchedWhole, GetCancelled, GetType
<1>2. /\ get' = [field \in GetFields |-> get'[field]]
      /\ get'.at = get.at /\ get'.attempt = get.attempt
      /\ get'.request = get.request /\ get'.cell = get.cell
      /\ get'.batches = get.batches /\ get'.ctx = "cancelled" /\ get'.rows = get.rows
      /\ get'.batch = get.batch /\ get'.fill = get.fill
      /\ get'.merged = get.merged /\ get'.asked = get.asked
  BY <1>1 DEF GetCancelled, GetFields
<1>3. /\ Logged' /\ AnsweredBefore' /\ Merged' /\ AskedInOrder'
      /\ 2 * Abs(get'.cell.lat - get'.request.place.lat) <= LatStep
      /\ 2 * Abs(get'.cell.lon - get'.request.place.lon) <= LonStep
  BY <1>1, <1>2, QuietStep
<1>4. GetType' /\ Follows'
  BY <1>1, <1>2 DEF GetType, Follows
<1>5. Attempted'
  <2>1. AnswersTo(get.batch)' = AnswersTo(get.batch)
    BY <1>2 DEF AnswersTo
  <2> QED
    BY <1>1, <1>2, <2>1 DEF Attempted
<1>6. FetchedWhole'
  BY <1>1, <1>2, <1>3 DEF FetchedWhole
<1> QED
  BY <1>3, <1>4, <1>5, <1>6 DEF GetInv

(* It looks, and stops.                                                     *)
LEMMA StopsWell ==
    ASSUME get # Unasked, GetInv, GetStops
    PROVE  GetInv'
<1>1. /\ GetType /\ Logged /\ AnsweredBefore /\ Merged
      /\ AskedInOrder /\ get.rows = {} /\ get.at \in {"ask", "backoff"}
      /\ get.ctx = "cancelled" /\ get = [field \in GetFields |-> get[field]]
  BY DEF GetInv, FetchedWhole, GetStops, GetType
<1>2. /\ get' = [field \in GetFields |-> get'[field]]
      /\ get'.at = "failed" /\ get'.attempt = get.attempt
      /\ get'.request = get.request /\ get'.cell = get.cell
      /\ get'.batches = get.batches /\ get'.ctx = "cancelled" /\ get'.rows = get.rows
      /\ get'.batch = get.batch /\ get'.fill = get.fill
      /\ get'.merged = get.merged /\ get'.asked = get.asked
  BY <1>1 DEF GetStops, GetFields
<1>3. /\ Logged' /\ AnsweredBefore' /\ Merged' /\ AskedInOrder'
      /\ 2 * Abs(get'.cell.lat - get'.request.place.lat) <= LatStep
      /\ 2 * Abs(get'.cell.lon - get'.request.place.lon) <= LonStep
  BY <1>1, <1>2, QuietStep
<1>4. GetType' /\ Follows' /\ Attempted'
  BY <1>1, <1>2 DEF GetType, Follows, Attempted
<1>5. FetchedWhole'
  BY <1>1, <1>2, <1>3 DEF FetchedWhole
<1> QED
  BY <1>3, <1>4, <1>5 DEF GetInv

(* The rows are written.                                                    *)
LEMMA WritesWell ==
    ASSUME get # Unasked, GetInv, SupplementWritten
    PROVE  GetInv'
<1>1. /\ GetType /\ Logged /\ AnsweredBefore /\ Merged
      /\ AskedInOrder /\ get.at = "write"
      /\ get = [field \in GetFields |-> get[field]]
  BY DEF GetInv, FetchedWhole, SupplementWritten, GetType
<1> DEFINE rows == Rows([p \in DOMAIN get.merged |->
                            RollUp(get.request, get.merged[p], get.fill, p)])
<1>2. get' = [get EXCEPT !.at = "written", !.rows = rows]
  BY DEF SupplementWritten
<1>3. rows = ToWrite(get.request)
  BY <1>1, RowsWhole
<1> HIDE DEF rows
<1>4. /\ get' = [field \in GetFields |-> get'[field]]
      /\ get'.at = "written" /\ get'.attempt = get.attempt
      /\ get'.request = get.request /\ get'.cell = get.cell
      /\ get'.batches = get.batches /\ get'.ctx = get.ctx /\ get'.rows = rows
      /\ get'.batch = get.batch /\ get'.fill = get.fill
      /\ get'.merged = get.merged /\ get'.asked = get.asked
  BY <1>1, <1>2 DEF GetFields
<1>5. /\ Logged' /\ AnsweredBefore' /\ Merged' /\ AskedInOrder'
      /\ \A b : GoodAnswers(b)' = GoodAnswers(b)
      /\ 2 * Abs(get'.cell.lat - get'.request.place.lat) <= LatStep
      /\ 2 * Abs(get'.cell.lon - get'.request.place.lon) <= LonStep
  BY <1>1, <1>4, QuietStep
<1>6. GetType' /\ Follows' /\ Attempted'
  BY <1>1, <1>4 DEF GetType, Follows, Attempted
<1>7. AllAnswered' /\ OneFill'
  BY ZenonT(60), <1>1, <1>4, <1>5, AllAnsweredAtWrite DEF AllAnswered, OneFill
<1>8. ToWrite(get.request)' = ToWrite(get.request)
  BY <1>4, ToWriteKept
<1>9. FetchedWhole'
  BY <1>3, <1>4, <1>5, <1>7, <1>8 DEF FetchedWhole
<1> QED
  BY <1>5, <1>6, <1>9 DEF GetInv

(* The transaction fails: nothing is written of what was all answered.      *)
LEMMA LosesWell ==
    ASSUME get # Unasked, GetInv, SupplementLost
    PROVE  GetInv'
<1>1. /\ GetType /\ Logged /\ AnsweredBefore /\ Merged
      /\ AskedInOrder /\ get.rows = {} /\ get.at = "write"
      /\ get = [field \in GetFields |-> get[field]]
  BY DEF GetInv, FetchedWhole, SupplementLost, GetType
<1>2. /\ get' = [field \in GetFields |-> get'[field]]
      /\ get'.at = "failed" /\ get'.attempt = get.attempt
      /\ get'.request = get.request /\ get'.cell = get.cell
      /\ get'.batches = get.batches /\ get'.ctx = get.ctx /\ get'.rows = get.rows
      /\ get'.batch = get.batch /\ get'.fill = get.fill
      /\ get'.merged = get.merged /\ get'.asked = get.asked
  BY <1>1 DEF SupplementLost, GetFields
<1>3. /\ Logged' /\ AnsweredBefore' /\ Merged' /\ AskedInOrder'
      /\ \A b : GoodAnswers(b)' = GoodAnswers(b)
      /\ 2 * Abs(get'.cell.lat - get'.request.place.lat) <= LatStep
      /\ 2 * Abs(get'.cell.lon - get'.request.place.lon) <= LonStep
  BY <1>1, <1>2, QuietStep
<1>4. GetType' /\ Follows' /\ Attempted'
  BY <1>1, <1>2 DEF GetType, Follows, Attempted
<1>5. AllAnswered'
  BY <1>1, <1>2, <1>3, AllAnsweredAtWrite DEF AllAnswered
<1>6. FetchedWhole'
  BY <1>1, <1>2, <1>3, <1>5 DEF FetchedWhole
<1> QED
  BY <1>3, <1>4, <1>6 DEF GetInv

(* What is not asked is idle.                                               *)
LEMMA StillUnasked ==
    ASSUME get = Unasked
    PROVE  GetInv /\ FetchedWhole
  BY DEF Unasked, GetInv, FetchedWhole

(* Every step keeps the client's invariant.                                 *)
LEMMA GetInvKept ==
    ASSUME GetInv, [Next]_vars
    PROVE  GetInv'
<1>1. CASE UNCHANGED get
  <2>1. /\ ToWrite(get.request)' = ToWrite(get.request)
        /\ AnswersTo(get.batch)' = AnswersTo(get.batch)
        /\ \A b : GoodAnswers(b)' = GoodAnswers(b)
        /\ AskedInOrder' <=> AskedInOrder
    BY <1>1, ToWriteKept, LogKept DEF AnswersTo
  <2>2. (AllAnswered' <=> AllAnswered) /\ (OneFill' <=> OneFill) /\ (GaveUp' <=> GaveUp)
    BY <1>1, <2>1 DEF AllAnswered, OneFill, GaveUp, AnswersTo
  <2>3. FetchedWhole' <=> FetchedWhole
    BY <1>1, <2>1, <2>2 DEF FetchedWhole
  <2>4. /\ GetType' <=> GetType
        /\ (Logged' <=> Logged) /\ (Follows' <=> Follows) /\ (Merged' <=> Merged)
    BY <1>1 DEF GetType, Logged, Follows, Merged
  <2>5. (Attempted' <=> Attempted) /\ (AnsweredBefore' <=> AnsweredBefore)
    BY <1>1, <2>1 DEF Attempted, AnsweredBefore
  <2>6. get' # Unasked <=> get # Unasked
    BY <1>1
  <2> QED
    BY <2>3, <2>4, <2>5, <2>6 DEF GetInv
<1>2. CASE GetNext
  <2>1. CASE get = Unasked
    <3>1. get.at = "idle"
      BY <2>1 DEF Unasked
    <3>2. \A fill : ~BatchAnswered(fill)
      BY <3>1 DEF BatchAnswered
    <3>3. \A outcome : ~BatchFails(outcome)
      BY <3>1 DEF BatchFails
    <3>4. ~BackoffEnds /\ ~GetCancelled /\ ~GetStops
      BY <3>1 DEF BackoffEnds, GetCancelled, GetStops
    <3>5. ~SupplementWritten /\ ~SupplementLost
      BY <3>1 DEF SupplementWritten, SupplementLost
    <3> QED
      BY <1>2, <3>2, <3>3, <3>4, <3>5, StartsWell DEF GetNext
  <2>2. CASE get # Unasked
    <3>1. ~GetStarts
      BY <2>2 DEF GetStarts
    <3>2. ASSUME NEW fill \in {Fill, OtherFill}, BatchAnswered(fill) PROVE GetInv'
      BY <2>2, <3>2, AnswersWell, RefusesWell
    <3>3. ASSUME NEW outcome \in Transient \cup {"4xx"}, BatchFails(outcome) PROVE GetInv'
      BY <2>2, <3>3, FailsWell
    <3> QED
      BY <1>2, <2>2, <3>1, <3>2, <3>3, BackoffWell, CancelsWell, StopsWell, WritesWell,
         LosesWell DEF GetNext
  <2> QED
    BY <2>1, <2>2
<1> QED
  BY <1>1, <1>2 DEF Next, Terminated, vars

(* What a cell gets is whole, whatever fails and however often it is asked   *)
(* for: rows only of the whole answer, with one fill, and they are the      *)
(* means of what POWER holds for the window (client.go:339, rollup.go:37).  *)
THEOREM CellIsWhole == Spec => []FetchedWhole
<1>1. Init => GetInv
  BY StillUnasked DEF Init, GetInit
<1>2. GetInv /\ [Next]_vars => GetInv'
  BY GetInvKept
<1>3. GetInv => FetchedWhole
  BY StillUnasked DEF GetInv
<1> QED
  BY <1>1, <1>2, <1>3, PTL DEF Spec
-----------------------------------------------------------------------------
(* The reader's invariant.                                                  *)
ParseFields == {"file", "at", "next", "skipped", "h", "started", "wrap", "warnings",
                "rows", "section", "acc"}
PageFields == {"at", "page", "next", "stations"}

(* The wrap open below line e is that of the last label, with what rejoined  *)
(* it since.                                                               *)
LabelAbove(lines, e, last) ==
    /\ last \in Start(lines) .. e /\ lines[last].kind = "label"
    /\ \A k \in last + 1 .. e : Belongs(lines, last, k)
WrapOf(lines, e, last) ==
    IF lines[last].key \in NumericKeys
    THEN [key |-> lines[last].key,
          val |-> [token |-> lines[last].val.token,
                   units |-> lines[last].val.units \o UnitsBelow(lines, last, e)]]
    ELSE NoWrap

InHeader(lines, e) ==
    /\ Known(lines) # {} /\ Start(lines) <= e
    /\ \A j \in Start(lines) + 1 .. e : lines[j].kind = "label" \/ BelongsAbove(lines, j)

(* Before the first field that is known, and after it.                      *)
Unstarted ==
    /\ \A i \in 1 .. parse.next - 1 : ~KnownLabel(Lines[i])
    /\ parse.h = NoHeader /\ parse.wrap = NoWrap /\ parse.warnings = {}
Started ==
    LET e == parse.next - 1 IN
    /\ InHeader(Lines, e)
    /\ \E last \in 1 .. e : LabelAbove(Lines, e, last) /\ parse.wrap = WrapOf(Lines, e, last)
    /\ parse.h = HeaderOf(Lines, e) /\ parse.warnings = HeaderWarnings(Lines, e)

DaysHeld == {DayOf(line) : line \in ToSet(Lines)}
FileType ==
    /\ parse.at \in {"header", "body", "read", "refused"}
    /\ parse = [field \in ParseFields |-> parse[field]]
    /\ parse.file \in Inputs
    /\ parse.next \in Nat \ {0} /\ parse.started \in BOOLEAN
    /\ parse.at # "refused" => OfItsPeriod(parse.file)
HeaderInv == parse.at = "header" =>
    /\ parse.next <= Len(Lines) + 1 /\ parse.skipped = 0
    /\ parse.rows = <<>> /\ parse.section = "none" /\ parse.acc = NoSlots
    /\ IF parse.started THEN Started ELSE Unstarted
BodyInv == parse.at \in {"body", "read"} =>
    LET body == Body(Lines)  n == LineNo - 1  e == End(Lines) - 1 IN
    /\ Known(Lines) # {} /\ parse.skipped = End(Lines)
    /\ n \in 0 .. Len(body) /\ (parse.at = "read" => n = Len(body))
    /\ parse.h = HeaderOf(Lines, e)
    /\ IF parse.file.kind = "daily"
       THEN parse.rows \in Seq(DaysHeld) /\ RowsRead(parse.rows, body, n)
       ELSE /\ parse.section = SectionAt(body, n + 1)
            /\ parse.acc = [slot \in Slots |-> SlotOf(body, n, slot)]
    /\ parse.warnings = HeaderWarnings(Lines, e) \cup EndWarnings(Lines) \cup
          (IF parse.file.kind = "daily" THEN DayWarnings(body, n) ELSE SectionWarnings(body, n))
RefusedInv == parse.at = "refused" =>
    Known(Lines) = {} \/ ~OfItsPeriod(parse.file)
FileInv == FileType /\ HeaderInv /\ BodyInv /\ RefusedInv

Listed(page, stations, n) ==
    LET data == {i \in 1 .. n : IsDataRow(page[i])} IN
    /\ Len(stations) = Cardinality(data)
    /\ \A i \in data :
          LET listed == stations[PlaceIn(data, i)] IN
          /\ listed.files = FilesOf(page[i])
          /\ ShortID(listed.id) = ShortID(Padded(page[i]))
PageInv ==
    /\ parse.at \in {"page", "listed"}
    /\ parse = [field \in PageFields |-> parse[field]]
    /\ parse.page \in Pages
    /\ parse.next \in 1 .. Len(parse.page) + 1
    /\ parse.at = "listed" => parse.next = Len(parse.page) + 1
    /\ parse.stations \in Seq({ParseRow(row) : row \in ToSet(parse.page)})
    /\ Listed(parse.page, parse.stations, parse.next - 1)

ParseInv == parse = Unparsed \/ FileInv \/ PageInv

-----------------------------------------------------------------------------
(* Numbers and lines.                                                       *)
LEMMA MaxIs ==
    ASSUME NEW T, T \subseteq Int, NEW x \in T, \A y \in T : y <= x
    PROVE  Max(T) = x
<1>1. Max(T) \in T /\ \A y \in T : Max(T) >= y
  BY DEF Max
<1>2. Max(T) \in Int /\ x \in Int /\ Max(T) >= x /\ Max(T) <= x
  BY <1>1
<1> QED
  BY <1>2

(* The same for the least.                                                  *)
LEMMA MinIs ==
    ASSUME NEW T, T \subseteq Int, NEW x \in T, \A y \in T : x <= y
    PROVE  Min(T) = x
<1>1. Min(T) \in T /\ \A y \in T : Min(T) <= y
  BY DEF Min
<1>2. Min(T) \in Int /\ x \in Int /\ Min(T) <= x /\ x <= Min(T)
  BY <1>1
<1> QED
  BY <1>2

(* The lines of a file, and what a label and a day have.                    *)
FileLines(lines) ==
    /\ lines \in Seq(ToSet(lines))
    /\ Len(lines) \in Nat /\ DOMAIN lines = 1 .. Len(lines)
    /\ \A i \in DOMAIN lines : lines[i].kind = "day" => Len(lines[i].fields) \in Nat
    /\ \A i \in DOMAIN lines : lines[i].kind = "label" =>
          /\ lines[i].val = [token |-> lines[i].val.token, units |-> lines[i].val.units]
          /\ lines[i].val.units \in Seq(ToSet(lines[i].val.units))

(* They are those of every file there is.                                   *)
LEMMA FilesHaveLines ==
    ASSUME NEW file \in Inputs
    PROVE  FileLines(file.lines) /\ file.kind \in {"daily", "normals"}
<1>1. file.lines \in Seq(ToSet(file.lines))
  BY InputsAssumption
<1>2. Len(file.lines) \in Nat /\ DOMAIN file.lines = 1 .. Len(file.lines)
  BY <1>1, LenProperties
<1>3. \A i \in DOMAIN file.lines : file.lines[i] \in ToSet(file.lines)
  BY DEF ToSet
<1>4. ASSUME NEW i \in DOMAIN file.lines, file.lines[i].kind = "day"
      PROVE  Len(file.lines[i].fields) \in Nat
  <2>1. file.lines[i].fields \in Seq(ToSet(file.lines[i].fields))
    BY <1>3, <1>4, InputsAssumption
  <2> QED
    BY <2>1, LenProperties
<1> QED
  BY <1>1, <1>2, <1>3, <1>4, InputsAssumption DEF FileLines

(* What is one longer at its end is so after anything.                      *)
LEMMA LongerBy ==
    ASSUME NEW S, NEW s \in Seq(S), NEW t \in Seq(S), NEW longer \in Seq(S), NEW x \in S,
           Len(longer) = Len(t) + 1, longer[Len(t) + 1] = x,
           \A k \in 1 .. Len(t) : longer[k] = t[k]
    PROVE  s \o longer = Append(s \o t, x)
<1>1. /\ Append(t, x) \in Seq(S) /\ Len(Append(t, x)) = Len(t) + 1
      /\ \A k \in 1 .. Len(t) : Append(t, x)[k] = t[k]
      /\ Append(t, x)[Len(t) + 1] = x /\ Len(t) \in Nat
  BY AppendProperties, LenProperties
<1>2. \A k \in 1 .. Len(longer) : longer[k] = Append(t, x)[k]
  BY <1>1
<1>3. longer = Append(t, x)
  BY <1>1, <1>2, SeqEqual
<1>4. s \o t \in Seq(S) /\ <<x>> \in Seq(S)
  BY ConcatProperties
<1>5. longer = t \o <<x>> /\ Append(s \o t, x) = (s \o t) \o <<x>>
  BY <1>3, <1>4, AppendIsConcat
<1> QED
  BY <1>4, <1>5, ConcatAssociative

(* A function over the numbers up to n is a sequence of n.                   *)
LEMMA FunctionIsSeq ==
    ASSUME NEW S, NEW n \in Nat, NEW f \in [1 .. n -> S]
    PROVE  f \in Seq(S) /\ Len(f) = n
<1>1. f \in Seq(S)
  BY SeqDef
<1>2. Len(f) \in Nat /\ 1 .. Len(f) = 1 .. n
  BY <1>1, LenProperties
<1>3. Len(f) = n
  BY <1>2
<1> QED
  BY <1>1, <1>3

(* The units below a label: none at it, and one more for each line.         *)
LEMMA UnitsGrow ==
    ASSUME NEW lines, FileLines(lines), NEW i \in DOMAIN lines,
           lines[i].kind = "label", NEW e \in i .. Len(lines)
    PROVE  LET units == lines[i].val.units IN
           /\ units \o UnitsBelow(lines, i, i) = units
           /\ e + 1 \in DOMAIN lines =>
                 units \o UnitsBelow(lines, i, e + 1) =
                     Append(units \o UnitsBelow(lines, i, e), lines[e + 1].unit)
<1> DEFINE units == lines[i].val.units
           all   == ToSet(units) \cup {lines[k].unit : k \in DOMAIN lines}
           Below(j) == [k \in 1 .. j - i |-> lines[i + k].unit]
<1>1. /\ units \in Seq(ToSet(units)) /\ Len(lines) \in Nat
      /\ DOMAIN lines = 1 .. Len(lines)
  BY DEF FileLines
<1>2. units \in Seq(all)
  BY <1>1, SeqMonotonic
<1> HIDE DEF units
<1>3. ASSUME NEW j \in i .. Len(lines)
      PROVE  Below(j) \in Seq(all) /\ Len(Below(j)) = j - i
  <2>1. j - i \in Nat /\ i \in 1 .. Len(lines) /\ j \in Int
    BY <1>1
  <2>2. ASSUME NEW k \in 1 .. j - i PROVE lines[i + k].unit \in all
    <3>1. i + k \in DOMAIN lines
      BY <1>1, <2>1
    <3> QED
      BY <3>1
  <2> HIDE DEF all
  <2>3. Below(j) \in [1 .. j - i -> all]
    BY <2>2
  <2> HIDE DEF Below
  <2> QED
    BY <2>1, <2>3, FunctionIsSeq
<1>4. units \o UnitsBelow(lines, i, i) = units
  <2>1. UnitsBelow(lines, i, i) = <<>>
    BY <1>1 DEF UnitsBelow
  <2> QED
    BY <1>2, <2>1, ConcatEmptySeq
<1>5. ASSUME e + 1 \in DOMAIN lines
      PROVE  units \o Below(e + 1) = Append(units \o Below(e), lines[e + 1].unit)
  <2>1. /\ e \in i .. Len(lines) /\ e + 1 \in i .. Len(lines) /\ e - i \in Nat
        /\ (e + 1) - i = (e - i) + 1 /\ i \in Nat /\ e \in Nat
    BY <1>1, <1>5
  <2>2. lines[e + 1].unit \in all
    BY <1>5
  <2>3. ASSUME NEW k \in 1 .. e - i PROVE Below(e + 1)[k] = Below(e)[k]
    BY <2>1
  <2>4. Below(e + 1)[(e - i) + 1] = lines[e + 1].unit
    <3>1. (e - i) + 1 \in 1 .. (e + 1) - i /\ i + ((e - i) + 1) = e + 1
      BY <2>1
    <3> QED
      BY <3>1
  <2> HIDE DEF Below, all
  <2>5. Below(e) \in Seq(all) /\ Len(Below(e)) = e - i
    BY <1>3, <2>1
  <2>6. Below(e + 1) \in Seq(all) /\ Len(Below(e + 1)) = (e - i) + 1
    BY <1>3, <2>1
  <2>7. Len(Below(e + 1)) = Len(Below(e)) + 1 /\ Below(e + 1)[Len(Below(e)) + 1] = lines[e + 1].unit
    BY <2>4, <2>5, <2>6
  <2>8. \A k \in 1 .. Len(Below(e)) : Below(e + 1)[k] = Below(e)[k]
    BY <2>3, <2>5
  <2>9. ASSUME NEW t \in Seq(all), NEW longer \in Seq(all), NEW x \in all,
               Len(longer) = Len(t) + 1, longer[Len(t) + 1] = x,
               \A k \in 1 .. Len(t) : longer[k] = t[k]
        PROVE  units \o longer = Append(units \o t, x)
    BY SMTT(60), <1>2, <2>9, LongerBy
  <2> QED
    BY <2>2, <2>5, <2>6, <2>7, <2>8, <2>9
<1> QED
  BY <1>4, <1>5 DEF UnitsBelow, units

-----------------------------------------------------------------------------
(* The header, line by line.  It starts at a field that is known.           *)
LEMMA StartIs ==
    ASSUME NEW lines, FileLines(lines), Known(lines) # {}
    PROVE  /\ Start(lines) \in DOMAIN lines /\ KnownLabel(lines[Start(lines)])
           /\ Start(lines) \in 1 .. Len(lines) /\ Start(lines) \in Nat \ {0}
           /\ \A i \in DOMAIN lines : KnownLabel(lines[i]) => Start(lines) <= i
<1>1. Known(lines) \subseteq Nat
  BY DEF Known, FileLines
<1>2. Start(lines) \in Known(lines) /\ \A i \in Known(lines) : Start(lines) <= i
  BY <1>1, LeastOf DEF Start
<1>3. Start(lines) \in 1 .. Len(lines) /\ Len(lines) \in Nat
  BY <1>2 DEF Known, FileLines
<1> QED
  BY <1>2, <1>3 DEF Known

(* A line belongs to no label but the last one above it.                    *)
LEMMA OnlyLast ==
    ASSUME NEW lines, FileLines(lines), Known(lines) # {}, NEW n \in DOMAIN lines,
           NEW last, LabelAbove(lines, n - 1, last),
           NEW i \in 1 .. n - 1, Belongs(lines, i, n)
    PROVE  i = last
<1>1. /\ n \in Nat /\ last \in Int /\ last <= n - 1 /\ lines[last].kind = "label"
      /\ \A k \in last + 1 .. n - 1 : Belongs(lines, last, k)
  BY StartIs DEF FileLines, LabelAbove
<1>2. /\ lines[i].kind = "label" /\ i \in Int
      /\ \A k \in i + 1 .. n : lines[k].kind = "tail"
  BY DEF Belongs
<1>3. ~(i < last)
  <2>1. i < last => last \in i + 1 .. n
    BY <1>1
  <2> QED
    BY <1>1, <1>2, <2>1
<1>4. ~(last < i)
  <2> SUFFICES ASSUME last < i PROVE FALSE
    OBVIOUS
  <2>1. i \in last + 1 .. n - 1 /\ i \in last + 1 .. i
    BY <1>1
  <2>2. Belongs(lines, last, i)
    BY <1>1, <2>1
  <2>3. lines[i].kind = "tail"
    BY <2>1, <2>2 DEF Belongs
  <2> QED
    BY <1>2, <2>3
<1> QED
  BY <1>1, <1>2, <1>3, <1>4

(* A unit joins the others of its value.                                    *)
LEMMA JoinedIs ==
    ASSUME NEW token, NEW units, NEW line
    PROVE  Joined([token |-> token, units |-> units], line) =
              [token |-> token, units |-> Append(units, line.unit)]
  BY DEF Joined

(* The number held open takes in the line exactly when it belongs there, and *)
(* it is then the number with its units down to that line.                  *)
LEMMA RejoinsIs ==
    ASSUME NEW lines, FileLines(lines), Known(lines) # {}, NEW n \in DOMAIN lines,
           NEW last, LabelAbove(lines, n - 1, last)
    PROVE  /\ Rejoins(WrapOf(lines, n - 1, last), lines[n]) <=> Belongs(lines, last, n)
           /\ Belongs(lines, last, n) =>
                 /\ lines[last].key \in NumericKeys
                 /\ WrapOf(lines, n - 1, last).key = lines[last].key
                 /\ Joined(WrapOf(lines, n - 1, last).val, lines[n]) =
                       [token |-> lines[last].val.token,
                        units |-> lines[last].val.units \o UnitsBelow(lines, last, n)]
<1> DEFINE key == lines[last].key
           val == lines[last].val
           wrap == [key |-> key, val |-> [token |-> val.token,
                                          units |-> val.units \o UnitsBelow(lines, last, n - 1)]]
           all == val.units \o UnitsBelow(lines, last, n)
<1>1. /\ n \in Nat /\ last \in DOMAIN lines /\ last <= n - 1 /\ lines[last].kind = "label"
      /\ \A k \in last + 1 .. n - 1 : Belongs(lines, last, k)
      /\ n - 1 \in last .. Len(lines) /\ (n - 1) + 1 = n /\ last \in Int
  <2>1. Start(lines) \in 1 .. Len(lines) /\ n \in 1 .. Len(lines) /\ Len(lines) \in Nat
    BY StartIs DEF FileLines
  <2>2. last \in Start(lines) .. n - 1
    BY DEF LabelAbove
  <2>3. last \in 1 .. Len(lines) /\ DOMAIN lines = 1 .. Len(lines)
    BY <2>1, <2>2 DEF FileLines
  <2> QED
    BY <2>1, <2>2, <2>3 DEF LabelAbove
<1>2. Append(val.units \o UnitsBelow(lines, last, n - 1), lines[n].unit) = all
  BY <1>1, UnitsGrow
<1>3. key \notin NumericKeys =>
         /\ WrapOf(lines, n - 1, last) = NoWrap
         /\ ~Rejoins(WrapOf(lines, n - 1, last), lines[n]) /\ ~Belongs(lines, last, n)
  BY DEF WrapOf, Rejoins, Belongs
<1>4. ASSUME key \in NumericKeys
      PROVE  WrapOf(lines, n - 1, last) = wrap /\ wrap # NoWrap
  <2>1. key # "-"
    BY <1>4 DEF NumericKeys, numericHeaderTrims
  <2> QED
    BY <1>4, <2>1 DEF WrapOf, NoWrap
<1>5. Joined(wrap.val, lines[n]) = [token |-> val.token, units |-> all]
  <2>1. wrap.val = [token |-> val.token, units |-> val.units \o UnitsBelow(lines, last, n - 1)]
    OBVIOUS
  <2> HIDE DEF wrap, all
  <2>2. Joined(wrap.val, lines[n]) =
           [token |-> val.token,
            units |-> Append(val.units \o UnitsBelow(lines, last, n - 1), lines[n].unit)]
    BY <2>1, JoinedIs
  <2> QED
    BY <1>2, <2>2
<1>10. /\ wrap.key = key /\ wrap.val.token = val.token
       /\ Joined(wrap.val, lines[n]).units = all
  <2>1. wrap.key = key /\ wrap.val.token = val.token
    OBVIOUS
  <2> HIDE DEF wrap, all
  <2>2. Joined(wrap.val, lines[n]).units = all
    BY <1>5
  <2> QED
    BY <2>1, <2>2
<1> HIDE DEF wrap, all
<1>6. ASSUME key \in NumericKeys
      PROVE  Rejoins(wrap, lines[n]) <=>
                /\ lines[n].kind = "tail" /\ all \in numericHeaderTrims[key]
                /\ val.token \in Floats
  BY <1>4, <1>10, <1>6 DEF Rejoins, Trimmed
<1>7. ASSUME key \in NumericKeys
      PROVE  Belongs(lines, last, n) <=>
                /\ lines[n].kind = "tail" /\ all \in numericHeaderTrims[key]
                /\ val.token \in Floats
  <2>1. n \in last + 1 .. n
    BY <1>1
  <2>2. ASSUME NEW k \in last + 1 .. n, k # n
        PROVE  /\ lines[k].kind = "tail"
               /\ val.units \o UnitsBelow(lines, last, k) \in numericHeaderTrims[key]
    <3>1. k \in last + 1 .. n - 1 /\ k \in last + 1 .. k
      BY <1>1, <2>2
    <3>2. Belongs(lines, last, k)
      BY <1>1, <3>1
    <3> QED
      BY <3>1, <3>2 DEF Belongs
  <2> QED
    BY <1>1, <1>7, <2>1, <2>2 DEF Belongs, all
<1>8. CASE key \in NumericKeys
  <2>1. Joined(WrapOf(lines, n - 1, last).val, lines[n]) = [token |-> val.token, units |-> all]
    BY <1>4, <1>5, <1>8
  <2>2. WrapOf(lines, n - 1, last).key = key
    BY <1>4, <1>8, <1>10
  <2>3. Rejoins(WrapOf(lines, n - 1, last), lines[n]) <=> Belongs(lines, last, n)
    BY <1>4, <1>6, <1>7, <1>8
  <2> QED
    BY <1>8, <2>1, <2>2, <2>3 DEF all
<1>9. CASE key \notin NumericKeys
  BY <1>3, <1>9
<1> QED
  BY <1>8, <1>9

(* The last label given for a field, if one is.                             *)
LEMMA LastLabel ==
    ASSUME NEW lines, FileLines(lines), Known(lines) # {}, NEW e \in 0 .. Len(lines),
           NEW key, Labels(lines, e, key) # {}
    PROVE  /\ Max(Labels(lines, e, key)) \in Labels(lines, e, key)
           /\ Max(Labels(lines, e, key)) \in Start(lines) .. e
           /\ \A i \in Labels(lines, e, key) : i <= Max(Labels(lines, e, key))
<1>1. Start(lines) \in Nat /\ e \in Nat
  BY StartIs
<1>2. Labels(lines, e, key) \subseteq 0 .. e
  BY <1>1 DEF Labels
<1>3. Labels(lines, e, key) \subseteq Start(lines) .. e
  BY DEF Labels
<1> QED
  BY <1>1, <1>2, <1>3, GreatestOf

(* A line further, a label that does not go on to it is what it was.        *)
LEMMA WholeStays ==
    ASSUME NEW lines, FileLines(lines), NEW n \in DOMAIN lines, NEW i \in 1 .. n - 1,
           ~Belongs(lines, i, n)
    PROVE  Whole(lines, n, i) = Whole(lines, n - 1, i)
<1>1. n \in Nat /\ i \in Nat /\ i + 1 .. n = (i + 1 .. n - 1) \cup {n}
  BY DEF FileLines
<1>2. {j \in i + 1 .. n : Belongs(lines, i, j)} = {j \in i + 1 .. n - 1 : Belongs(lines, i, j)}
  BY <1>1
<1> QED
  BY <1>2 DEF Whole

(* A label is read by itself.                                               *)
LEMMA WholeAlone ==
    ASSUME NEW lines, FileLines(lines), NEW n \in DOMAIN lines, lines[n].kind = "label"
    PROVE  Whole(lines, n, n) = lines[n].val
<1>1. n \in n .. Len(lines) /\ n \in Nat /\ n + 1 .. n = {} /\ n + 0 = n
  BY DEF FileLines
<1>2. Cardinality({j \in n + 1 .. n : Belongs(lines, n, j)}) = 0
  BY <1>1, FS_EmptySet
<1>3. lines[n].val.units \o UnitsBelow(lines, n, n) = lines[n].val.units
  <2>1. n \in n .. Len(lines)
    BY <1>1
  <2> QED
    BY <2>1, UnitsGrow
<1>4. lines[n].val = [token |-> lines[n].val.token, units |-> lines[n].val.units]
  BY DEF FileLines
<1> QED
  BY <1>1, <1>2, <1>3, <1>4 DEF Whole

(* A label is the header's next field.                                      *)
LEMMA LabelExtends ==
    ASSUME NEW lines, FileLines(lines), Known(lines) # {},
           NEW n \in DOMAIN lines, Start(lines) <= n, lines[n].kind = "label"
    PROVE  LET key == lines[n].key  val == lines[n].val IN
           /\ HeaderOf(lines, n) =
                 IF key \in KnownKeys
                 THEN [HeaderOf(lines, n - 1) EXCEPT ![key] = FieldValue(key, val)]
                 ELSE HeaderOf(lines, n - 1)
           /\ HeaderWarnings(lines, n) =
                 IF key \in NumericKeys /\ BadNumber(key, val)
                 THEN HeaderWarnings(lines, n - 1) \cup {<<"header", n, key>>}
                 ELSE HeaderWarnings(lines, n - 1)
<1> DEFINE key == lines[n].key
           val == lines[n].val
<1>1. /\ n \in 1 .. Len(lines) /\ Len(lines) \in Nat /\ Start(lines) \in Nat \ {0}
      /\ Start(lines) .. n = (Start(lines) .. n - 1) \cup {n}
      /\ n - 1 \in 0 .. Len(lines)
  BY SMTT(30), StartIs DEF FileLines
<1>2. ASSUME NEW k
      PROVE  Labels(lines, n, k) = Labels(lines, n - 1, k) \cup (IF key = k THEN {n} ELSE {})
  BY <1>1 DEF Labels
<1>3. ASSUME NEW i \in Start(lines) .. n - 1
      PROVE  Whole(lines, n, i) = Whole(lines, n - 1, i)
  <2>1. i \in 1 .. n - 1 /\ n \in i + 1 .. n
    BY <1>1
  <2>2. ~Belongs(lines, i, n)
    BY <2>1 DEF Belongs
  <2> QED
    BY <2>1, <2>2, WholeStays
<1>4. Whole(lines, n, n) = val
  BY WholeAlone
<1>5. ASSUME NEW k \in KnownKeys, k # key
      PROVE  HeaderOf(lines, n)[k] = HeaderOf(lines, n - 1)[k]
  <2>1. Labels(lines, n, k) = Labels(lines, n - 1, k)
    BY <1>2, <1>5
  <2>2. CASE Labels(lines, n - 1, k) = {}
    BY <2>1, <2>2 DEF HeaderOf
  <2>3. CASE Labels(lines, n - 1, k) # {}
    <3>1. Max(Labels(lines, n - 1, k)) \in Start(lines) .. n - 1
      BY <1>1, <2>3, LastLabel
    <3>2. Whole(lines, n, Max(Labels(lines, n - 1, k))) =
             Whole(lines, n - 1, Max(Labels(lines, n - 1, k)))
      BY <1>3, <3>1
    <3> QED
      BY <2>1, <2>3, <3>2 DEF HeaderOf
  <2> QED
    BY <2>2, <2>3
<1>6. ASSUME key \in KnownKeys
      PROVE  HeaderOf(lines, n)[key] = FieldValue(key, val)
  <2>1. n \in Labels(lines, n, key) /\ Labels(lines, n, key) \subseteq Start(lines) .. n
    BY <1>1, <1>2 DEF Labels
  <2>2. \A i \in Labels(lines, n, key) : i <= n
    BY <1>1, <2>1
  <2>3. Labels(lines, n, key) \subseteq Int
    BY <1>1, <2>1
  <2>4. Max(Labels(lines, n, key)) = n
    BY <2>1, <2>2, <2>3, MaxIs
  <2> QED
    BY <1>4, <1>6, <2>1, <2>4 DEF HeaderOf
<1>7. HeaderOf(lines, n) =
         IF key \in KnownKeys
         THEN [HeaderOf(lines, n - 1) EXCEPT ![key] = FieldValue(key, val)]
         ELSE HeaderOf(lines, n - 1)
  <2>1. HeaderOf(lines, n) = [k \in KnownKeys |-> HeaderOf(lines, n)[k]]
    BY DEF HeaderOf
  <2>2. HeaderOf(lines, n - 1) = [k \in KnownKeys |-> HeaderOf(lines, n - 1)[k]]
    BY DEF HeaderOf
  <2> HIDE DEF key, val
  <2> QED
    BY <1>5, <1>6, <2>1, <2>2
<1>8. HeaderWarnings(lines, n) =
         IF key \in NumericKeys /\ BadNumber(key, val)
         THEN HeaderWarnings(lines, n - 1) \cup {<<"header", n, key>>}
         ELSE HeaderWarnings(lines, n - 1)
  <2>1. {j \in Start(lines) .. n : lines[j].kind = "tail"} =
           {j \in Start(lines) .. n - 1 : lines[j].kind = "tail"}
    BY <1>1
  <2> DEFINE Bad(e) == {j \in Start(lines) .. e :
                           /\ lines[j].kind = "label" /\ lines[j].key \in NumericKeys
                           /\ BadNumber(lines[j].key, lines[j].val)}
  <2>2. Bad(n) = Bad(n - 1) \cup (IF key \in NumericKeys /\ BadNumber(key, val)
                                   THEN {n} ELSE {})
    BY <1>1
  <2>3. \A e : HeaderWarnings(lines, e) =
           {<<"header", i, lines[i].key>> : i \in Bad(e)}
             \cup {<<"header", i, "wrapped">> : i \in {j \in Start(lines) .. e :
                       lines[j].kind = "tail"}}
    BY DEF HeaderWarnings
  <2>4. {<<"header", i, lines[i].key>> : i \in Bad(n)} =
           {<<"header", i, lines[i].key>> : i \in Bad(n - 1)} \cup
             (IF key \in NumericKeys /\ BadNumber(key, val) THEN {<<"header", n, key>>} ELSE {})
    <3> HIDE DEF Bad
    <3>1. CASE key \in NumericKeys /\ BadNumber(key, val)
      BY <2>2, <3>1
    <3>2. CASE ~(key \in NumericKeys /\ BadNumber(key, val))
      BY <2>2, <3>2
    <3> QED
      BY <3>1, <3>2
  <2> HIDE DEF Bad, key, val
  <2> QED
    BY ZenonT(60), <2>1, <2>3, <2>4
<1> QED
  BY <1>7, <1>8

(* A unit pushed down is part of the field above it.                        *)
LEMMA UnitsExtend ==
    ASSUME NEW lines, FileLines(lines), Known(lines) # {},
           NEW n \in DOMAIN lines, NEW last, LabelAbove(lines, n - 1, last),
           Belongs(lines, last, n)
    PROVE  LET key == lines[last].key
               val == [token |-> lines[last].val.token,
                       units |-> lines[last].val.units \o UnitsBelow(lines, last, n)] IN
           /\ HeaderOf(lines, n) =
                 [HeaderOf(lines, n - 1) EXCEPT ![key] = FieldValue(key, val)]
           /\ HeaderWarnings(lines, n) =
                 HeaderWarnings(lines, n - 1) \cup {<<"header", n, "wrapped">>}
<1> DEFINE key == lines[last].key
           val == [token |-> lines[last].val.token,
                   units |-> lines[last].val.units \o UnitsBelow(lines, last, n)]
<1>1. Start(lines) \in DOMAIN lines /\ n \in 1 .. Len(lines) /\ Len(lines) \in Nat
      /\ Start(lines) \in Nat \ {0}
  <2>1. n \in 1 .. Len(lines) /\ Len(lines) \in Nat
    BY DEF FileLines
  <2> QED
    BY <2>1, StartIs
<1>2. last \in Start(lines) .. n - 1 /\ lines[last].kind = "label"
      /\ \A k \in last + 1 .. n - 1 : Belongs(lines, last, k)
  BY DEF LabelAbove
<1>3. /\ Start(lines) .. n = (Start(lines) .. n - 1) \cup {n}
      /\ n - 1 \in 0 .. Len(lines) /\ last \in Nat /\ n \in last + 1 .. n
  BY <1>1, <1>2
<1>4. lines[n].kind = "tail" /\ key \in NumericKeys /\ key \in KnownKeys
  BY <1>3 DEF Belongs, KnownKeys
<1>5. ASSUME NEW k PROVE Labels(lines, n, k) = Labels(lines, n - 1, k)
  BY <1>3, <1>4 DEF Labels
<1>6. ASSUME NEW i \in Start(lines) .. n - 1, i # last
      PROVE  Whole(lines, n, i) = Whole(lines, n - 1, i)
  <2>1. i \in 1 .. n - 1
    BY <1>1
  <2>2. ~Belongs(lines, i, n)
    BY <1>6, <2>1, OnlyLast
  <2> QED
    BY <2>1, <2>2, WholeStays
<1>7. Whole(lines, n, last) = val
  <2>1. {j \in last + 1 .. n : Belongs(lines, last, j)} = last + 1 .. n
    BY <1>2, <1>3
  <2>2. Cardinality(last + 1 .. n) = n - last
    BY <1>1, <1>3, FS_Interval
  <2>3. last + (n - last) = n
    BY <1>1, <1>3
  <2> QED
    BY <2>1, <2>2, <2>3 DEF Whole
<1>8. Labels(lines, n - 1, key) # {} /\ Max(Labels(lines, n - 1, key)) = last
  <2>1. last \in Labels(lines, n - 1, key)
    BY <1>2 DEF Labels
  <2>2. Labels(lines, n - 1, key) \subseteq Int
    BY <1>1 DEF Labels
  <2>3. ASSUME NEW i \in Labels(lines, n - 1, key) PROVE i <= last
    <3>1. i \in Start(lines) .. n - 1 /\ lines[i].kind = "label"
      BY DEF Labels
    <3>2. last < i => i \in last + 1 .. n - 1 /\ i \in last + 1 .. i
      BY <1>1, <1>3, <3>1
    <3>3. last < i => lines[i].kind = "tail"
      BY <1>2, <3>2 DEF Belongs
    <3> QED
      BY <1>1, <1>3, <3>1, <3>3
  <2> QED
    BY <2>1, <2>2, <2>3, MaxIs
<1>9. ASSUME NEW k \in KnownKeys, k # key
      PROVE  HeaderOf(lines, n)[k] = HeaderOf(lines, n - 1)[k]
  <2>1. CASE Labels(lines, n - 1, k) = {}
    BY <1>5, <2>1 DEF HeaderOf
  <2>2. CASE Labels(lines, n - 1, k) # {}
    <3> DEFINE m == Max(Labels(lines, n - 1, k))
    <3>1. m \in Start(lines) .. n - 1 /\ m \in Labels(lines, n - 1, k)
      BY <1>3, <2>2, LastLabel
    <3> HIDE DEF m
    <3>3. lines[m].key = k
      BY <3>1 DEF Labels
    <3>2. Whole(lines, n, m) = Whole(lines, n - 1, m)
      BY <1>6, <1>9, <3>1, <3>3
    <3> QED
      BY <1>5, <2>2, <3>2 DEF HeaderOf, m
  <2> QED
    BY <2>1, <2>2
<1>10. HeaderOf(lines, n)[key] = FieldValue(key, val)
  BY <1>4, <1>5, <1>7, <1>8 DEF HeaderOf
<1>11. HeaderOf(lines, n) = [HeaderOf(lines, n - 1) EXCEPT ![key] = FieldValue(key, val)]
  <2>1. HeaderOf(lines, n) = [k \in KnownKeys |-> HeaderOf(lines, n)[k]]
    BY DEF HeaderOf
  <2>2. HeaderOf(lines, n - 1) = [k \in KnownKeys |-> HeaderOf(lines, n - 1)[k]]
    BY DEF HeaderOf
  <2> HIDE DEF key, val
  <2> QED
    BY <1>9, <1>10, <2>1, <2>2
<1>12. HeaderWarnings(lines, n) =
          HeaderWarnings(lines, n - 1) \cup {<<"header", n, "wrapped">>}
  <2>1. {j \in Start(lines) .. n : lines[j].kind = "tail"} =
           {j \in Start(lines) .. n - 1 : lines[j].kind = "tail"} \cup {n}
    BY <1>3, <1>4
  <2> DEFINE Bad(e) == {j \in Start(lines) .. e :
                           /\ lines[j].kind = "label" /\ lines[j].key \in NumericKeys
                           /\ BadNumber(lines[j].key, lines[j].val)}
  <2>2. Bad(n) = Bad(n - 1)
    BY <1>3, <1>4
  <2>3. \A e : HeaderWarnings(lines, e) =
           {<<"header", i, lines[i].key>> : i \in Bad(e)}
             \cup {<<"header", i, "wrapped">> : i \in {j \in Start(lines) .. e :
                       lines[j].kind = "tail"}}
    BY DEF HeaderWarnings
  <2> HIDE DEF Bad
  <2> QED
    BY <2>1, <2>2, <2>3
<1> QED
  BY <1>11, <1>12

(* The header ends at the first line that is neither a label nor of one.    *)
LEMMA EndIs ==
    ASSUME NEW lines, FileLines(lines), NEW n \in 1 .. Len(lines) + 1,
           InHeader(lines, n - 1),
           n \in DOMAIN lines => lines[n].kind # "label" /\ ~BelongsAbove(lines, n)
    PROVE  End(lines) = n
<1> DEFINE T == {j \in Start(lines) + 1 .. Len(lines) :
                    lines[j].kind # "label" /\ ~BelongsAbove(lines, j)} \cup {Len(lines) + 1}
<1>1. /\ Known(lines) # {} /\ Start(lines) <= n - 1
      /\ \A j \in Start(lines) + 1 .. n - 1 : lines[j].kind = "label" \/ BelongsAbove(lines, j)
  BY DEF InHeader
<1>2. Len(lines) \in Nat /\ DOMAIN lines = 1 .. Len(lines)
  BY DEF FileLines
<1>3. Start(lines) \in Nat \ {0}
  BY <1>1, StartIs
<1>4. T \subseteq Int
  BY <1>2, <1>3
<1>5. n \in T
  BY <1>1, <1>2, <1>3
<1>6. ASSUME NEW y \in T PROVE n <= y
  BY <1>1, <1>2, <1>3, <1>6
<1>7. Min(T) = n
  <2> HIDE DEF T
  <2> QED
    BY <1>4, <1>5, <1>6, MinIs
<1> QED
  BY <1>7 DEF End

(* A line that does not belong to the last label belongs to none.           *)
LEMMA BelongsToLast ==
    ASSUME NEW lines, FileLines(lines), Known(lines) # {}, NEW n \in DOMAIN lines,
           NEW last, LabelAbove(lines, n - 1, last)
    PROVE  BelongsAbove(lines, n) <=> Belongs(lines, last, n)
<1>1. last \in 1 .. n - 1
  <2>1. Start(lines) \in Nat \ {0} /\ last \in Start(lines) .. n - 1
    BY StartIs DEF LabelAbove
  <2> QED
    BY <2>1
<1>2. ASSUME NEW i \in 1 .. n - 1, Belongs(lines, i, n) PROVE Belongs(lines, last, n)
  BY <1>2, OnlyLast
<1> QED
  BY <1>1, <1>2 DEF BelongsAbove

(* The body is the lines below the one that ends the header.                *)
LEMMA BodyLines ==
    ASSUME NEW lines, FileLines(lines), Known(lines) # {}
    PROVE  LET body == Body(lines) IN
           /\ End(lines) \in 2 .. Len(lines) + 1 /\ Len(lines) \in Nat
           /\ body \in Seq(ToSet(lines)) /\ Len(body) \in Nat
           /\ Len(body) = IF End(lines) <= Len(lines) THEN Len(lines) - End(lines) ELSE 0
           /\ \A i \in 1 .. Len(body) : body[i] = lines[End(lines) + i]
<1> DEFINE T == {j \in Start(lines) + 1 .. Len(lines) :
                    lines[j].kind # "label" /\ ~BelongsAbove(lines, j)} \cup {Len(lines) + 1}
<1>1. Len(lines) \in Nat /\ DOMAIN lines = 1 .. Len(lines) /\ lines \in Seq(ToSet(lines))
  BY DEF FileLines
<1>2. Start(lines) \in Nat \ {0} /\ Start(lines) \in 1 .. Len(lines)
  BY StartIs
<1>3. T \subseteq 2 .. Len(lines) + 1 /\ T \subseteq Nat /\ T # {}
  BY <1>1, <1>2
<1>4. Min(T) \in T
  <2> HIDE DEF T
  <2> QED
    BY <1>3, LeastOf
<1>5. End(lines) \in 2 .. Len(lines) + 1
  BY <1>3, <1>4 DEF End
<1>6. ASSUME NEW i \in End(lines) + 1 .. Len(lines) PROVE lines[i] \in ToSet(lines)
  <2>1. i \in DOMAIN lines
    BY <1>1, <1>5
  <2> QED
    BY <2>1 DEF ToSet
<1>7. /\ Body(lines) \in Seq(ToSet(lines))
      /\ Len(Body(lines)) = IF End(lines) + 1 <= Len(lines)
                            THEN Len(lines) - (End(lines) + 1) + 1 ELSE 0
      /\ \A i \in 1 .. Len(lines) - (End(lines) + 1) + 1 :
            Body(lines)[i] = lines[End(lines) + 1 + i - 1]
  <2>1. End(lines) + 1 \in Int /\ Len(lines) \in Int
    BY <1>1, <1>5
  <2> QED
    BY <1>6, <2>1, SubSeqProperties DEF Body
<1>8. Len(Body(lines)) = (IF End(lines) <= Len(lines) THEN Len(lines) - End(lines) ELSE 0)
      /\ Len(Body(lines)) \in Nat
  BY <1>1, <1>5, <1>7
<1>9. ASSUME NEW i \in 1 .. Len(Body(lines)) PROVE Body(lines)[i] = lines[End(lines) + i]
  <2>1. i \in 1 .. Len(lines) - (End(lines) + 1) + 1 /\ End(lines) + 1 + i - 1 = End(lines) + i
    BY <1>1, <1>5, <1>8
  <2> QED
    BY <1>7, <2>1
<1> QED
  BY <1>1, <1>5, <1>7, <1>8, <1>9

-----------------------------------------------------------------------------
(* A set of line numbers, in order, and what one more line adds to it.      *)
LEMMA PlaceGrows ==
    ASSUME NEW n \in Nat, NEW T, T \subseteq 1 .. n
    PROVE  LET more == T \cup {n + 1} IN
           /\ IsFiniteSet(T) /\ Cardinality(T) \in Nat
           /\ Cardinality(more) = Cardinality(T) + 1
           /\ PlaceIn(more, n + 1) = Cardinality(T) + 1
           /\ \A i \in T : /\ PlaceIn(T, i) \in 1 .. Cardinality(T)
                           /\ PlaceIn(more, i) = PlaceIn(T, i)
<1> DEFINE more == T \cup {n + 1}
<1>1. IsFiniteSet(T) /\ Cardinality(T) \in Nat
  <2>1. IsFiniteSet(1 .. n)
    BY FS_Interval
  <2> QED
    BY <2>1, FS_Subset, FS_CardinalityType
<1>2. n + 1 \notin T
  OBVIOUS
<1>3. Cardinality(more) = Cardinality(T) + 1
  BY <1>1, <1>2, FS_AddElement
<1>4. {j \in more : j <= n + 1} = more
  <2>1. \A j \in more : j <= n + 1
    OBVIOUS
  <2> HIDE DEF more
  <2> QED
    BY <2>1
<1>5. ASSUME NEW i \in T
      PROVE  /\ PlaceIn(T, i) \in 1 .. Cardinality(T)
             /\ PlaceIn(more, i) = PlaceIn(T, i)
  <2>1. {j \in more : j <= i} = {j \in T : j <= i}
    OBVIOUS
  <2>2. {j \in T : j <= i} \subseteq T /\ i \in {j \in T : j <= i}
    OBVIOUS
  <2>3. /\ IsFiniteSet({j \in T : j <= i})
        /\ Cardinality({j \in T : j <= i}) <= Cardinality(T)
    BY <1>1, <2>2, FS_Subset
  <2>4. Cardinality({j \in T : j <= i}) \in Nat /\ Cardinality({j \in T : j <= i}) # 0
    BY <2>2, <2>3, FS_CardinalityType, FS_EmptySet
  <2> QED
    BY <1>1, <2>1, <2>3, <2>4 DEF PlaceIn
<1> QED
  BY <1>1, <1>3, <1>4, <1>5 DEF PlaceIn

-----------------------------------------------------------------------------
(* The body, line by line.  A full day is the next row, and a day that is    *)
(* short of a value, or has one that is no number, is reported.             *)
LEMMA DaysExtend ==
    ASSUME NEW body, NEW n \in Nat, NEW S, NEW rows \in Seq(S), RowsRead(rows, body, n),
           DayOf(body[n + 1]) \in S,
           body[n + 1].kind = "day" => Len(body[n + 1].fields) \in Nat
    PROVE  LET line == body[n + 1] IN
           /\ line.kind # "day" =>
                 /\ RowsRead(rows, body, n + 1)
                 /\ DayWarnings(body, n + 1) = DayWarnings(body, n)
           /\ line.kind = "day" /\ Len(line.fields) < 4 =>
                 /\ RowsRead(rows, body, n + 1)
                 /\ DayWarnings(body, n + 1) =
                       DayWarnings(body, n) \cup {<<"body", n + 1, "short">>}
           /\ line.kind = "day" /\ ~(Len(line.fields) < 4) =>
                 /\ RowsRead(Append(rows, DayOf(line)), body, n + 1)
                 /\ DayWarnings(body, n + 1) =
                       DayWarnings(body, n) \cup
                         {<<"body", n + 1, c>> : c \in {d \in 1 .. 4 :
                             Malformed(Floats, line.fields[d])}}
<1> DEFINE line == body[n + 1]
           full == line.kind = "day" /\ ~(Len(line.fields) < 4)
           short == line.kind = "day" /\ Len(line.fields) < 4
           Shorts(k) == {j \in 1 .. k : body[j].kind = "day" /\ Len(body[j].fields) < 4}
           Bad(i) == {<<"body", i, c>> : c \in {d \in 1 .. 4 :
                         Malformed(Floats, body[i].fields[d])}}
<1>1. 1 .. n + 1 = (1 .. n) \cup {n + 1}
  OBVIOUS
<1>2. full <=> line.kind = "day" /\ Len(line.fields) >= 4
  OBVIOUS
<1>3. FullDays(body, n + 1) = FullDays(body, n) \cup (IF full THEN {n + 1} ELSE {})
  <2> HIDE DEF full
  <2> QED
    BY <1>1, <1>2 DEF FullDays
<1>4. Shorts(n + 1) = Shorts(n) \cup (IF short THEN {n + 1} ELSE {})
  BY <1>1
<1>5. FullDays(body, n) \subseteq 1 .. n
  BY DEF FullDays
<1>6. ASSUME ~full PROVE RowsRead(rows, body, n + 1)
  BY <1>3, <1>6 DEF RowsRead
<1>7. ASSUME full PROVE RowsRead(Append(rows, DayOf(line)), body, n + 1)
  <2> DEFINE days == FullDays(body, n)
             more == days \cup {n + 1}
             longer == Append(rows, DayOf(line))
  <2>1. FullDays(body, n + 1) = more
    BY <1>3, <1>7
  <2>2. Len(rows) = Cardinality(days) /\ \A i \in days : rows[PlaceIn(days, i)] = DayOf(body[i])
    BY DEF RowsRead
  <2>6. Len(rows) = Cardinality(days)
    BY <2>2
  <2> HIDE DEF days, line
  <2>3. /\ Len(longer) = Cardinality(more)
        /\ longer[PlaceIn(more, n + 1)] = DayOf(line)
        /\ \A i \in days : longer[PlaceIn(more, i)] = rows[PlaceIn(days, i)]
    <3>1. days \subseteq 1 .. n /\ DayOf(line) \in S
      BY <1>5 DEF days, line
    <3>2. /\ Len(longer) = Len(rows) + 1 /\ longer[Len(rows) + 1] = DayOf(line)
          /\ \A i \in 1 .. Len(rows) : longer[i] = rows[i]
      BY <3>1, AppendProperties
    <3>3. /\ Cardinality(more) = Cardinality(days) + 1 /\ PlaceIn(more, n + 1) = Cardinality(days) + 1
          /\ \A i \in days : /\ PlaceIn(days, i) \in 1 .. Cardinality(days)
                             /\ PlaceIn(more, i) = PlaceIn(days, i)
      BY <3>1, PlaceGrows
    <3> HIDE DEF more, longer
    <3>4. /\ Cardinality(more) = Len(rows) + 1 /\ PlaceIn(more, n + 1) = Len(rows) + 1
          /\ \A i \in days : /\ PlaceIn(days, i) \in 1 .. Len(rows)
                             /\ PlaceIn(more, i) = PlaceIn(days, i)
      BY <2>6, <3>3
    <3> QED
      BY <3>2, <3>4
  <2> HIDE DEF more, longer
  <2>4. \A i \in more : longer[PlaceIn(more, i)] = DayOf(body[i])
    BY <2>2, <2>3 DEF more, line
  <2>5. RowsRead(longer, body, n + 1)
    BY <2>1, <2>3, <2>4 DEF RowsRead
  <2> QED
    BY <2>5 DEF longer
<1>8. \A k : DayWarnings(body, k) =
         {<<"body", i, "short">> : i \in Shorts(k)} \cup UNION {Bad(i) : i \in FullDays(body, k)}
  BY DEF DayWarnings
<1>9. /\ short => ~full
      /\ line.kind # "day" => ~full /\ ~short
      /\ full => ~short
  OBVIOUS
<1> HIDE DEF Shorts, Bad, full, short
<1>10. {<<"body", i, "short">> : i \in Shorts(n + 1)} =
          {<<"body", i, "short">> : i \in Shorts(n)}
            \cup (IF short THEN {<<"body", n + 1, "short">>} ELSE {})
  BY <1>4
<1>11. UNION {Bad(i) : i \in FullDays(body, n + 1)} =
          (UNION {Bad(i) : i \in FullDays(body, n)}) \cup (IF full THEN Bad(n + 1) ELSE {})
  <2>1. CASE full
    BY <1>3, <2>1
  <2>2. CASE ~full
    BY <1>3, <2>2
  <2> QED
    BY <2>1, <2>2
<1>12. DayWarnings(body, n + 1) =
          DayWarnings(body, n) \cup (IF short THEN {<<"body", n + 1, "short">>} ELSE {})
            \cup (IF full THEN Bad(n + 1) ELSE {})
  <2> DEFINE S1(k) == {<<"body", i, "short">> : i \in Shorts(k)}
             B1(k) == UNION {Bad(i) : i \in FullDays(body, k)}
  <2>1. \A k : DayWarnings(body, k) = S1(k) \cup B1(k)
    BY <1>8
  <2>2. /\ S1(n + 1) = S1(n) \cup (IF short THEN {<<"body", n + 1, "short">>} ELSE {})
        /\ B1(n + 1) = B1(n) \cup (IF full THEN Bad(n + 1) ELSE {})
    BY <1>10, <1>11
  <2> HIDE DEF S1, B1
  <2> QED
    BY <2>1, <2>2
<1>13. line.kind # "day" => RowsRead(rows, body, n + 1)
                            /\ DayWarnings(body, n + 1) = DayWarnings(body, n)
  BY <1>6, <1>9, <1>12
<1>14. short => /\ RowsRead(rows, body, n + 1)
                /\ DayWarnings(body, n + 1) =
                      DayWarnings(body, n) \cup {<<"body", n + 1, "short">>}
  BY <1>6, <1>9, <1>12
<1>15. full => /\ RowsRead(Append(rows, DayOf(line)), body, n + 1)
               /\ DayWarnings(body, n + 1) = DayWarnings(body, n) \cup Bad(n + 1)
  BY <1>7, <1>9, <1>12
<1> QED
  BY <1>13, <1>14, <1>15 DEF full, short, Bad

(* A title opens its section, and a row of one fills its slot.              *)
LEMMA SectionsExtend ==
    ASSUME NEW body, NEW n \in Nat
    PROVE  LET line == body[n + 1]
               inside == line.kind = "row" /\ SectionAt(body, n + 1) \in Sections IN
           /\ SectionAt(body, n + 2) =
                 IF line.kind = "title" THEN line.section ELSE SectionAt(body, n + 1)
           /\ \A slot : SlotOf(body, n + 1, slot) =
                 IF inside /\ SectionAt(body, n + 1) = slot[1] /\ line.label = slot[2]
                 THEN MonthlyValues(slot[2], line.fields) ELSE SlotOf(body, n, slot)
           /\ SectionWarnings(body, n + 1) =
                 IF inside
                 THEN SectionWarnings(body, n) \cup MonthlyWarnings(line.label, line.fields, n + 1)
                 ELSE SectionWarnings(body, n)
<1> DEFINE line == body[n + 1]
           inside == line.kind = "row" /\ SectionAt(body, n + 1) \in Sections
           Of(i) == MonthlyWarnings(body[i].label, body[i].fields, i)
           GivenTo(k, slot) == {i \in SectionRows(body, k) :
                                 SectionAt(body, i) = slot[1] /\ body[i].label = slot[2]}
<1>1. 1 .. n + 1 = (1 .. n) \cup {n + 1} /\ (n + 2) - 1 = n + 1 /\ (n + 1) - 1 = n
  OBVIOUS
<1>2. SectionAt(body, n + 2) =
         IF line.kind = "title" THEN line.section ELSE SectionAt(body, n + 1)
  <2>1. Titles(body, n + 2) =
           Titles(body, n + 1) \cup (IF line.kind = "title" THEN {n + 1} ELSE {})
    BY <1>1 DEF Titles
  <2>2. CASE line.kind = "title"
    <3>1. n + 1 \in Titles(body, n + 2) /\ Titles(body, n + 2) \subseteq 1 .. n + 1
      BY <1>1, <2>1, <2>2 DEF Titles
    <3>2. Titles(body, n + 2) \subseteq Int /\ \A j \in Titles(body, n + 2) : j <= n + 1
      BY <3>1
    <3>3. Max(Titles(body, n + 2)) = n + 1
      BY <3>1, <3>2, MaxIs
    <3> QED
      BY <2>2, <3>1, <3>3 DEF SectionAt
  <2>3. CASE line.kind # "title"
    BY <2>1, <2>3 DEF SectionAt
  <2> QED
    BY <2>2, <2>3
<1>3. SectionRows(body, n + 1) = SectionRows(body, n) \cup (IF inside THEN {n + 1} ELSE {})
  BY <1>1 DEF SectionRows
<1>4. SectionRows(body, n) \subseteq 1 .. n
  BY DEF SectionRows
<1>5. ASSUME NEW slot
      PROVE  SlotOf(body, n + 1, slot) =
                IF inside /\ SectionAt(body, n + 1) = slot[1] /\ line.label = slot[2]
                THEN MonthlyValues(slot[2], line.fields) ELSE SlotOf(body, n, slot)
  <2> DEFINE fits == inside /\ SectionAt(body, n + 1) = slot[1] /\ line.label = slot[2]
  <2>1. GivenTo(n + 1, slot) = GivenTo(n, slot) \cup (IF fits THEN {n + 1} ELSE {})
    <3> HIDE DEF inside
    <3> QED
      BY <1>3
  <2>2. GivenTo(n, slot) \subseteq 1 .. n
    BY <1>4
  <2>3. \A k : SlotOf(body, k, slot) =
           IF GivenTo(k, slot) = {} THEN [m \in Months |-> Nil]
           ELSE MonthlyValues(slot[2], body[Max(GivenTo(k, slot))].fields)
    BY DEF SlotOf
  <2> HIDE DEF GivenTo, fits
  <2>4. CASE fits
    <3>1. n + 1 \in GivenTo(n + 1, slot) /\ GivenTo(n + 1, slot) \subseteq Int
      BY <2>1, <2>2, <2>4
    <3>2. \A i \in GivenTo(n + 1, slot) : i <= n + 1
      BY <2>1, <2>2, <2>4
    <3>3. Max(GivenTo(n + 1, slot)) = n + 1
      BY <3>1, <3>2, MaxIs
    <3>4. SlotOf(body, n + 1, slot) = MonthlyValues(slot[2], line.fields)
      BY <2>3, <3>1, <3>3
    <3> QED
      BY <2>4, <3>4 DEF fits
  <2>5. CASE ~fits
    <3>1. SlotOf(body, n + 1, slot) = SlotOf(body, n, slot)
      BY <2>1, <2>3, <2>5
    <3> QED
      BY <2>5, <3>1 DEF fits
  <2> QED
    BY <2>4, <2>5
<1>6. SectionWarnings(body, n + 1) =
         IF inside THEN SectionWarnings(body, n) \cup Of(n + 1) ELSE SectionWarnings(body, n)
  <2>1. \A k : SectionWarnings(body, k) = UNION {Of(i) : i \in SectionRows(body, k)}
    BY DEF SectionWarnings
  <2> HIDE DEF Of, inside
  <2>2. CASE inside
    <3>1. UNION {Of(i) : i \in SectionRows(body, n) \cup {n + 1}} =
             (UNION {Of(i) : i \in SectionRows(body, n)}) \cup Of(n + 1)
      OBVIOUS
    <3> QED
      BY <1>3, <2>1, <2>2, <3>1
  <2>3. CASE ~inside
    BY <1>3, <2>1, <2>3
  <2> QED
    BY <2>2, <2>3
<1> QED
  BY <1>2, <1>5, <1>6

-----------------------------------------------------------------------------
(* A catalog, row by row.  The zeros that pad a clave do not change what it  *)
(* is short for.                                                            *)
LEMMA ShortOfPadded ==
    ASSUME NEW clave \in Seq(0 .. 9), clave # <<>>
    PROVE  ShortID([i \in 1 .. (5 - Len(clave)) |-> 0] \o clave) = ShortID(clave)
<1> DEFINE len == Len(clave)
           zeros == [i \in 1 .. (5 - len) |-> 0]
           z == IF 5 - len > 0 THEN 5 - len ELSE 0
           id == zeros \o clave
           Rest(x) == {i \in DOMAIN x : x[i] # 0 \/ i = Len(x)}
           m == Min(Rest(clave))
<1>1. len \in Nat \ {0} /\ DOMAIN clave = 1 .. len
  BY EmptySeq, LenProperties
<1> HIDE DEF len
<1>2. z \in Nat /\ zeros = [i \in 1 .. z |-> 0] /\ \A i \in 1 .. z : zeros[i] = 0
  BY <1>1
<1>3. zeros \in Seq(0 .. 9) /\ Len(zeros) = z
  <2>1. [i \in 1 .. z |-> 0] \in [1 .. z -> 0 .. 9]
    BY <1>2
  <2> HIDE DEF z, zeros
  <2> QED
    BY <1>2, <2>1, FunctionIsSeq
<1> HIDE DEF z, zeros
<1>4. /\ id \in Seq(0 .. 9) /\ Len(id) = z + len
      /\ \A i \in 1 .. z + len : id[i] = IF i <= z THEN zeros[i] ELSE clave[i - z]
  BY <1>3, ConcatProperties DEF len
<1>5. DOMAIN id = 1 .. z + len
  BY <1>4, LenProperties
<1> HIDE DEF id
<1>6. /\ Rest(clave) \subseteq 1 .. len /\ len \in Rest(clave)
      /\ Rest(clave) \subseteq Nat
  BY <1>1 DEF len
<1>7. m \in Rest(clave) /\ \A y \in Rest(clave) : m <= y
  <2> HIDE DEF Rest
  <2> QED
    BY <1>6, LeastOf
<1>8. m \in 1 .. len /\ (clave[m] # 0 \/ m = len)
  BY <1>6, <1>7 DEF len
<1>9. z + m \in Rest(id)
  <2>1. z + m \in 1 .. z + len /\ ~(z + m <= z) /\ (z + m) - z = m
    BY <1>1, <1>2, <1>8
  <2>2. id[z + m] = clave[m]
    BY <1>4, <2>1
  <2> QED
    BY <1>4, <1>5, <1>8, <2>1, <2>2
<1>10. ASSUME NEW y \in Rest(id) PROVE z + m <= y
  <2>1. y \in 1 .. z + len /\ (id[y] # 0 \/ y = z + len)
    BY <1>4, <1>5
  <2>2. y > z
    <3>1. CASE y = z + len
      BY <1>1, <1>2, <3>1
    <3>2. CASE id[y] # 0
      BY <1>2, <1>4, <2>1, <3>2
    <3> QED
      BY <2>1, <3>1, <3>2
  <2>3. y - z \in 1 .. len /\ id[y] = clave[y - z] /\ (y = z + len => y - z = len)
    BY <1>1, <1>2, <1>4, <2>1, <2>2
  <2>4. y - z \in Rest(clave)
    BY <1>1, <2>1, <2>3 DEF len
  <2> HIDE DEF Rest, m
  <2>5. m <= y - z /\ m \in Int /\ y \in Int
    BY <1>1, <1>2, <1>7, <1>8, <2>1, <2>4
  <2> QED
    BY <1>2, <2>5
<1>11. Min(Rest(id)) = z + m
  <2>1. Rest(id) \subseteq Int
    BY <1>1, <1>2, <1>5
  <2> HIDE DEF Rest, m
  <2> QED
    BY <1>9, <1>10, <2>1, MinIs
<1>12. \A x : ShortID(x) = SubSeq(x, Min(Rest(x)), Len(x))
  BY DEF ShortID, Min
<1> HIDE DEF Rest, m
<1>13. SubSeq(id, z + m, z + len) = SubSeq(clave, m, len)
  <2> DEFINE a == SubSeq(id, z + m, z + len)
             b == SubSeq(clave, m, len)
  <2>1. /\ z + m \in Int /\ z + len \in Int /\ m \in Int /\ len \in Int
        /\ (z + len) - (z + m) + 1 = len - m + 1 /\ len - m + 1 \in Nat \ {0}
        /\ z + m <= z + len /\ m <= len
    BY <1>1, <1>2, <1>8
  <2>2. ASSUME NEW i \in z + m .. z + len PROVE id[i] \in 0 .. 9
    <3>1. i \in 1 .. Len(id)
      BY <1>1, <1>2, <1>4, <1>8
    <3> QED
      BY <1>4, <3>1, ElementOfSeq
  <2>3. ASSUME NEW i \in m .. len PROVE clave[i] \in 0 .. 9
    <3>1. i \in 1 .. len
      BY <1>1, <1>8
    <3> QED
      BY <3>1, ElementOfSeq DEF len
  <2>4. /\ a \in Seq(0 .. 9) /\ Len(a) = len - m + 1
        /\ \A i \in 1 .. len - m + 1 : a[i] = id[z + m + i - 1]
    BY <2>1, <2>2, SubSeqProperties
  <2>5. /\ b \in Seq(0 .. 9) /\ Len(b) = len - m + 1
        /\ \A i \in 1 .. len - m + 1 : b[i] = clave[m + i - 1]
    BY <2>1, <2>3, SubSeqProperties
  <2>6. ASSUME NEW i \in 1 .. len - m + 1 PROVE a[i] = b[i]
    <3>1. /\ z + m + i - 1 \in 1 .. z + len /\ ~(z + m + i - 1 <= z)
          /\ (z + m + i - 1) - z = m + i - 1
      BY <1>1, <1>2, <1>8
    <3>2. id[z + m + i - 1] = clave[m + i - 1]
      BY <1>4, <3>1
    <3> HIDE DEF a, b
    <3> QED
      BY <2>4, <2>5, <3>2
  <2> HIDE DEF a, b
  <2>7. a = b
    BY <2>4, <2>5, <2>6, SeqEqual
  <2> QED
    BY <2>7 DEF a, b
<1>14. ShortID(id) = ShortID(clave)
  BY <1>4, <1>11, <1>12, <1>13 DEF len, m
<1> QED
  BY <1>14 DEF id, zeros, len

(* A row's station has the links of the row, and the number of its clave or  *)
(* of its first link.                                                       *)
LEMMA StationOfRow ==
    ASSUME NEW page \in Pages, NEW row \in ToSet(page), IsDataRow(row)
    PROVE  /\ ParseRow(row).files = FilesOf(row)
           /\ ShortID(ParseRow(row).id) = ShortID(Padded(row))
<1>1. row.clave \in Seq(0 .. 9) /\ row.clave # <<>>
  <2>1. row.clave \in Seq(ToSet(row.clave))
    BY InputsAssumption
  <2>2. row.clave # <<>> /\ ToSet(row.clave) \subseteq 0 .. 9
    BY DEF IsDataRow, IsDigits
  <2> QED
    BY <2>1, <2>2, SeqMonotonic
<1>2. ShortID([i \in 1 .. (5 - Len(row.clave)) |-> 0] \o row.clave) = ShortID(row.clave)
  BY <1>1, ShortOfPadded
<1>3. ShortID(canonicalStationID(row)) = ShortID(Padded(row))
  <2>1. CASE WithId(row) = <<>>
    BY <1>2, <2>1 DEF canonicalStationID, Padded
  <2>2. CASE WithId(row) # <<>>
    BY <2>2 DEF canonicalStationID, Padded
  <2> QED
    BY <2>1, <2>2
<1>4. ParseRow(row).files = FilesOf(row) /\ ParseRow(row).id = canonicalStationID(row)
  BY DEF ParseRow
<1> QED
  BY <1>3, <1>4

(* A row of data is the next station of the list, and no other row is.      *)
LEMMA ListExtends ==
    ASSUME NEW page \in Pages, NEW n \in Nat, n + 1 \in DOMAIN page,
           NEW S, NEW stations \in Seq(S), ParseRow(page[n + 1]) \in S,
           Listed(page, stations, n)
    PROVE  IF IsDataRow(page[n + 1])
           THEN Listed(page, Append(stations, ParseRow(page[n + 1])), n + 1)
           ELSE Listed(page, stations, n + 1)
<1> DEFINE row == page[n + 1]
           data == {i \in 1 .. n : IsDataRow(page[i])}
           more == data \cup {n + 1}
           longer == Append(stations, ParseRow(row))
           Right(station, i) == /\ station.files = FilesOf(page[i])
                                /\ ShortID(station.id) = ShortID(Padded(page[i]))
<1>1. /\ {i \in 1 .. n + 1 : IsDataRow(page[i])} =
            IF IsDataRow(row) THEN more ELSE data
      /\ data \subseteq 1 .. n
  <2>1. 1 .. n + 1 = (1 .. n) \cup {n + 1}
    OBVIOUS
  <2> QED
    BY <2>1
<1>2. /\ Len(stations) = Cardinality(data)
      /\ \A i \in data : Right(stations[PlaceIn(data, i)], i)
  BY DEF Listed
<1>3. CASE ~IsDataRow(row)
  BY <1>1, <1>2, <1>3 DEF Listed
<1>4. CASE IsDataRow(row)
  <2>1. Right(ParseRow(row), n + 1)
    <3>1. row \in ToSet(page)
      BY DEF ToSet
    <3> QED
      BY <1>4, <3>1, StationOfRow
  <2>2. /\ Len(longer) = Len(stations) + 1 /\ longer[Len(stations) + 1] = ParseRow(row)
        /\ \A i \in 1 .. Len(stations) : longer[i] = stations[i]
    BY AppendProperties
  <2> HIDE DEF data, longer, Right
  <2>3. /\ Cardinality(more) = Len(stations) + 1 /\ PlaceIn(more, n + 1) = Len(stations) + 1
        /\ \A i \in data : /\ PlaceIn(data, i) \in 1 .. Len(stations)
                           /\ PlaceIn(more, i) = PlaceIn(data, i)
    <3>1. data \subseteq 1 .. n /\ Len(stations) = Cardinality(data)
      BY <1>1, <1>2
    <3> QED
      BY ZenonT(60), <3>1, PlaceGrows
  <2>4. \A i \in more : Right(longer[PlaceIn(more, i)], i)
    BY <1>2, <2>1, <2>2, <2>3
  <2>5. Len(longer) = Cardinality(more)
    BY <2>2, <2>3
  <2> QED
    BY <1>1, <1>4, <2>4, <2>5 DEF Listed, Right, longer
<1> QED
  BY <1>3, <1>4

-----------------------------------------------------------------------------
(* The steps through a header.  Where the reader is says which part holds.  *)
LEMMA WhereItIs ==
    ASSUME ParseInv
    PROVE  /\ parse.at \in {"header", "body"} =>
                 /\ FileInv /\ FileLines(Lines)
                 /\ parse.file.kind \in {"daily", "normals"}
           /\ parse.at = "page" => PageInv
<1>1. parse = Unparsed => parse.at = "idle"
  BY DEF Unparsed
<1>2. FileInv => parse.at \in {"header", "body", "read", "refused"} /\ parse.file \in Inputs
  BY DEF FileInv, FileType
<1>3. PageInv => parse.at \in {"page", "listed"}
  BY DEF PageInv
<1>4. parse.file \in Inputs => FileLines(Lines) /\ parse.file.kind \in {"daily", "normals"}
  BY FilesHaveLines DEF Lines
<1> QED
  BY <1>1, <1>2, <1>3, <1>4 DEF ParseInv

(* At the first field that is known nothing has been read.                  *)
LEMMA FirstField ==
    ASSUME NEW lines, FileLines(lines), NEW n \in DOMAIN lines, KnownLabel(lines[n]),
           \A i \in 1 .. n - 1 : ~KnownLabel(lines[i])
    PROVE  /\ Known(lines) # {} /\ Start(lines) = n
           /\ HeaderOf(lines, n - 1) = NoHeader /\ HeaderWarnings(lines, n - 1) = {}
<1>1. DOMAIN lines = 1 .. Len(lines) /\ Len(lines) \in Nat /\ n \in Nat
  BY DEF FileLines
<1>2. n \in Known(lines) /\ Known(lines) \subseteq Int
  BY <1>1 DEF Known
<1>3. \A i \in Known(lines) : n <= i
  BY <1>1 DEF Known
<1>4. Start(lines) = n
  BY <1>2, <1>3, MinIs DEF Start
<1>5. Start(lines) .. n - 1 = {}
  BY <1>1, <1>4
<1>6. HeaderOf(lines, n - 1) = NoHeader
  BY <1>5 DEF HeaderOf, NoHeader, Labels
<1>7. HeaderWarnings(lines, n - 1) = {}
  BY <1>5 DEF HeaderWarnings
<1> QED
  BY <1>2, <1>4, <1>6, <1>7

(* A label is the last one above its line, and what it holds open is itself. *)
LEMMA LabelItself ==
    ASSUME NEW lines, FileLines(lines), Known(lines) # {}, NEW n \in DOMAIN lines,
           Start(lines) <= n, lines[n].kind = "label"
    PROVE  /\ LabelAbove(lines, n, n)
           /\ WrapOf(lines, n, n) = WrapAfter(lines[n].key, lines[n].val)
<1>1. n \in 1 .. Len(lines) /\ Start(lines) \in Nat \ {0} /\ Len(lines) \in Nat
  <2>1. n \in 1 .. Len(lines) /\ Len(lines) \in Nat
    BY DEF FileLines
  <2> QED
    BY <2>1, StartIs
<1>2. LabelAbove(lines, n, n)
  BY <1>1 DEF LabelAbove
<1>3. lines[n].val.units \o UnitsBelow(lines, n, n) = lines[n].val.units
  <2>1. n \in n .. Len(lines)
    BY <1>1
  <2> QED
    BY <2>1, UnitsGrow
<1>4. lines[n].val = [token |-> lines[n].val.token, units |-> lines[n].val.units]
  BY DEF FileLines
<1> QED
  BY <1>2, <1>3, <1>4 DEF WrapOf, WrapAfter

(* A file that is opened is refused if it is of another period.             *)
LEMMA OpenStep == parse = Unparsed /\ ParseStarts => FileInv'
<1> SUFFICES ASSUME ParseStarts PROVE FileInv'
  OBVIOUS
<1>1. PICK file \in Inputs :
         parse' = IF file.kind = "normals" /\ scanPeriod(file) # file.expected
                  THEN [Reading(file) EXCEPT !.at = "refused"] ELSE Reading(file)
  BY DEF ParseStarts
<1>2. OfItsPeriod(file) <=> ~(file.kind = "normals" /\ scanPeriod(file) # file.expected)
  BY DEF OfItsPeriod, FirstBanner, scanPeriod, Min
<1>3. /\ parse' = [field \in ParseFields |-> parse'[field]]
      /\ parse'.file = file /\ parse'.next = 1 /\ parse'.skipped = 0
      /\ parse'.h = NoHeader /\ parse'.started = FALSE /\ parse'.wrap = NoWrap
      /\ parse'.warnings = {} /\ parse'.rows = <<>> /\ parse'.section = "none"
      /\ parse'.acc = NoSlots
      /\ parse'.at = IF OfItsPeriod(file) THEN "header" ELSE "refused"
  <2>1. CASE OfItsPeriod(file)
    BY <1>1, <1>2, <2>1 DEF Reading, ParseFields
  <2>2. CASE ~OfItsPeriod(file)
    BY <1>1, <1>2, <2>2 DEF Reading, ParseFields
  <2> QED
    BY <2>1, <2>2
<1>4. Len(file.lines) \in Nat
  BY FilesHaveLines DEF FileLines
<1>5. FileType'
  <2>1. OfItsPeriod(parse.file)' <=> OfItsPeriod(file)
    BY <1>3
  <2>2. parse'.at # "refused" => OfItsPeriod(parse.file)'
    BY <1>3, <2>1
  <2>3. parse'.at \in {"header", "refused"}
    BY <1>3, Zenon
  <2>4. parse'.file \in Inputs /\ parse'.next \in Nat \ {0}
    BY <1>3
  <2>5. parse'.started \in BOOLEAN
    BY <1>3, Zenon
  <2>6. parse'.at \in {"header", "body", "read", "refused"}
    BY <2>3
  <2> QED
    BY <1>3, <2>2, <2>4, <2>5, <2>6, Zenon DEF FileType
<1>6. HeaderInv'
  BY <1>3, <1>4 DEF HeaderInv, Unstarted, Lines
<1>7. BodyInv' /\ RefusedInv'
  BY <1>3 DEF BodyInv, RefusedInv
<1> QED
  BY <1>5, <1>6, <1>7 DEF FileInv

(* What stands above the header is passed over.                             *)
LEMMA PassedStep == ParseInv /\ BeforeHeader => FileInv'
<1> SUFFICES ASSUME ParseInv, BeforeHeader PROVE FileInv'
  OBVIOUS
<1>1. /\ FileType /\ HeaderInv /\ FileLines(Lines)
      /\ parse.at = "header" /\ ~parse.started /\ ~EOF /\ Line.kind # "label"
  BY WhereItIs DEF BeforeHeader, FileInv
<1>2. /\ parse' = [field \in ParseFields |-> parse'[field]]
      /\ parse'.next = parse.next + 1
      /\ \A field \in ParseFields \ {"next"} : parse'[field] = parse[field]
  BY <1>1 DEF BeforeHeader, FileType, ParseFields
<1>3. /\ parse'.file = parse.file /\ parse'.at = "header" /\ parse'.skipped = parse.skipped
      /\ parse'.h = parse.h /\ parse'.started = parse.started /\ parse'.wrap = parse.wrap
      /\ parse'.warnings = parse.warnings /\ parse'.rows = parse.rows
      /\ parse'.section = parse.section /\ parse'.acc = parse.acc /\ Lines' = Lines
  BY <1>1, <1>2 DEF ParseFields, Lines
<1>4. /\ parse.next \in Nat \ {0} /\ parse.next <= Len(Lines) /\ Len(Lines) \in Nat
  BY <1>1 DEF FileType, EOF, FileLines
<1>5. FileType'
  BY <1>1, <1>2, <1>3, <1>4 DEF FileType
<1>6. Unstarted'
  <2>1. Unstarted
    BY <1>1 DEF HeaderInv
  <2>2. ASSUME NEW i \in 1 .. parse.next PROVE ~KnownLabel(Lines[i])
    <3>1. CASE i = parse.next
      BY <1>1, <3>1 DEF KnownLabel, Line
    <3>2. CASE i # parse.next
      BY <1>4, <2>1, <3>2 DEF Unstarted
    <3> QED
      BY <3>1, <3>2
  <2> QED
    BY <1>2, <1>3, <1>4, <2>1, <2>2 DEF Unstarted
<1>7. HeaderInv'
  BY <1>1, <1>2, <1>3, <1>4, <1>6 DEF HeaderInv
<1>8. BodyInv' /\ RefusedInv'
  BY <1>3 DEF BodyInv, RefusedInv
<1> QED
  BY <1>5, <1>7, <1>8 DEF FileInv

(* A file without a field that is known is refused.                         *)
LEMMA NoFieldStep == ParseInv /\ NoHeaderFound => FileInv'
<1> SUFFICES ASSUME ParseInv, NoHeaderFound PROVE FileInv'
  OBVIOUS
<1>1. /\ FileType /\ HeaderInv /\ FileLines(Lines)
      /\ parse.at = "header" /\ ~parse.started /\ EOF
  BY WhereItIs DEF NoHeaderFound, FileInv
<1>2. /\ parse' = [field \in ParseFields |-> parse'[field]]
      /\ parse'.at = "refused" /\ parse'.file = parse.file /\ parse'.next = parse.next
      /\ parse'.started = parse.started
  BY <1>1 DEF NoHeaderFound, FileType, ParseFields
<1>3. Known(Lines) = {}
  <2>1. \A i \in 1 .. parse.next - 1 : ~KnownLabel(Lines[i])
    BY <1>1 DEF HeaderInv, Unstarted
  <2>2. parse.next \in Nat /\ parse.next > Len(Lines) /\ Len(Lines) \in Nat
    BY <1>1 DEF FileType, EOF, FileLines
  <2>3. \A i \in DOMAIN Lines : i \in 1 .. parse.next - 1
    BY <1>1, <2>2 DEF FileLines
  <2> QED
    BY <2>1, <2>3 DEF Known
<1>4. FileType'
  BY <1>1, <1>2 DEF FileType
<1>5. HeaderInv' /\ BodyInv' /\ RefusedInv'
  BY <1>2, <1>3 DEF HeaderInv, BodyInv, RefusedInv, Lines
<1> QED
  BY <1>4, <1>5 DEF FileInv

(* A field is read, and the first that is known starts the header.          *)
LEMMA FieldStep == ParseInv /\ HeaderField => FileInv'
<1> SUFFICES ASSUME ParseInv, HeaderField PROVE FileInv'
  OBVIOUS
<1> DEFINE n == parse.next
           lines == Lines
           key == Line.key
           val == Line.val
           known == key \in KnownKeys
<1>1. /\ FileType /\ HeaderInv /\ FileLines(lines)
      /\ parse.at = "header" /\ ~EOF /\ Line.kind = "label"
  BY WhereItIs DEF HeaderField, FileInv
<1>2. /\ parse' = [field \in ParseFields |-> parse'[field]]
      /\ parse'.next = n + 1 /\ parse'.started = (parse.started \/ known)
      /\ parse'.h = IF known THEN [parse.h EXCEPT ![key] = FieldValue(key, val)] ELSE parse.h
      /\ parse'.wrap = WrapAfter(key, val)
      /\ parse'.warnings = IF key \in NumericKeys /\ BadNumber(key, val)
                           THEN parse.warnings \cup {<<"header", LineNo, key>>}
                           ELSE parse.warnings
      /\ \A field \in ParseFields \ {"next", "started", "h", "wrap", "warnings"} :
            parse'[field] = parse[field]
  BY <1>1 DEF HeaderField, FileType, ParseFields
<1>3. /\ parse'.file = parse.file /\ parse'.at = "header" /\ parse'.skipped = parse.skipped
      /\ parse'.rows = parse.rows /\ parse'.section = parse.section
      /\ parse'.acc = parse.acc /\ Lines' = lines
  BY <1>1, <1>2 DEF ParseFields, Lines
<1>4. /\ n \in Nat \ {0} /\ n <= Len(lines) /\ Len(lines) \in Nat
      /\ n \in DOMAIN lines /\ (n + 1) - 1 = n /\ LineNo = n
  <2>1. n \in Nat \ {0} /\ Len(lines) \in Nat /\ n <= Len(lines)
    BY <1>1 DEF FileType, EOF, FileLines
  <2>2. parse.skipped = 0
    BY <1>1 DEF HeaderInv
  <2> QED
    BY <1>1, <2>1, <2>2 DEF FileLines, LineNo
<1>5. FileType'
  <2>1. parse'.started \in BOOLEAN
    BY <1>2, Zenon
  <2>2. parse'.next \in Nat \ {0}
    BY <1>2, <1>4
  <2> QED
    BY <1>1, <1>2, <1>3, <2>1, <2>2 DEF FileType
<1>6. ASSUME parse.started \/ known
      PROVE  /\ InHeader(lines, n) /\ Known(lines) # {} /\ Start(lines) <= n
             /\ parse.h = HeaderOf(lines, n - 1) /\ parse.warnings = HeaderWarnings(lines, n - 1)
  <2>1. CASE parse.started
    <3>1. Started
      BY <1>1, <2>1 DEF HeaderInv
    <3>2. /\ InHeader(lines, n - 1) /\ parse.h = HeaderOf(lines, n - 1)
          /\ parse.warnings = HeaderWarnings(lines, n - 1)
      BY <3>1 DEF Started
    <3>3. Known(lines) # {} /\ Start(lines) <= n - 1
      BY <3>2 DEF InHeader
    <3>4. Start(lines) \in Nat
      BY <1>1, <3>3, StartIs
    <3>5. ASSUME NEW j \in Start(lines) + 1 .. n
          PROVE  lines[j].kind = "label" \/ BelongsAbove(lines, j)
      <4>1. CASE j = n
        BY <1>1, <4>1 DEF Line
      <4>2. CASE j # n
        <5>1. j \in Start(lines) + 1 .. n - 1
          BY <1>4, <3>4, <4>2
        <5> QED
          BY <3>2, <5>1 DEF InHeader
      <4> QED
        BY <4>1, <4>2
    <3>6. Start(lines) <= n
      BY <1>4, <3>3, <3>4
    <3> QED
      BY <3>2, <3>3, <3>5, <3>6 DEF InHeader
  <2>2. CASE ~parse.started
    <3>1. Unstarted /\ known
      BY <1>1, <1>6, <2>2 DEF HeaderInv
    <3>2. KnownLabel(lines[n]) /\ \A i \in 1 .. n - 1 : ~KnownLabel(lines[i])
      BY <1>1, <3>1 DEF Unstarted, KnownLabel, Line
    <3>3. /\ Known(lines) # {} /\ Start(lines) = n
          /\ HeaderOf(lines, n - 1) = NoHeader /\ HeaderWarnings(lines, n - 1) = {}
      BY <1>1, <1>4, <3>2, FirstField
    <3>4. n + 1 .. n = {} /\ n <= n
      BY <1>4
    <3>5. InHeader(lines, n)
      BY <3>3, <3>4 DEF InHeader
    <3> QED
      BY <3>1, <3>3, <3>4, <3>5 DEF Unstarted
  <2> QED
    BY <2>1, <2>2
<1>7. ASSUME parse.started \/ known PROVE Started' /\ parse'.started
  <2>1. lines[n].kind = "label" /\ lines[n].key = key /\ lines[n].val = val
    BY <1>1 DEF Line
  <2>2. /\ HeaderOf(lines, n) = IF known THEN [parse.h EXCEPT ![key] = FieldValue(key, val)]
                                          ELSE parse.h
        /\ HeaderWarnings(lines, n) =
              IF key \in NumericKeys /\ BadNumber(key, val)
              THEN parse.warnings \cup {<<"header", n, key>>} ELSE parse.warnings
    BY ZenonT(60), <1>1, <1>4, <1>6, <1>7, <2>1, LabelExtends
  <2>3. parse'.h = HeaderOf(lines, n) /\ parse'.warnings = HeaderWarnings(lines, n)
    BY <1>2, <1>4, <2>2
  <2>4. LabelAbove(lines, n, n) /\ parse'.wrap = WrapOf(lines, n, n)
    BY <1>1, <1>2, <1>4, <1>6, <1>7, <2>1, LabelItself
  <2>5. n \in 1 .. n
    BY <1>4
  <2> HIDE DEF n, lines
  <2>6. parse'.next - 1 = n
    BY <1>2, <1>4
  <2> QED
    BY <1>2, <1>3, <1>6, <1>7, <2>3, <2>4, <2>5, <2>6 DEF Started
<1>8. ASSUME ~parse.started, ~known PROVE Unstarted' /\ ~parse'.started
  <2>1. Unstarted
    BY <1>1, <1>8 DEF HeaderInv
  <2>2. key \notin NumericKeys
    BY <1>8 DEF KnownKeys
  <2>3. parse'.h = NoHeader /\ parse'.wrap = NoWrap /\ parse'.warnings = {}
    BY <1>2, <1>8, <2>1, <2>2 DEF Unstarted, WrapAfter
  <2>4. ASSUME NEW i \in 1 .. n PROVE ~KnownLabel(lines[i])
    <3>1. CASE i = n
      BY <1>8, <3>1 DEF KnownLabel, Line
    <3>2. CASE i # n
      BY <1>4, <2>1, <3>2 DEF Unstarted
    <3> QED
      BY <3>1, <3>2
  <2> QED
    BY <1>2, <1>3, <1>4, <1>8, <2>3, <2>4 DEF Unstarted
<1>9. (IF parse.started THEN Started ELSE Unstarted)'
  BY <1>7, <1>8
<1>10. HeaderInv'
  BY <1>1, <1>2, <1>3, <1>4, <1>9 DEF HeaderInv
<1>11. BodyInv' /\ RefusedInv'
  BY <1>3 DEF BodyInv, RefusedInv
<1> QED
  BY <1>5, <1>10, <1>11 DEF FileInv

(* The units of the number held open are taken in.                          *)
LEMMA RejoinStep == ParseInv /\ RejoinWrappedValue => FileInv'
<1> SUFFICES ASSUME ParseInv, RejoinWrappedValue PROVE FileInv'
  OBVIOUS
<1> DEFINE n == parse.next
           lines == Lines
           val == Joined(parse.wrap.val, Line)
           key == parse.wrap.key
<1>1. /\ FileType /\ HeaderInv /\ FileLines(lines)
      /\ parse.at = "header" /\ parse.started /\ ~EOF /\ Rejoins(parse.wrap, Line)
  BY WhereItIs DEF RejoinWrappedValue, FileInv
<1>2. /\ parse' = [field \in ParseFields |-> parse'[field]]
      /\ parse'.next = n + 1 /\ parse'.wrap = [parse.wrap EXCEPT !.val = val]
      /\ parse'.h = [parse.h EXCEPT ![key] = FieldValue(key, val)]
      /\ parse'.warnings = parse.warnings \cup {<<"header", LineNo, "wrapped">>}
      /\ \A field \in ParseFields \ {"next", "h", "wrap", "warnings"} :
            parse'[field] = parse[field]
  BY <1>1 DEF RejoinWrappedValue, FileType, ParseFields
<1>3. /\ parse'.file = parse.file /\ parse'.at = "header" /\ parse'.skipped = parse.skipped
      /\ parse'.rows = parse.rows /\ parse'.section = parse.section
      /\ parse'.started = parse.started /\ parse'.acc = parse.acc /\ Lines' = lines
  BY <1>1, <1>2 DEF ParseFields, Lines
<1>4. /\ n \in Nat \ {0} /\ n <= Len(lines) /\ Len(lines) \in Nat
      /\ n \in DOMAIN lines /\ (n + 1) - 1 = n /\ LineNo = n
  <2>1. n \in Nat \ {0} /\ Len(lines) \in Nat /\ n <= Len(lines)
    BY <1>1 DEF FileType, EOF, FileLines
  <2>2. parse.skipped = 0
    BY <1>1 DEF HeaderInv
  <2> QED
    BY <1>1, <2>1, <2>2 DEF FileLines, LineNo
<1>5. FileType'
  <2>1. parse'.next \in Nat \ {0}
    BY <1>2, <1>4
  <2> QED
    BY <1>1, <1>2, <1>3, <2>1 DEF FileType
<1>6. /\ InHeader(lines, n - 1) /\ Known(lines) # {} /\ Start(lines) <= n - 1
      /\ parse.h = HeaderOf(lines, n - 1) /\ parse.warnings = HeaderWarnings(lines, n - 1)
  BY <1>1 DEF HeaderInv, Started, InHeader
<1>7. PICK last \in 1 .. n - 1 :
         LabelAbove(lines, n - 1, last) /\ parse.wrap = WrapOf(lines, n - 1, last)
  BY <1>1 DEF HeaderInv, Started
<1>8. /\ Belongs(lines, last, n) /\ lines[last].key \in NumericKeys
      /\ key = lines[last].key
      /\ val = [token |-> lines[last].val.token,
                units |-> lines[last].val.units \o UnitsBelow(lines, last, n)]
  <2>1. Line = lines[n]
    BY DEF Line
  <2> DEFINE wrap == WrapOf(lines, n - 1, last)
  <2> HIDE DEF n, lines
  <2>2. FileLines(lines) /\ Known(lines) # {} /\ n \in DOMAIN lines
        /\ LabelAbove(lines, n - 1, last)
    BY <1>1, <1>4, <1>6, <1>7
  <2>3. /\ Rejoins(wrap, lines[n]) <=> Belongs(lines, last, n)
        /\ Belongs(lines, last, n) =>
              /\ lines[last].key \in NumericKeys /\ wrap.key = lines[last].key
              /\ Joined(wrap.val, lines[n]) =
                    [token |-> lines[last].val.token,
                     units |-> lines[last].val.units \o UnitsBelow(lines, last, n)]
    BY <2>2, RejoinsIs
  <2> HIDE DEF wrap
  <2>4. parse.wrap = wrap
    BY <1>7 DEF wrap
  <2> QED
    BY <1>1, <2>1, <2>3, <2>4
<1>9. parse'.h = HeaderOf(lines, n) /\ parse'.warnings = HeaderWarnings(lines, n)
  <2> HIDE DEF n, lines, key, val
  <2>2. FileLines(lines) /\ Known(lines) # {} /\ n \in DOMAIN lines
        /\ LabelAbove(lines, n - 1, last) /\ Belongs(lines, last, n)
    BY <1>1, <1>4, <1>6, <1>7, <1>8
  <2>1. /\ HeaderOf(lines, n) = [HeaderOf(lines, n - 1) EXCEPT ![key] = FieldValue(key, val)]
        /\ HeaderWarnings(lines, n) =
              HeaderWarnings(lines, n - 1) \cup {<<"header", n, "wrapped">>}
    BY ZenonT(60), <1>8, <2>2, UnitsExtend
  <2> QED
    BY <1>2, <1>4, <1>6, <2>1
<1>10. parse'.wrap = WrapOf(lines, n, last)
  <2>1. parse.wrap = [key |-> key, val |-> parse.wrap.val]
    BY <1>7, <1>8 DEF WrapOf
  <2>2. parse'.wrap = [key |-> key, val |-> val]
    BY <1>2, <2>1
  <2> QED
    BY <1>8, <2>2 DEF WrapOf
<1>11. LabelAbove(lines, n, last) /\ InHeader(lines, n) /\ last \in 1 .. n
  <2>1. Start(lines) \in Nat
    BY <1>1, <1>6, StartIs
  <2>2. last \in Start(lines) .. n - 1 /\ lines[last].kind = "label"
        /\ \A k \in last + 1 .. n - 1 : Belongs(lines, last, k)
    BY <1>7 DEF LabelAbove
  <2>3. \A k \in last + 1 .. n : k = n \/ k \in last + 1 .. n - 1
    BY <1>4, <2>1, <2>2
  <2>4. LabelAbove(lines, n, last)
    <3>1. last \in Start(lines) .. n
      BY <1>4, <2>1, <2>2
    <3> QED
      BY <1>8, <2>2, <2>3, <3>1 DEF LabelAbove
  <2>5. BelongsAbove(lines, n)
    BY <1>7, <1>8 DEF BelongsAbove
  <2>6. ASSUME NEW j \in Start(lines) + 1 .. n
        PROVE  lines[j].kind = "label" \/ BelongsAbove(lines, j)
    <3>1. j = n \/ j \in Start(lines) + 1 .. n - 1
      BY <1>4, <2>1
    <3> QED
      BY <1>6, <2>5, <3>1 DEF InHeader
  <2>7. Start(lines) <= n /\ last \in 1 .. n
    BY <1>4, <1>6, <1>7, <2>1
  <2> QED
    BY <1>6, <2>4, <2>6, <2>7 DEF InHeader
<1>12. Started'
  <2> HIDE DEF n, lines
  <2>1. parse'.next - 1 = n
    BY <1>2, <1>4
  <2> QED
    BY <1>3, <1>9, <1>10, <1>11, <2>1 DEF Started
<1>13. HeaderInv'
  BY <1>1, <1>2, <1>3, <1>4, <1>12 DEF HeaderInv
<1>14. BodyInv' /\ RefusedInv'
  BY <1>3 DEF BodyInv, RefusedInv
<1> QED
  BY <1>5, <1>13, <1>14 DEF FileInv

(* Of a body's first no lines nothing is read.                              *)
LEMMA NothingRead ==
    ASSUME NEW body
    PROVE  /\ RowsRead(<<>>, body, 0) /\ DayWarnings(body, 0) = {}
           /\ SectionAt(body, 1) = "none" /\ SectionWarnings(body, 0) = {}
           /\ NoSlots = [slot \in Slots |-> SlotOf(body, 0, slot)]
<1>1. 1 .. 0 = {} /\ 1 .. 1 - 1 = {}
  OBVIOUS
<1>2. FullDays(body, 0) = {} /\ Cardinality({}) = 0 /\ Len(<<>>) = 0
  BY <1>1, FS_EmptySet DEF FullDays
<1>3. RowsRead(<<>>, body, 0) /\ DayWarnings(body, 0) = {}
  <2>1. {j \in 1 .. 0 : body[j].kind = "day" /\ Len(body[j].fields) < 4} = {}
    BY <1>1
  <2>2. DayWarnings(body, 0) = {}
    BY <1>2, <2>1 DEF DayWarnings
  <2>3. RowsRead(<<>>, body, 0)
    BY <1>2 DEF RowsRead
  <2> QED
    BY <2>2, <2>3
<1>4. Titles(body, 1) = {} /\ SectionRows(body, 0) = {}
  BY <1>1 DEF Titles, SectionRows
<1>5. SectionAt(body, 1) = "none" /\ SectionWarnings(body, 0) = {}
  BY <1>4 DEF SectionAt, SectionWarnings
<1>6. ASSUME NEW slot PROVE SlotOf(body, 0, slot) = [m \in Months |-> Nil]
  BY <1>4 DEF SlotOf
<1> QED
  BY <1>3, <1>5, <1>6 DEF NoSlots

(* The line that ends the header is the one where it ends.                  *)
LEMMA EndStep == ParseInv /\ HeaderEnds => FileInv'
<1> SUFFICES ASSUME ParseInv, HeaderEnds PROVE FileInv'
  OBVIOUS
<1> DEFINE n == parse.next
           lines == Lines
           body == Body(lines)
<1>1. /\ FileType /\ HeaderInv /\ FileLines(lines)
      /\ parse.at = "header" /\ parse.started
      /\ ~EOF => Line.kind # "label" /\ ~Rejoins(parse.wrap, Line)
  BY WhereItIs DEF HeaderEnds, FileInv
<1>2. /\ parse' = [field \in ParseFields |-> parse'[field]]
      /\ parse'.at = "body" /\ parse'.next = n + 1 /\ parse'.skipped = n
      /\ parse'.warnings = IF EOF \/ Line.kind = "blank" THEN parse.warnings
                           ELSE parse.warnings \cup {<<"header", LineNo, "ended">>}
      /\ \A field \in ParseFields \ {"at", "next", "skipped", "warnings"} :
            parse'[field] = parse[field]
  BY <1>1 DEF HeaderEnds, FileType, ParseFields
<1>3. /\ parse'.file = parse.file /\ parse'.h = parse.h /\ parse'.rows = <<>>
      /\ parse'.section = "none" /\ parse'.started = parse.started
      /\ parse'.acc = NoSlots /\ Lines' = lines
  BY ZenonT(60), <1>1, <1>2 DEF ParseFields, Lines, HeaderInv
<1>4. /\ n \in 1 .. Len(lines) + 1 /\ Len(lines) \in Nat /\ DOMAIN lines = 1 .. Len(lines)
      /\ n \in Nat \ {0} /\ LineNo = n /\ (n + 1) - n - 1 = 0 /\ (n + 1) - n = 1
      /\ EOF <=> n \notin DOMAIN lines
  <2>1. n \in Nat \ {0} /\ Len(lines) \in Nat /\ n <= Len(lines) + 1 /\ parse.skipped = 0
    BY <1>1 DEF FileType, FileLines, HeaderInv
  <2> QED
    BY <1>1, <2>1 DEF FileLines, LineNo, EOF
<1>5. FileType'
  <2>1. parse'.next \in Nat \ {0}
    BY <1>2, <1>4
  <2> QED
    BY <1>1, <1>2, <1>3, <2>1 DEF FileType
<1>6. /\ InHeader(lines, n - 1) /\ Known(lines) # {}
      /\ parse.h = HeaderOf(lines, n - 1) /\ parse.warnings = HeaderWarnings(lines, n - 1)
  BY <1>1 DEF HeaderInv, Started, InHeader
<1>7. End(lines) = n
  <2>1. PICK last \in 1 .. n - 1 :
           LabelAbove(lines, n - 1, last) /\ parse.wrap = WrapOf(lines, n - 1, last)
    BY <1>1 DEF HeaderInv, Started
  <2>2. ASSUME n \in DOMAIN lines
        PROVE  lines[n].kind # "label" /\ ~BelongsAbove(lines, n)
    <3>1. lines[n].kind # "label" /\ ~Rejoins(parse.wrap, lines[n])
      BY <1>1, <1>4, <2>2 DEF Line
    <3> HIDE DEF n, lines
    <3>2. ~Belongs(lines, last, n)
      BY <1>1, <1>6, <2>1, <2>2, <3>1, RejoinsIs
    <3> QED
      BY <1>1, <1>6, <2>1, <2>2, <3>1, <3>2, BelongsToLast
  <2> HIDE DEF n, lines
  <2> QED
    BY <1>1, <1>4, <1>6, <2>2, EndIs
<1>8. parse'.warnings = HeaderWarnings(lines, n - 1) \cup EndWarnings(lines)
  <2>1. EndWarnings(lines) = IF n \in DOMAIN lines /\ lines[n].kind # "blank"
                             THEN {<<"header", n, "ended">>} ELSE {}
    <3> HIDE DEF n, lines
    <3>1. CASE n \in DOMAIN lines /\ lines[n].kind # "blank"
      BY <1>7, <3>1 DEF EndWarnings
    <3>2. CASE ~(n \in DOMAIN lines /\ lines[n].kind # "blank")
      BY <1>7, <3>2 DEF EndWarnings
    <3> QED
      BY <3>1, <3>2
  <2>2. Line = lines[n]
    BY DEF Line
  <2> HIDE DEF n, lines
  <2>3. CASE EOF \/ Line.kind = "blank"
    BY <1>2, <1>4, <1>6, <2>1, <2>2, <2>3
  <2>4. CASE ~(EOF \/ Line.kind = "blank")
    BY <1>2, <1>4, <1>6, <2>1, <2>2, <2>4
  <2> QED
    BY <2>3, <2>4
<1> HIDE DEF n, lines, body
<1>9. LineNo' - 1 = 0 /\ LineNo' = 1
  BY <1>2, <1>4 DEF LineNo
<1>10. Body(Lines)' = body /\ End(Lines)' = n /\ Len(body) \in Nat
  BY <1>1, <1>3, <1>6, <1>7, BodyLines DEF body
<1>11. /\ RowsRead(<<>>, body, 0) /\ DayWarnings(body, 0) = {}
       /\ SectionAt(body, 0 + 1) = "none" /\ SectionWarnings(body, 0) = {}
       /\ NoSlots = [slot \in Slots |-> SlotOf(body, 0, slot)]
  BY NothingRead
<1>12. <<>> \in Seq(DaysHeld)'
  BY EmptySeq
<1>13. BodyInv'
  <2>1. /\ (Known(Lines) # {})' /\ parse'.skipped = End(Lines)' /\ parse'.at = "body"
        /\ 0 \in 0 .. Len(body) /\ parse'.h = HeaderOf(Lines, End(Lines) - 1)'
    BY <1>2, <1>3, <1>6, <1>7, <1>10
  <2>2. /\ parse'.rows \in Seq(DaysHeld)' /\ RowsRead(parse'.rows, body, 0)
        /\ parse'.section = SectionAt(body, 0 + 1)
        /\ parse'.acc = [slot \in Slots |-> SlotOf(body, 0, slot)]
    BY <1>3, <1>11, <1>12
  <2>3. parse'.warnings = HeaderWarnings(lines, End(lines) - 1) \cup EndWarnings(lines) \cup
           (IF parse'.file.kind = "daily" THEN DayWarnings(body, 0)
                                          ELSE SectionWarnings(body, 0))
    BY <1>7, <1>8, <1>11
  <2> QED
    BY <1>3, <1>9, <1>10, <2>1, <2>2, <2>3 DEF BodyInv
<1>14. HeaderInv' /\ RefusedInv'
  BY <1>2 DEF HeaderInv, RefusedInv
<1> QED
  BY <1>5, <1>13, <1>14 DEF FileInv

-----------------------------------------------------------------------------
(* The steps through a body.  The reader is at the line below those it has   *)
(* read, or at the end with all of them.                                    *)
LEMMA BodyPlace ==
    ASSUME FileType, BodyInv, FileLines(Lines), parse.at = "body"
    PROVE  LET body == Body(Lines)  n == LineNo - 1 IN
           /\ n \in Nat /\ parse.next \in Nat \ {0} /\ LineNo = n + 1
           /\ Len(body) \in Nat /\ n <= Len(body)
           /\ EOF => n = Len(body)
           /\ ~EOF => /\ n + 1 \in 1 .. Len(body) /\ Line = body[n + 1]
                      /\ parse.next \in DOMAIN Lines /\ Line \in ToSet(Lines)
<1> DEFINE lines == Lines
           body == Body(lines)
           end == End(lines)
           n == LineNo - 1
<1>1. Known(lines) # {} /\ parse.skipped = end /\ n \in 0 .. Len(body)
  BY DEF BodyInv
<1>2. /\ end \in 2 .. Len(lines) + 1 /\ Len(lines) \in Nat /\ Len(body) \in Nat
      /\ Len(body) = (IF end <= Len(lines) THEN Len(lines) - end ELSE 0)
      /\ \A i \in 1 .. Len(body) : body[i] = lines[end + i]
  BY <1>1, BodyLines
<1>3. DOMAIN lines = 1 .. Len(lines)
  BY DEF FileLines
<1>9. parse.next \in Nat \ {0}
  BY DEF FileType
<1>10. end \in 2 .. Len(lines) + 1 /\ Len(lines) \in Nat /\ Len(body) \in Nat
  BY <1>2
<1>4. LineNo = parse.next - end
  BY <1>1 DEF LineNo
<1>8. /\ EOF => parse.next > Len(lines)
      /\ ~EOF => ~(parse.next > Len(lines))
  BY DEF EOF
<1>5. Line = lines[parse.next]
  BY DEF Line
<1> HIDE DEF lines, body, end
<1>6. /\ n \in Nat /\ LineNo = n + 1 /\ n <= Len(body) /\ parse.next = end + (n + 1)
      /\ EOF => n = Len(body)
      /\ ~EOF => n + 1 \in 1 .. Len(body) /\ parse.next \in 1 .. Len(lines)
  <2>6. parse.next \in Int /\ end \in Int
    BY <1>9, <1>10
  <2>1. n = (parse.next - end) - 1 /\ LineNo \in Int
    BY <1>4, <2>6
  <2>2. LineNo = n + 1
    BY <2>1
  <2> HIDE DEF n
  <2>3. n \in Nat /\ n <= Len(body) /\ parse.next = end + (n + 1)
    BY <1>1, <1>10, <2>1, <2>6
  <2>4. CASE EOF
    BY <1>2, <1>8, <2>2, <2>3, <2>4
  <2>5. CASE ~EOF
    <3>1. ~(parse.next > Len(lines))
      BY <1>8, <2>5
    <3>2. parse.next <= Len(lines) /\ Len(lines) \in Nat /\ parse.next \in Nat \ {0}
      BY <1>9, <1>10, <3>1
    <3>3. end <= Len(lines) /\ n + 1 <= Len(lines) - end
      BY <2>3, <2>6, <3>2
    <3>4. n + 1 \in 1 .. Len(body) /\ parse.next \in 1 .. Len(lines)
      BY <1>2, <2>3, <3>2, <3>3
    <3> QED
      BY <2>2, <2>3, <2>5, <3>4
  <2> QED
    BY <2>4, <2>5
<1>7. ~EOF => /\ Line = body[n + 1]
              /\ parse.next \in DOMAIN lines /\ Line \in ToSet(lines)
  <2> HIDE DEF n
  <2> QED
    BY <1>2, <1>3, <1>5, <1>6 DEF ToSet
<1> QED
  BY <1>9, <1>10, <1>6, <1>7 DEF lines, body

(* A line of a daily file: a row, a day that is short of one, or another.   *)
LEMMA DailyStep == ParseInv /\ DailyLine => FileInv'
<1> SUFFICES ASSUME ParseInv, DailyLine PROVE FileInv'
  OBVIOUS
<1> DEFINE n == LineNo - 1
           lines == Lines
           body == Body(lines)
           full == Line.kind = "day" /\ ~(Len(Line.fields) < 4)
           short == Line.kind = "day" /\ Len(Line.fields) < 4
           added == IF short THEN {<<"body", n + 1, "short">>}
                    ELSE IF full THEN {<<"body", n + 1, i>> :
                        i \in {j \in 1 .. 4 : Malformed(Floats, Line.fields[j])}} ELSE {}
<1>1. /\ FileType /\ BodyInv /\ FileLines(lines)
      /\ parse.at = "body" /\ parse.file.kind = "daily" /\ ~EOF
  BY WhereItIs DEF DailyLine, FileInv
<1>2. /\ n \in Nat /\ parse.next \in Nat \ {0} /\ LineNo = n + 1 /\ Len(body) \in Nat
      /\ n + 1 \in 1 .. Len(body) /\ Line = body[n + 1]
      /\ parse.next \in DOMAIN lines /\ Line \in ToSet(lines)
  BY <1>1, BodyPlace
<1>3. /\ parse' = [field \in ParseFields |-> parse'[field]]
      /\ parse'.next = parse.next + 1
      /\ parse'.rows = IF full THEN Append(parse.rows, DailyRow) ELSE parse.rows
      /\ parse'.warnings = parse.warnings \cup added
      /\ \A field \in ParseFields \ {"next", "rows", "warnings"} : parse'[field] = parse[field]
  <2>1. parse = [field \in ParseFields |-> parse[field]]
    BY <1>1 DEF FileType
  <2>2. CASE Line.kind # "day"
    <3>1. parse' = [parse EXCEPT !.next = @ + 1]
      BY <2>2 DEF DailyLine
    <3> QED
      BY <2>1, <2>2, <3>1 DEF ParseFields
  <2>3. CASE short
    <3>1. parse' = [parse EXCEPT !.next = @ + 1,
                                 !.warnings = @ \cup {<<"body", LineNo, "short">>}]
      BY <2>3 DEF DailyLine
    <3> QED
      BY <1>2, <2>1, <2>3, <3>1 DEF ParseFields
  <2>4. CASE full
    <3>1. parse' = [parse EXCEPT
                      !.next = @ + 1, !.rows = Append(@, DailyRow),
                      !.warnings = @ \cup {<<"body", LineNo, i>> :
                          i \in {j \in 1 .. 4 : Malformed(Floats, Line.fields[j])}}]
      BY <2>4 DEF DailyLine
    <3>2. added = {<<"body", LineNo, i>> :
                      i \in {j \in 1 .. 4 : Malformed(Floats, Line.fields[j])}}
      BY <1>2, <2>4
    <3> HIDE DEF added
    <3> QED
      BY <2>1, <2>4, <3>1, <3>2 DEF ParseFields
  <2> QED
    BY <2>2, <2>3, <2>4
<1>4. /\ parse'.file = parse.file /\ parse'.at = "body" /\ parse'.skipped = parse.skipped
      /\ parse'.h = parse.h /\ parse'.section = parse.section
      /\ parse'.started = parse.started /\ parse'.acc = parse.acc /\ Lines' = lines
  BY <1>1, <1>3 DEF ParseFields, Lines
<1>5. FileType'
  <2>1. parse'.next \in Nat \ {0}
    BY <1>2, <1>3
  <2> QED
    BY <1>1, <1>3, <1>4, <2>1 DEF FileType
<1>6. /\ Known(lines) # {} /\ parse.skipped = End(lines)
      /\ parse.h = HeaderOf(lines, End(lines) - 1)
      /\ parse.rows \in Seq(DaysHeld) /\ RowsRead(parse.rows, body, n)
      /\ parse.warnings = HeaderWarnings(lines, End(lines) - 1) \cup EndWarnings(lines)
                             \cup DayWarnings(body, n)
  BY <1>1 DEF BodyInv
<1>7. DailyRow = DayOf(Line) /\ DailyRow \in DaysHeld
  BY <1>2 DEF DailyRow, DayOf, DaysHeld
<1>8. Line.kind = "day" => Len(Line.fields) \in Nat
  BY <1>1, <1>2 DEF FileLines, Line
<1>9. /\ RowsRead(parse'.rows, body, n + 1)
      /\ DayWarnings(body, n + 1) = DayWarnings(body, n) \cup added
      /\ parse'.rows \in Seq(DaysHeld)
  <2>1. /\ Line.kind # "day" =>
              /\ RowsRead(parse.rows, body, n + 1)
              /\ DayWarnings(body, n + 1) = DayWarnings(body, n)
        /\ short =>
              /\ RowsRead(parse.rows, body, n + 1)
              /\ DayWarnings(body, n + 1) =
                    DayWarnings(body, n) \cup {<<"body", n + 1, "short">>}
        /\ full =>
              /\ RowsRead(Append(parse.rows, DayOf(Line)), body, n + 1)
              /\ DayWarnings(body, n + 1) =
                    DayWarnings(body, n) \cup
                      {<<"body", n + 1, c>> : c \in {d \in 1 .. 4 :
                          Malformed(Floats, Line.fields[d])}}
    <3> HIDE DEF n, lines, body
    <3>1. /\ n \in Nat /\ parse.rows \in Seq(DaysHeld) /\ RowsRead(parse.rows, body, n)
          /\ DayOf(body[n + 1]) \in DaysHeld
          /\ body[n + 1].kind = "day" => Len(body[n + 1].fields) \in Nat
      BY <1>2, <1>6, <1>7, <1>8
    <3> QED
      BY SMTT(30), <1>2, <3>1, DaysExtend
  <2>2. CASE Line.kind # "day"
    BY <1>3, <1>6, <2>1, <2>2
  <2>3. CASE short
    BY <1>3, <1>6, <2>1, <2>3
  <2>4. CASE full
    <3>1. Append(parse.rows, DailyRow) \in Seq(DaysHeld)
      BY <1>6, <1>7, AppendProperties
    <3> QED
      BY <1>3, <1>7, <2>1, <2>4, <3>1
  <2> QED
    BY <2>2, <2>3, <2>4
<1> HIDE DEF n, lines, body, added, full
<1>10. LineNo' - 1 = n + 1
  <2>1. End(lines) \in Nat
    BY <1>1, <1>6, BodyLines
  <2> QED
    BY <1>2, <1>3, <1>4, <1>6, <2>1 DEF LineNo, n
<1>11. Body(Lines)' = body /\ DaysHeld' = DaysHeld
  BY <1>4 DEF body, DaysHeld, lines
<1>12. BodyInv'
  <2>1. /\ (Known(Lines) # {})' /\ parse'.skipped = End(Lines)' /\ parse'.at = "body"
        /\ n + 1 \in 0 .. Len(body) /\ parse'.h = HeaderOf(Lines, End(Lines) - 1)'
    BY <1>2, <1>4, <1>6
  <2>2. parse'.rows \in Seq(DaysHeld)' /\ RowsRead(parse'.rows, body, n + 1)
    BY <1>9, <1>11
  <2>3. parse'.warnings = HeaderWarnings(lines, End(lines) - 1) \cup EndWarnings(lines)
                             \cup DayWarnings(body, n + 1)
    BY <1>3, <1>6, <1>9
  <2>4. parse'.file.kind = "daily"
    BY <1>1, <1>4
  <2> QED
    BY <1>4, <1>10, <1>11, <2>1, <2>2, <2>3, <2>4 DEF BodyInv
<1>13. HeaderInv' /\ RefusedInv'
  BY <1>4 DEF HeaderInv, RefusedInv
<1> QED
  BY <1>5, <1>12, <1>13 DEF FileInv

(* A line of a normals file: a title, a row of a section, or another.       *)
LEMMA NormalsStep == ParseInv /\ NormalsLine => FileInv'
<1> SUFFICES ASSUME ParseInv, NormalsLine PROVE FileInv'
  OBVIOUS
<1> DEFINE n == LineNo - 1
           lines == Lines
           body == Body(lines)
           section == parse.section
           label == Line.label
           fields == Line.fields
           inside == Line.kind = "row" /\ section \in Sections
<1>1. /\ FileType /\ BodyInv /\ FileLines(lines)
      /\ parse.at = "body" /\ parse.file.kind = "normals" /\ ~EOF
  BY WhereItIs DEF NormalsLine, FileInv
<1>2. n \in Nat /\ n + 1 \in 1 .. Len(body) /\ LineNo = n + 1
  BY <1>1, BodyPlace
<1>3. parse.next \in Nat \ {0} /\ Line = body[n + 1] /\ Len(body) \in Nat
  BY <1>1, BodyPlace
<1>4. /\ parse' = [field \in ParseFields |-> parse'[field]]
      /\ parse'.next = parse.next + 1
      /\ parse'.section = IF Line.kind = "title" THEN Line.section ELSE section
      /\ parse'.warnings = IF inside THEN parse.warnings \cup MonthlyWarnings(label, fields, LineNo)
                           ELSE parse.warnings
      /\ parse'.acc = IF inside /\ Kept(section, label)
                      THEN [parse.acc EXCEPT ![<<section, label>>] = MonthlyValues(label, fields)]
                      ELSE parse.acc
      /\ \A field \in ParseFields \ {"next", "section", "warnings", "acc"} :
            parse'[field] = parse[field]
  <2>1. parse = [field \in ParseFields |-> parse[field]]
    BY <1>1 DEF FileType
  <2>2. CASE Line.kind = "title"
    <3>1. parse' = [parse EXCEPT !.next = @ + 1, !.section = Line.section]
      BY <2>2 DEF NormalsLine, Title
    <3>2. ~inside
      BY <2>2
    <3> HIDE DEF inside
    <3> QED
      BY <2>1, <2>2, <3>1, <3>2 DEF ParseFields
  <2>3. CASE inside
    <3>1. parse' = [parse EXCEPT
                      !.next = @ + 1,
                      !.warnings = @ \cup MonthlyWarnings(label, fields, LineNo),
                      !.acc = IF Kept(section, label)
                              THEN [@ EXCEPT ![<<section, label>>] = MonthlyValues(label, fields)]
                              ELSE @]
      BY <2>3 DEF NormalsLine, Title
    <3>2. Line.kind # "title"
      BY <2>3
    <3> HIDE DEF inside
    <3> QED
      BY <2>1, <2>3, <3>1, <3>2 DEF ParseFields
  <2>4. CASE Line.kind # "title" /\ ~inside
    <3>1. parse' = [parse EXCEPT !.next = @ + 1]
      BY <2>4 DEF NormalsLine, Title
    <3> HIDE DEF inside
    <3> QED
      BY <2>1, <2>4, <3>1 DEF ParseFields
  <2> QED
    BY <2>2, <2>3, <2>4
<1>5. /\ parse'.file = parse.file /\ parse'.at = "body" /\ parse'.skipped = parse.skipped
      /\ parse'.h = parse.h /\ parse'.rows = parse.rows
      /\ parse'.started = parse.started /\ Lines' = lines
  BY <1>1, <1>4 DEF ParseFields, Lines
<1>6. FileType'
  <2>1. parse'.next \in Nat \ {0}
    BY <1>3, <1>4
  <2> QED
    BY <1>1, <1>4, <1>5, <2>1 DEF FileType
<1>7. /\ Known(lines) # {} /\ parse.skipped = End(lines)
      /\ parse.h = HeaderOf(lines, End(lines) - 1)
      /\ section = SectionAt(body, n + 1)
      /\ parse.acc = [slot \in Slots |-> SlotOf(body, n, slot)]
      /\ parse.warnings = HeaderWarnings(lines, End(lines) - 1) \cup EndWarnings(lines)
                             \cup SectionWarnings(body, n)
  BY <1>1 DEF BodyInv
<1> HIDE DEF n, lines, body, section, label, fields
<1>8. /\ SectionAt(body, n + 2) = parse'.section
      /\ \A slot : SlotOf(body, n + 1, slot) =
            IF inside /\ section = slot[1] /\ label = slot[2]
            THEN MonthlyValues(slot[2], fields) ELSE SlotOf(body, n, slot)
      /\ SectionWarnings(body, n + 1) =
            IF inside THEN SectionWarnings(body, n) \cup MonthlyWarnings(label, fields, n + 1)
            ELSE SectionWarnings(body, n)
  <2>1. label = body[n + 1].label /\ fields = body[n + 1].fields
        /\ (inside <=> body[n + 1].kind = "row" /\ SectionAt(body, n + 1) \in Sections)
        /\ parse'.section = IF body[n + 1].kind = "title" THEN body[n + 1].section
                            ELSE SectionAt(body, n + 1)
    BY <1>3, <1>4, <1>7 DEF label, fields
  <2> DEFINE line == body[n + 1]
             within == line.kind = "row" /\ SectionAt(body, n + 1) \in Sections
  <2>2. /\ SectionAt(body, n + 2) =
              IF line.kind = "title" THEN line.section ELSE SectionAt(body, n + 1)
        /\ \A slot : SlotOf(body, n + 1, slot) =
              IF within /\ SectionAt(body, n + 1) = slot[1] /\ line.label = slot[2]
              THEN MonthlyValues(slot[2], line.fields) ELSE SlotOf(body, n, slot)
        /\ SectionWarnings(body, n + 1) =
              IF within
              THEN SectionWarnings(body, n) \cup MonthlyWarnings(line.label, line.fields, n + 1)
              ELSE SectionWarnings(body, n)
    BY <1>2, SectionsExtend
  <2>3. SectionAt(body, n + 2) = parse'.section /\ (inside <=> within)
    BY <2>1, <2>2
  <2> HIDE DEF inside, within
  <2>4. ASSUME NEW slot
        PROVE  SlotOf(body, n + 1, slot) =
                  IF inside /\ section = slot[1] /\ label = slot[2]
                  THEN MonthlyValues(slot[2], fields) ELSE SlotOf(body, n, slot)
    <3>1. SlotOf(body, n + 1, slot) =
             IF within /\ SectionAt(body, n + 1) = slot[1] /\ line.label = slot[2]
             THEN MonthlyValues(slot[2], line.fields) ELSE SlotOf(body, n, slot)
      BY <2>2
    <3> QED
      BY <1>7, <2>1, <2>3, <3>1
  <2>5. SectionWarnings(body, n + 1) =
           IF inside THEN SectionWarnings(body, n) \cup MonthlyWarnings(label, fields, n + 1)
           ELSE SectionWarnings(body, n)
    BY <2>1, <2>2, <2>3
  <2> QED
    BY <2>3, <2>4, <2>5
<1>9. parse'.acc = [slot \in Slots |-> SlotOf(body, n + 1, slot)]
  <2>1. ASSUME NEW slot \in Slots
        PROVE  /\ Kept(slot[1], slot[2])
               /\ slot = <<section, label>> <=> section = slot[1] /\ label = slot[2]
    BY DEF Slots
  <2>2. CASE inside /\ Kept(section, label)
    <3>1. ASSUME NEW slot \in Slots PROVE parse'.acc[slot] = SlotOf(body, n + 1, slot)
      <4>1. parse'.acc[slot] = IF slot = <<section, label>> THEN MonthlyValues(label, fields)
                               ELSE SlotOf(body, n, slot)
        BY <1>4, <1>7, <2>2
      <4> HIDE DEF inside
      <4>2. CASE slot = <<section, label>>
        BY <1>8, <2>1, <2>2, <4>1, <4>2
      <4>3. CASE slot # <<section, label>>
        BY <1>8, <2>1, <2>2, <4>1, <4>3
      <4> QED
        BY <4>2, <4>3
    <3>2. parse'.acc = [slot \in Slots |-> parse'.acc[slot]]
      BY <1>4, <1>7, <2>2
    <3> QED
      BY <3>1, <3>2
  <2>3. CASE ~(inside /\ Kept(section, label))
    <3>1. parse'.acc = parse.acc
      BY <1>4, <2>3
    <3>2. ASSUME NEW slot \in Slots PROVE SlotOf(body, n + 1, slot) = SlotOf(body, n, slot)
      <4>1. ~(inside /\ section = slot[1] /\ label = slot[2])
        BY <2>1, <2>3
      <4> HIDE DEF inside
      <4> QED
        BY <1>8, <4>1
    <3> QED
      BY <1>7, <3>1, <3>2
  <2> QED
    BY <2>2, <2>3
<1>10. LineNo' - 1 = n + 1 /\ (n + 1) + 1 = n + 2
  <2>1. End(lines) \in Nat
    BY <1>1, <1>7, BodyLines
  <2> QED
    BY SMTT(30), <1>2, <1>3, <1>4, <1>5, <1>7, <2>1 DEF LineNo, n
<1>11. Body(Lines)' = body
  BY <1>5 DEF body, lines
<1>12. parse'.warnings = HeaderWarnings(lines, End(lines) - 1) \cup EndWarnings(lines)
                            \cup SectionWarnings(body, n + 1)
  <2> HIDE DEF inside
  <2>1. CASE inside
    BY <1>2, <1>4, <1>7, <1>8, <2>1
  <2>2. CASE ~inside
    BY <1>2, <1>4, <1>7, <1>8, <2>2
  <2> QED
    BY <2>1, <2>2
<1>13. BodyInv'
  <2>1. /\ (Known(Lines) # {})' /\ parse'.skipped = End(Lines)' /\ parse'.at = "body"
        /\ n + 1 \in 0 .. Len(body) /\ parse'.h = HeaderOf(Lines, End(Lines) - 1)'
    BY <1>2, <1>3, <1>5, <1>7
  <2>2. parse'.section = SectionAt(body, (n + 1) + 1)
    BY <1>8, <1>10
  <2>3. ~(parse'.file.kind = "daily")
    BY <1>1, <1>5
  <2> QED
    BY <1>5, <1>9, <1>10, <1>11, <1>12, <2>1, <2>2, <2>3 DEF BodyInv
<1>14. HeaderInv' /\ RefusedInv'
  BY <1>5 DEF HeaderInv, RefusedInv
<1> QED
  BY <1>6, <1>13, <1>14 DEF FileInv

(* At the end of the file all of it is read.                                *)
LEMMA ReadStep == ParseInv /\ BodyEnds => FileInv'
<1> SUFFICES ASSUME ParseInv, BodyEnds PROVE FileInv'
  OBVIOUS
<1>1. FileType /\ BodyInv /\ FileLines(Lines) /\ parse.at = "body" /\ EOF
  BY WhereItIs DEF BodyEnds, FileInv
<1>2. /\ parse' = [field \in ParseFields |-> parse'[field]]
      /\ parse'.at = "read"
      /\ \A field \in ParseFields \ {"at"} : parse'[field] = parse[field]
  BY <1>1 DEF BodyEnds, FileType, ParseFields
<1>3. /\ parse'.file = parse.file /\ parse'.next = parse.next
      /\ parse'.skipped = parse.skipped /\ parse'.h = parse.h
      /\ parse'.started = parse.started /\ parse'.warnings = parse.warnings
      /\ parse'.rows = parse.rows /\ parse'.section = parse.section
      /\ parse'.acc = parse.acc /\ Lines' = Lines /\ LineNo' = LineNo /\ DaysHeld' = DaysHeld
  BY <1>2 DEF ParseFields, Lines, LineNo, DaysHeld
<1>4. FileType'
  BY <1>1, <1>2, <1>3 DEF FileType
<1>5. LineNo - 1 = Len(Body(Lines))
  BY <1>1, BodyPlace
<1>6. BodyInv'
  BY <1>1, <1>2, <1>3, <1>5 DEF BodyInv
<1>7. HeaderInv' /\ RefusedInv'
  BY <1>2 DEF HeaderInv, RefusedInv
<1> QED
  BY <1>4, <1>6, <1>7 DEF FileInv

-----------------------------------------------------------------------------
(* The steps through a catalog.                                             *)
LEMMA PageStep ==
    \/ parse = Unparsed /\ CatalogStarts
    \/ ParseInv /\ (CatalogRow \/ CatalogEnds)
    => PageInv'
<1>1. ASSUME parse = Unparsed, CatalogStarts PROVE PageInv'
  <2>1. PICK page \in Pages :
           parse' = [at |-> "page", page |-> page, next |-> 1, stations |-> <<>>]
    BY <1>1 DEF CatalogStarts
  <2>2. Len(page) \in Nat
    BY InputsAssumption, LenProperties
  <2>3. {i \in 1 .. 0 : IsDataRow(page[i])} = {} /\ Cardinality({}) = 0 /\ Len(<<>>) = 0
    BY FS_EmptySet
  <2>4. Listed(page, <<>>, 0)
    BY <2>3 DEF Listed
  <2>5. <<>> \in Seq({ParseRow(row) : row \in ToSet(page)})
    BY EmptySeq
  <2>6. /\ parse'.at = "page" /\ parse'.page = page /\ parse'.next = 1
        /\ parse'.stations = <<>> /\ 1 - 1 = 0 /\ 1 \in 1 .. Len(page) + 1
        /\ parse' = [field \in PageFields |-> parse'[field]]
    BY <2>1, <2>2 DEF PageFields
  <2> QED
    BY <2>4, <2>5, <2>6 DEF PageInv
<1>2. ASSUME ParseInv, CatalogRow PROVE PageInv'
  <2> DEFINE page == parse.page
             n == parse.next
             row == page[n]
             All == {ParseRow(r) : r \in ToSet(page)}
  <2>1. PageInv /\ parse.at = "page" /\ n <= Len(page)
    BY <1>2, WhereItIs DEF CatalogRow
  <2>2. /\ page \in Pages /\ n \in 1 .. Len(page) + 1 /\ parse.stations \in Seq(All)
        /\ Listed(page, parse.stations, n - 1)
        /\ parse = [field \in PageFields |-> parse[field]]
    BY <2>1 DEF PageInv
  <2>3. page \in Seq(ToSet(page))
    BY <2>2, InputsAssumption
  <2>4. Len(page) \in Nat /\ DOMAIN page = 1 .. Len(page)
    BY <2>3, LenProperties
  <2>5. n - 1 \in Nat /\ n \in DOMAIN page /\ (n - 1) + 1 = n /\ (n + 1) - 1 = n
        /\ n + 1 \in 1 .. Len(page) + 1
    BY <2>1, <2>2, <2>4
  <2>6. ParseRow(row) \in All
    BY <2>5 DEF ToSet
  <2>7. /\ parse' = [field \in PageFields |-> parse'[field]]
        /\ parse'.at = "page" /\ parse'.page = page /\ parse'.next = n + 1
        /\ parse'.stations = IF IsDataRow(row) THEN Append(parse.stations, ParseRow(row))
                             ELSE parse.stations
    BY <1>2, <2>1, <2>2 DEF CatalogRow, PageFields
  <2> HIDE DEF n, page, All
  <2>8. parse'.stations \in Seq(All)
    <3>1. Append(parse.stations, ParseRow(row)) \in Seq(All)
      BY <2>2, <2>6, AppendProperties
    <3> QED
      BY <2>2, <2>7, <3>1
  <2>9. Listed(page, parse'.stations, n)
    <3>1. IF IsDataRow(page[n])
          THEN Listed(page, Append(parse.stations, ParseRow(page[n])), n)
          ELSE Listed(page, parse.stations, n)
      <4> DEFINE m == n - 1
      <4>1. m \in Nat /\ m + 1 \in DOMAIN page /\ ParseRow(page[m + 1]) \in All
            /\ Listed(page, parse.stations, m) /\ m + 1 = n
        BY <2>2, <2>5, <2>6
      <4> HIDE DEF m
      <4>2. IF IsDataRow(page[m + 1])
            THEN Listed(page, Append(parse.stations, ParseRow(page[m + 1])), m + 1)
            ELSE Listed(page, parse.stations, m + 1)
        BY <2>2, <4>1, ListExtends
      <4> QED
        BY <4>1, <4>2
    <3>2. CASE IsDataRow(row)
      BY <2>7, <3>1, <3>2
    <3>3. CASE ~IsDataRow(row)
      BY <2>7, <3>1, <3>3
    <3> QED
      BY <3>2, <3>3
  <2>10. All = {ParseRow(r) : r \in ToSet(parse'.page)} /\ parse'.page \in Pages
    BY <2>2, <2>7 DEF All
  <2> QED
    BY <2>2, <2>5, <2>7, <2>8, <2>9, <2>10 DEF PageInv
<1>3. ASSUME ParseInv, CatalogEnds PROVE PageInv'
  <2>1. PageInv /\ parse.at = "page" /\ parse.next > Len(parse.page)
    BY <1>3, WhereItIs DEF CatalogEnds
  <2>2. /\ parse' = [field \in PageFields |-> parse'[field]]
        /\ parse'.at = "listed" /\ parse'.page = parse.page /\ parse'.next = parse.next
        /\ parse'.stations = parse.stations
    BY <1>3, <2>1 DEF CatalogEnds, PageInv, PageFields
  <2>3. parse.page \in Seq(ToSet(parse.page))
    BY <2>1, InputsAssumption DEF PageInv
  <2>4. parse.next = Len(parse.page) + 1
    <3>1. Len(parse.page) \in Nat
      BY <2>3, LenProperties
    <3>2. parse.next \in 1 .. Len(parse.page) + 1
      BY <2>1 DEF PageInv
    <3> QED
      BY <2>1, <3>1, <3>2
  <2> QED
    BY <2>1, <2>2, <2>4 DEF PageInv
<1> QED
  BY <1>1, <1>2, <1>3

-----------------------------------------------------------------------------
(* The invariant is kept by every step of every reader.                     *)
LEMMA ParseInvKept == ParseInv /\ [Next]_vars => ParseInv'
<1> SUFFICES ASSUME ParseInv, [Next]_vars PROVE ParseInv'
  OBVIOUS
<1>1. CASE UNCHANGED parse
  BY <1>1 DEF ParseInv, FileInv, FileType, HeaderInv, BodyInv, RefusedInv, Unstarted, Started,
              DaysHeld, PageInv, Lines, LineNo
<1>2. CASE ParseNext
  <2>1. CASE ParseStarts
    BY <2>1, OpenStep DEF ParseStarts, ParseInv
  <2>2. CASE CatalogStarts
    BY <2>2, PageStep DEF CatalogStarts, ParseInv
  <2>3. CASE BeforeHeader
    BY <2>3, PassedStep DEF ParseInv
  <2>4. CASE NoHeaderFound
    BY <2>4, NoFieldStep DEF ParseInv
  <2>5. CASE HeaderField
    BY <2>5, FieldStep DEF ParseInv
  <2>6. CASE RejoinWrappedValue
    BY <2>6, RejoinStep DEF ParseInv
  <2>7. CASE HeaderEnds
    BY <2>7, EndStep DEF ParseInv
  <2>8. CASE DailyLine
    BY <2>8, DailyStep DEF ParseInv
  <2>9. CASE NormalsLine
    BY <2>9, NormalsStep DEF ParseInv
  <2>10. CASE BodyEnds
    BY <2>10, ReadStep DEF ParseInv
  <2>11. CASE CatalogRow \/ CatalogEnds
    BY <2>11, PageStep DEF ParseInv
  <2> QED
    BY <1>2, <2>1, <2>2, <2>3, <2>4, <2>5, <2>6, <2>7, <2>8, <2>9, <2>10, <2>11 DEF ParseNext
<1>3. UNCHANGED parse \/ ParseNext
  BY DEF Next, vars, Terminated
<1> QED
  BY <1>1, <1>2, <1>3

(* Counted from the end of the header, a day's warning keeps its line.      *)
LEMMA WarnedFromZero ==
    ASSUME NEW body, NEW n \in Nat
    PROVE  {<<w[1], 0 + w[2], w[3]>> : w \in DayWarnings(body, n)} = DayWarnings(body, n)
<1>1. \A w \in DayWarnings(body, n) :
         w = <<w[1], w[2], w[3]>> /\ w[2] \in Int
  BY DEF DayWarnings, FullDays
<1>2. \A w \in DayWarnings(body, n) : <<w[1], 0 + w[2], w[3]>> = w
  BY <1>1
<1> HIDE DEF DayWarnings
<1> QED
  BY <1>2

(* What it says of a reader that has ended is what was to be read.          *)
LEMMA ParseInvSays == ParseInv => ParsedAsPublished
<1> SUFFICES ASSUME ParseInv PROVE ParsedAsPublished
  OBVIOUS
<1>1. ParseInv => \/ parse.at = "idle"
                  \/ FileInv /\ parse.at \in {"header", "body", "read", "refused"}
                  \/ PageInv /\ parse.at \in {"page", "listed"}
  BY DEF ParseInv, Unparsed, FileInv, FileType, PageInv
<1>2. CASE parse.at = "read"
  <2>1. FileType /\ BodyInv
    BY <1>1, <1>2 DEF FileInv
  <2>2. \A slot \in Slots :
           parse.file.kind # "daily" =>
              parse.acc[slot] = SlotOf(Body(Lines), Len(Body(Lines)), slot)
    BY <1>2, <2>1 DEF BodyInv
  <2>3. Len(Body(Lines)) \in Nat /\ LineNo - 1 = Len(Body(Lines))
    BY <1>2, <2>1 DEF BodyInv
  <2>4. DayWarnings(Body(Lines), Len(Body(Lines))) =
           {<<w[1], 0 + w[2], w[3]>> : w \in DayWarnings(Body(Lines), Len(Body(Lines)))}
    BY <2>3, WarnedFromZero
  <2>5. \E start \in {0, End(Lines)} :
           parse.warnings =
               HeaderWarnings(Lines, End(Lines) - 1) \cup EndWarnings(Lines) \cup
               (IF parse.file.kind = "daily"
                THEN {<<w[1], start + w[2], w[3]>> :
                         w \in DayWarnings(Body(Lines), Len(Body(Lines)))}
                ELSE SectionWarnings(Body(Lines), Len(Body(Lines))))
    <3>1. parse.warnings =
              HeaderWarnings(Lines, End(Lines) - 1) \cup EndWarnings(Lines) \cup
              (IF parse.file.kind = "daily"
               THEN DayWarnings(Body(Lines), Len(Body(Lines)))
               ELSE SectionWarnings(Body(Lines), Len(Body(Lines))))
      BY <1>2, <2>1, <2>3 DEF BodyInv
    <3> WITNESS 0 \in {0, End(Lines)}
    <3> QED
      BY <2>4, <3>1
  <2> QED
    BY <1>2, <2>1, <2>2, <2>3, <2>5 DEF ParsedAsPublished, BodyInv, FileType, Lines
<1>3. CASE parse.at = "refused"
  BY <1>1, <1>3 DEF FileInv, RefusedInv, ParsedAsPublished, Lines
<1>4. CASE parse.at = "listed"
  <2>1. PageInv
    BY <1>1, <1>4
  <2>2. parse.page \in Seq(ToSet(parse.page))
    BY <2>1, InputsAssumption DEF PageInv
  <2>3. Len(parse.page) \in Nat /\ DOMAIN parse.page = 1 .. Len(parse.page)
    BY <2>2, LenProperties
  <2>4. parse.next = Len(parse.page) + 1
    BY <1>4, <2>1 DEF PageInv
  <2>5. parse.next - 1 = Len(parse.page)
    BY <2>3, <2>4
  <2>6. Listed(parse.page, parse.stations, Len(parse.page))
    BY <2>1, <2>5 DEF PageInv
  <2>7. DataRows(parse.page) = {i \in 1 .. Len(parse.page) : IsDataRow(parse.page[i])}
    BY <2>3 DEF DataRows
  <2> QED
    BY <1>4, <2>6, <2>7 DEF ParsedAsPublished, Listed
<1>5. CASE parse.at \notin {"read", "refused", "listed"}
  BY <1>5 DEF ParsedAsPublished
<1> QED
  BY <1>2, <1>3, <1>4, <1>5

(* A parser reads of every file, and of every catalog page, what its lines   *)
(* as a whole amount to, or refuses it for the reasons there are           *)
(* (internal/conagua).                                                      *)
THEOREM FileAsPublished == Spec => []ParsedAsPublished
<1>1. Init => ParseInv
  BY DEF Init, ParseInit, ParseInv
<1> QED
  BY <1>1, ParseInvKept, ParseInvSays, PTL DEF Spec
=============================================================================
