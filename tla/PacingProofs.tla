---------------------------- MODULE PacingProofs ----------------------------
(***************************************************************************)
(* The limiter's guarantees, for every validated rest range, every floor   *)
(* and cap, and every sampler.                                             *)
(***************************************************************************)
EXTENDS Pacing, TLAPS

USE IntervalAssumption, RestAssumption

(* The floor is applied last: no sample and no cap undercuts it.           *)
LEMMA DelayFloor ==
    ASSUME NEW raw \in Samples
    PROVE  SampleDelay(raw) \in Nat /\ SampleDelay(raw) >= MinInterval
BY DEF SampleDelay, Greater, Lesser

(* max(0, n) is a count.                                                   *)
LEMMA AboveZero ==
    ASSUME NEW n \in Int
    PROVE  Greater(0, n) \in Nat
BY DEF Greater

(* A limiter that has served nothing is its whole cadence from a rest.     *)
LEMMA UntilFirstRest ==
    ASSUME NEW n \in Nat, NEW c \in Nat, c <= 0
    PROVE  Greater(0, n - c) = n /\ c <= n
BY DEF Greater

(* The limiter starts with no request made and a first rest drawn.         *)
LEMMA InitPacingInv == Init => PacingInv
BY DEF Init, PacingInv, TypeOK, CountsServed, WaitsLongEnough, RestsComeInTime,
       NoWait, SampleRestEvery, Greater

(* Before the first tick there is no wait.                                 *)
LEMMA NoWaitType == NoWait \in [fired : BOOLEAN, total : Nat]
BY DEF NoWait

(* What one tick of the limiter does to the counters, and the wait it      *)
(* returns.                                                                *)
TickRests ==
    /\ count >= nextRestAt /\ count' = 1 /\ nextRestAt' \in SampleRestEvery
    /\ \E raw \in Samples, rest \in SampleRestDuration :
          wait' = [fired |-> TRUE, total |-> SampleDelay(raw) + rest]

TickPaces ==
    /\ count < nextRestAt /\ count' = count + 1 /\ nextRestAt' = nextRestAt
    /\ \E raw \in Samples :
          wait' = [fired |-> FALSE, total |-> SampleDelay(raw)]

(* A tick either rests or paces.                                           *)
LEMMA TickCases == NextWait => TickRests \/ TickPaces
BY DEF NextWait, TickRests, TickPaces

(* The wait of a tick is never below the floor.                            *)
LEMMA TickWait ==
    ASSUME NextWait
    PROVE  wait' \in [fired : BOOLEAN, total : Nat] /\ wait'.total >= MinInterval
<1>1. CASE TickRests
  <2> PICK raw \in Samples, rest \in SampleRestDuration :
             wait' = [fired |-> TRUE, total |-> SampleDelay(raw) + rest]
    BY <1>1 DEF TickRests
  <2>1. rest \in Nat
    BY DEF SampleRestDuration
  <2> QED
    BY <2>1, DelayFloor
<1>2. CASE TickPaces
  BY <1>2, DelayFloor DEF TickPaces
<1> QED
  BY <1>1, <1>2, TickCases

(* A wait says whether it holds a rest.                                    *)
LEMMA TickFired ==
    /\ TickRests => wait'.fired
    /\ TickPaces => ~wait'.fired
BY DEF TickRests, TickPaces

(* The counters before and after a tick.                                   *)
LEMMA TickCounts ==
    ASSUME PacingInv, NextWait
    PROVE  /\ count = served /\ count \in Nat
           /\ nextRestAt \in SampleRestEvery /\ nextRestAt \in Nat
           /\ nextRestAt' \in SampleRestEvery /\ nextRestAt' \in Nat
           /\ count' \in 0 .. RestEveryMax /\ count' <= nextRestAt'
<1>1. /\ count = served /\ count \in Nat
      /\ nextRestAt \in SampleRestEvery /\ nextRestAt \in Nat
  BY DEF PacingInv, TypeOK, CountsServed, NextWait, SampleRestEvery
<1>2. CASE TickRests
  BY <1>1, <1>2 DEF TickRests, SampleRestEvery
<1>3. CASE TickPaces
  BY <1>1, <1>3 DEF TickPaces, SampleRestEvery
<1> QED
  BY <1>2, <1>3, TickCases, <1>1

(* Every step keeps the types.                                             *)
LEMMA TypeOKStep == PacingInv /\ [Next]_vars => TypeOK'
<1> SUFFICES ASSUME TypeOK, PacingInv, [Next]_vars PROVE TypeOK'
  BY DEF PacingInv
<1> USE DEF limiterVars
<1>1. phase' \in {"down", "catalog", "idle", "waiting"} /\ pages' \in 0 .. Pages
  BY DEF TypeOK, Next, vars, Start, CatalogPage, CatalogDone, NextWait, Send, Stop
<1>2. count' \in 0 .. RestEveryMax /\ nextRestAt' \in SampleRestEvery
  <2>1. CASE NextWait
    BY <2>1, TickCounts
  <2>2. CASE ~NextWait
    BY <2>2 DEF TypeOK, Next, vars, Start, CatalogPage, CatalogDone, Send, Stop
  <2> QED
    BY <2>1, <2>2
<1>3. until' \in Nat
  <2>1. CASE NextWait
    <3>1. until' = Greater(0, nextRestAt' - count')
      BY <2>1 DEF NextWait
    <3>2. nextRestAt' - count' \in Int
      BY <1>2 DEF SampleRestEvery
    <3> QED
      BY <3>1, <3>2, AboveZero
  <2>2. CASE ~NextWait
    BY <1>2, <2>2 DEF TypeOK, Next, vars, Start, CatalogPage, CatalogDone, Send,
                      Stop, SampleRestEvery
  <2> QED
    BY <2>1, <2>2
<1>4. wait' \in [fired : BOOLEAN, total : Nat]
  <2>1. CASE NextWait
    BY <2>1, TickWait
  <2>2. CASE ~NextWait
    BY <2>2, NoWaitType DEF TypeOK, Next, vars, Start, CatalogPage, CatalogDone,
                            Send, Stop
  <2> QED
    BY <2>1, <2>2
<1>5. gap' \in Nat
  BY DEF TypeOK, Next, vars, Start, CatalogPage, CatalogDone, NextWait, Send, Stop,
         Greater
<1>6. served' \in Nat
  BY DEF TypeOK, Next, vars, Start, CatalogPage, CatalogDone, NextWait, Send, Stop
<1>7. first' \in BOOLEAN
  BY DEF TypeOK, Next, vars, Start, CatalogPage, CatalogDone, NextWait, Send, Stop
<1> QED
  BY <1>1, <1>2, <1>3, <1>4, <1>5, <1>6, <1>7 DEF TypeOK

(* The count and the requests sent stay one apart while a wait is slept.   *)
LEMMA CountsStep == PacingInv /\ [Next]_vars => CountsServed'
<1> SUFFICES ASSUME PacingInv, [Next]_vars PROVE CountsServed'
  OBVIOUS
<1> USE DEF PacingInv, CountsServed, limiterVars
<1>1. CASE Start
  <2>1. nextRestAt' \in Nat /\ count' = 0
    BY <1>1 DEF Start, SampleRestEvery
  <2>2. until' = nextRestAt' /\ served' = 0 /\ phase' = "catalog"
    BY <1>1 DEF Start
  <2>3. until' = Greater(0, nextRestAt' - count') /\ count' <= nextRestAt'
    BY <2>1, <2>2, UntilFirstRest
  <2> QED
    BY <2>1, <2>2, <2>3
<1>2. CASE CatalogPage \/ CatalogDone
  BY <1>2 DEF CatalogPage, CatalogDone
<1>3. CASE NextWait
  <2>1. phase' = "waiting" /\ served' = served
        /\ until' = Greater(0, nextRestAt' - count')
    BY <1>3 DEF NextWait
  <2>2. count' = IF wait'.fired THEN 1 ELSE served' + 1
    <3>1. count = served
      BY <1>3, TickCounts
    <3> QED
      BY <1>3, <2>1, <3>1, TickCases, TickFired DEF TickRests, TickPaces
  <2>3. count' <= nextRestAt'
    BY <1>3, TickCounts
  <2> QED
    BY <2>1, <2>2, <2>3
<1>4. CASE Send
  BY <1>4 DEF Send
<1>5. CASE Stop
  BY <1>5 DEF Stop
<1>6. CASE UNCHANGED vars
  BY <1>6 DEF vars
<1> QED
  BY <1>1, <1>2, <1>3, <1>4, <1>5, <1>6 DEF Next

(* The invariant of pacing is inductive.                                   *)
LEMMA PacingInvStep == PacingInv /\ [Next]_vars => PacingInv'
<1> SUFFICES ASSUME PacingInv, [Next]_vars PROVE PacingInv'
  OBVIOUS
<1>1. WaitsLongEnough'
  <2>1. CASE NextWait
    BY <2>1, TickWait DEF WaitsLongEnough
  <2>2. CASE ~NextWait
    BY <2>2 DEF PacingInv, WaitsLongEnough, Next, vars, Start, CatalogPage,
                CatalogDone, Send, Stop
  <2> QED
    BY <2>1, <2>2
<1>2. RestsComeInTime'
  <2>1. CASE Send
    BY <2>1 DEF Send, PacingInv, TypeOK, CountsServed, RestsComeInTime
  <2>2. CASE ~Send
    BY <2>2 DEF PacingInv, RestsComeInTime, Next, vars, Start, CatalogPage,
                CatalogDone, NextWait, Stop
  <2> QED
    BY <2>1, <2>2
<1> QED
  BY <1>1, <1>2, TypeOKStep, CountsStep DEF PacingInv

(* The types, the count against the requests sent, the floor under every   *)
(* wait and the bound on requests between two rests hold of every run      *)
(* (rate.go NextWait).                                                     *)
THEOREM PacingInductive == Spec => []PacingInv
BY InitPacingInv, PacingInvStep, PTL DEF Spec

(* No more than RestEveryMax requests go out without a rest.               *)
THEOREM RestsInTime == Spec => []RestsComeInTime
<1>1. PacingInv => RestsComeInTime
  BY DEF PacingInv
<1> QED
  BY <1>1, PacingInductive, PTL

(* A rest is taken exactly when the tick before announced it.              *)
THEOREM RestsAnnounced == Spec => RestsAsAnnounced
<1>1. PacingInv /\ [Next]_vars =>
         [phase = "idle" /\ phase' = "waiting" =>
             /\ wait'.fired <=> until = 0
             /\ wait'.fired => served \in SampleRestEvery]_vars
  <2> SUFFICES ASSUME PacingInv, NextWait
               PROVE  /\ wait'.fired <=> until = 0
                      /\ wait'.fired => served \in SampleRestEvery
    BY DEF Next, vars, Start, CatalogPage, CatalogDone, Send, Stop
  <2>1. count <= nextRestAt /\ until = Greater(0, nextRestAt - count)
    BY DEF PacingInv, CountsServed
  <2>2. CASE TickRests
    <3>1. count = nextRestAt
      BY <2>1, <2>2, TickCounts DEF TickRests
    <3>2. until = 0 /\ served \in SampleRestEvery
      BY <2>1, <3>1, TickCounts DEF Greater
    <3> QED
      BY <2>2, <3>2, TickFired
  <2>3. CASE TickPaces
    <3>1. until # 0
      BY <2>1, <2>3, TickCounts DEF Greater, TickPaces
    <3> QED
      BY <2>3, <3>1, TickFired
  <2> QED
    BY <2>2, <2>3, TickCases
<1> QED
  BY <1>1, PacingInductive, PTL DEF Spec, RestsAsAnnounced

(* Under a catalog delay no shorter than the floor, which the code does    *)
(* not ask for, no two requests of a run are closer than the floor.        *)
THEOREM CapHolds ==
    ASSUME CatalogDelay >= MinInterval
    PROVE  Spec => []NeverExceedsCap
<1>1. Init => NeverExceedsCap
  BY DEF Init, NeverExceedsCap
<1>2. PacingInv /\ NeverExceedsCap /\ [Next]_vars => NeverExceedsCap'
  <2> SUFFICES ASSUME PacingInv, NeverExceedsCap, [Next]_vars
               PROVE  NeverExceedsCap'
    OBVIOUS
  <2> USE DEF NeverExceedsCap
  <2>1. CASE Start
    BY <2>1 DEF Start
  <2>2. CASE CatalogPage
    BY <2>2 DEF CatalogPage, Greater
  <2>3. CASE Send
    BY <2>3 DEF Send, PacingInv, TypeOK, WaitsLongEnough
  <2>4. CASE CatalogDone \/ NextWait \/ Stop \/ UNCHANGED vars
    BY <2>4 DEF CatalogDone, NextWait, Stop, vars
  <2> QED
    BY <2>1, <2>2, <2>3, <2>4 DEF Next
<1> QED
  BY <1>1, <1>2, PacingInductive, PTL DEF Spec
=============================================================================
