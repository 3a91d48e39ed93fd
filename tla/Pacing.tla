------------------------------- MODULE Pacing -------------------------------
(***************************************************************************)
(* The stream of requests a pull sends to the server: the catalog pages,   *)
(* spaced by a fixed sleep (internal/cmd/pull.go), then the attempts of    *)
(* the fetcher, each after a wait of the rate limiter                      *)
(* (internal/fetcher/rate.go).  Time is counted in units of the instance;  *)
(* only differences matter.  A run may end at any moment; the next one     *)
(* begins with a new limiter and walks the catalog again.                  *)
(***************************************************************************)
EXTENDS Integers

CONSTANTS MinInterval,      \* 1/MaxRPS, never below 1/HardMaxRPS
          MaxInterval,      \* the cap on a sampled interval
          Samples,          \* what the Normal sampler may return
          RestEveryMin, RestEveryMax,
          RestDurationMin, RestDurationMax,
          CatalogDelay,     \* --catalog-delay
          Pages,            \* catalog pages of a run
          Lags              \* time the server and the backoff may take

(* Lags are durations; RestEvery and RestDuration are what Validate lets   *)
(* through.  Nothing is assumed of MaxInterval: the floor must hold "even  *)
(* for a Limiter holding a config Validate never saw".                     *)
ASSUME IntervalAssumption ==
    /\ MinInterval \in Nat \ {0}
    /\ MaxInterval \in Int
    /\ Samples \subseteq Int
    /\ CatalogDelay \in Int
    /\ Lags \subseteq Nat
    /\ Pages \in Nat
ASSUME RestAssumption ==
    /\ RestEveryMin \in Nat \ {0} /\ RestEveryMax \in Nat
    /\ RestEveryMin <= RestEveryMax
    /\ RestDurationMin \in Nat /\ RestDurationMax \in Nat
    /\ RestDurationMin <= RestDurationMax

VARIABLES phase,       \* what the run is doing
          pages,       \* catalog pages still to ask for
          count,       \* Limiter.count
          nextRestAt,  \* Limiter.nextRestAt
          until,       \* the last announced UntilNextRest
          wait,        \* the WaitInfo being slept
          gap,         \* time from the request before the last to the last
          served,      \* paced requests sent since the last rest
          first        \* no request of this run has been sent

limiterVars == <<count, nextRestAt, until>>
vars == <<phase, pages, limiterVars, wait, gap, served, first>>

NoWait == [fired |-> FALSE, total |-> 0]

Greater(a, b) == IF a > b THEN a ELSE b
Lesser(a, b)  == IF a < b THEN a ELSE b

-----------------------------------------------------------------------------
(* A slip NeverExceedsCap must catch: the cap is applied after the floor.  *)
SampleDelayCappedLast(raw) == Lesser(Greater(raw, MinInterval), MaxInterval)

(* sampleDelay: capped first, so that nothing undercuts the floor.         *)
SampleDelay(raw) == Greater(Lesser(raw, MaxInterval), MinInterval)

(* sampleRestEvery, sampleRestDuration: uniform, so any value.             *)
SampleRestEvery    == RestEveryMin .. RestEveryMax
SampleRestDuration == RestDurationMin .. RestDurationMax

Init ==
    /\ phase = "down"
    /\ pages = 0
    /\ count = 0
    /\ nextRestAt \in SampleRestEvery
    /\ until = nextRestAt
    /\ wait = NoWait
    /\ gap = MinInterval
    /\ served = 0
    /\ first = TRUE

(* A run begins: nothing of an earlier run's pacing is kept, and the time  *)
(* since its last request is unknown.                                      *)
Start ==
    /\ phase = "down"
    /\ phase' = "catalog"
    /\ pages' = Pages
    /\ count' = 0
    /\ nextRestAt' \in SampleRestEvery
    /\ until' = nextRestAt'
    /\ wait' = NoWait
    /\ gap' = MinInterval
    /\ served' = 0
    /\ first' = TRUE

(* One catalog page; before every page but the first, sleep(CatalogDelay), *)
(* which returns at once when the delay is not positive.                   *)
CatalogPage ==
    /\ phase = "catalog"
    /\ pages > 0
    /\ pages' = pages - 1
    /\ \E lag \in Lags :
          gap' = IF first THEN gap ELSE Greater(CatalogDelay, 0) + lag
    /\ first' = FALSE
    /\ UNCHANGED <<phase, limiterVars, wait, served>>

CatalogDone ==
    /\ phase = "catalog"
    /\ pages = 0
    /\ phase' = "idle"
    /\ UNCHANGED <<pages, limiterVars, wait, gap, served, first>>

(* Slips of NextWait: the rest comes one request late; the new cadence is  *)
(* drawn but the count is not reset.                                       *)
NextWaitLate ==
    /\ phase = "idle"
    /\ phase' = "waiting"
    /\ \E raw \in Samples :
          \/ /\ count > nextRestAt
             /\ count' = 1
             /\ nextRestAt' \in SampleRestEvery
             /\ \E rest \in SampleRestDuration :
                   wait' = [fired |-> TRUE, total |-> SampleDelay(raw) + rest]
          \/ /\ count <= nextRestAt
             /\ count' = count + 1
             /\ UNCHANGED nextRestAt
             /\ wait' = [fired |-> FALSE, total |-> SampleDelay(raw)]
    /\ until' = Greater(0, nextRestAt' - count')
    /\ UNCHANGED <<pages, gap, served, first>>

NextWaitUnreset ==
    /\ phase = "idle"
    /\ phase' = "waiting"
    /\ \E raw \in Samples :
          \/ /\ count >= nextRestAt
             /\ count' = count
             /\ nextRestAt' \in SampleRestEvery
             /\ \E rest \in SampleRestDuration :
                   wait' = [fired |-> TRUE, total |-> SampleDelay(raw) + rest]
          \/ /\ count < nextRestAt
             /\ count' = count + 1
             /\ UNCHANGED nextRestAt
             /\ wait' = [fired |-> FALSE, total |-> SampleDelay(raw)]
    /\ until' = Greater(0, nextRestAt' - count')
    /\ UNCHANGED <<pages, gap, served, first>>

(* Limiter.NextWait, at the start of Limiter.Wait: every attempt takes a   *)
(* tick, the first of a task and the retries alike.                        *)
NextWait ==
    /\ phase = "idle"
    /\ phase' = "waiting"
    /\ \E raw \in Samples :
          \/ /\ count >= nextRestAt
             /\ count' = 1
             /\ nextRestAt' \in SampleRestEvery
             /\ \E rest \in SampleRestDuration :
                   wait' = [fired |-> TRUE, total |-> SampleDelay(raw) + rest]
          \/ /\ count < nextRestAt
             /\ count' = count + 1
             /\ UNCHANGED nextRestAt
             /\ wait' = [fired |-> FALSE, total |-> SampleDelay(raw)]
    /\ until' = Greater(0, nextRestAt' - count')
    /\ UNCHANGED <<pages, gap, served, first>>

(* The timer fires and the attempt's request goes out.                     *)
Send ==
    /\ phase = "waiting"
    /\ phase' = "idle"
    /\ \E lag \in Lags : gap' = IF first THEN gap ELSE wait.total + lag
    /\ served' = IF wait.fired THEN 1 ELSE served + 1
    /\ first' = FALSE
    /\ wait' = NoWait
    /\ UNCHANGED <<pages, limiterVars>>

(* The run ends: the plan is done, the catalog failed, the context cut a   *)
(* wait, or the process died.                                              *)
Stop ==
    /\ phase # "down"
    /\ phase' = "down"
    /\ wait' = NoWait
    /\ UNCHANGED <<pages, limiterVars, gap, served, first>>

Next == Start \/ CatalogPage \/ CatalogDone \/ NextWait \/ Send \/ Stop

Spec == Init /\ [][Next]_vars

-----------------------------------------------------------------------------
TypeOK ==
    /\ phase \in {"down", "catalog", "idle", "waiting"}
    /\ pages \in 0 .. Pages
    /\ count \in 0 .. RestEveryMax
    /\ nextRestAt \in SampleRestEvery
    /\ until \in Nat
    /\ wait \in [fired : BOOLEAN, total : Nat]
    /\ gap \in Nat
    /\ served \in Nat
    /\ first \in BOOLEAN

(* README.md: requests "can never exceed five per second whatever the      *)
(* flags say": two consecutive requests of a run are never closer than the *)
(* interval floor.                                                         *)
NeverExceedsCap == gap >= MinInterval

(* A rest comes after at most RestEveryMax requests: neither retries, nor  *)
(* the tick of a rest itself, let the client run on without one.           *)
RestsComeInTime == served <= RestEveryMax

(* "0 means the next tick will rest": a wait includes a rest exactly when  *)
(* the one before announced it, and then between RestEveryMin and          *)
(* RestEveryMax requests have been sent since the last.                    *)
RestsAsAnnounced ==
    [][phase = "idle" /\ phase' = "waiting" =>
          /\ wait'.fired <=> until = 0
          /\ wait'.fired => served \in SampleRestEvery]_vars

(* The parts of the inductive invariant that are not properties above: the *)
(* limiter counts the request whose wait is being slept as sent.           *)
CountsServed ==
    /\ phase = "waiting" => count = IF wait.fired THEN 1 ELSE served + 1
    /\ phase \in {"catalog", "idle"} => count = served
    /\ phase = "catalog" => served = 0
    /\ until = Greater(0, nextRestAt - count)
    /\ count <= nextRestAt

WaitsLongEnough == phase = "waiting" => wait.total >= MinInterval

PacingInv == TypeOK /\ CountsServed /\ WaitsLongEnough /\ RestsComeInTime
=============================================================================
