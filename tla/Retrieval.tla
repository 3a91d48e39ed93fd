------------------------------ MODULE Retrieval ------------------------------
(***************************************************************************)
(* One cell's data from NASA POWER (internal/power client.go, rollup.go,   *)
(* grid.go and the supplement writers): the parameters are asked for in    *)
(* batches, each retried while the answer may change, the answers merged,  *)
(* folded by month or by date, converted and written as rows.              *)
(*                                                                         *)
(* A key is the tuple of its numbers: year and month, or year, month and   *)
(* day; anything else is another tuple.  A mean is the sum and the count   *)
(* of what it averages, and of angles the angles themselves.               *)
(***************************************************************************)
EXTENDS Integers, Sequences, FiniteSets, SequencesExt

CONSTANTS Registry,     \* of each parameter its column, factor and whether
                        \* it is a direction
          Served,       \* Served[form][p]: what POWER holds, by key
          Requests,     \* the requests made, with the station's place
          BatchCap,     \* MaxParametersPerRequestMonthly, -Daily
          MaxAttempts   \* 4

ASSUME RetrievalAssumption ==
    /\ \A p \in DOMAIN Registry : Registry[p].factor \in Int
    /\ BatchCap \in [{"monthly", "daily"} -> Nat \ {0}]
    /\ MaxAttempts \in Nat \ {0}

(* Requests are sequences of parameters over whole years or, as the verb's   *)
(* flags are parsed, over dates with dashes (cmd/power.go:116); the keys     *)
(* POWER answers with are tuples of numbers.                                *)
ASSUME RequestsAssumption ==
    /\ \A request \in Requests :
          /\ request.params \in Seq(ToSet(request.params))
          /\ {request.first, request.last} \subseteq Int
          /\ {request.place.lat, request.place.lon} \subseteq Int
          /\ "plain" \notin {request.from.shape, request.to.shape}
    /\ \A form \in {"monthly", "daily"} : \A p \in DOMAIN Served[form] :
          DOMAIN Served[form][p] \subseteq Seq(Int)

VARIABLE get

Fill == -999
OtherFill == -99

-----------------------------------------------------------------------------
(* CellFor: the grid is 0.5 by 0.625 degrees, here in thousandths; half a   *)
(* step rounds away from zero.                                              *)
LatStep == 500
LonStep == 625
Snap(x, step) == IF x < 0 THEN -(((-2 * x + step) \div (2 * step)) * step)
                          ELSE ((2 * x + step) \div (2 * step)) * step
Hemisphere(x, pair) == IF x < 0 THEN <<-x, pair[2]>> ELSE <<x, pair[1]>>
CellID(lat, lon) == Hemisphere(lat, <<"N", "S">>) \o Hemisphere(lon, <<"E", "W">>)
CellFor(place) ==
    LET lat == Snap(place.lat, LatStep)  lon == Snap(place.lon, LonStep)
    IN [id |-> CellID(lat, lon), lat |-> lat, lon |-> lon]

-----------------------------------------------------------------------------
(* normalizeDailyDate takes two shapes of date and no other.                *)
Dated(date) == date.shape \in {"dashed", "plain"}
Precedes(k, l) == \E i \in DOMAIN k : k[i] < l[i] /\ \A j \in 1 .. i - 1 : k[j] = l[j]

(* ExtractDaily compares its dashed dates with the window's as texts, where *)
(* a dash is before every digit.                                            *)
BeforeFrom(k, from) == IF from.shape = "dashed" THEN Precedes(k, from.day)
                                                ELSE k[1] <= from.day[1]
AfterTo(k, to) == IF to.shape = "dashed" THEN Precedes(to.day, k)
                                         ELSE k[1] > to.day[1]
InWindow(request, k) == ~BeforeFrom(k, request.from) /\ ~AfterTo(k, request.to)

(* FetchRequest.Validate: years or dates, not both, and in order.           *)
NoDate == [shape |-> "none"]
Years(request) == <<request.first, request.last>> # <<0, 0>>
DateRange(request)  == request.from # NoDate \/ request.to # NoDate
Form(request)  == IF Years(request) THEN "monthly" ELSE "daily"
Valid(request) ==
    /\ request.params # <<>>
    /\ Years(request) # DateRange(request)
    /\ Years(request) => request.first > 0 /\ request.last >= request.first
    /\ DateRange(request) => /\ Dated(request.from) /\ Dated(request.to)
                        /\ ~Precedes(request.to.day, request.from.day)

(* FetchBatched: the parameters in order, BatchCap at a time.               *)
Batches(params, batchCap) ==
    [i \in 1 .. (Len(params) + batchCap - 1) \div batchCap |->
        SubSeq(params, (i - 1) * batchCap + 1,
               IF i * batchCap < Len(params) THEN i * batchCap ELSE Len(params))]

(* parseYYYYMM drops the thirteenth month, POWER's mean of the year.        *)
parseYYYYMM(k)   == Len(k) = 2 /\ k[2] \in 1 .. 12
parseYYYYMMDD(k) == Len(k) = 3 /\ k[2] \in 1 .. 12 /\ k[3] \in 1 .. 31

(* A slip of Counted: every key of the window counts.                       *)
AllCounted(request, series, fill) ==
    {k \in DOMAIN series :
        /\ series[k] # fill
        /\ IF Form(request) = "monthly"
           THEN Len(k) = 2 /\ k[1] \in request.first .. request.last
           ELSE parseYYYYMMDD(k) /\ InWindow(request, k)}

(* The keys of a series that count: parsed, in the window, not the fill.    *)
Counted(request, series, fill) ==
    {k \in DOMAIN series :
        /\ series[k] # fill
        /\ IF Form(request) = "monthly"
           THEN parseYYYYMM(k) /\ k[1] \in request.first .. request.last
           ELSE parseYYYYMMDD(k) /\ InWindow(request, k)}

(* RollUp folds the years of a month; ExtractDaily keeps each date.         *)
SumAt(series, keys) == MapThenSumSet(LAMBDA k : series[k], keys)
RowOf(request, k) == IF Form(request) = "monthly" THEN k[2] ELSE k
Mean(param, series, keys) ==
    IF Registry[param].circular THEN <<{<<k, series[k]>> : k \in keys}, Cardinality(keys)>>
    ELSE <<Registry[param].factor * SumAt(series, keys), Cardinality(keys)>>
RollUp(request, series, fill, param) ==
    LET counted == Counted(request, series, fill) IN
    [row \in {RowOf(request, k) : k \in counted} |->
        Mean(param, series, {k \in counted : RowOf(request, k) = row})]

(* writeSupplement, writeDailySupplement: a row for each month or date that *)
(* some column has a value for.                                             *)
Columns(folded) == DOMAIN folded \cap DOMAIN Registry
Rows(folded) ==
    {[row |-> row,
      values |-> [p \in {q \in Columns(folded) : row \in DOMAIN folded[q]} |->
                     folded[p][row]]] :
        row \in UNION {DOMAIN folded[p] : p \in Columns(folded)}}

-----------------------------------------------------------------------------
(* The client.  asked is the log of its requests and their answers.         *)
Unasked == [at |-> "idle"]
GetInit == get = Unasked

GetStarts ==
    /\ get = Unasked
    /\ \E request \in Requests :
       get' = [at |-> IF Valid(request) THEN "ask" ELSE "failed",
               request |-> request, cell |-> CellFor(request.place),
               batches |-> IF Valid(request)
                           THEN Batches(request.params, BatchCap[Form(request)])
                           ELSE <<>>,
               batch |-> 1, attempt |-> 1, ctx |-> "live", fill |-> 0,
               merged |-> <<>>, rows |-> {}, asked |-> <<>>]

Batch == get.batches[get.batch]
Answered(outcome, fill) ==
    Append(get.asked, [batch |-> get.batch, outcome |-> outcome, fill |-> fill])

(* What a batch is answered with: its parameters' series, if POWER has them.*)
Reply == [p \in ToSet(Batch) \cap DOMAIN Served[Form(get.request)] |->
             Served[Form(get.request)][p]]

(* The series of one more answer, over those there are.                     *)
MergeOver(series, merged) ==
    [p \in DOMAIN series \cup DOMAIN merged |->
        IF p \in DOMAIN series THEN series[p] ELSE merged[p]]

(* A slip of SameFill: the last batch's fill is taken for all.              *)
AnyFill(fill) == TRUE

SameFill(fill) == get.batch = 1 \/ fill = get.fill

(* A batch is answered: its series are merged, if its fill is the others'.  *)
BatchAnswered(fill) ==
    /\ get.at = "ask" /\ get.ctx = "live"
    /\ get' = IF ~SameFill(fill)
              THEN [get EXCEPT !.at = "failed", !.asked = Answered("ok", fill)]
              ELSE [get EXCEPT
                       !.at = IF get.batch = Len(get.batches) THEN "write" ELSE @,
                       !.batch = @ + 1, !.attempt = 1, !.fill = fill,
                       !.merged = MergeOver(Reply, @), !.asked = Answered("ok", fill)]

(* isRetryable: 429, 5xx and the transport's errors, an undecodable body    *)
(* among them; not another 4xx.                                             *)
Transient == {"429", "5xx", "network", "decode"}

BatchFails(outcome) ==
    /\ get.at = "ask" /\ get.ctx = "live"
    /\ get' = [get EXCEPT
           !.asked = Answered(outcome, 0),
           !.at = IF outcome \in Transient /\ get.attempt < MaxAttempts
                  THEN "backoff" ELSE "failed"]

BackoffEnds ==
    /\ get.at = "backoff" /\ get.ctx = "live"
    /\ get' = [get EXCEPT !.at = "ask", !.attempt = @ + 1]

(* The context is looked at by the limiter, the request and the backoff.    *)
GetCancelled ==
    /\ get.at \in {"ask", "backoff", "write"} /\ get.ctx = "live"
    /\ get' = [get EXCEPT !.ctx = "cancelled"]
GetStops ==
    /\ get.at \in {"ask", "backoff"} /\ get.ctx = "cancelled"
    /\ get' = [get EXCEPT !.at = "failed"]

(* The rows of the cell, in one transaction, or none.                       *)
SupplementWritten ==
    /\ get.at = "write" /\ get.ctx = "live"
    /\ get' = [get EXCEPT
           !.at = "written",
           !.rows = Rows([p \in DOMAIN get.merged |->
                            RollUp(get.request, get.merged[p], get.fill, p)])]
SupplementLost ==
    /\ get.at = "write"
    /\ get' = [get EXCEPT !.at = "failed"]

GetNext ==
    \/ GetStarts
    \/ \E fill \in {Fill, OtherFill} : BatchAnswered(fill)
    \/ \E outcome \in Transient \cup {"4xx"} : BatchFails(outcome)
    \/ BackoffEnds \/ GetCancelled \/ GetStops
    \/ SupplementWritten \/ SupplementLost
=============================================================================
