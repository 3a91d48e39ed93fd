-------------------------------- MODULE Rules --------------------------------
(***************************************************************************)
(* What the rules of validate find in the values (internal/validate): each *)
(* runs a query over one table and walks its rows, one action a row,       *)
(* gathering what it flags by station, month, variable or column, with a   *)
(* count and the first few samples.  Temperatures and coordinates are in   *)
(* tenths; an optional value is a sequence, empty when it is NULL.         *)
(***************************************************************************)
EXTENDS Integers, Sequences, FiniteSets, SequencesExt

CONSTANTS Cases,                    \* Cases[rule]: the tables for it, [table, period]
          DaysInMonth,              \* bound: scaled down from a calendar's
          wmoMissingThreshold,      \* 11 of its days
          wmoConsecutiveThreshold,  \* 5 of its days
          MinReadings               \* 30: the z-score's HAVING

ASSUME RuleAssumption ==
    /\ {DaysInMonth, wmoMissingThreshold, wmoConsecutiveThreshold} \subseteq Nat
    /\ MinReadings \in Nat \ {0}

(* The tables: finite, of rows with the columns the rules read, no two of   *)
(* them with the same primary key; a day is one of its month.               *)
ASSUME CasesAssumption ==
    LET Optional(value) == value = <<>> \/ value \in [1 .. 1 -> Int]
        daily == {"diurnal", "z-score", "wmo"}
        supplements == {"fill-leak", "wind-range"}
        Typed(rule, row) ==
            CASE rule = "bbox" ->
                   row.station \in Int /\ Optional(row.lat) /\ Optional(row.lon)
              [] rule = "cross-period" ->
                   /\ row.station \in Int /\ row.month \in Int /\ row.period \in Int
                   /\ \A v \in {"tmax", "tmin", "tmean"} : Optional(row.values[v])
              [] rule \in daily ->
                   /\ row.station \in Int /\ row.year \in Int /\ row.month \in Int
                   /\ row.day \in IF rule = "wmo" THEN 1 .. DaysInMonth ELSE Int
                   /\ Optional(row.tmax) /\ Optional(row.tmin)
              [] rule \in supplements ->
                   row.key \in Int /\ \A c \in DOMAIN row.values : Optional(row.values[c])
        PrimaryKey(rule, row) ==
            CASE rule = "bbox" -> <<row.station>>
              [] rule = "cross-period" -> <<row.station, row.month, row.period>>
              [] rule \in daily -> <<row.station, row.year, row.month, row.day>>
              [] rule \in supplements -> <<row.key>>
    IN /\ DOMAIN Cases \subseteq {"bbox", "cross-period"} \cup daily \cup supplements
       /\ \A rule \in DOMAIN Cases : \A case \in Cases[rule] :
            /\ IsFiniteSet(case.table)
            /\ \A row \in case.table : Typed(rule, row)
            /\ \A r, q \in case.table : PrimaryKey(rule, r) = PrimaryKey(rule, q) => r = q

VARIABLE scan

topPerGroup == 3
diurnalRangeThreshold == 250  \* tenths, as every temperature
crossPeriodMaxDeltaC == 30
zSigma == 3
powerFill == -999

Abs(x) == IF x < 0 THEN -x ELSE x
Given(value) == value # <<>>
Has(value, Test(_)) == Given(value) /\ Test(value[1])

(* periodBounds: the years of a period, both ends included.                 *)
Within(period, row) == row.year \in period[1] .. period[2]

(* ORDER BY: the rows by a key, a tuple of numbers.                         *)
Before(k, l) == \E i \in DOMAIN k : k[i] < l[i] /\ \A j \in 1 .. i - 1 : k[j] = l[j]
OrderBy(rows, Key(_)) ==
    [i \in 1 .. Cardinality(rows) |->
        CHOOSE row \in rows :
            Cardinality({r \in rows : Before(Key(r), Key(row))}) = i - 1]
Sorted(days) == OrderBy(days, LAMBDA day : <<day>>)

-----------------------------------------------------------------------------
(* bbox.                                                                    *)
Implausible(row) ==
    LET lat == row.lat[1]  lon == row.lon[1] IN
    lat \notin -900 .. 900 \/ lon \notin -1800 .. 1800 \/ (lat = 0 /\ lon = 0)
OutsideMX(row) ==
    row.lat[1] \notin 145 .. 328 \/ row.lon[1] \notin -1185 .. -867
Located(row) == Given(row.lat) /\ Given(row.lon)
BBoxVerdict(row) ==
    CASE Located(row) /\ Implausible(row) -> "error"
      [] Located(row) /\ ~Implausible(row) /\ OutsideMX(row) -> "warn"
      [] ~Located(row) -> "warn"
      [] OTHER -> "none"

(* cross-period: the self-join, in its order.                               *)
SelfJoin(table) ==
    {pair \in table \X table : /\ pair[1].station = pair[2].station
                               /\ pair[1].month = pair[2].month
                               /\ pair[1].period < pair[2].period}
JoinKey(pair) == <<pair[1].station, pair[1].month, pair[1].period, pair[2].period>>
Variables == {"tmax", "tmin", "tmean"}
(* A slip of Jumps: the delta's sign is left on.                            *)
JumpsDown(pair, v) == /\ Given(pair[1].values[v]) /\ Given(pair[2].values[v])
                      /\ pair[1].values[v][1] - pair[2].values[v][1]
                           > crossPeriodMaxDeltaC

Jumps(pair, v) == /\ Given(pair[1].values[v]) /\ Given(pair[2].values[v])
                  /\ Abs(pair[1].values[v][1] - pair[2].values[v][1])
                       > crossPeriodMaxDeltaC

(* daily-sanity: the diurnal range, the widest first.                       *)
Span(row) == row.tmax[1] - row.tmin[1]
Wide(table, period) ==
    {row \in table : /\ Within(period, row)
                     /\ Given(row.tmax) /\ Given(row.tmin)
                     /\ Span(row) > diurnalRangeThreshold}
WideKey(row) == <<row.station, -Span(row), row.year, row.month, row.day>>

(* Its z-score: over a station's month in every year, with n readings, sum  *)
(* S and sum of squares Q, a reading x is an outlier when                   *)
(* |x - mean| > zSigma * sigma, that is (n x - S)^2 > zSigma^2 (n Q - S^2). *)
SumOf(rows, Value(_)) == MapThenSumSet(Value, rows)
MonthRows(table, period, row) ==
    {r \in table : /\ Within(period, r) /\ Given(r.tmax)
                   /\ r.station = row.station /\ r.month = row.month}
Deviation(rows, row) ==
    Cardinality(rows) * row.tmax[1] - SumOf(rows, LAMBDA r : r.tmax[1])
Spread(rows) ==
    Cardinality(rows) * SumOf(rows, LAMBDA r : r.tmax[1] * r.tmax[1])
      - SumOf(rows, LAMBDA r : r.tmax[1]) * SumOf(rows, LAMBDA r : r.tmax[1])
Outliers(table, period) ==
    {row \in table :
        /\ Within(period, row) /\ Given(row.tmax)
        /\ LET rows == MonthRows(table, period, row) IN
           /\ Cardinality(rows) >= MinReadings
           /\ Spread(rows) > 0
           /\ Deviation(rows, row) * Deviation(rows, row)
                > zSigma * zSigma * Spread(rows)}
OutlierKey(table, period, row) ==
    <<row.station, row.month, -Abs(Deviation(MonthRows(table, period, row), row)),
      row.year, row.day>>

(* wmo-month-completeness: a month of a year with the days that have a      *)
(* reading; a month with none is not a row.                                 *)
MonthGroups(table, period) ==
    {[station |-> row.station, year |-> row.year, month |-> row.month,
      days |-> {r.day : r \in {q \in table : /\ q.station = row.station
                                             /\ q.year = row.year
                                             /\ q.month = row.month
                                             /\ Given(q.tmax)}}] :
        row \in {r \in table : Within(period, r) /\ Given(r.tmax)}}

(* A slip of longestGap: the days after the last reading are not a gap.     *)
GapNotAtEnd(days, expected) ==
    LET sorted == Sorted(days) IN
    IF days = {} THEN expected
    ELSE CHOOSE g \in 0 .. expected :
           LET gaps == {sorted[1] - 1}
                         \cup {sorted[i] - sorted[i - 1] - 1 : i \in 2 .. Len(sorted)}
           IN g \in gaps /\ \A h \in gaps : h <= g

(* The days missing before the first reading, between two, after the last.  *)
longestGap(days, expected) ==
    LET sorted == Sorted(days) IN
    IF days = {} THEN expected
    ELSE CHOOSE g \in 0 .. expected :
           LET gaps == {sorted[1] - 1}
                         \cup {sorted[i] - sorted[i - 1] - 1 : i \in 2 .. Len(sorted)}
                         \cup {expected - sorted[Len(sorted)]}
           IN g \in gaps /\ \A h \in gaps : h <= g

Incomplete(group) ==
    \/ DaysInMonth - Cardinality(group.days) >= wmoMissingThreshold
    \/ longestGap(group.days, DaysInMonth) >= wmoConsecutiveThreshold

(* fill-leak and wind-range: every column of a supplement table.            *)
FillLeaks(value) == Has(value, LAMBDA v : v = powerFill)
OffCompass(value) == Has(value, LAMBDA v : v < 0 \/ v > 360)
Circular(column) == column = "wd"

-----------------------------------------------------------------------------
(* The rows of a rule's query, in its order.                                *)
Query(rule, table, period) ==
    CASE rule = "bbox"         -> OrderBy(table, LAMBDA row : <<row.station>>)
      [] rule = "cross-period" -> OrderBy(SelfJoin(table), JoinKey)
      [] rule = "diurnal"      -> OrderBy(Wide(table, period), WideKey)
      [] rule = "z-score"      -> OrderBy(Outliers(table, period),
                                          LAMBDA row : OutlierKey(table, period, row))
      [] rule = "wmo"          -> OrderBy(MonthGroups(table, period),
                                          LAMBDA g : <<g.station, g.month, g.year>>)
      [] rule \in {"fill-leak", "wind-range"} ->
                                  OrderBy(table, LAMBDA row : <<row.key>>)

(* What a row adds to the findings: under each key, a sample.               *)
Flags(rule, row) ==
    CASE rule = "bbox" ->
           {<<<<row.station, BBoxVerdict(row)>>, row.station>> :
               x \in {BBoxVerdict(row)} \ {"none"}}
      [] rule = "cross-period" ->
           {<<<<row[1].station, v>>, <<row[1].month, row[1].period, row[2].period>>>> :
               v \in {w \in Variables : Jumps(row, w)}}
      [] rule = "diurnal" -> {<<<<row.station>>, row>>}
      [] rule = "z-score" -> {<<<<row.station, row.month>>, row>>}
      [] rule = "wmo" ->
           {<<<<row.station, row.month>>, row.year>> : x \in {y \in {0} : Incomplete(row)}}
      [] rule = "fill-leak" ->
           {<<<<c>>, row.key>> : c \in {d \in DOMAIN row.values : FillLeaks(row.values[d])}}
      [] rule = "wind-range" ->
           {<<<<c>>, row.key>> :
               c \in {d \in DOMAIN row.values : Circular(d) /\ OffCompass(row.values[d])}}

Unscanned == [at |-> "idle"]
ScanInit == scan = Unscanned

RuleStarts ==
    /\ scan = Unscanned
    /\ \E rule \in DOMAIN Cases : \E case \in Cases[rule] :
         scan' = [at |-> "scan", rule |-> rule, case |-> case, findings |-> <<>>,
                  left |-> Query(rule, case.table, case.period)]

(* A row goes to its buckets; the first topPerGroup are kept as samples.    *)
Bucket(findings, key) ==
    IF key \in DOMAIN findings THEN findings[key] ELSE [count |-> 0, top |-> <<>>]
Sampled(top, sample) == IF Len(top) < topPerGroup THEN Append(top, sample) ELSE top

RuleScans ==
    /\ scan.at = "scan" /\ scan.left # <<>>
    /\ LET flags == Flags(scan.rule, Head(scan.left))
           keys  == {flag[1] : flag \in flags}
       IN scan' = [scan EXCEPT
              !.left = Tail(@),
              !.findings = [key \in keys \cup DOMAIN @ |->
                  IF key \notin keys THEN @[key]
                  ELSE LET flag == CHOOSE f \in flags : f[1] = key IN
                       [count |-> Bucket(@, key).count + 1,
                        top |-> Sampled(Bucket(@, key).top, flag[2])]]]

RuleEnds ==
    /\ scan.at = "scan" /\ scan.left = <<>>
    /\ scan' = [scan EXCEPT !.at = "scanned"]

ScanNext == RuleStarts \/ RuleScans \/ RuleEnds
=============================================================================
