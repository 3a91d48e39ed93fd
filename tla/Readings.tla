------------------------------ MODULE Readings ------------------------------
(***************************************************************************)
(* What the four readers promise: the parsers of CONAGUA's files, the rules *)
(* of validate, the client of NASA POWER and the parity gates each walk     *)
(* their input one line, row, batch or key at a time and carry what they    *)
(* have gathered; at the end it has to be what a definition over the whole  *)
(* input says.  They keep no state in common, and one of them runs here.    *)
(***************************************************************************)
EXTENDS Parsers, Rules, Retrieval, Comparison

vars == <<parse, scan, get, compare>>

Init == ParseInit /\ ScanInit /\ GetInit /\ CompareInit

Ended == \/ parse.at \in {"read", "refused", "listed"}
         \/ scan.at = "scanned"
         \/ get.at \in {"written", "failed"}
         \/ compare.at \in {"compared", "abandoned"}

Parsing    == scan = Unscanned /\ get = Unasked /\ compare = Uncompared
Scanning   == parse = Unparsed /\ get = Unasked /\ compare = Uncompared
Getting    == parse = Unparsed /\ scan = Unscanned /\ compare = Uncompared
Comparing  == parse = Unparsed /\ scan = Unscanned /\ get = Unasked
Terminated == Ended /\ UNCHANGED vars

Next == \/ Parsing   /\ ParseNext   /\ UNCHANGED <<scan, get, compare>>
        \/ Scanning  /\ ScanNext    /\ UNCHANGED <<parse, get, compare>>
        \/ Getting   /\ GetNext     /\ UNCHANGED <<parse, scan, compare>>
        \/ Comparing /\ CompareNext /\ UNCHANGED <<parse, scan, get>>
        \/ Terminated

Spec == Init /\ [][Next]_vars

-----------------------------------------------------------------------------
(* A file, as a whole.  The header starts at the first field that is known; *)
(* it goes on over labels and over the units that belong to the number      *)
(* above them, however many lines they take, and ends at anything else.     *)
KnownLabel(line) == line.kind = "label" /\ line.key \in KnownKeys
Known(lines) == {i \in DOMAIN lines : KnownLabel(lines[i])}
Start(lines) == Min(Known(lines))

UnitsBelow(lines, i, j) == [k \in 1 .. j - i |-> lines[i + k].unit]
Belongs(lines, i, j) ==
    /\ lines[i].kind = "label" /\ lines[i].key \in NumericKeys
    /\ lines[i].val.token \in Floats
    /\ \A k \in i + 1 .. j :
         /\ lines[k].kind = "tail"
         /\ lines[i].val.units \o UnitsBelow(lines, i, k)
              \in numericHeaderTrims[lines[i].key]
BelongsAbove(lines, j) == \E i \in 1 .. j - 1 : Belongs(lines, i, j)

End(lines) ==
    Min({j \in Start(lines) + 1 .. Len(lines) :
            lines[j].kind # "label" /\ ~BelongsAbove(lines, j)} \cup {Len(lines) + 1})

(* The header of the lines up to e, e.g. to the end: the value a field has   *)
(* is the last one given for it, its units with it.                         *)
Labels(lines, e, key) ==
    {i \in Start(lines) .. e : lines[i].kind = "label" /\ lines[i].key = key}
Whole(lines, e, i) ==
    LET below == {j \in i + 1 .. e : Belongs(lines, i, j)} IN
    [token |-> lines[i].val.token,
     units |-> lines[i].val.units \o UnitsBelow(lines, i, i + Cardinality(below))]
HeaderOf(lines, e) ==
    [key \in KnownKeys |->
        IF Labels(lines, e, key) = {} THEN Nil
        ELSE FieldValue(key, Whole(lines, e, Max(Labels(lines, e, key))))]
HeaderWarnings(lines, e) ==
    {<<"header", i, lines[i].key>> : i \in {j \in Start(lines) .. e :
        /\ lines[j].kind = "label" /\ lines[j].key \in NumericKeys
        /\ BadNumber(lines[j].key, lines[j].val)}}
      \cup {<<"header", i, "wrapped">> : i \in {j \in Start(lines) .. e :
                lines[j].kind = "tail"}}
EndWarnings(lines) ==
    {<<"header", i, "ended">> : i \in {j \in {End(lines)} \cap DOMAIN lines :
                                          lines[j].kind # "blank"}}

(* The body: what comes after, here its first n lines.  Every full day is a *)
(* row, in the file's order; a slot of the normals is the last row given    *)
(* for it while its section was the one opened last.                        *)
Body(lines) == SubSeq(lines, End(lines) + 1, Len(lines))
PlaceIn(set, i) == Cardinality({j \in set : j <= i})
FullDays(body, n) == {i \in 1 .. n : body[i].kind = "day" /\ Len(body[i].fields) >= 4}
DayOf(line) == [date |-> line.label,
                values |-> [c \in 1 .. 4 |-> ReadAs(Floats, line.fields[c])]]
RowsRead(rows, body, n) ==
    LET days == FullDays(body, n) IN
    /\ Len(rows) = Cardinality(days)
    /\ \A i \in days : rows[PlaceIn(days, i)] = DayOf(body[i])
DayWarnings(body, n) ==
    {<<"body", i, "short">> : i \in {j \in 1 .. n :
        body[j].kind = "day" /\ Len(body[j].fields) < 4}}
      \cup UNION {{<<"body", i, c>> : c \in {d \in 1 .. 4 :
                      Malformed(Floats, body[i].fields[d])}} : i \in FullDays(body, n)}

Titles(body, i) == {j \in 1 .. i - 1 : body[j].kind = "title"}
SectionAt(body, i) ==
    IF Titles(body, i) = {} THEN "none" ELSE body[Max(Titles(body, i))].section
SectionRows(body, n) ==
    {i \in 1 .. n : body[i].kind = "row" /\ SectionAt(body, i) \in Sections}
SlotOf(body, n, slot) ==
    LET given == {i \in SectionRows(body, n) :
                     SectionAt(body, i) = slot[1] /\ body[i].label = slot[2]}
    IN IF given = {} THEN [m \in Months |-> Nil]
       ELSE MonthlyValues(slot[2], body[Max(given)].fields)
SectionWarnings(body, n) ==
    UNION {MonthlyWarnings(body[i].label, body[i].fields, i) : i \in SectionRows(body, n)}

(* The first banner of a normals file says its period.                      *)
FirstBanner(lines) ==
    LET banners == {i \in DOMAIN lines : lines[i].kind = "banner"}
    IN IF banners = {} THEN Nil ELSE lines[Min(banners)].period
OfItsPeriod(file) == file.kind = "normals" => FirstBanner(file.lines) = file.expected

(* A catalog: one station for each row of data, in order, whose links agree *)
(* with its clave.                                                          *)
DataRows(page) == {i \in DOMAIN page : IsDataRow(page[i])}
Padded(row) == IF WithId(row) = <<>> THEN row.clave
               ELSE FilesOf(row)[Head(WithId(row))].id

(* What is read is what is published: the header, the rows, the sections    *)
(* and the warnings a file's lines as a whole amount to, and the rows of a  *)
(* catalog.  The readers carry a half-read number, a section and a line     *)
(* count from line to line (header.go:65, normals.go:239, daily.go:42).     *)
(* Where the lines of a daily body are counted from is left open: from the  *)
(* end of the header, as the ingest asks (ingest/daily.go:100), or from the *)
(* start of the file, as ParseDaily says (conagua/daily.go:33).             *)
ParsedAsPublished ==
    CASE parse.at = "read" ->
           LET lines == parse.file.lines  body == Body(lines)
               e == End(lines) - 1        n == Len(body) IN
           /\ Known(lines) # {} /\ OfItsPeriod(parse.file)
           /\ parse.h = HeaderOf(lines, e)
           /\ IF parse.file.kind = "daily"
              THEN RowsRead(parse.rows, body, n)
              ELSE \A slot \in Slots : parse.acc[slot] = SlotOf(body, n, slot)
           /\ \E start \in {0, End(lines)} :
                parse.warnings = HeaderWarnings(lines, e) \cup EndWarnings(lines) \cup
                    (IF parse.file.kind = "daily"
                     THEN {<<w[1], start + w[2], w[3]>> : w \in DayWarnings(body, n)}
                     ELSE SectionWarnings(body, n))
      [] parse.at = "refused" ->
           \/ Known(parse.file.lines) = {}
           \/ ~OfItsPeriod(parse.file)
      [] parse.at = "listed" ->
           LET data == DataRows(parse.page) IN
           /\ Len(parse.stations) = Cardinality(data)
           /\ \A i \in data :
                LET listed == parse.stations[PlaceIn(data, i)] IN
                /\ listed.files = FilesOf(parse.page[i])
                /\ ShortID(listed.id) = ShortID(Padded(parse.page[i]))
      [] OTHER -> TRUE

-----------------------------------------------------------------------------
(* A list that shows the first of a set, in an order, and counts them all.  *)
Lists(total, shown, most, set, Rank(_)) ==
    /\ total = Cardinality(set)
    /\ Len(shown) = IF total < most THEN total ELSE most
    /\ \A i \in DOMAIN shown :
         /\ shown[i] \in set
         /\ Cardinality({x \in set : Before(Rank(x), Rank(shown[i]))}) = i - 1

-----------------------------------------------------------------------------
(* What a rule has to find in a table: [key, sample], the definitions of    *)
(* the rules' documentation, over the whole table at once.                  *)
Found(key, samples) == {[key |-> key, sample |-> s] : s \in samples}

BBoxFound(table) ==
    LET outside == {r \in table : /\ Given(r.lat) /\ Given(r.lon)
                                  /\ \/ Abs(r.lat[1]) > 900 \/ Abs(r.lon[1]) > 1800
                                     \/ r.lat[1] = 0 /\ r.lon[1] = 0}
        inside  == {r \in table : /\ Given(r.lat) /\ Given(r.lon)
                                  /\ 145 <= r.lat[1] /\ r.lat[1] <= 328
                                  /\ -1185 <= r.lon[1] /\ r.lon[1] <= -867}
    IN UNION {Found(<<r.station, IF r \in outside THEN "error" ELSE "warn">>,
                    {r.station}) : r \in table \ (inside \ outside)}

JumpFound(table) ==
    UNION {Found(<<r.station, v>>,
             {<<r.month, r.period, q.period>> : q \in {s \in table :
                 /\ s.station = r.station /\ s.month = r.month /\ s.period > r.period
                 /\ Given(r.values[v]) /\ Given(s.values[v])
                 /\ \/ r.values[v][1] - s.values[v][1] > 30
                    \/ s.values[v][1] - r.values[v][1] > 30}}) :
           r \in table, v \in {"tmax", "tmin", "tmean"}}

(* A reading more than three standard deviations from its month's mean,     *)
(* from the squared deviations themselves.                                  *)
FarOut(table, period, row) ==
    LET month == MonthRows(table, period, row)
        n     == Cardinality(month)
        sum   == SumOf(month, LAMBDA r : r.tmax[1])
        Off(r) == (n * r.tmax[1] - sum) * (n * r.tmax[1] - sum)
    IN n >= MinReadings /\ n * Off(row) > 9 * SumOf(month, Off)

(* A month of too few days, or without a run of them.                       *)
ReadDays(table, period, row) ==
    {r.day : r \in {q \in table : /\ Within(period, q) /\ Given(q.tmax)
                                  /\ q.station = row.station
                                  /\ q.year = row.year /\ q.month = row.month}}
TooSparse(days) ==
    LET missing == (1 .. DaysInMonth) \ days IN
    \/ Cardinality(missing) >= wmoMissingThreshold
    \/ \E first \in 1 .. DaysInMonth :
         first .. (first + wmoConsecutiveThreshold - 1) \subseteq missing

InPeriod(table, period) == {r \in table : Within(period, r) /\ Given(r.tmax)}
Columnwise(table, Off(_, _)) ==
    UNION {Found(<<c>>, {r.key : r \in {s \in table :
                            /\ c \in DOMAIN s.values /\ s.values[c] # <<>>
                            /\ Off(c, s.values[c][1])}}) :
           c \in UNION {DOMAIN r.values : r \in table}}

ToFind(rule, table, period) ==
    CASE rule = "bbox" -> BBoxFound(table)
      [] rule = "cross-period" -> JumpFound(table)
      [] rule = "diurnal" ->
           UNION {Found(<<r.station>>, {r}) : r \in {q \in InPeriod(table, period) :
                      Given(q.tmin) /\ q.tmax[1] - q.tmin[1] > 250}}
      [] rule = "z-score" ->
           UNION {Found(<<r.station, r.month>>, {r}) :
                      r \in {q \in InPeriod(table, period) : FarOut(table, period, q)}}
      [] rule = "wmo" ->
           UNION {Found(<<r.station, r.month>>, {r.year}) :
                      r \in {q \in InPeriod(table, period) :
                                TooSparse(ReadDays(table, period, q))}}
      [] rule = "fill-leak" -> Columnwise(table, LAMBDA c, v : v = -999)
      [] rule = "wind-range" ->
           Columnwise(table, LAMBDA c, v : c = "wd" /\ v \notin 0 .. 360)

(* The order in which a finding's samples are shown.                        *)
SampleOrder(rule, case, sample) ==
    CASE rule \in {"bbox", "wmo", "fill-leak", "wind-range"} -> <<sample>>
      [] rule = "cross-period" -> sample
      [] rule = "diurnal" -> <<-Span(sample), sample.year, sample.month, sample.day>>
      [] rule = "z-score" ->
           <<-Abs(Deviation(MonthRows(case.table, case.period, sample), sample)),
             sample.year, sample.day>>

(* A rule reports every group in which something is off, no other, with the *)
(* exact number of times and the first three of them: what it walks row by  *)
(* row after its query adds up (rule_*.go), and its sorting, its gaps and   *)
(* its variance by sums are those of the rule.                              *)
Flagged ==
    scan.at = "scanned" =>
        LET found == ToFind(scan.rule, scan.case.table, scan.case.period)
            OfKey(key) == {f.sample : f \in {g \in found : g.key = key}}
            OrderOf(sample) == SampleOrder(scan.rule, scan.case, sample)
        IN /\ DOMAIN scan.findings = {f.key : f \in found}
           /\ \A key \in DOMAIN scan.findings :
                Lists(scan.findings[key].count, scan.findings[key].top, 3,
                      OfKey(key), OrderOf)

-----------------------------------------------------------------------------
(* What a request amounts to, from what POWER holds.  A parameter belongs   *)
(* to the batch of its position, and that batch's answer says what its fill *)
(* value is.                                                                *)
Position(request, p) == CHOOSE i \in DOMAIN request.params : request.params[i] = p
BatchOf(request, p) ==
    (Position(request, p) - 1) \div BatchCap[Form(request)] + 1
AnswersTo(b) == {i \in DOMAIN get.asked : get.asked[i].batch = b}
GoodAnswers(b) == {i \in AnswersTo(b) : get.asked[i].outcome = "ok"}
FillOf(p) == get.asked[Max(GoodAnswers(BatchOf(get.request, p)))].fill

(* The readings a row is made from: the years of a calendar month, or the   *)
(* one day.                                                                 *)
KeysOf(request, row) ==
    IF Form(request) = "monthly"
    THEN {<<year, row>> : year \in request.first .. request.last}
    ELSE {row}
RowKeys(request) ==
    IF Form(request) = "monthly" THEN 1 .. 12
    ELSE {k \in UNION {DOMAIN Served["daily"][p] : p \in DOMAIN Served["daily"]} :
            /\ Len(k) = 3 /\ k[2] \in 1 .. 12 /\ k[3] \in 1 .. 31
            /\ ~Before(k, request.from.day) /\ ~Before(request.to.day, k)}

Held(request) == ToSet(request.params) \cap DOMAIN Served[Form(request)] \cap DOMAIN Registry
Counting(request, p, row) ==
    LET series == Served[Form(request)][p]
    IN {k \in KeysOf(request, row) \cap DOMAIN series : series[k] # FillOf(p)}
ValueOf(request, p, row) ==
    LET series == Served[Form(request)][p]  keys == Counting(request, p, row)
    IN <<IF Registry[p].circular THEN {<<k, series[k]>> : k \in keys}
         ELSE Registry[p].factor * SumAt(series, keys),
         Cardinality(keys)>>
ToWrite(request) ==
    LET With(row) == {p \in Held(request) : Counting(request, p, row) # {}}
    IN {[row |-> row, values |-> [p \in With(row) |-> ValueOf(request, p, row)]] :
           row \in {r \in RowKeys(request) : With(r) # {}}}

(* The batches are asked for in order, each until it is answered and at     *)
(* most MaxAttempts times, and nothing is asked after a final answer.       *)
AskedInOrder ==
    \A i \in DOMAIN get.asked :
        LET ask == get.asked[i] IN
        /\ Cardinality(AnswersTo(ask.batch)) <= MaxAttempts
        /\ i < Len(get.asked) =>
             /\ ask.outcome \in Transient \cup {"ok"}
             /\ get.asked[i + 1].batch = ask.batch + (IF ask.outcome = "ok" THEN 1 ELSE 0)

AllAnswered == \A b \in DOMAIN get.batches : GoodAnswers(b) # {}
OneFill == Cardinality({get.asked[i].fill : i \in UNION {GoodAnswers(b) :
                                                b \in DOMAIN get.batches}}) <= 1
GaveUp == /\ get.asked # <<>>
          /\ \/ Last(get.asked).outcome = "4xx"
             \/ Cardinality(AnswersTo(Last(get.asked).batch)) = MaxAttempts

(* What a cell gets is whole: rows are written only when every batch was    *)
(* answered, with one fill value, and they are the means of what POWER      *)
(* holds for the window, without the fills and the yearly thirteenth month, *)
(* a row for every month or date that has a value; a request that fails     *)
(* writes nothing, and fails for a reason; the cell is the nearest          *)
(* (client.go:339, rollup.go:37, run.go:516).                               *)
FetchedWhole ==
    get.at # "idle" =>
        /\ AskedInOrder
        /\ 2 * Abs(get.cell.lat - get.request.place.lat) <= LatStep
        /\ 2 * Abs(get.cell.lon - get.request.place.lon) <= LonStep
        /\ get.at = "written" =>
             /\ AllAnswered /\ OneFill
             /\ get.rows = ToWrite(get.request)
        /\ get.at # "written" => get.rows = {}
        /\ get.at = "failed" => \/ ~Valid(get.request) \/ get.ctx = "cancelled"
                                \/ GaveUp \/ ~OneFill \/ AllAnswered

-----------------------------------------------------------------------------
(* What two sides amount to, set against each other as functions from keys  *)
(* to values; a table's key is its columns, any other a number.             *)
ByNumber(k) == <<k>>
ByColumns(k) == k
Lists1(s, set) == Lists(s.total, s.samples, Cap, set, ByNumber)
Lists2(s, set) == Lists(s.total, s.samples, Cap, set, ByColumns)

Shared(b, n) == DOMAIN b \cap DOMAIN n
Alike(b, n)  == {k \in Shared(b, n) : b[k] = n[k]}
Changed(b, n) ==
    UNION {{<<k, c>> : c \in {d \in DOMAIN b[k] : b[k][d] # n[k][d]}} : k \in Shared(b, n)}
Tallied(t, b, n, ByKey(_)) ==
    LET ByValue(kc) == Append(ByKey(kc[1]), kc[2]) IN
    /\ t.compared = Cardinality(Shared(b, n))
    /\ t.identical = Cardinality(Alike(b, n))
    /\ Lists(t.baseOnly.total, t.baseOnly.samples, Cap, DOMAIN b \ DOMAIN n, ByKey)
    /\ Lists(t.newOnly.total, t.newOnly.samples, Cap, DOMAIN n \ DOMAIN b, ByKey)
    /\ Lists(t.diffs.total, t.diffs.samples, Cap, Changed(b, n), ByValue)
    /\ BaseRows(t) = Cardinality(DOMAIN b) /\ NewRows(t) = Cardinality(DOMAIN n)

(* Drift: a value that one side alone has was appended or removed, whether  *)
(* its row is there or not.                                                 *)
ValueIn(side, k, c) == IF k \in DOMAIN side THEN side[k][c] ELSE <<>>
ValuesOf(class, b, n, c) ==
    {k \in DOMAIN b \cup DOMAIN n :
        LET old == ValueIn(b, k, c)  new == ValueIn(n, k, c) IN
        CASE class = "identical" -> k \in Shared(b, n) /\ old = new
          [] class = "revised"   -> old # <<>> /\ new # <<>> /\ old # new
          [] class = "appended"  -> old = <<>> /\ new # <<>>
          [] class = "removed"   -> old # <<>> /\ new = <<>>}
Drifted(t, b, n) ==
    LET Revised == UNION {{<<k, c>> : k \in ValuesOf("revised", b, n, c)} :
                             c \in ValueColumns}
        ByValue(kc) == Append(kc[1], kc[2])
    IN /\ t.aligned = Cardinality(Shared(b, n))
       /\ Lists2(t.baseOnly, DOMAIN b \ DOMAIN n)
       /\ Lists2(t.newOnly, DOMAIN n \ DOMAIN b)
       /\ \A c \in ValueColumns : \A class \in Classes :
            t.values[c][class] = Cardinality(ValuesOf(class, b, n, c))
       /\ Lists(t.revisions.total, t.revisions.samples, Cap, Revised, ByValue)

Total(side) == SumAt(side, DOMAIN side)
Minus(b, n) == [k \in DOMAIN b |->
                   IF k \notin DOMAIN n THEN b[k] ELSE IF b[k] > n[k] THEN b[k] - n[k] ELSE 0]
Surplus(b, n) == {k \in DOMAIN b : Minus(b, n)[k] > 0}
Validated(t, b, n, native) ==
    LET ours(side)   == [k \in DOMAIN side \ native |-> side[k]]
        theirs(side) == [k \in DOMAIN side \cap native |-> side[k]]
    IN /\ t.baseRows = Total(ours(b)) /\ t.newRows = Total(ours(n))
       /\ t.native = <<Total(theirs(b)), Total(theirs(n))>>
       /\ t.identical + t.baseOnlyRows = t.baseRows
       /\ t.identical + t.newOnlyRows = t.newRows
       /\ t.baseOnlyRows = Total(Minus(ours(b), ours(n)))
       /\ Lists1(t.baseOnly, Surplus(ours(b), ours(n)))
       /\ Lists1(t.newOnly, Surplus(ours(n), ours(b)))

(* Two snapshots: of the stations both have, those whose two files parse.   *)
Comparable(b, n) == {s \in Shared(b, n) : b[s].parses /\ n[s].parses}
OnlyIn(b, n) == UNION {{<<s, d>> : d \in DOMAIN b[s].rows \ DOMAIN n[s].rows} :
                          s \in Comparable(b, n)}
RowsShared(b, n, Same(_, _)) ==
    UNION {{<<s, d>> : d \in {e \in Shared(b[s].rows, n[s].rows) :
                                Same(b[s].rows[e], n[s].rows[e])}} : s \in Comparable(b, n)}
SameStation(b, n) == {s \in Comparable(b, n) : b[s] = n[s]}
FieldsChanged(b, n) ==
    LET Either(x, y) == TRUE IN
    UNION {{<<sd, c>> : c \in {e \in DOMAIN b[sd[1]].rows[sd[2]] :
                b[sd[1]].rows[sd[2]][e] # n[sd[1]].rows[sd[2]][e]}} :
             sd \in RowsShared(b, n, Either)}
HeadersChanged(b, n) ==
    UNION {{<<s, c>> : c \in {e \in DOMAIN b[s].header : b[s].header[e] # n[s].header[e]}} :
             s \in Comparable(b, n)}

Snapshotted(t, b, n, daily) ==
    LET Equal(x, y) == x = y
        Differ(x, y) == x # y
        broken(x, side) == {<<s, side>> : s \in {r \in Shared(b, n) : ~x[r].parses}}
        Flat(x) == <<x[1][1], x[1][2], x[2]>>
    IN /\ t.both = Cardinality(Shared(b, n))
       /\ Lists1(t.baseOnly, DOMAIN b \ DOMAIN n)
       /\ Lists1(t.newOnly, DOMAIN n \ DOMAIN b)
       /\ t.errors.total = Cardinality(broken(b, "base") \cup broken(n, "new"))
       /\ t.same = Cardinality(SameStation(b, n))
       /\ t.same + t.revised = Cardinality(Comparable(b, n))
       /\ daily => /\ t.rowsIdentical = Cardinality(RowsShared(b, n, Equal))
                   /\ t.rowsRevised = Cardinality(RowsShared(b, n, Differ))
       /\ Lists2(t.appended, OnlyIn(n, b)) /\ Lists2(t.removed, OnlyIn(b, n))
       /\ Lists(t.revisions.total, t.revisions.samples, Cap, FieldsChanged(b, n), Flat)
       /\ Lists2(t.headerDiffs, HeadersChanged(b, n))
       /\ Lists1(t.warningDiffs, {s \in Comparable(b, n) : b[s].warnings # n[s].warnings})

(* A comparison that ends has set every row and every station of both sides *)
(* against the other's, each counted once, whatever order the workers took  *)
(* them in, and shows the first of each finding; one that is cancelled      *)
(* reports nothing (parity db.go:248, powerdrift.go:207, parity.go:168).    *)
Compared ==
    /\ compare.at = "abandoned" => compare.tally = EmptyKind /\ compare.ctx = "cancelled"
    /\ compare.at = "compared" =>
        LET b == compare.job.base  n == compare.job.updated  t == compare.tally IN
        CASE compare.gate = "table"    -> Tallied(t, b, n, ByColumns)
          [] compare.gate = "drift"    -> Drifted(t, b, n)
          [] compare.gate \in {"universe", "links"} -> Tallied(t, b, n, ByNumber)
          [] compare.gate = "manifest" ->
               Lists1(t, (DOMAIN b \cup DOMAIN n) \ Alike(b, n))
          [] compare.gate = "warnings" ->
               Tallied(t, [k \in DOMAIN b |-> <<b[k]>>], [k \in DOMAIN n |-> <<n[k]>>], ByNumber)
          [] compare.gate = "validate" -> Validated(t, b, n, compare.job.native)
          [] compare.gate = "snapshots" -> Snapshotted(t, b, n, compare.job.daily)
=============================================================================
