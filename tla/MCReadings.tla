----------------------------- MODULE MCReadings -----------------------------
(***************************************************************************)
(* Every short file over an alphabet of lines, every small table, every     *)
(* pair of small sides, and the requests of two batches.                    *)
(***************************************************************************)
EXTENDS Readings

Upto(n, alphabet) == UNION {[1 .. k -> alphabet] : k \in 0 .. n}

(* The lines of a header, and of the bodies of the two kinds of file.       *)
Label(key, token, units) == [kind |-> "label", key |-> key,
                             val |-> [token |-> token, units |-> units]]
Of(kind) == [kind |-> kind]
UnitsOnly(unit) == [kind |-> "tail", unit |-> unit]
Day(date, fields) == [kind |-> "day", label |-> date, fields |-> fields]
Row(label, fields) == [kind |-> "row", label |-> label, fields |-> fields]
TitleOf(section) == [kind |-> "title", section |-> section]
Banner(period) == [kind |-> "banner", period |-> period]
NameLine == Label("NOMBRE", "x", <<>>)

HeaderLines ==
    {Label("LATITUD", "1.5", <<"deg">>), Label("LATITUD", "1", <<>>),
     Label("ALTITUD", "2", <<"MSNM">>), Label("ALTITUD", "dos", <<>>),
     Label("LONGITUD", "NULO", <<>>), Label("SITUACION", "operando", <<>>),
     Label("EMISION", "x", <<>>), NameLine,
     UnitsOnly("deg"), UnitsOnly("msnm"), Of("blank"), Of("text")}
DayLines ==
    {Day(1, <<"1", "1.5", "NULO", "2">>), Day(2, <<"x", "1", "-999", "y">>),
     Day(2, <<"1", "1", "1", "2", "2">>), Day(3, <<"1", "2">>),
     TitleOf("tmax"), Of("blank")}
NormalsLines ==
    {TitleOf("tmax"), TitleOf("tmean"), TitleOf("ignored"),
     Row("normal", <<"1", "1.5">>), Row("normal", <<"2">>), Row("normal", <<"", "x">>),
     Row("dailyExtremeDate", <<"30/1998", "30/1998">>),
     Row("yearsWithData", <<"1", "1.5">>)}

Daily(lines) == [kind |-> "daily", lines |-> lines]
Normals(lines) == [kind |-> "normals", lines |-> lines, expected |-> "81-10"]
Now == Banner("81-10")
MCInputs ==
    {Daily(lines) : lines \in Upto(4, HeaderLines)}
      \cup {Daily(h \o lines) : lines \in Upto(3, DayLines),
                h \in {<<NameLine, Of("blank")>>,
                       <<Label("LATITUD", "1", <<>>), UnitsOnly("deg"), Of("text")>>}}
      \cup {Normals(<<Now, NameLine, Of("blank")>> \o lines) : lines \in Upto(4, NormalsLines)}
      \cup {Normals(lines) : lines \in Upto(3, {Now, Banner("61-90"), NameLine})}

Link(kind, id) == [kind |-> kind, id |-> id]
PageRow(spans, cells, clave, links) ==
    [spans |-> spans, cells |-> cells, clave |-> clave, status |-> "operando",
     links |-> links]
PageRows ==
    {PageRow(FALSE, 8, <<1, 0>>, <<>>), PageRow(TRUE, 8, <<1>>, <<>>),
     PageRow(FALSE, 1, <<1>>, <<>>), PageRow(FALSE, 8, <<>>, <<>>),
     PageRow(FALSE, 9, <<0, 1, 0>>, <<Link("daily", NoId), Link("normals", <<0, 0, 0, 1, 0>>)>>),
     PageRow(FALSE, 8, <<2>>, <<Link("daily", <<0, 0, 0, 0, 2>>), Link("other", <<9>>),
                                Link("daily", <<0, 0, 0, 2>>)>>)}
MCPages == Upto(3, PageRows)

-----------------------------------------------------------------------------
(* Tables for the rules.                                                    *)
Case(table) == [table |-> table, period |-> <<1991, 1992>>]

Places == {<<<<>>, <<>>>>, <<<<190>>, <<-990>>>>, <<<<0>>, <<0>>>>,
           <<<<910>>, <<-990>>>>, <<<<330>>, <<-990>>>>, <<<<190>>, <<>>>>}
Stationed == {{[station |-> s, lat |-> at[s][1], lon |-> at[s][2]] : s \in 1 .. 3} :
                 at \in [1 .. 3 -> Places]}

MonthOf(period, month, t) ==
    [station |-> 1, month |-> month, period |-> period,
     values |-> [v \in Variables |-> IF v = "tmax" THEN t
                                     ELSE IF v = "tmin" /\ period = 1 THEN <<>> ELSE <<period * 16>>]]
Periods == {{MonthOf(p, 1, t[p]) : p \in 1 .. 4} \cup {MonthOf(2, 2, <<0>>)} :
               t \in [1 .. 4 -> {<<>>, <<0>>, <<31>>, <<61>>}]}

Temp(year, day, tmax, tmin) == [station |-> 1, year |-> year, month |-> 1, day |-> day,
                                tmax |-> tmax, tmin |-> tmin]
Wides == {{Temp(IF d = 5 THEN 1993 ELSE 1991, d, t[d], <<50>>) : d \in 1 .. 5}
            \cup {Temp(1992, 1, <<400>>, <<>>)} :
              t \in [1 .. 5 -> {<<>>, <<300>>, <<301>>, <<400>>}]}
Steady == {{Temp(1991, d, <<200>>, <<>>) : d \in 1 .. 10}
             \cup {Temp(1992, 1, a, <<>>), Temp(1992, 2, b, <<>>), Temp(1993, 1, <<900>>, <<>>)} :
               a, b \in {<<>>, <<200>>, <<201>>, <<500>>}}

MonthsOf(years, days) == {Temp(y, d, <<200>>, <<>>) : y \in years, d \in days}
Sparse == {MonthsOf({1991}, days) \cup MonthsOf(years, {2, 4, 6, 8}) :
               days \in SUBSET (1 .. DaysInMonth), years \in {{}, {1992}}}

Supplement(key, t, wd) == [key |-> key,
                           values |-> [c \in {"t", "wd"} |-> IF c = "t" THEN t ELSE wd]]
Leaky == {{Supplement(k, t[k], wd[k]) : k \in 1 .. 2} :
             t \in [1 .. 2 -> {<<>>, <<-999>>, <<5>>}],
             wd \in [1 .. 2 -> {<<>>, <<-999>>, <<0>>, <<360>>, <<361>>}]}
           \cup {{Supplement(k, t[k], t[k]) : k \in 1 .. 4} :
                     t \in [1 .. 4 -> {<<-999>>, <<0>>}]}

MCCases == [bbox |-> {Case(t) : t \in Stationed},
            diurnal |-> {Case(t) : t \in Wides},
            wmo |-> {Case(t) : t \in Sparse}]
             @@ ("cross-period" :> {Case(t) : t \in Periods})
             @@ ("z-score" :> {Case(t) : t \in Steady})
             @@ ("fill-leak" :> {Case(t) : t \in Leaky})
             @@ ("wind-range" :> {Case(t) : t \in Leaky})

-----------------------------------------------------------------------------
(* What POWER serves, and the requests of its cells.                        *)
Param(column, factor, circular) ==
    [column |-> column, factor |-> factor, circular |-> circular]
MCRegistry == [T |-> Param("t", 1, FALSE), SW |-> Param("sw", 11, FALSE),
               WD |-> Param("wd", 1, TRUE)]
MCServed ==
    [monthly |->
        [T  |-> (<<1990, 1>> :> 9) @@ (<<1991, 1>> :> 5) @@ (<<1992, 1>> :> 7)
                  @@ (<<1991, 2>> :> Fill) @@ (<<1992, 2>> :> 4) @@ (<<1991, 13>> :> 6),
         SW |-> (<<1991, 1>> :> OtherFill) @@ (<<1992, 1>> :> 3) @@ (<<1991>> :> 8),
         WD |-> (<<1991, 1>> :> 355) @@ (<<1992, 1>> :> 5) @@ (<<1992, 3>> :> Fill),
         X  |-> (<<1991, 4>> :> 1)],
     daily |->
        [T  |-> (<<1991, 1, 31>> :> 5) @@ (<<1991, 2, 1>> :> Fill) @@ (<<1991, 2, 2>> :> 7),
         WD |-> (<<1991, 2, 1>> :> 90) @@ (<<1991, 2, 40>> :> 4) @@ (<<1991, 2, 3>> :> OtherFill)]]

MCBatchCap == [monthly |-> 2, daily |-> 1]

Date(day) == [shape |-> "dashed", day |-> day]
Ask(params, first, last, from, to, lat, lon) ==
    [params |-> params, first |-> first, last |-> last, from |-> from, to |-> to,
     place |-> [lat |-> lat, lon |-> lon]]
Yearly(params, first, last) == Ask(params, first, last, NoDate, NoDate, 19250, -99130)
ByDate(params, from, to) == Ask(params, 0, 0, from, to, -130, 312)
MCRequests ==
    {Yearly(<<"T", "SW", "WD">>, 1991, 1992), Yearly(<<"WD", "X", "SW">>, 1992, 1992),
     Yearly(<<"T", "Z">>, 1991, 1991), Yearly(<<>>, 1991, 1992),
     Yearly(<<"T">>, 1992, 1991), Yearly(<<"T">>, 0, 1992), Yearly(<<"T">>, 0, 0),
     ByDate(<<"T", "WD">>, Date(<<1991, 1, 31>>), Date(<<1991, 2, 2>>)),
     ByDate(<<"WD">>, Date(<<1991, 2, 1>>), Date(<<1991, 3, 1>>)),
     ByDate(<<"T">>, Date(<<1991, 2, 1>>), Date(<<1991, 1, 31>>)),
     ByDate(<<"T">>, [shape |-> "other"], Date(<<1991, 1, 31>>)),
     Ask(<<"T">>, 1991, 1991, Date(<<1991, 2, 1>>), NoDate, 0, 0)}

-----------------------------------------------------------------------------
(* The sides to compare.                                                    *)
Partial(keys, values) == UNION {[k -> values] : k \in SUBSET keys}
BothSides(keys, values) == {[base |-> b, updated |-> n] :
                            b \in Partial(keys, values), n \in Partial(keys, values)}
RowValues == {<<<<>>, <<>>>>, <<<<1>>, <<>>>>, <<<<2>>, <<1>>>>}
Tables == BothSides({<<1, 2>>, <<1, 10>>, <<2, 1>>}, RowValues)

File(parses, header, rows, warnings) ==
    [parses |-> parses, header |-> header, rows |-> rows, warnings |-> warnings]
Files == {File(FALSE, <<>>, <<>>, 0),
          File(TRUE, <<<<1>>>>, (1 :> <<<<1>>, <<>>>>), 0),
          File(TRUE, <<<<2>>>>, (1 :> <<<<2>>, <<3>>>>) @@ (2 :> <<<<1>>, <<1>>>>), 0),
          File(TRUE, <<<<1>>>>, (2 :> <<<<1>>, <<1>>>>) @@ (3 :> <<<<1>>, <<1>>>>)
                               @@ (4 :> <<<<1>>, <<>>>>), 1)}
Warned == CHOOSE f \in Files : f.warnings = 1
Pools == {[base |-> j.base, updated |-> j.updated, daily |-> TRUE] : j \in BothSides(1 .. 2, Files)}
           \cup {[base |-> [s \in 1 .. 3 |-> Warned], updated |-> [s \in 1 .. 3 |-> f],
                  daily |-> FALSE] : f \in Files}

MCJobs == [table |-> Tables, drift |-> Tables,
           universe |-> BothSides(1 .. 2, RowValues) \cup BothSides(1 .. 3, {<<>>}),
           links |-> BothSides(1 .. 3, {<<<<1>>, <<>>>>, <<<<2>>, <<1>>>>}),
           manifest |-> BothSides(1 .. 3, {1, 2}), warnings |-> BothSides(1 .. 3, {1, 2}),
           validate |-> {[base |-> j.base, updated |-> j.updated, native |-> native] :
                            j \in BothSides(1 .. 3, {1, 2}), native \in {{}, {2}}},
           snapshots |-> Pools]
=============================================================================
