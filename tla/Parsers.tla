------------------------------- MODULE Parsers -------------------------------
(***************************************************************************)
(* The readers of what CONAGUA publishes (internal/conagua): the header of *)
(* a station file, the daily rows or the normals' sections below it, and   *)
(* the catalog of a state.  A file is a sequence of lines and one action   *)
(* reads one of them, as bufio's ReadString hands them out; a token is a   *)
(* string the number parsers accept or not.                                *)
(***************************************************************************)
EXTENDS Integers, Sequences, FiniteSets, SequencesExt

CONSTANTS Inputs,  \* the files: [kind, lines], a normals file with the period
                   \* expected of it
          Pages    \* the catalog pages: sequences of table rows

(* A file is of lines and a page of rows; a label's value is a token and the *)
(* units after it, a day has its fields, and a clave its digits.             *)
ASSUME InputsAssumption ==
    /\ \A file \in Inputs :
          /\ file.kind \in {"daily", "normals"}
          /\ file.lines \in Seq(ToSet(file.lines))
          /\ \A line \in ToSet(file.lines) : line.kind = "label" =>
                /\ line.val = [token |-> line.val.token, units |-> line.val.units]
                /\ line.val.units \in Seq(ToSet(line.val.units))
          /\ \A line \in ToSet(file.lines) : line.kind = "day" =>
                line.fields \in Seq(ToSet(line.fields))
    /\ \A page \in Pages :
          /\ page \in Seq(ToSet(page))
          /\ \A row \in ToSet(page) : row.clave \in Seq(ToSet(row.clave))

VARIABLE parse

Nil == "nil"

(* isMissingToken, and what ParseFloat and Atoi accept.  A date is DD/YYYY   *)
(* and takes its month from its column.                                      *)
MissingTokens == {"", "NULO", "-999"}
Floats == {"-999", "1", "1.5", "2"}
Ints   == {"-999", "1", "2"}
Dates(month) == {"28/1998"} \cup (IF month = 2 THEN {} ELSE {"30/1998"})

(* A token that is read: nothing when it is missing or malformed, and a      *)
(* warning in the second case.                                               *)
ReadAs(tokens, t) == IF t \in tokens \ MissingTokens THEN t ELSE Nil
Malformed(tokens, t) == t \notin tokens \cup MissingTokens

-----------------------------------------------------------------------------
(* The header's fields; a value is its token and the units after it, a text  *)
(* a token.                                                                  *)
(* numericHeaderTrims: the units each trimmer takes off.                     *)
Degrees == {<<>>, <<"deg">>}
numericHeaderTrims ==
    [key \in {"LATITUD", "LONGITUD", "ALTITUD"} |->
        IF key = "ALTITUD" THEN {<<>>, <<"msnm">>, <<"MSNM">>, <<"MSNM", "msnm">>}
                           ELSE Degrees]
NumericKeys == DOMAIN numericHeaderTrims
TextKeys    == {"ESTACION", "NOMBRE", "ESTADO", "MUNICIPIO", "SITUACION", "CVE-OMM"}
KnownKeys   == NumericKeys \cup TextKeys

parseStatus(text) == CASE text = "operando"   -> "operating"
                       [] text = "suspendida" -> "suspended"
                       [] OTHER               -> "unknown"

Trimmed(key, val) == val.units \in numericHeaderTrims[key]
BadNumber(key, val) == ~Trimmed(key, val) \/ Malformed(Floats, val.token)

parseHeaderFloat(key, val) ==
    IF BadNumber(key, val) THEN Nil ELSE ReadAs(Floats, val.token)

FieldValue(key, val) == CASE key \in NumericKeys -> parseHeaderFloat(key, val)
                          [] key = "SITUACION"   -> parseStatus(val.token)
                          [] OTHER               -> val

NoHeader == [key \in KnownKeys |-> Nil]
NoWrap == [key |-> "-"]

(* A unit pushed onto the next line, if the value with it is a number.       *)
Joined(val, line) == [val EXCEPT !.units = Append(@, line.unit)]
Rejoins(wrap, line) ==
    /\ wrap # NoWrap /\ line.kind = "tail"
    /\ Trimmed(wrap.key, Joined(wrap.val, line))
    /\ wrap.val.token \in Floats

-----------------------------------------------------------------------------
(* The sections of a normals file and the rows of them it keeps.             *)
Sections == {"tmax", "tmin", "tmean", "precip", "evap", "raindays"}
RowKinds == {"normal", "extreme", "extremeYear", "dailyExtreme",
             "dailyExtremeDate", "yearsWithData"}
Kept(section, row) ==
    \/ section \in Sections /\ row \in {"normal", "yearsWithData"}
    \/ section \in {"tmax", "tmin", "precip"} /\ row \in RowKinds
Slots == {slot \in Sections \X RowKinds : Kept(slot[1], slot[2])}

(* The twelve months; a row may have an annual column after them.            *)
MonthCount == 2
Months == 1 .. MonthCount

(* Empty fields are skipped, and a short row leaves its last months empty.   *)
monthlyTokens(fields) ==
    LET given == SelectSeq(fields, LAMBDA t : t # "")
    IN [m \in Months |-> IF m \in DOMAIN given THEN given[m] ELSE ""]

Readable(row, month) == CASE row \in {"extremeYear", "yearsWithData"} -> Ints
                          [] row = "dailyExtremeDate" -> Dates(month)
                          [] OTHER -> Floats
MonthlyValues(row, fields) ==
    [m \in Months |-> ReadAs(Readable(row, m), monthlyTokens(fields)[m])]
MonthlyWarnings(row, fields, at) ==
    {<<"body", at, m>> : m \in {n \in Months :
        Malformed(Readable(row, n), monthlyTokens(fields)[n])}}

NoSlots == [slot \in Slots |-> [m \in Months |-> Nil]]

-----------------------------------------------------------------------------
(* The reader.  A warning is the part, the line number within it and the     *)
(* column or the reason.                                                     *)
Unparsed == [at |-> "idle"]
ParseInit == parse = Unparsed

Lines == parse.file.lines
EOF   == parse.next > Len(Lines)
Line  == Lines[parse.next]
LineNo == parse.next - parse.skipped

Reading(file) ==
    [file |-> file, at |-> "header", next |-> 1, skipped |-> 0, h |-> NoHeader,
     started |-> FALSE, wrap |-> NoWrap, warnings |-> {}, rows |-> <<>>,
     section |-> "none", acc |-> NoSlots]

(* scanPeriod: the first banner anywhere in a normals file.                  *)
scanPeriod(file) ==
    LET banners == {i \in DOMAIN file.lines : file.lines[i].kind = "banner"}
    IN IF banners = {} THEN Nil
       ELSE file.lines[CHOOSE i \in banners : \A j \in banners : i <= j].period

ParseStarts ==
    /\ parse = Unparsed
    /\ \E file \in Inputs :
         parse' = IF file.kind = "normals" /\ scanPeriod(file) # file.expected
                  THEN [Reading(file) EXCEPT !.at = "refused"] ELSE Reading(file)

(* Blank lines and banners before the first known field are passed over.     *)
BeforeHeader ==
    /\ parse.at = "header" /\ ~parse.started /\ ~EOF
    /\ Line.kind # "label"
    /\ parse' = [parse EXCEPT !.next = @ + 1]

NoHeaderFound ==
    /\ parse.at = "header" /\ ~parse.started /\ EOF
    /\ parse' = [parse EXCEPT !.at = "refused"]

(* A slip of WrapAfter: a text field leaves the number above it open.        *)
WrapKept(key, val) ==
    IF key \in NumericKeys THEN [key |-> key, val |-> val] ELSE parse.wrap

(* Only the numeric field of the line just above can be continued.           *)
WrapAfter(key, val) ==
    IF key \in NumericKeys THEN [key |-> key, val |-> val] ELSE NoWrap

HeaderField ==
    /\ parse.at = "header" /\ ~EOF
    /\ Line.kind = "label"
    /\ LET key == Line.key  known == key \in KnownKeys
       IN parse' = [parse EXCEPT
              !.next = @ + 1,
              !.started = @ \/ known,
              !.h = IF known THEN [@ EXCEPT ![key] = FieldValue(key, Line.val)] ELSE @,
              !.wrap = WrapAfter(key, Line.val),
              !.warnings = IF key \in NumericKeys /\ BadNumber(key, Line.val)
                           THEN @ \cup {<<"header", LineNo, key>>} ELSE @]

RejoinWrappedValue ==
    /\ parse.at = "header" /\ parse.started /\ ~EOF
    /\ Rejoins(parse.wrap, Line)
    /\ LET val == Joined(parse.wrap.val, Line)  key == parse.wrap.key
       IN parse' = [parse EXCEPT
              !.next = @ + 1, !.wrap.val = val,
              !.h[key] = FieldValue(key, val),
              !.warnings = @ \cup {<<"header", LineNo, "wrapped">>}]

(* The block ends at a blank line or the end of the file, or at a line it    *)
(* cannot attribute, which is consumed and reported.                         *)
HeaderEnds ==
    /\ parse.at = "header" /\ parse.started
    /\ ~EOF => Line.kind # "label" /\ ~Rejoins(parse.wrap, Line)
    /\ parse' = [parse EXCEPT
           !.at = "body", !.next = @ + 1, !.skipped = parse.next,
           !.warnings = IF EOF \/ Line.kind = "blank" THEN @
                        ELSE @ \cup {<<"header", LineNo, "ended">>}]

(* Daily: a line whose first field is a date is a row, if it has the four    *)
(* values after it.                                                          *)
DailyRow == [date |-> Line.label,
             values |-> [i \in 1 .. 4 |-> ReadAs(Floats, Line.fields[i])]]
DailyLine ==
    /\ parse.at = "body" /\ parse.file.kind = "daily" /\ ~EOF
    /\ parse' =
         IF Line.kind # "day" THEN [parse EXCEPT !.next = @ + 1]
         ELSE IF Len(Line.fields) < 4
         THEN [parse EXCEPT !.next = @ + 1,
                            !.warnings = @ \cup {<<"body", LineNo, "short">>}]
         ELSE [parse EXCEPT
                  !.next = @ + 1, !.rows = Append(@, DailyRow),
                  !.warnings = @ \cup {<<"body", LineNo, i>> :
                      i \in {j \in 1 .. 4 : Malformed(Floats, Line.fields[j])}}]

(* A slip of Title: what is not parsed is not a title.                       *)
ParsedTitle(line) == line.kind = "title" /\ line.section # "ignored"

(* sectionByTitle; HUMEDAD RELATIVA opens a section that is ignored.         *)
Title(line) == line.kind = "title"

(* Normals: a title opens its section; a labelled row fills its slot, again  *)
(* if it comes again.                                                        *)
NormalsLine ==
    /\ parse.at = "body" /\ parse.file.kind = "normals" /\ ~EOF
    /\ parse' =
         CASE Title(Line) ->
                [parse EXCEPT !.next = @ + 1, !.section = Line.section]
           [] Line.kind = "row" /\ parse.section \in Sections ->
                [parse EXCEPT
                    !.next = @ + 1,
                    !.warnings = @ \cup MonthlyWarnings(Line.label, Line.fields, LineNo),
                    !.acc = IF Kept(parse.section, Line.label)
                            THEN [@ EXCEPT ![<<parse.section, Line.label>>] =
                                      MonthlyValues(Line.label, Line.fields)]
                            ELSE @]
           [] OTHER -> [parse EXCEPT !.next = @ + 1]

BodyEnds ==
    /\ parse.at = "body" /\ EOF
    /\ parse' = [parse EXCEPT !.at = "read"]

-----------------------------------------------------------------------------
(* A row of the catalog's table: its number of cells, whether one of them    *)
(* spans, its clave, texts, and links [kind, id], a link with no kind being  *)
(* of no directory that is known.  Claves and ids are digits.                *)
IsDigits(clave) == clave # <<>> /\ ToSet(clave) \subseteq 0 .. 9
IsDataRow(row) == ~row.spans /\ row.cells >= 8 /\ IsDigits(row.clave)

AllKinds == <<"daily", "normals">>
NoId == <<>>

(* A later link of the same kind replaces the one before.                    *)
LinksOf(row, kind) == SelectSeq(row.links, LAMBDA link : link.kind = kind)
FilesOf(row) ==
    [kind \in {k \in ToSet(AllKinds) : LinksOf(row, k) # <<>>} |->
        Last(LinksOf(row, kind))]

WithId(row) == SelectSeq(AllKinds, LAMBDA k : k \in DOMAIN FilesOf(row)
                                               /\ FilesOf(row)[k].id # NoId)
canonicalStationID(row) ==
    IF WithId(row) # <<>> THEN FilesOf(row)[Head(WithId(row))].id
    ELSE [i \in 1 .. (5 - Len(row.clave)) |-> 0] \o row.clave

(* ShortID: the leading zeros go, all but the last digit.                    *)
ShortID(id) ==
    LET rest == {i \in DOMAIN id : id[i] # 0 \/ i = Len(id)}
    IN SubSeq(id, CHOOSE i \in rest : \A j \in rest : i <= j, Len(id))

ParseRow(row) == [id |-> canonicalStationID(row), status |-> parseStatus(row.status),
                  files |-> FilesOf(row)]

CatalogStarts ==
    /\ parse = Unparsed
    /\ \E page \in Pages :
         parse' = [at |-> "page", page |-> page, next |-> 1, stations |-> <<>>]

CatalogRow ==
    /\ parse.at = "page" /\ parse.next <= Len(parse.page)
    /\ LET row == parse.page[parse.next]
       IN parse' = [parse EXCEPT
              !.next = @ + 1,
              !.stations = IF IsDataRow(row) THEN Append(@, ParseRow(row)) ELSE @]

CatalogEnds ==
    /\ parse.at = "page" /\ parse.next > Len(parse.page)
    /\ parse' = [parse EXCEPT !.at = "listed"]

ParseNext ==
    \/ ParseStarts \/ CatalogStarts
    \/ BeforeHeader \/ NoHeaderFound \/ HeaderField \/ RejoinWrappedValue
    \/ HeaderEnds \/ DailyLine \/ NormalsLine \/ BodyEnds
    \/ CatalogRow \/ CatalogEnds

=============================================================================
