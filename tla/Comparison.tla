----------------------------- MODULE Comparison -----------------------------
(***************************************************************************)
(* The parity gates (internal/parity): two databases, or two snapshots,    *)
(* are set side by side and every row is found identical, different, or on *)
(* one side only.  Rows are aligned by walking two ordered slices, or over *)
(* the ordered union of two key sets, one action a row; the stations of    *)
(* two snapshots are compared by a pool of workers and reduced in order.   *)
(*                                                                         *)
(* Keys are numbers, in the order of the rendered ones; a table's key is   *)
(* its period and month; a NULL is <<>>.                                   *)
(***************************************************************************)
EXTENDS Integers, Sequences, FiniteSets, SequencesExt

CONSTANTS Jobs,     \* Jobs[gate]: what it compares, [base, updated]
          Width,    \* the value columns of a row: 1 .. Width
          Workers,  \* of mapStations
          Cap       \* DBSampleCap, ExampleCap

ASSUME ComparisonAssumption ==
    Width \in Nat /\ Cap \in Nat /\ IsFiniteSet(Workers)

(* The sides are finite, keyed by numbers or by a period and a month; rows   *)
(* of one key have the same columns, a multiset counts what it holds, and   *)
(* the files that parse have the same header fields and the same columns.   *)
ASSUME JobsAssumption ==
    LET Row(r, columns) ==
            /\ r = [c \in columns |-> r[c]]
            /\ IsFiniteSet(columns) /\ columns \subseteq Int
        SameColumns(b, n) ==
            /\ \A k \in DOMAIN b : Row(b[k], DOMAIN b[k])
            /\ \A k \in DOMAIN b \cap DOMAIN n : Row(n[k], DOMAIN b[k])
        Parsed(f) == /\ IsFiniteSet(DOMAIN f.rows) /\ DOMAIN f.rows \subseteq Int
                     /\ f.rows = [d \in DOMAIN f.rows |-> f.rows[d]]
                     /\ Row(f.header, DOMAIN f.header)
                     /\ f = [parses |-> TRUE, header |-> f.header, rows |-> f.rows,
                             warnings |-> f.warnings]
        Typed(gate, b, n) ==
            CASE gate \in {"table", "drift"} ->
                   \A side \in {b, n} : /\ DOMAIN side \subseteq Int \X Nat
                                        /\ \A k \in DOMAIN side : Row(side[k], 1 .. Width)
              [] gate \in {"universe", "links"} ->
                   DOMAIN b \cup DOMAIN n \subseteq Int /\ SameColumns(b, n)
              [] gate = "manifest" -> DOMAIN b \cup DOMAIN n \subseteq Int
              [] gate \in {"warnings", "validate"} ->
                   \A side \in {b, n} : /\ DOMAIN side \subseteq Int
                                        /\ \A k \in DOMAIN side : side[k] \in Nat \ {0}
              [] gate = "snapshots" ->
                   /\ DOMAIN b \cup DOMAIN n \subseteq Int
                   /\ \A side \in {b, n} : \A s \in DOMAIN side :
                        side[s].parses \in BOOLEAN /\ (side[s].parses => Parsed(side[s]))
                   /\ \A s \in DOMAIN b \cap DOMAIN n : b[s].parses /\ n[s].parses =>
                        /\ DOMAIN b[s].header = DOMAIN n[s].header
                        /\ SameColumns(b[s].rows, n[s].rows)
    IN /\ DOMAIN Jobs = {"table", "drift", "universe", "links", "manifest", "warnings",
                         "validate", "snapshots"}
       /\ \A gate \in DOMAIN Jobs : \A job \in Jobs[gate] :
            /\ IsFiniteSet(DOMAIN job.base) /\ IsFiniteSet(DOMAIN job.updated)
            /\ Typed(gate, job.base, job.updated)

VARIABLE compare

-----------------------------------------------------------------------------
(* Sampled and Capped: an exact counter and the first Cap findings.         *)
None == [total |-> 0, samples |-> <<>>]
First(samples) == SubSeq(samples, 1, IF Len(samples) < Cap THEN Len(samples) ELSE Cap)
Add(s, v) == [total |-> s.total + 1, samples |-> First(Append(s.samples, v))]
AddAll(s, vs) == FoldLeft(Add, s, vs)
(* A slip of Merge: what is counted is what is shown.                       *)
MergeShown(c, o) == [total |-> c.total + Len(o.samples),
                     samples |-> First(c.samples \o o.samples)]

Merge(c, o) == [total |-> c.total + o.total,
                samples |-> First(c.samples \o o.samples)]

Ordered(keys) == [i \in 1 .. Cardinality(keys) |->
                     CHOOSE k \in keys : Cardinality({l \in keys : l < k}) = i - 1]

(* dbDiffCollector: the columns whose optional values differ.               *)
DiffColumns(base, updated) == {c \in DOMAIN base : base[c] # updated[c]}
Keyed(key, columns) ==
    [i \in DOMAIN Ordered(columns) |-> <<key, Ordered(columns)[i]>>]
Diffs(key, base, updated) == Keyed(key, DiffColumns(base, updated))

(* TableComparison.                                                         *)
EmptyTable == [compared |-> 0, identical |-> 0, diffs |-> None,
               baseOnly |-> None, newOnly |-> None]
BaseRows(t) == t.compared + t.baseOnly.total
NewRows(t)  == t.compared + t.newOnly.total
Aligned(t, key, base, updated) ==
    [t EXCEPT !.compared = @ + 1,
              !.identical = IF DiffColumns(base, updated) = {} THEN @ + 1 ELSE @,
              !.diffs = AddAll(@, Diffs(key, base, updated))]

(* DriftTable: a value is identical, revised, appended or removed.          *)
ValueColumns == 1 .. Width
Classes == {"identical", "revised", "appended", "removed"}
EmptyDrift == [aligned |-> 0, baseOnly |-> None, newOnly |-> None, revisions |-> None,
               values |-> [c \in ValueColumns |-> [class \in Classes |-> 0]]]
Class(b, n) == CASE b = n                 -> "identical"
                 [] b # n /\ b = <<>>     -> "appended"
                 [] b # n /\ n = <<>>     -> "removed"
                 [] OTHER                 -> "revised"
Classified(values, columns, base, updated) ==
    [c \in ValueColumns |-> [class \in Classes |->
        IF c \in columns /\ Class(base[c], updated[c]) = class
        THEN values[c][class] + 1 ELSE values[c][class]]]
Revisions(key, base, updated) ==
    Keyed(key, {c \in DOMAIN base : Class(base[c], updated[c]) = "revised"})
classifyAlignedRow(t, key, base, updated) ==
    [t EXCEPT !.aligned = @ + 1,
              !.values = Classified(@, ValueColumns, base, updated),
              !.revisions = AddAll(@, Revisions(key, base, updated))]

(* classifyOneSidedRow: only the values the row has.                        *)
Absent == [c \in ValueColumns |-> <<>>]
GivenIn(row) == {c \in ValueColumns : row[c] # <<>>}

-----------------------------------------------------------------------------
(* mergeRows, mergeSupplementRows: two slices in the order of their texts.   *)
Uncompared == [at |-> "idle"]
CompareInit == compare = Uncompared

Job == compare.job
Drift == compare.gate = "drift"

(* SELECT ... ORDER BY period, month: the key's columns as they are.         *)
TextBefore(k, l) ==
    \E i \in DOMAIN l : /\ i \in DOMAIN k => k[i] < l[i]
                        /\ \A j \in 1 .. i - 1 : j \in DOMAIN k /\ k[j] = l[j]
Selected(table) ==
    LET keys == DOMAIN table IN
    [i \in 1 .. Cardinality(keys) |->
        LET key == CHOOSE k \in keys : Cardinality({l \in keys : TextBefore(l, k)}) = i - 1
        IN [key |-> key, values |-> table[key]]]

(* A slip of rowKey: the month is not padded.                                *)
Unpadded(key) == <<key[1]>> \o (IF key[2] < 10 THEN <<key[2]>>
                                ELSE <<key[2] \div 10, key[2] % 10>>)

(* The text a row is aligned by: the month with its two digits.              *)
rowKey(key) == <<key[1], key[2] \div 10, key[2] % 10>>

BaseLeft == compare.i <= Len(compare.base)
NewLeft  == compare.j <= Len(compare.updated)
BaseRow  == compare.base[compare.i]
NewRow   == compare.updated[compare.j]
BaseIsFirst == TextBefore(rowKey(BaseRow.key), rowKey(NewRow.key))
NewIsFirst  == TextBefore(rowKey(NewRow.key), rowKey(BaseRow.key))

(* A slip of TakesBase: of two rows with the same key, the base's is taken.  *)
BaseFirst == BaseLeft /\ (NewLeft => ~NewIsFirst)

TakesBase == BaseLeft /\ (NewLeft => BaseIsFirst)
TakesNew  == NewLeft /\ (BaseLeft => NewIsFirst)

MergeStarts ==
    /\ compare = Uncompared
    /\ \E gate \in {"table", "drift"} : \E job \in Jobs[gate] :
         compare' = [at |-> "merge", gate |-> gate, job |-> job, i |-> 1, j |-> 1,
                     base |-> Selected(job.base), updated |-> Selected(job.updated),
                     tally |-> IF gate = "drift" THEN EmptyDrift ELSE EmptyTable]

MergeBaseOnly ==
    /\ compare.at = "merge" /\ TakesBase
    /\ LET t == [compare.tally EXCEPT !.baseOnly = Add(@, BaseRow.key)]
           row == BaseRow.values IN
       compare' = [compare EXCEPT !.i = @ + 1,
           !.tally = IF Drift
                     THEN [t EXCEPT !.values = Classified(@, GivenIn(row), row, Absent)]
                     ELSE t]

MergeNewOnly ==
    /\ compare.at = "merge" /\ TakesNew
    /\ LET t == [compare.tally EXCEPT !.newOnly = Add(@, NewRow.key)]
           row == NewRow.values IN
       compare' = [compare EXCEPT !.j = @ + 1,
           !.tally = IF Drift
                     THEN [t EXCEPT !.values = Classified(@, GivenIn(row), Absent, row)]
                     ELSE t]

MergeAligned ==
    /\ compare.at = "merge" /\ BaseLeft /\ NewLeft /\ ~TakesBase /\ ~TakesNew
    /\ compare' = [compare EXCEPT !.i = @ + 1, !.j = @ + 1,
           !.tally = IF Drift
                     THEN classifyAlignedRow(@, BaseRow.key, BaseRow.values, NewRow.values)
                     ELSE Aligned(@, BaseRow.key, BaseRow.values, NewRow.values)]

MergeEnds ==
    /\ compare.at = "merge" /\ ~BaseLeft /\ ~NewLeft
    /\ compare' = [compare EXCEPT !.at = "compared"]

-----------------------------------------------------------------------------
(* Over the union of two key sets: the stations of two databases or the     *)
(* files of two directories, the cells and links derived from the stations  *)
(* and those stored, the fields of a run's manifest and those expected, the *)
(* multisets of warnings.                                                   *)
EmptyValidate == [baseRows |-> 0, newRows |-> 0, identical |-> 0, native |-> <<0, 0>>,
                  baseOnly |-> None, newOnly |-> None,
                  baseOnlyRows |-> 0, newOnlyRows |-> 0]

(* comparePowerLinks: the stations that derive a link, then the other links. *)
KeysToWalk(gate, base, updated) ==
    IF gate = "links" THEN Ordered(DOMAIN base) \o Ordered(DOMAIN updated \ DOMAIN base)
    ELSE Ordered(DOMAIN base \cup DOMAIN updated)

UnionStarts ==
    /\ compare = Uncompared
    /\ \E gate \in {"universe", "links", "manifest", "warnings", "validate"} :
         \E job \in Jobs[gate] :
           compare' = [at |-> "union", gate |-> gate, job |-> job,
                       left |-> KeysToWalk(gate, job.base, job.updated),
                       tally |-> CASE gate = "validate" -> EmptyValidate
                                   [] gate = "manifest" -> None
                                   [] OTHER             -> EmptyTable]

Key == Head(compare.left)
Multiplicity(side) == IF Key \in DOMAIN side THEN side[Key] ELSE 0

UniverseKey ==
    /\ compare.at = "union" /\ compare.gate \in {"universe", "links"} /\ compare.left # <<>>
    /\ LET t == compare.tally IN
       compare' = [compare EXCEPT !.left = Tail(@),
           !.tally = IF Key \notin DOMAIN Job.updated THEN [t EXCEPT !.baseOnly = Add(@, Key)]
                     ELSE IF Key \notin DOMAIN Job.base THEN [t EXCEPT !.newOnly = Add(@, Key)]
                     ELSE Aligned(t, Key, Job.base[Key], Job.updated[Key])]

(* checkRunManifest: what a complete run recorded, beside the registry.     *)
Agrees(key) == /\ key \in DOMAIN Job.base \cap DOMAIN Job.updated
               /\ Job.base[key] = Job.updated[key]
ManifestField ==
    /\ compare.at = "union" /\ compare.gate = "manifest" /\ compare.left # <<>>
    /\ compare' = [compare EXCEPT !.left = Tail(@),
           !.tally = IF Agrees(Key) THEN @ ELSE Add(@, Key)]

(* compareWarnings: a tuple and how often it occurs; unequal is one diff.   *)
WarningTuple ==
    /\ compare.at = "union" /\ compare.gate = "warnings" /\ compare.left # <<>>
    /\ LET b == Multiplicity(Job.base)  n == Multiplicity(Job.updated)
           t == compare.tally IN
       compare' = [compare EXCEPT !.left = Tail(@),
           !.tally = IF n = 0 THEN [t EXCEPT !.baseOnly = Add(@, Key)]
                     ELSE IF b = 0 THEN [t EXCEPT !.newOnly = Add(@, Key)]
                     ELSE Aligned(t, Key, <<b>>, <<n>>)]

(* CompareValidate: what both have is identical, the surplus is one-sided;  *)
(* of a rule that is not among the reference's only the rows are counted.   *)
Least(b, n) == IF b < n THEN b ELSE n
ValidateTuple ==
    /\ compare.at = "union" /\ compare.gate = "validate" /\ compare.left # <<>>
    /\ LET b == Multiplicity(Job.base)  n == Multiplicity(Job.updated)
           t == compare.tally IN
       compare' = [compare EXCEPT !.left = Tail(@),
           !.tally =
             IF Key \in Job.native THEN [t EXCEPT !.native = <<@[1] + b, @[2] + n>>]
             ELSE [t EXCEPT !.baseRows = @ + b, !.newRows = @ + n,
                            !.identical = @ + Least(b, n),
                            !.baseOnly = IF b > n THEN Add(@, Key) ELSE @,
                            !.newOnly  = IF n > b THEN Add(@, Key) ELSE @,
                            !.baseOnlyRows = @ + b - Least(b, n),
                            !.newOnlyRows  = @ + n - Least(b, n)]]

UnionEnds ==
    /\ compare.at = "union" /\ compare.left = <<>>
    /\ compare' = [compare EXCEPT !.at = "compared"]

-----------------------------------------------------------------------------
(* Two snapshots: of each station its file, which parses or not, with its   *)
(* header, its rows by date and its warnings.                               *)
Unread == [errors |-> <<>>, compared |-> FALSE, identical |-> FALSE,
           rowsIdentical |-> 0, rowsRevised |-> 0, appended |-> None, removed |-> None,
           revisions |-> None, headerDiffs |-> None, warningDiff |-> FALSE]

Sides == <<"base", "new">>
Broken(station, base, updated) ==
    LET parses == <<base.parses, updated.parses>>
    IN [i \in 1 .. Cardinality({s \in 1 .. 2 : ~parses[s]}) |->
           <<station, Sides[IF parses[1] THEN 2 ELSE i]>>]
Datewise(station, dates) == AddAll(None, Keyed(station, dates))

RevisedFields(station, base, updated, dates) ==
    FoldLeft(LAMBDA s, d : AddAll(s, Diffs(<<station, d>>, base[d], updated[d])), None, dates)

(* compareDailyStation, and compareNormalsStation, whose months are on both *)
(* sides and not counted: both files are tried, and then compared by date.  *)
Outcome(daily, station, base, updated) ==
    IF ~base.parses \/ ~updated.parses
    THEN [Unread EXCEPT !.errors = Broken(station, base, updated)]
    ELSE LET both    == DOMAIN base.rows \cap DOMAIN updated.rows
             revised == {d \in both : base.rows[d] # updated.rows[d]}
             added   == DOMAIN updated.rows \ DOMAIN base.rows
             gone    == DOMAIN base.rows \ DOMAIN updated.rows
             heading == DiffColumns(base.header, updated.header)
         IN [errors |-> <<>>, compared |-> TRUE,
             identical |-> /\ added \cup gone \cup revised \cup heading = {}
                           /\ base.warnings = updated.warnings,
             rowsIdentical |-> IF daily THEN Cardinality(both \ revised) ELSE 0,
             rowsRevised   |-> IF daily THEN Cardinality(revised) ELSE 0,
             appended |-> Datewise(station, added),
             removed |-> Datewise(station, gone),
             revisions |-> RevisedFields(station, base.rows, updated.rows, Ordered(revised)),
             headerDiffs |-> AddAll(None, Diffs(station, base.header, updated.header)),
             warningDiff |-> base.warnings # updated.warnings]

NotYet == "not yet"
Stations == Ordered(DOMAIN Job.base \cup DOMAIN Job.updated)
Both(station) == station \in DOMAIN Job.base /\ station \in DOMAIN Job.updated

EmptyKind == [both |-> 0, same |-> 0, revised |-> 0, errors |-> None,
              rowsIdentical |-> 0, rowsRevised |-> 0, appended |-> None,
              removed |-> None, revisions |-> None, headerDiffs |-> None,
              warningDiffs |-> None, baseOnly |-> None, newOnly |-> None]

PoolStarts ==
    /\ compare = Uncompared
    /\ \E job \in Jobs["snapshots"] :
         LET all == DOMAIN job.base \cup DOMAIN job.updated IN
         compare' = [at |-> "pool", gate |-> "snapshots", job |-> job, fed |-> 0,
                     ctx |-> "live", working |-> [w \in Workers |-> 0],
                     outcomes |-> [i \in 1 .. Cardinality(all) |-> NotYet],
                     tally |-> EmptyKind, next |-> 1]

(* The feeder hands the next station to a free worker, or sees the context  *)
(* dead; both may be ready, and select takes either.                        *)
Feed(w) ==
    /\ compare.at = "pool" /\ compare.fed < Len(Stations)
    /\ compare.working[w] = 0
    /\ compare' = [compare EXCEPT !.fed = @ + 1, !.working[w] = compare.fed + 1]

FeedStops ==
    /\ compare.at = "pool" /\ compare.fed < Len(Stations)
    /\ compare.ctx = "cancelled"
    /\ compare' = [compare EXCEPT !.at = "drain"]

(* A worker drains once the context is dead, or stores its outcome.         *)
OutcomeOf(i) ==
    LET station == Stations[i] IN
    IF Both(station)
    THEN Outcome(Job.daily, station, Job.base[station], Job.updated[station])
    ELSE Unread
WorkerDone(w) ==
    /\ compare.at \in {"pool", "drain"} /\ compare.working[w] # 0
    /\ \/ compare' = [compare EXCEPT !.working[w] = 0,
              !.outcomes[compare.working[w]] = OutcomeOf(compare.working[w])]
       \/ /\ compare.ctx = "cancelled"
          /\ compare' = [compare EXCEPT !.working[w] = 0]

PoolCancelled ==
    /\ compare.at \in {"pool", "drain"} /\ compare.ctx = "live"
    /\ compare' = [compare EXCEPT !.ctx = "cancelled"]

PoolEnds ==
    /\ \/ compare.at = "drain"
       \/ compare.at = "pool" /\ compare.fed = Len(Stations)
    /\ \A w \in Workers : compare.working[w] = 0
    /\ compare' = [compare EXCEPT !.at = IF compare.ctx = "live" THEN "reduce"
                                         ELSE "abandoned"]

(* compareKind: the outcomes, in station order.                             *)
Reduced(kr, station, o) ==
    [kr EXCEPT
        !.baseOnly = IF station \notin DOMAIN Job.updated THEN Add(@, station) ELSE @,
        !.newOnly  = IF station \notin DOMAIN Job.base THEN Add(@, station) ELSE @,
        !.both     = IF Both(station) THEN @ + 1 ELSE @,
        !.errors   = AddAll(@, o.errors),
        !.same     = IF o.compared /\ o.identical THEN @ + 1 ELSE @,
        !.revised  = IF o.compared /\ ~o.identical THEN @ + 1 ELSE @,
        !.rowsIdentical = @ + o.rowsIdentical,
        !.rowsRevised   = @ + o.rowsRevised,
        !.appended = Merge(@, o.appended),
        !.removed  = Merge(@, o.removed),
        !.revisions    = Merge(@, o.revisions),
        !.headerDiffs  = Merge(@, o.headerDiffs),
        !.warningDiffs = IF o.warningDiff THEN Add(@, station) ELSE @]

Reduce ==
    /\ compare.at = "reduce" /\ compare.next <= Len(Stations)
    /\ compare' = [compare EXCEPT !.next = @ + 1,
           !.tally = Reduced(@, Stations[compare.next], compare.outcomes[compare.next])]

Reported ==
    /\ compare.at = "reduce" /\ compare.next > Len(Stations)
    /\ compare' = [compare EXCEPT !.at = "compared"]

CompareNext ==
    \/ MergeStarts \/ UnionStarts \/ PoolStarts
    \/ MergeBaseOnly \/ MergeNewOnly \/ MergeAligned \/ MergeEnds
    \/ UniverseKey \/ ManifestField \/ WarningTuple \/ ValidateTuple \/ UnionEnds
    \/ \E w \in Workers : Feed(w) \/ WorkerDone(w)
    \/ FeedStops \/ PoolCancelled \/ PoolEnds \/ Reduce \/ Reported
=============================================================================
