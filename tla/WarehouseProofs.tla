-------------------------- MODULE WarehouseProofs ---------------------------
(***************************************************************************)
(* Proofs about Warehouse: what every variable holds at every step of      *)
(* every process and what each process leaves alone; the references of the *)
(* tables, the runs that are reaped and what is found of them, what the    *)
(* gate lets through, and what a power run's row counts; for any stations, *)
(* kinds, snapshots, places, cells, spans, faults and rules.               *)
(***************************************************************************)
EXTENDS Warehouse, FiniteSetTheorems, SequenceTheorems, WellFoundedInduction,
        TLAPS

Verdicts == {"running", "complete", "aborted"}
Reports  == [attempted : Nat, succeeded : Nat, failed : Nat, rows : Nat]
RunRows(Abouts) == [status : Verdicts, old : BOOLEAN, about : Abouts,
                    report : Reports]
Labels == {span.label : span \in Spans}

Years   == [of : {"daily", "normals"}, ends : SUBSET Nat]
Scores  == [NormalsKinds -> Table]
Rows    == [seeded : {TRUE}, place : Places \cup {NoPlace}, years : Years,
            score : Scores]
StationTables == [Stations -> Rows \cup {NoStation}]
Warnings == [Files -> Seq(Issues)]

Findings == [rule : Rules \cup {"orphan-runs"},
             table : {"none", "ingest", "power"}, run : Nat]

DatabaseType ==
    /\ station \in StationTables
    /\ tables \in [Stations -> [Kinds -> Table]]
    /\ noted \in Warnings
    /\ ingestRuns \in Seq(RunRows(Snapshots))
    /\ grid \subseteq Cells
    /\ link \in [Stations -> Cells \cup {NoCell}]
    /\ supplement \in [Cells -> [Hours -> {NoRun} \cup PowerIds]]
    /\ powerRuns \in Seq(RunRows(Labels))
    /\ findings \subseteq Findings
    /\ lock \in {"free", "ingest"}

Contexts == {"live", "cancelled"}

Ingests == [at : {"seed", "open", "loop", "file"}, date : Snapshots,
            kinds : Seq(Kinds), targets : Seq(Stations), next : Nat \ {0},
            left : Seq(Kinds), run : Nat, ctx : Contexts, report : Reports]

Drafts == [open : {TRUE}, station : [Stations -> Rows], tables : [Kinds -> Table],
           noted : Warnings, issues : Warnings]

(* Past the seed every station is known; the lock is held while a station's *)
(* transaction is open, no longer.                                         *)
IngestType ==
    /\ ingest \in Ingests \cup {Idle}
    /\ ingest.at \in {"open", "loop", "file"} => station \in [Stations -> Rows]
    /\ ingest.at \in {"loop", "file"} => ingest.run \in IngestIds
    /\ ingest.at = "file" => ~Finished
    /\ ingest.at = "file" <=> lock = "ingest"
    /\ IF lock = "ingest" THEN draft \in Drafts ELSE draft = NoDraft

Powers == [at : {"open", "cells", "loop", "fetch", "write", "abort"},
           span : Spans, view : [Stations -> Places \cup {NoPlace}],
           left : SUBSET Cells, now : Cells \cup {NoCell}, got : SUBSET Hours,
           run : Nat, ctx : Contexts, report : Reports]

PowerType ==
    /\ power \in Powers \cup {Resting}
    /\ power.at \in {"cells", "loop", "fetch", "write", "abort"} =>
           power.run \in PowerIds
    /\ power.at \in {"fetch", "write"} => power.now \in Cells

Validates == [at : {"clear", "scan", "reconcile", "rules"}, next : Nat \ {0},
              ids : SUBSET Nat, batch : SUBSET Findings]

ValidateType ==
    /\ validate \in Validates \cup {Off}
    /\ validate.at \in {"clear", "scan", "reconcile"} => validate.next \in {1, 2}
    /\ validate.at = "reconcile" =>
           validate.ids \subseteq DOMAIN Ledger(RunTables[validate.next])

Gates == [at : {"rules", "refused", "passed"}, next : DOMAIN GateRules,
          calm : BOOLEAN, errors : BOOLEAN, date : Snapshots]

GateType == gate \in Gates \cup {Off}

TypeInv == /\ DatabaseType /\ IngestType /\ PowerType /\ ValidateType
           /\ GateType /\ mishaps \in Nat /\ Events <= MaxEvents

-----------------------------------------------------------------------------
(* What the values an empty database starts from belong to.                *)
LEMMA EmptyTypes ==
    /\ Bare \in Table /\ NoTables \in [Kinds -> Table]
    /\ NoScore \in Scores /\ NoYears \in Years
    /\ Seeded \in Rows /\ NoReport \in Reports
    /\ \A row \in Rows : row # NoStation
<1>1. Bare \in Table
  BY DEF Bare, Table
<1>2. NoTables \in [Kinds -> Table] /\ NoScore \in Scores
  BY <1>1 DEF NoTables, NoScore, Scores
<1>3. NoYears \in Years
  BY DEF NoYears, Years
<1>4. Seeded \in Rows
  BY <1>2, <1>3 DEF Seeded, Rows
<1>5. NoReport \in Reports
  BY DEF NoReport, Reports
<1>6. ASSUME NEW row \in Rows PROVE row # NoStation
  <2>1. row.seeded = TRUE /\ NoStation.seeded = FALSE
    BY DEF Rows, NoStation
  <2> QED
    BY <2>1
<1> QED
  BY <1>1, <1>2, <1>3, <1>4, <1>5, <1>6

(* An upsert of rows into a table is a table, and the same rows again       *)
(* change nothing more.                                                    *)
LEMMA UpsertedTable ==
    ASSUME NEW stored \in Table, NEW rows \in Table
    PROVE  /\ Upserted(stored, rows) \in Table
           /\ Upserted(Upserted(stored, rows), rows) = Upserted(stored, rows)
           /\ Upserted(stored, Bare) = stored
<1>1. Upserted(stored, rows) \in Table
  BY DEF Upserted, Table
<1>2. Upserted(Upserted(stored, rows), rows) = Upserted(stored, rows)
  BY DEF Upserted, Table
<1>3. Upserted(stored, Bare) = stored
  BY DEF Upserted, Table, Bare
<1> QED
  BY <1>1, <1>2, <1>3

(* The columns derived from a station's tables are years and scores.       *)
LEMMA DerivedTypes ==
    ASSUME NEW rows \in [Kinds -> Table]
    PROVE  YearsOf(rows) \in Years /\ ScoreOf(rows) \in Scores
<1>1. \A k \in Kinds : Held(rows[k]) \subseteq Nat
  BY SlotsAssumption DEF Held
<1>2. Ends(Held(rows[Daily])) \subseteq Nat
  BY <1>1, KindsAssumption DEF Ends
<1>3. \A k \in NormalsKinds : PeriodOf[k] \in Nat /\ k \in Kinds
  BY KindsAssumption
<1>4. Ends({PeriodOf[k] : k \in {n \in NormalsKinds : Held(rows[n]) # {}}})
        \subseteq Nat
  BY <1>3 DEF Ends
<1>5. YearsOf(rows) \in Years
  BY <1>2, <1>4 DEF YearsOf, Years
<1>6. ScoreOf(rows) \in Scores
  BY <1>3 DEF ScoreOf, Scores
<1> QED
  BY <1>5, <1>6

(* Upserting a station leaves a known row, with the years and the score it  *)
(* had.                                                                    *)
LEMMA UpsertedStation ==
    ASSUME NEW row \in Rows \cup {NoStation},
           NEW place \in Places \cup {NoPlace}
    PROVE  /\ UpsertStation(row, place) \in Rows
           /\ row # NoStation => /\ UpsertStation(row, place).years = row.years
                                 /\ UpsertStation(row, place).score = row.score
           /\ row = NoStation =>
                  /\ UpsertStation(row, place).years = NoYears
                  /\ UpsertStation(row, place).score = NoScore
<1> DEFINE known == IF row = NoStation THEN Seeded ELSE row
<1>1. known \in Rows
  BY EmptyTypes
<1>2. Seeded.years = NoYears /\ Seeded.score = NoScore
  BY DEF Seeded
<1>3. [known EXCEPT !.place = place] \in Rows
  BY <1>1 DEF Rows
<1>4. /\ [known EXCEPT !.place = place].years = known.years
      /\ [known EXCEPT !.place = place].score = known.score
  BY <1>1 DEF Rows
<1> QED
  BY <1>1, <1>2, <1>3, <1>4 DEF UpsertStation

(* What a file gives a station has the type of what the tables hold.       *)
LEMMA ResultTypes ==
    ASSUME NEW file \in Recorded
    PROVE  /\ Result(file).rows \in Table
           /\ Result(file).named \subseteq Stations
           /\ Result(file).place \in Places \cup {NoPlace}
           /\ Result(file).issues \in Seq(Issues)
<1>1. Bare \in Table
  BY EmptyTypes
<1>2. ASSUME NEW issues \in Seq(Issues)
      PROVE  /\ Nothing(issues).rows \in Table
             /\ Nothing(issues).named \subseteq Stations
             /\ Nothing(issues).place \in Places \cup {NoPlace}
             /\ Nothing(issues).issues \in Seq(Issues)
  BY <1>1 DEF Nothing
<1>3. <<>> \in Seq(Issues) /\ <<"pull">> \in Seq(Issues)
        /\ <<"missing">> \in Seq(Issues)
  BY DEF Issues
<1>4. CASE file.outcome = "fetched"
  <2>1. file.body \in Bodies
    BY <1>4 DEF Recorded
  <2>2. Parsed(file.body) \in Seq(Issues)
    <3> DEFINE row == IF file.body.malformed THEN <<"row">> ELSE <<>>
               header == IF file.body.parsed THEN <<>> ELSE <<"header">>
    <3>1. /\ <<"row">> \in Seq(Issues) /\ <<"header">> \in Seq(Issues)
          /\ <<>> \in Seq(Issues)
      BY DEF Issues
    <3>2. row \in Seq(Issues) /\ header \in Seq(Issues)
      BY <3>1, Zenon
    <3>3. row \o header \in Seq(Issues)
      BY <3>2, ConcatProperties
    <3> QED
      BY <3>3 DEF Parsed
  <2> QED
    BY <1>1, <1>4, <2>1, <2>2 DEF Result, Opened, Bodies
<1>5. CASE file.outcome # "fetched"
  <2>1. file.outcome \in {"not_found", "error", "lost"}
    BY <1>5 DEF Recorded
  <2>2. Result(file) \in {Nothing(<<>>), Nothing(<<"pull">>), Nothing(<<"missing">>)}
    BY <2>1 DEF Result
  <2> QED
    BY <1>2, <1>3, <2>2
<1> QED
  BY <1>4, <1>5

(* A set of natural numbers that is not empty has a least one.             *)
LEMMA LeastNat ==
    ASSUME NEW T, T \subseteq Nat, T # {}
    PROVE  \E x \in T : \A y \in T : x <= y
<1> DEFINE R == {pair \in Nat \X Nat : pair[1] < pair[2]}
<1>1. IsWellFoundedOn(R, Nat)
  BY NatLessThanWellFounded DEF OpToRel
<1>2. PICK x \in T : \A y \in T : ~(<<y, x>> \in R)
  <2> HIDE DEF R
  <2> QED
    BY <1>1, WFMin
<1>3. \A y \in T : ~(y < x)
  BY <1>2
<1> QED
  BY <1>3

(* A set of numbers up to n that is not empty has a greatest one.          *)
LEMMA GreatestUpTo ==
    ASSUME NEW n \in Nat, NEW T, T \subseteq 1 .. n, T # {}
    PROVE  \E x \in T : \A y \in T : x >= y
<1> DEFINE S == {n - x : x \in T}
<1>1. S \subseteq Nat /\ S # {}
  <2>1. \A x \in T : n - x \in Nat
    OBVIOUS
  <2> QED
    BY <2>1
<1>2. PICK m \in S : \A k \in S : m <= k
  BY <1>1, LeastNat
<1>3. PICK x \in T : m = n - x
  OBVIOUS
<1>4. \A y \in T : n - x <= n - y
  BY <1>2, <1>3
<1> QED
  BY <1>4

(* The POWER cells are a finite set of positive numbers.                   *)
LEMMA CellsFinite ==
    /\ Cells \subseteq Nat \ {NoCell}
    /\ IsFiniteSet(Cells)
<1>1. CellOf \in Surjection(Places, Cells)
  BY PowerAssumption DEF Surjection, Cells
<1> QED
  BY <1>1, PowerAssumption, FS_Surjection DEF Cells

-----------------------------------------------------------------------------
(* Each verb leaves alone what it does not own.                            *)
LEMMA IngestFrame ==
    IngestActs => /\ UNCHANGED <<powered, powerRuns, findings, power, validate>>
                  /\ gate' = Disturbed
  BY DEF IngestActs, IngestStep, IngestFault, Seed, IngestLeaves, OpenIngestRun,
     StationBegins, FileTaken, StationCommits, CloseIngestRun, IngestStart,
     StationFails, CloseIngestFails, IngestCancelled, IngestKilled, database

(* Power owns the cells, their rows and its run rows.                      *)
LEMMA PowerFrame ==
    PowerActs => /\ UNCHANGED <<observed, ingestRuns, findings, lock,
                                ingestVars, validate>>
                 /\ gate' = Disturbed
  BY DEF PowerActs, PowerStep, PowerFault, PowerLeaves, OpenPowerRun,
     UpsertCells, CellBegins, PowerStops, CellFetched, CellWritten,
     ClosePowerRun, PowerStart, UpsertCellsFails, CellFails, ClosePowerFails,
     PowerCancelled, PowerKilled, database

(* Validate owns the findings and touches nothing of the verbs.            *)
LEMMA ValidateFrame ==
    ValidateActs => /\ UNCHANGED <<observed, powered, lock, ingestVars, power>>
                    /\ gate' = Disturbed
  BY DEF ValidateActs, ValidateStep, ValidateStops, ValidateStart, Clear,
     ScanOrphans, Reconcile, NextTable, ReadRule, WriteBatch, database

(* The gate only reads.                                                    *)
LEMMA GateFrame ==
    GateActs => UNCHANGED <<database, ingestVars, power, validate, mishaps>>
  BY DEF GateActs, GateStep, GateStart, GateReads, GateLeaves

(* What keeps its type when its variables stay and the ledgers only grow.   *)
LEMMA DatabaseStays ==
    ASSUME DatabaseType, UNCHANGED database
    PROVE  DatabaseType'
  BY DEF DatabaseType, PowerIds, database, observed, powered

(* Ids stay known while the ledger of ingest only grows.                   *)
LEMMA IngestStays ==
    ASSUME DatabaseType, DatabaseType', IngestType,
           UNCHANGED <<ingestVars, lock, station>>,
           Len(ingestRuns) <= Len(ingestRuns')
    PROVE  IngestType'
<1>1. IngestIds \subseteq IngestIds'
  <2>1. Len(ingestRuns) \in Nat /\ Len(ingestRuns') \in Nat
    BY DEF DatabaseType
  <2> QED
    BY <2>1 DEF IngestIds
<1> QED
  BY <1>1 DEF IngestType, ingestVars, Finished

(* And while the ledger of power only grows.                               *)
LEMMA PowerStays ==
    ASSUME DatabaseType, DatabaseType', PowerType, UNCHANGED power,
           Len(powerRuns) <= Len(powerRuns')
    PROVE  PowerType'
<1>1. PowerIds \subseteq PowerIds'
  <2>1. Len(powerRuns) \in Nat /\ Len(powerRuns') \in Nat
    BY DEF DatabaseType
  <2> QED
    BY <2>1 DEF PowerIds
<1> QED
  BY <1>1 DEF PowerType

(* The run rows a validate has found stay in the ledgers.                  *)
LEMMA ValidateStays ==
    ASSUME DatabaseType, DatabaseType', ValidateType, UNCHANGED validate,
           Len(ingestRuns) <= Len(ingestRuns'), Len(powerRuns) <= Len(powerRuns')
    PROVE  ValidateType'
<1>1. /\ DOMAIN ingestRuns \subseteq DOMAIN ingestRuns'
      /\ DOMAIN powerRuns \subseteq DOMAIN powerRuns'
  BY DEF DatabaseType
<1>2. \A table : DOMAIN Ledger(table) \subseteq DOMAIN Ledger(table)'
  BY <1>1 DEF Ledger
<1> QED
  BY <1>2 DEF ValidateType, RunTables

(* A gate that is told of a commit stays one.                              *)
LEMMA GateDisturbed ==
    ASSUME GateType, gate' = Disturbed
    PROVE  GateType'
  BY DEF GateType, Disturbed, Gates, Off

(* Where the ingest process is tells what it is, and who has the lock.     *)
LEMMA IngestPlace ==
    ASSUME DatabaseType, IngestType
    PROVE  /\ ingest.at # "idle" => ingest \in Ingests
           /\ ingest # Idle => ingest \in Ingests
           /\ ingest.at # "file" => lock = "free" /\ draft = NoDraft
           /\ ingest.at = "file" =>
                  /\ lock = "ingest" /\ draft \in Drafts
                  /\ Target \in Stations
<1>1. ingest.at # "idle" => ingest \in Ingests
  BY DEF IngestType, Idle
<1>2. ingest.at # "file" => lock = "free" /\ draft = NoDraft
  BY DEF IngestType, DatabaseType
<1>3. ASSUME ingest.at = "file" PROVE Target \in Stations
  <2>1. ingest.targets \in Seq(Stations) /\ ingest.next \in Nat \ {0}
    BY <1>1, <1>3 DEF Ingests
  <2>2. ~(ingest.next > Len(ingest.targets))
    BY <1>3 DEF IngestType, Finished
  <2> QED
    BY <2>1, <2>2 DEF Target
<1>4. ingest.at = "file" => lock = "ingest" /\ draft \in Drafts
  BY DEF IngestType
<1>5. ingest # Idle => ingest \in Ingests
  BY DEF IngestType
<1> QED
  BY <1>1, <1>2, <1>3, <1>4, <1>5

(* The seed, the station's files and the close leave the tables and the     *)
(* ingest process what they are.                                           *)
LEMMA IngestTypes ==
    ASSUME DatabaseType, IngestType, IngestStep \/ IngestFault
    PROVE  /\ DatabaseType' /\ IngestType'
           /\ Len(ingestRuns) <= Len(ingestRuns')
<1>2. CASE Seed
  <2>1. station' \in StationTables /\ station' \in [Stations -> Rows]
    BY <1>2, UpsertedStation DEF Seed, SeededTable, DatabaseType, StationTables
  <2>2. DatabaseType'
    BY <1>2, <2>1 DEF Seed, DatabaseType, powered, PowerIds
  <2>3. ingest' \in Ingests /\ ingest'.at = "open"
    BY <1>2, IngestPlace DEF Seed, Ingests
  <2>4. lock' = "free" /\ draft' = NoDraft
    BY <1>2, IngestPlace DEF Seed
  <2>5. IngestType'
    BY <2>1, <2>3, <2>4 DEF IngestType
  <2> QED
    BY <1>2, <2>2, <2>5 DEF Seed, DatabaseType
<1>3. CASE IngestLeaves
  BY <1>3, DatabaseStays DEF IngestLeaves, IngestType, Ingests, Idle, database,
     DatabaseType
<1>4. CASE OpenIngestRun
  <2>1. Opening(ingest.date) \in RunRows(Snapshots)
    BY <1>4, EmptyTypes
    DEF OpenIngestRun, IngestType, Idle, Ingests, Opening, RunRows, Verdicts
  <2>2. /\ ingestRuns' \in Seq(RunRows(Snapshots))
        /\ Len(ingestRuns') = Len(ingestRuns) + 1
    BY <1>4, <2>1 DEF OpenIngestRun, DatabaseType
  <2>3. DatabaseType'
    BY <1>4, <2>2 DEF OpenIngestRun, DatabaseType, observed, powered, PowerIds
  <2>4. ingest \in Ingests /\ lock = "free" /\ draft = NoDraft
    BY <1>4, IngestPlace DEF OpenIngestRun
  <2>5. Len(ingestRuns') \in Nat /\ Len(ingest.targets) \in Nat
    BY <2>2, <2>4 DEF Ingests
  <2>6. ingest' \in Ingests /\ ingest'.at = "loop"
          /\ ingest'.run = Len(ingestRuns')
    BY <1>4, <2>4, <2>5 DEF OpenIngestRun, Ingests, Reports
  <2>7. ingest'.run \in IngestIds'
    BY <2>2, <2>6 DEF IngestIds, DatabaseType
  <2>8. IngestType'
    BY <1>4, <2>4, <2>6, <2>7 DEF OpenIngestRun, IngestType, observed
  <2> QED
    BY <2>2, <2>3, <2>8 DEF DatabaseType
<1>5. CASE StationBegins
  <2>1. ingest \in Ingests /\ ingest.run \in IngestIds
    BY <1>5, IngestPlace DEF StationBegins, IngestType
  <2>9. Target \in Stations
    BY <1>5, <2>1 DEF StationBegins, Ingests, Target, Finished
  <2>2. DatabaseType'
    BY <1>5 DEF StationBegins, DatabaseType, observed, powered, PowerIds
  <2>3. [f \in Files |-> <<>>] \in Warnings
    BY DEF Warnings
  <2>5. draft' \in Drafts
    BY <1>5, <2>3, <2>9 DEF StationBegins, DatabaseType, IngestType, Drafts
  <2>6. ingest' \in Ingests /\ ingest'.at = "file" /\ ingest'.run = ingest.run
          /\ ingest'.next = ingest.next /\ ingest'.targets = ingest.targets
    BY <1>5, <2>1 DEF StationBegins, Ingests
  <2>4. IngestType'
    BY <1>5, <2>1, <2>5, <2>6
    DEF StationBegins, IngestType, IngestIds, Finished, observed
  <2> QED
    BY <1>5, <2>2, <2>4 DEF StationBegins, DatabaseType
<1>6. CASE FileTaken
  <2>1. lock = "ingest" /\ draft \in Drafts /\ ingest \in Ingests
    BY <1>6, IngestPlace DEF FileTaken
  <2>2. Target \in Stations
    BY <1>6, IngestPlace DEF FileTaken
  <2> DEFINE k == Head(ingest.left)
             result == Result(Manifest[ingest.date][Target][k])
  <2>3. k \in Kinds /\ Tail(ingest.left) \in Seq(Kinds)
    <3>1. ingest.left \in Seq(Kinds) /\ ingest.left # <<>>
      BY <1>6, <2>1 DEF FileTaken, Ingests
    <3> QED
      BY <3>1, HeadTailProperties
  <2>4. File(k) \in Files
    BY <2>1, <2>2, <2>3 DEF File, Files, Ingests
  <2>5. /\ result.rows \in Table
        /\ result.place \in Places \cup {NoPlace}
        /\ result.issues \in Seq(Issues)
    BY <2>1, <2>2, <2>3, ManifestAssumption, ResultTypes DEF Ingests
  <2>6. /\ draft.station \in [Stations -> Rows] /\ draft.tables \in [Kinds -> Table]
        /\ draft.noted \in Warnings /\ draft.issues \in Warnings
    BY <2>1 DEF Drafts
  <2>7. [draft.noted EXCEPT ![File(k)] = <<>>] \in Warnings
    <3>1. <<>> \in Seq(Issues)
      OBVIOUS
    <3> QED
      BY <2>6, <3>1 DEF Warnings
  <2>8. [draft.issues EXCEPT ![File(k)] = @ \o result.issues] \in Warnings
    BY <2>4, <2>5, <2>6 DEF Warnings
  <2>9. [draft.tables EXCEPT ![k] = Upserted(@, result.rows)] \in [Kinds -> Table]
    BY <2>5, <2>6, UpsertedTable
  <2>10. [s \in Stations |-> IF s \in result.named
                             THEN UpsertStation(draft.station[s], result.place)
                             ELSE draft.station[s]] \in [Stations -> Rows]
    BY <2>5, <2>6, UpsertedStation
  <2>11. draft' \in Drafts
    BY <1>6, <2>1, <2>7, <2>8, <2>9, <2>10 DEF FileTaken, Drafts
  <2>12. DatabaseType' /\ UNCHANGED <<lock, ingestRuns, station>>
    BY <1>6, DatabaseStays DEF FileTaken, database, observed
  <2>14. ingest' \in Ingests /\ ingest'.at = "file" /\ ingest'.run = ingest.run
          /\ ingest'.next = ingest.next /\ ingest'.targets = ingest.targets
    BY <1>6, <2>1, <2>3 DEF FileTaken, Ingests
  <2>13. IngestType'
    BY <1>6, <2>1, <2>11, <2>12, <2>14
    DEF FileTaken, IngestType, IngestIds, Finished
  <2> QED
    BY <2>12, <2>13 DEF DatabaseType
<1>7. CASE StationCommits
  <2>1. lock = "ingest" /\ draft \in Drafts /\ ingest \in Ingests
          /\ Target \in Stations
    BY <1>7, IngestPlace DEF StationCommits
  <2>3. /\ draft.station \in [Stations -> Rows] /\ draft.tables \in [Kinds -> Table]
        /\ draft.noted \in Warnings /\ draft.issues \in Warnings
    BY <2>1 DEF Drafts
  <2>4. YearsOf(draft.tables) \in Years /\ ScoreOf(draft.tables) \in Scores
    BY <2>3, DerivedTypes
  <2>5. draft.station[Target] \in Rows
    BY <2>1, <2>3
  <2>6. Derived \in Rows
    BY <2>4, <2>5 DEF Derived, Rows
  <2>7. station' \in [Stations -> Rows] /\ station' \in StationTables
    BY <1>7, <2>3, <2>6 DEF StationCommits, StationTables
  <2>8. tables' \in [Stations -> [Kinds -> Table]]
    BY <1>7, <2>3 DEF StationCommits, DatabaseType
  <2>9. noted' \in Warnings
    <3>1. \A f \in Files : Noted(f) \in Seq(Issues)
      BY <2>3, ConcatProperties DEF Noted, Warnings
    <3> QED
      BY <1>7, <3>1 DEF StationCommits, Warnings
  <2>10. DatabaseType'
    BY <1>7, <2>7, <2>8, <2>9 DEF StationCommits, DatabaseType, powered, PowerIds
  <2>11. ingest' \in Ingests /\ ingest'.at = "loop" /\ ingest'.run = ingest.run
    <3>1. ingest.report \in Reports /\ ingest.next + 1 \in Nat \ {0}
      BY <2>1 DEF Ingests
    <3>2. [ingest.report EXCEPT !.succeeded = @ + 1] \in Reports
      BY <3>1 DEF Reports
    <3> QED
      BY <1>7, <2>1, <3>1, <3>2 DEF StationCommits, Ingests
  <2>12. ingest.run \in IngestIds
    BY <1>7 DEF StationCommits, IngestType
  <2>13. IngestType'
    BY <1>7, <2>7, <2>11, <2>12 DEF StationCommits, IngestType, IngestIds
  <2> QED
    BY <1>7, <2>10, <2>13 DEF StationCommits, DatabaseType
<1>8. CASE CloseIngestRun
  <2>1. ingest \in Ingests /\ ingest.run \in IngestIds
          /\ lock = "free" /\ draft = NoDraft
    BY <1>8, IngestPlace DEF CloseIngestRun, IngestType
  <2>2. Closed(ingestRuns[ingest.run], IngestVerdict, ingest.report)
            \in RunRows(Snapshots)
    <3>1. ingestRuns[ingest.run] \in RunRows(Snapshots)
      BY <2>1 DEF DatabaseType, IngestIds
    <3>2. ingest.report \in Reports /\ IngestVerdict \in Verdicts
      BY <2>1 DEF Ingests, IngestVerdict, Verdicts
    <3> QED
      BY <3>1, <3>2 DEF Closed, RunRows
  <2>3. /\ ingestRuns' \in Seq(RunRows(Snapshots))
        /\ Len(ingestRuns') = Len(ingestRuns)
    BY <1>8, <2>1, <2>2, ExceptSeq DEF CloseIngestRun, DatabaseType, IngestIds
  <2>4. DatabaseType'
    BY <1>8, <2>3 DEF CloseIngestRun, DatabaseType, observed, powered, PowerIds
  <2>5. IngestType'
    BY <1>8, <2>1 DEF CloseIngestRun, IngestType, Idle, Ingests
  <2> QED
    BY <2>3, <2>4, <2>5 DEF DatabaseType
<1>9. ASSUME NEW request \in Requests, IngestStart(request)
      PROVE  DatabaseType' /\ IngestType' /\ UNCHANGED ingestRuns
  <2>1. ingest' \in Ingests
    BY <1>9, ManifestAssumption, EmptyTypes
    DEF IngestStart, Ingests, Contexts, NoRun
  <2>2. IngestType'
    BY <1>9, <2>1 DEF IngestStart, IngestType, Idle, database
  <2> QED
    BY <1>9, <2>2, DatabaseStays DEF IngestStart, database
<1>10. CASE StationFails
  <2>1. ingest \in Ingests /\ ingest.run \in IngestIds
    BY <1>10, IngestPlace DEF StationFails, IngestType
  <2>2. lock' = "free"
    BY <1>10 DEF StationFails, IngestType, DatabaseType
  <2>3. DatabaseType'
    BY <1>10, <2>2 DEF StationFails, DatabaseType, observed, powered, PowerIds
  <2>4. ingest' \in Ingests /\ ingest'.at = "loop" /\ ingest'.run = ingest.run
    <3>1. ingest.report \in Reports /\ ingest.next + 1 \in Nat \ {0}
      BY <2>1 DEF Ingests
    <3>2. [ingest.report EXCEPT !.failed = @ + 1] \in Reports
      BY <3>1 DEF Reports
    <3>3. ingest' = [ingest EXCEPT !.at = "loop", !.next = @ + 1, !.left = <<>>,
                        !.report = [ingest.report EXCEPT !.failed = @ + 1]]
      BY <1>10, <2>1 DEF StationFails, Ingests
    <3>4. <<>> \in Seq(Kinds)
      OBVIOUS
    <3> QED
      BY <2>1, <3>1, <3>2, <3>3, <3>4 DEF Ingests
  <2>5. IngestType'
    BY <1>10, <2>1, <2>2, <2>4
    DEF StationFails, IngestType, IngestIds, observed
  <2> QED
    BY <1>10, <2>3, <2>5 DEF StationFails, DatabaseType
<1>11. CASE CloseIngestFails
  BY <1>11, DatabaseStays
  DEF CloseIngestFails, IngestType, Ingests, Idle, database, DatabaseType
<1>12. CASE IngestCancelled
  <2>1. ingest \in Ingests
    BY <1>12, IngestPlace DEF IngestCancelled
  <2>2. ingest' \in Ingests /\ ingest'.at = ingest.at /\ ingest'.run = ingest.run
          /\ ingest'.next = ingest.next /\ ingest'.targets = ingest.targets
    BY <1>12, <2>1 DEF IngestCancelled, Ingests, Contexts
  <2>3. UNCHANGED <<lock, ingestRuns, draft, station>>
    BY <1>12 DEF IngestCancelled, database, observed
  <2>4. DatabaseType'
    BY <1>12, DatabaseStays DEF IngestCancelled
  <2>5. IngestType'
    BY <2>2, <2>3 DEF IngestType, IngestIds, Finished
  <2> QED
    BY <2>3, <2>4, <2>5 DEF DatabaseType
<1>13. CASE IngestKilled
  <2>1. lock' = "free"
    BY <1>13 DEF IngestKilled, DatabaseType
  <2>2. DatabaseType'
    BY <1>13, <2>1 DEF IngestKilled, DatabaseType, observed, powered, PowerIds
  <2> QED
    BY <1>13, <2>1, <2>2 DEF IngestKilled, IngestType, Idle, DatabaseType
<1> QED
  BY <1>2, <1>3, <1>4, <1>5, <1>6, <1>7, <1>8, <1>9, <1>10, <1>11, <1>12, <1>13
  DEF IngestStep, IngestFault, DatabaseType

-----------------------------------------------------------------------------
(* The first of some cells is one of them.                                 *)
LEMMA FirstCell ==
    ASSUME NEW cells \in SUBSET Cells, cells # {}
    PROVE  First(cells) \in cells
  BY CellsFinite, LeastNat DEF First

(* Where the power process is tells what it is.                            *)
LEMMA PowerPlace ==
    ASSUME PowerType
    PROVE  /\ power # Resting => power \in Powers
           /\ power.at # "idle" => power \in Powers
           /\ Ending => power \in Powers /\ power.run \in PowerIds
<1>1. power # Resting => power \in Powers
  BY DEF PowerType
<1>2. power.at # "idle" => power \in Powers
  BY DEF PowerType, Resting
<1>3. Ending => power.at \in {"abort", "loop"}
  BY DEF Ending
<1> QED
  BY <1>1, <1>2, <1>3 DEF PowerType

(* A process that moves to another step with its fields in their types.    *)
LEMMA PowerMoves ==
    ASSUME power' \in Powers, PowerIds \subseteq PowerIds',
           power'.at = "open" \/ power'.run \in PowerIds',
           power'.at \in {"fetch", "write"} => power'.now \in Cells
    PROVE  PowerType'
  BY DEF PowerType, Powers

(* Every step of power leaves the tables and its process what they are.    *)
LEMMA PowerTypes ==
    ASSUME DatabaseType, PowerType, PowerStep \/ PowerFault
    PROVE  /\ DatabaseType' /\ PowerType'
           /\ Len(powerRuns) <= Len(powerRuns')
<1>1. ASSUME UNCHANGED database
      PROVE  /\ DatabaseType' /\ Len(powerRuns) <= Len(powerRuns')
             /\ PowerIds' = PowerIds
  BY <1>1, DatabaseStays DEF database, DatabaseType, PowerIds
<1>2. ASSUME UNCHANGED database, power' = Resting
      PROVE  DatabaseType' /\ PowerType' /\ Len(powerRuns) <= Len(powerRuns')
  BY <1>1, <1>2 DEF PowerType, Resting
<1>3. ASSUME UNCHANGED database, power \in Powers, power' \in Powers,
             power'.run = power.run, power.at # "open",
             power'.at \in {"fetch", "write"} => power'.now \in Cells
      PROVE  DatabaseType' /\ PowerType' /\ Len(powerRuns) <= Len(powerRuns')
  <2>1. power.run \in PowerIds
    BY <1>3 DEF PowerType, Powers
  <2> QED
    BY <1>1, <1>3, <2>1, PowerMoves
<1>4. CASE PowerLeaves \/ ClosePowerFails \/ PowerKilled
  BY <1>2, <1>4 DEF PowerLeaves, ClosePowerFails, PowerKilled
<1>5. CASE OpenPowerRun
  <2>1. power \in Powers
    BY <1>5, PowerPlace DEF OpenPowerRun
  <2>2. Opening(power.span.label) \in RunRows(Labels)
    BY <2>1, EmptyTypes DEF Powers, Labels, Opening, RunRows, Verdicts
  <2>3. /\ powerRuns' \in Seq(RunRows(Labels))
        /\ Len(powerRuns') = Len(powerRuns) + 1
        /\ Len(powerRuns) \in Nat
    BY <1>5, <2>2 DEF OpenPowerRun, DatabaseType
  <2>4. PowerIds \subseteq PowerIds' /\ Len(powerRuns') \in PowerIds'
    BY <2>3 DEF PowerIds
  <2>5. supplement' \in [Cells -> [Hours -> {NoRun} \cup PowerIds']]
    BY <1>5, <2>4 DEF OpenPowerRun, DatabaseType, powered
  <2>6. DatabaseType'
    BY <1>5, <2>3, <2>5 DEF OpenPowerRun, DatabaseType, observed, powered
  <2>7. power' \in Powers /\ power'.at = "cells" /\ power'.run = Len(powerRuns')
    <3>1. power' = [power EXCEPT !.at = "cells", !.run = Len(powerRuns')]
      BY <1>5 DEF OpenPowerRun
    <3>2. Len(powerRuns') \in Nat
      BY <2>3
    <3> QED
      BY <2>1, <3>1, <3>2 DEF Powers
  <2> QED
    BY <2>3, <2>4, <2>6, <2>7, PowerMoves
<1>6. CASE UpsertCells
  <2>1. power \in Powers /\ power.run \in PowerIds
    BY <1>6, PowerPlace DEF UpsertCells, PowerType
  <2>2. power.view \in [Stations -> Places \cup {NoPlace}]
    BY <2>1 DEF Powers
  <2>3. Mapped(power.view) \subseteq Cells
    BY <2>2 DEF Mapped, Cells
  <2>4. link' \in [Stations -> Cells \cup {NoCell}]
    BY <1>6, <2>2 DEF UpsertCells, DatabaseType, Cells
  <2>5. DatabaseType' /\ PowerIds' = PowerIds
    BY <1>6, <2>3, <2>4 DEF UpsertCells, DatabaseType, observed, PowerIds
  <2>6. power' \in Powers /\ power'.at = "loop" /\ power'.run = power.run
    BY <1>6, <2>1 DEF UpsertCells, Powers
  <2> QED
    BY <1>6, <2>1, <2>5, <2>6, PowerMoves DEF UpsertCells, DatabaseType
<1>7. CASE CellBegins
  <2>1. power \in Powers /\ power.left \in SUBSET Cells
    BY <1>7, PowerPlace DEF CellBegins, Powers
  <2>2. First(power.left) \in Cells
    BY <1>7, <2>1, FirstCell DEF CellBegins
  <2>3. [power.report EXCEPT !.attempted = @ + 1] \in Reports
    BY <2>1 DEF Powers, Reports
  <2>4. power' = [power EXCEPT !.at = "fetch", !.now = First(power.left),
                     !.left = @ \ {First(power.left)},
                     !.report = [power.report EXCEPT !.attempted = @ + 1]]
    BY <1>7, <2>1 DEF CellBegins, Powers
  <2>5. /\ power' \in Powers /\ power'.run = power.run
        /\ power'.now = First(power.left)
    BY <2>1, <2>2, <2>3, <2>4 DEF Powers
  <2> QED
    BY <1>3, <1>7, <2>1, <2>2, <2>5 DEF CellBegins
<1>8. CASE PowerStops \/ UpsertCellsFails
  <2>1. power \in Powers
    BY <1>8, PowerPlace DEF PowerStops, UpsertCellsFails
  <2>2. power' \in Powers /\ power'.at = "abort" /\ power'.run = power.run
    BY <1>8, <2>1 DEF PowerStops, UpsertCellsFails, Powers
  <2> QED
    BY <1>3, <1>8, <2>1, <2>2 DEF PowerStops, UpsertCellsFails
<1>9. CASE CellFetched
  <2>1. power \in Powers /\ power.now \in Cells
    BY <1>9, PowerPlace DEF CellFetched, PowerType
  <2>2. \A hours \in Series[power.now] : hours \cap power.span.hours \subseteq Hours
    BY <2>1, SeriesAssumption
  <2>3. /\ power' \in Powers /\ power'.now = power.now
        /\ power'.run = power.run
    BY <1>9, <2>1, <2>2 DEF CellFetched, Powers
  <2> QED
    BY <1>3, <1>9, <2>1, <2>3 DEF CellFetched
<1>10. CASE CellWritten
  <2>1. power \in Powers /\ power.now \in Cells /\ power.run \in PowerIds
    BY <1>10, PowerPlace DEF CellWritten, PowerType
  <2>2. supplement' \in [Cells -> [Hours -> {NoRun} \cup PowerIds]]
    BY <1>10, <2>1 DEF CellWritten, DatabaseType
  <2>3. DatabaseType' /\ PowerIds' = PowerIds
    BY <1>10, <2>2 DEF CellWritten, DatabaseType, observed, PowerIds
  <2>4. RowsWritten \in Nat
    <3>1. power.got \subseteq Hours /\ IsFiniteSet(Hours)
      BY <2>1, PowerAssumption DEF Powers
    <3> QED
      BY <3>1, FS_Subset, FS_CardinalityType DEF RowsWritten
  <2>5. [power.report EXCEPT !.succeeded = @ + 1, !.rows = @ + RowsWritten]
            \in Reports
    <3>1. power.report \in Reports
      BY <2>1 DEF Powers
    <3>2. /\ power.report.rows + RowsWritten \in Nat
          /\ power.report.succeeded + 1 \in Nat
      BY <2>4, <3>1 DEF Reports
    <3> QED
      BY <3>1, <3>2 DEF Reports
  <2>6. power' = [power EXCEPT !.at = "loop", !.now = NoCell, !.got = {},
                     !.report = [power.report EXCEPT !.succeeded = @ + 1,
                                    !.rows = @ + RowsWritten]]
    BY <1>10, <2>1 DEF CellWritten, Powers, Reports
  <2>7. power' \in Powers /\ power'.at = "loop" /\ power'.run = power.run
    BY <2>1, <2>5, <2>6 DEF Powers
  <2> QED
    BY <1>10, <2>1, <2>3, <2>7, PowerMoves DEF CellWritten, DatabaseType
<1>11. CASE CellFails
  <2>1. power \in Powers /\ power.at # "open"
    BY <1>11, PowerPlace DEF CellFails
  <2>2. [power.report EXCEPT !.failed = @ + 1] \in Reports
    BY <2>1 DEF Powers, Reports
  <2>3. power' = [power EXCEPT !.at = "loop", !.now = NoCell, !.got = {},
                     !.report = [power.report EXCEPT !.failed = @ + 1]]
    BY <1>11, <2>1 DEF CellFails, Powers
  <2>4. power' \in Powers /\ power'.at = "loop" /\ power'.run = power.run
    BY <2>1, <2>2, <2>3 DEF Powers
  <2> QED
    BY <1>3, <1>11, <2>1, <2>4 DEF CellFails
<1>12. CASE ClosePowerRun
  <2>1. power \in Powers /\ power.run \in PowerIds
    BY <1>12, PowerPlace DEF ClosePowerRun
  <2>2. /\ powerRuns[power.run] \in RunRows(Labels)
        /\ power.report \in Reports /\ PowerVerdict \in Verdicts
    BY <2>1 DEF DatabaseType, PowerIds, Powers, PowerVerdict, Verdicts
  <2>3. Closed(powerRuns[power.run], PowerVerdict, power.report) \in RunRows(Labels)
    BY <2>2 DEF Closed, RunRows
  <2>4. /\ powerRuns' \in Seq(RunRows(Labels))
        /\ Len(powerRuns') = Len(powerRuns)
    BY <1>12, <2>1, <2>3, ExceptSeq DEF ClosePowerRun, DatabaseType, PowerIds
  <2>5. DatabaseType'
    BY <1>12, <2>4 DEF ClosePowerRun, DatabaseType, observed, powered, PowerIds
  <2> QED
    BY <1>12, <2>4, <2>5 DEF ClosePowerRun, DatabaseType, PowerType, Resting
<1>13. CASE PowerCancelled
  <2>1. power \in Powers
    BY <1>13, PowerPlace DEF PowerCancelled
  <2>2. /\ power' \in Powers /\ power'.at = power.at /\ power'.run = power.run
        /\ power'.now = power.now
    BY <1>13, <2>1 DEF PowerCancelled, Powers, Contexts
  <2>3. PowerIds' = PowerIds
    BY <1>1, <1>13 DEF PowerCancelled
  <2>4. PowerType'
    BY <2>2, <2>3 DEF PowerType
  <2> QED
    BY <1>1, <1>13, <2>4 DEF PowerCancelled
<1>14. ASSUME NEW span \in Spans, PowerStart(span)
       PROVE  DatabaseType' /\ PowerType' /\ Len(powerRuns) <= Len(powerRuns')
  <2> DEFINE view == [s \in Stations |-> IF Known(s) THEN station[s].place
                                         ELSE NoPlace]
  <2>1. view \in [Stations -> Places \cup {NoPlace}]
    BY DEF DatabaseType, StationTables, Rows, Known
  <2>2. Chosen(view, span.most) \subseteq Cells
    BY <2>1 DEF Chosen, Mapped, Cells
  <2>3. power' \in Powers /\ power'.at = "open"
    BY <1>14, <2>1, <2>2, EmptyTypes DEF PowerStart, Powers, Contexts, NoRun
  <2> QED
    BY <1>1, <1>14, <2>3, PowerMoves DEF PowerStart
<1> QED
  BY <1>4, <1>5, <1>6, <1>7, <1>8, <1>9, <1>10, <1>11, <1>12, <1>13, <1>14
  DEF PowerStep, PowerFault

-----------------------------------------------------------------------------
(* What the verb reports of a table, or of a rule, is a finding.            *)
LEMMA FindingTypes ==
    /\ \A table \in {"ingest", "power"}, i \in Nat : Reaped(table, i) \in Findings
    /\ \A rule \in Rules : Error(rule) \in Findings
  BY DEF Reaped, Error, Findings, NoRun

(* The overdue rows of a table are rows of it.                             *)
LEMMA OrphansTypes ==
    ASSUME DatabaseType, NEW table \in {"ingest", "power"}
    PROVE  /\ Orphans(table) \subseteq DOMAIN Ledger(table)
           /\ Orphans(table) \subseteq Nat
  BY DEF DatabaseType, Orphans, Ledger

(* A row that is closed over its process's head is still a row.            *)
LEMMA AbortedRow ==
    ASSUME NEW Abouts, NEW row \in RunRows(Abouts)
    PROVE  [row EXCEPT !.status = "aborted"] \in RunRows(Abouts)
  BY DEF RunRows, Verdicts

(* Where the validate process is tells what it is.                         *)
LEMMA ValidatePlace ==
    ASSUME ValidateType
    PROVE  /\ validate # Off => validate \in Validates
           /\ validate.at # "idle" => validate \in Validates
           /\ validate.at \in {"clear", "scan", "reconcile"} =>
                 RunTables[validate.next] \in {"ingest", "power"}
  BY DEF ValidateType, Off, RunTables

(* Closing the rows that were found settles rows of the ledgers, no others. *)
LEMMA ReconcileRows ==
    ASSUME DatabaseType, ValidateType, Reconcile
    PROVE  LET table == RunTables[validate.next] IN
           \E i \in validate.ids :
              /\ validate' = [validate EXCEPT !.ids = @ \ {i}]
              /\ \/ /\ table = "ingest" /\ i \in IngestIds
                    /\ ingestRuns' = [ingestRuns EXCEPT
                                         ![i] = [@ EXCEPT !.status = "aborted"]]
                    /\ UNCHANGED powerRuns
                 \/ /\ table = "power" /\ i \in PowerIds
                    /\ powerRuns' = [powerRuns EXCEPT
                                        ![i] = [@ EXCEPT !.status = "aborted"]]
                    /\ UNCHANGED ingestRuns
<1> DEFINE i == CHOOSE j \in validate.ids : \A k \in validate.ids : j <= k
<1>1. validate \in Validates
  BY ValidatePlace DEF Reconcile
<1>2. i \in validate.ids
  BY <1>1, LeastNat DEF Reconcile, Validates
<1>3. i \in DOMAIN Ledger(RunTables[validate.next])
  BY <1>2 DEF Reconcile, ValidateType
<1>4. DOMAIN ingestRuns = IngestIds /\ DOMAIN powerRuns = PowerIds
  BY DEF DatabaseType, IngestIds, PowerIds
<1>5. CASE RunTables[validate.next] = "ingest"
  BY <1>2, <1>3, <1>4, <1>5 DEF Reconcile, Ledger
<1>6. CASE RunTables[validate.next] # "ingest"
  <2>1. RunTables[validate.next] = "power"
    BY <1>6, ValidatePlace DEF Reconcile
  <2> QED
    BY <1>2, <1>3, <1>4, <2>1 DEF Reconcile, Ledger
<1> QED
  BY <1>5, <1>6

(* Every step of validate leaves the tables and its process what they are. *)
LEMMA ValidateTypes ==
    ASSUME DatabaseType, ValidateType, ValidateStep \/ ValidateStops
    PROVE  /\ DatabaseType' /\ ValidateType'
           /\ Len(ingestRuns') = Len(ingestRuns)
           /\ Len(powerRuns') = Len(powerRuns)
<1>1. ASSUME UNCHANGED database
      PROVE  /\ DatabaseType' /\ UNCHANGED <<ingestRuns, powerRuns>>
  BY <1>1, DatabaseStays DEF database
<1>2. CASE ValidateStart
  <2>1. validate' \in Validates /\ validate'.at = "clear" /\ validate'.next = 1
    BY <1>2 DEF ValidateStart, Validates
  <2> QED
    BY <1>1, <1>2, <2>1 DEF ValidateStart, ValidateType
<1>3. CASE ValidateStops
  BY <1>1, <1>3 DEF ValidateStops, ValidateType, Off
<1>4. CASE Clear
  <2>1. validate \in Validates /\ validate.next \in {1, 2}
    BY <1>4, ValidatePlace DEF Clear, ValidateType
  <2>2. DatabaseType'
    BY <1>4 DEF Clear, DatabaseType, observed, powered, PowerIds
  <2>3. /\ validate' \in Validates /\ validate'.at \in {"scan", "rules"}
        /\ validate'.next = validate.next
    BY <1>4, <2>1 DEF Clear, Validates
  <2> QED
    BY <1>4, <2>1, <2>2, <2>3 DEF Clear, ValidateType
<1>5. CASE ScanOrphans
  <2> DEFINE table == RunTables[validate.next]
  <2>1. /\ validate \in Validates /\ validate.next \in {1, 2}
        /\ table \in {"ingest", "power"}
    BY <1>5, ValidatePlace DEF ScanOrphans, ValidateType
  <2>2. /\ Orphans(table) \subseteq DOMAIN Ledger(table)
        /\ Orphans(table) \subseteq Nat
    BY <2>1, OrphansTypes
  <2>3. {Reaped(table, i) : i \in Orphans(table)} \subseteq Findings
    BY <2>1, <2>2, FindingTypes
  <2>4. /\ validate' \in Validates /\ validate'.at = "reconcile"
        /\ validate'.next = validate.next
        /\ validate'.ids = Orphans(table)
    BY <1>5, <2>1, <2>2, <2>3 DEF ScanOrphans, Validates
  <2>5. Ledger(table)' = Ledger(table)
    BY <1>1, <1>5, <2>4 DEF ScanOrphans, Ledger
  <2> QED
    BY <1>1, <1>5, <2>1, <2>2, <2>4, <2>5 DEF ScanOrphans, ValidateType, RunTables,
       Ledger
<1>6. CASE Reconcile
  <2>1. validate \in Validates /\ validate.next \in {1, 2}
    BY <1>6, ValidatePlace DEF Reconcile, ValidateType
  <2>2. PICK i \in validate.ids :
           /\ validate' = [validate EXCEPT !.ids = @ \ {i}]
           /\ \/ /\ i \in IngestIds
                 /\ ingestRuns' = [ingestRuns EXCEPT
                                      ![i] = [@ EXCEPT !.status = "aborted"]]
                 /\ UNCHANGED powerRuns
              \/ /\ i \in PowerIds
                 /\ powerRuns' = [powerRuns EXCEPT
                                     ![i] = [@ EXCEPT !.status = "aborted"]]
                 /\ UNCHANGED ingestRuns
    BY <1>6, ReconcileRows
  <2>3. ASSUME i \in IngestIds, UNCHANGED powerRuns,
               ingestRuns' = [ingestRuns EXCEPT
                                ![i] = [@ EXCEPT !.status = "aborted"]]
        PROVE  /\ ingestRuns' \in Seq(RunRows(Snapshots))
               /\ powerRuns' \in Seq(RunRows(Labels))
               /\ Len(ingestRuns') = Len(ingestRuns)
               /\ Len(powerRuns') = Len(powerRuns)
               /\ DOMAIN ingestRuns' = DOMAIN ingestRuns
               /\ DOMAIN powerRuns' = DOMAIN powerRuns
    <3>1. [ingestRuns[i] EXCEPT !.status = "aborted"] \in RunRows(Snapshots)
      BY <2>3, AbortedRow DEF DatabaseType, IngestIds
    <3> QED
      BY <2>3, <3>1, ExceptSeq DEF DatabaseType, IngestIds
  <2>8. ASSUME i \in PowerIds, UNCHANGED ingestRuns,
               powerRuns' = [powerRuns EXCEPT
                               ![i] = [@ EXCEPT !.status = "aborted"]]
        PROVE  /\ ingestRuns' \in Seq(RunRows(Snapshots))
               /\ powerRuns' \in Seq(RunRows(Labels))
               /\ Len(ingestRuns') = Len(ingestRuns)
               /\ Len(powerRuns') = Len(powerRuns)
               /\ DOMAIN ingestRuns' = DOMAIN ingestRuns
               /\ DOMAIN powerRuns' = DOMAIN powerRuns
    <3>1. [powerRuns[i] EXCEPT !.status = "aborted"] \in RunRows(Labels)
      BY <2>8, AbortedRow DEF DatabaseType, PowerIds
    <3> QED
      BY <2>8, <3>1, ExceptSeq DEF DatabaseType, PowerIds
  <2>4. /\ ingestRuns' \in Seq(RunRows(Snapshots))
        /\ powerRuns' \in Seq(RunRows(Labels))
        /\ Len(ingestRuns') = Len(ingestRuns)
        /\ Len(powerRuns') = Len(powerRuns)
        /\ DOMAIN ingestRuns' = DOMAIN ingestRuns
        /\ DOMAIN powerRuns' = DOMAIN powerRuns
    BY <2>2, <2>3, <2>8 DEF DatabaseType
  <2>5. DatabaseType'
    BY <1>6, <2>4 DEF Reconcile, DatabaseType, observed, powered, PowerIds
  <2>6. /\ validate' \in Validates /\ validate'.at = validate.at
        /\ validate'.next = validate.next
        /\ validate'.ids \subseteq validate.ids
    BY <2>1, <2>2 DEF Validates
  <2>7. \A table : DOMAIN Ledger(table)' = DOMAIN Ledger(table)
    BY <2>4 DEF Ledger
  <2> QED
    BY <2>4, <2>5, <2>6, <2>7 DEF ValidateType, RunTables
<1>7. CASE NextTable
  <2>1. validate \in Validates /\ validate.next \in {1, 2}
    BY <1>7, ValidatePlace DEF NextTable, ValidateType
  <2>2. /\ validate' \in Validates /\ validate'.at \in {"scan", "rules"}
        /\ validate'.next \in {1, 2}
    <3>1. Len(RunTables) = 2
      BY DEF RunTables
    <3>2. validate' \in {[validate EXCEPT !.at = "scan", !.next = 2],
                          [validate EXCEPT !.at = "rules", !.next = 1]}
      <4>1. CASE validate.next = 1
        BY <1>7, <3>1, <4>1 DEF NextTable
      <4>2. CASE validate.next = 2
        BY <1>7, <3>1, <4>2 DEF NextTable
      <4> QED
        BY <2>1, <4>1, <4>2
    <3>3. CASE validate' = [validate EXCEPT !.at = "scan", !.next = 2]
      <4>1. validate' \in Validates
        <5>1. /\ validate.ids \in SUBSET Nat /\ validate.batch \in SUBSET Findings
              /\ 2 \in Nat \ {0}
          BY <2>1 DEF Validates
        <5> QED
          BY <2>1, <3>3, <5>1 DEF Validates
      <4>2. validate'.at = "scan" /\ validate'.next = 2
        BY <2>1, <3>3 DEF Validates
      <4> QED
        BY <4>1, <4>2
    <3>4. CASE validate' = [validate EXCEPT !.at = "rules", !.next = 1]
      BY <2>1, <3>4 DEF Validates
    <3> QED
      BY <3>2, <3>3, <3>4
  <2> QED
    BY <1>1, <1>7, <2>2 DEF NextTable, ValidateType
<1>8. CASE ReadRule
  <2>1. validate \in Validates
    BY <1>8, ValidatePlace DEF ReadRule
  <2> DEFINE rule == VerbRules[validate.next]
             found == IF Fails(rule) THEN {Error(rule)} ELSE {}
  <2>2. rule \in Rules
    BY <1>8, <2>1, RulesAssumption DEF ReadRule, Validates
  <2>4. found \subseteq Findings
    BY <2>2, FindingTypes, Zenon
  <2>5. validate' = [validate EXCEPT !.next = @ + 1, !.batch = @ \cup found]
    BY <1>8 DEF ReadRule
  <2> HIDE DEF found
  <2>6. /\ validate.batch \cup found \in SUBSET Findings
        /\ validate.next + 1 \in Nat \ {0}
    BY <2>1, <2>4 DEF Validates
  <2>3. validate' \in Validates /\ validate'.at = "rules"
    BY <1>8, <2>1, <2>5, <2>6 DEF ReadRule, Validates
  <2> QED
    BY <1>1, <1>8, <2>3 DEF ReadRule, ValidateType
<1>9. CASE WriteBatch
  <2>1. validate.batch \subseteq Findings
    BY <1>9, ValidatePlace DEF WriteBatch, Validates
  <2>2. DatabaseType'
    BY <1>9, <2>1 DEF WriteBatch, DatabaseType, observed, powered, PowerIds
  <2> QED
    BY <1>9, <2>2 DEF WriteBatch, ValidateType, Off
<1> QED
  BY <1>2, <1>3, <1>4, <1>5, <1>6, <1>7, <1>8, <1>9 DEF ValidateStep

-----------------------------------------------------------------------------
(* Growing old changes nothing else of the rows, and only running rows do.  *)
LEMMA OverdueRows ==
    ASSUME NEW Abouts, NEW runs \in Seq(RunRows(Abouts))
    PROVE  /\ Overdue(runs) \in Seq(RunRows(Abouts))
           /\ Len(Overdue(runs)) = Len(runs)
           /\ DOMAIN Overdue(runs) = DOMAIN runs
           /\ \A i \in 1 .. Len(runs) :
                 /\ Overdue(runs)[i].status = runs[i].status
                 /\ Overdue(runs)[i].about = runs[i].about
                 /\ Overdue(runs)[i].report = runs[i].report
                 /\ runs[i].old => Overdue(runs)[i].old
<1> DEFINE n == Len(runs)
           late(i) == runs[i].old \/ runs[i].status = "running"
<1>1. n \in Nat /\ DOMAIN runs = 1 .. n /\ \A i \in 1 .. n : runs[i] \in RunRows(Abouts)
  OBVIOUS
<1>2. Overdue(runs) = [i \in 1 .. n |-> [runs[i] EXCEPT !.old = late(i)]]
  BY <1>1 DEF Overdue
<1>3. \A i \in 1 .. n : late(i) \in BOOLEAN
  BY <1>1 DEF RunRows
<1> HIDE DEF late
<1>4. ASSUME NEW i \in 1 .. n
      PROVE  /\ [runs[i] EXCEPT !.old = late(i)] \in RunRows(Abouts)
             /\ [runs[i] EXCEPT !.old = late(i)].old = late(i)
             /\ [runs[i] EXCEPT !.old = late(i)].status = runs[i].status
             /\ [runs[i] EXCEPT !.old = late(i)].about = runs[i].about
             /\ [runs[i] EXCEPT !.old = late(i)].report = runs[i].report
  BY <1>1, <1>3, <1>4 DEF RunRows
<1>5. Overdue(runs) \in [1 .. n -> RunRows(Abouts)]
  BY <1>2, <1>4
<1>6. /\ Overdue(runs) \in Seq(RunRows(Abouts))
      /\ Len(Overdue(runs)) = n
      /\ DOMAIN Overdue(runs) = 1 .. n
  BY <1>1, <1>5
<1>7. \A i \in 1 .. n : runs[i].old => late(i)
  BY DEF late
<1> QED
  BY <1>1, <1>2, <1>4, <1>6, <1>7

(* The gate's process keeps its type: the snapshot it publishes is one that  *)
(* a run was about.                                                        *)
LEMMA GateTypes ==
    ASSUME DatabaseType, GateType, GateStep
    PROVE  GateType'
<1>1. CASE GateStart
  <2>1. Complete \subseteq 1 .. Len(ingestRuns) /\ Len(ingestRuns) \in Nat
    BY DEF Complete, IngestIds, DatabaseType
  <2>2. PICK i \in Complete : gate' = [at |-> "rules", next |-> 1, calm |-> TRUE,
                                      errors |-> FALSE, date |-> ingestRuns[i].about]
    <3> DEFINE last == CHOOSE j \in Complete : \A k \in Complete : j >= k
    <3>1. last \in Complete
      <4>1. Complete # {}
        BY <1>1 DEF GateStart
      <4>2. \E j \in Complete : \A k \in Complete : j >= k
        BY <2>1, <4>1, GreatestUpTo
      <4> QED
        BY <4>2
    <3>2. gate' = [at |-> "rules", next |-> 1, calm |-> TRUE, errors |-> FALSE,
                   date |-> ingestRuns[last].about]
      BY <1>1 DEF GateStart
    <3> HIDE DEF last
    <3> QED
      BY <3>1, <3>2
  <2>3. ingestRuns[i].about \in Snapshots
    <3>1. ingestRuns[i] \in RunRows(Snapshots)
      BY <2>1 DEF DatabaseType
    <3> QED
      BY <3>1 DEF RunRows
  <2>4. 1 \in DOMAIN GateRules
    BY RulesAssumption
  <2> QED
    BY <2>2, <2>3, <2>4 DEF GateType, Gates
<1>2. CASE GateReads
  <2> DEFINE errors == gate.errors \/ Fails(GateRules[gate.next])
  <2>1. gate \in Gates
    BY <1>2 DEF GateReads, GateType, Off
  <2>2. errors \in BOOLEAN
    OBVIOUS
  <2> HIDE DEF errors
  <2>3. CASE gate.next < Len(GateRules)
    <3>1. gate.next + 1 \in DOMAIN GateRules
      BY <2>1, <2>3, RulesAssumption DEF Gates
    <3>2. gate' = [gate EXCEPT !.next = gate.next + 1, !.errors = errors]
      BY <1>2, <2>3 DEF GateReads, errors
    <3> QED
      BY <2>1, <2>2, <3>1, <3>2 DEF GateType, Gates
  <2>4. CASE ~(gate.next < Len(GateRules))
    <3>1. \E at \in {"refused", "passed"} :
              gate' = [gate EXCEPT !.at = at, !.errors = errors]
      BY <1>2, <2>4 DEF GateReads, errors
    <3> QED
      BY <2>1, <2>2, <3>1 DEF GateType, Gates
  <2> QED
    BY <2>3, <2>4
<1>3. CASE GateLeaves
  BY <1>3 DEF GateLeaves, GateType
<1> QED
  BY <1>1, <1>2, <1>3 DEF GateStep

(* The parts of a step that bear on the types: what each process keeps, and  *)
(* the ledgers, which never lose a row.                                    *)
LEMMA TypesStep ==
    ASSUME TypeInv, Next
    PROVE  /\ DatabaseType' /\ IngestType' /\ PowerType' /\ ValidateType'
           /\ GateType' /\ mishaps' \in Nat
           /\ Len(ingestRuns) <= Len(ingestRuns')
           /\ Len(powerRuns) <= Len(powerRuns')
<1> USE DEF TypeInv
<1>0. Len(ingestRuns) \in Nat /\ Len(powerRuns) \in Nat
  BY DEF DatabaseType
<1>1. CASE IngestActs
  <2>1. /\ DatabaseType' /\ IngestType'
        /\ Len(ingestRuns) <= Len(ingestRuns')
    BY <1>1, IngestTypes DEF IngestActs
  <2>2. mishaps' \in Nat
    BY <1>1 DEF IngestActs, Mishap
  <2>3. /\ UNCHANGED <<powerRuns, power, validate>>
        /\ gate' = Disturbed
    BY <1>1, IngestFrame
  <2>4. Len(powerRuns) <= Len(powerRuns')
    BY <1>0, <2>3
  <2> QED
    BY <2>1, <2>2, <2>3, <2>4, PowerStays, ValidateStays, GateDisturbed
<1>2. CASE PowerActs
  <2>1. /\ DatabaseType' /\ PowerType'
        /\ Len(powerRuns) <= Len(powerRuns')
    BY <1>2, PowerTypes DEF PowerActs
  <2>2. mishaps' \in Nat
    BY <1>2 DEF PowerActs, Mishap
  <2>3. /\ UNCHANGED <<ingestRuns, ingestVars, lock, station, validate>>
        /\ gate' = Disturbed
    BY <1>2, PowerFrame DEF observed
  <2>4. Len(ingestRuns) <= Len(ingestRuns')
    BY <1>0, <2>3
  <2> QED
    BY <2>1, <2>2, <2>3, <2>4, IngestStays, ValidateStays, GateDisturbed
<1>3. CASE ValidateActs
  <2>1. /\ DatabaseType' /\ ValidateType'
        /\ Len(ingestRuns') = Len(ingestRuns)
        /\ Len(powerRuns') = Len(powerRuns)
    BY <1>3, ValidateTypes DEF ValidateActs
  <2>2. mishaps' \in Nat
    BY <1>3 DEF ValidateActs
  <2>3. /\ UNCHANGED <<ingestVars, lock, station, power>>
        /\ gate' = Disturbed
    BY <1>3, ValidateFrame DEF observed
  <2>4. /\ Len(ingestRuns) <= Len(ingestRuns')
        /\ Len(powerRuns) <= Len(powerRuns')
    BY <1>0, <2>1
  <2> QED
    BY <2>1, <2>2, <2>3, <2>4, IngestStays, PowerStays, GateDisturbed
<1>4. CASE GateActs
  <2>1. UNCHANGED <<database, ingestVars, lock, station, power, validate, mishaps,
                    ingestRuns, powerRuns>>
    BY <1>4, GateFrame DEF database, observed
  <2>2. DatabaseType'
    BY <2>1, DatabaseStays
  <2>3. GateType'
    BY <1>4, GateTypes DEF GateActs
  <2>4. /\ Len(ingestRuns) <= Len(ingestRuns')
        /\ Len(powerRuns) <= Len(powerRuns')
    BY <1>0, <2>1
  <2> QED
    BY <2>1, <2>2, <2>3, <2>4, IngestStays, PowerStays, ValidateStays
<1>5. CASE DayPasses
  <2>1. UNCHANGED <<ingestVars, lock, station, power, validate, gate>>
    BY <1>5 DEF DayPasses, observed
  <2>2. /\ ingestRuns' \in Seq(RunRows(Snapshots))
        /\ powerRuns' \in Seq(RunRows(Labels))
        /\ Len(ingestRuns') = Len(ingestRuns)
        /\ Len(powerRuns') = Len(powerRuns)
    BY <1>5, OverdueRows DEF DayPasses, DatabaseType
  <2>3. DatabaseType'
    BY <1>5, <2>2 DEF DayPasses, DatabaseType, observed, powered, PowerIds
  <2>4. /\ Len(ingestRuns) <= Len(ingestRuns')
        /\ Len(powerRuns) <= Len(powerRuns')
    BY <1>0, <2>2
  <2>5. mishaps' \in Nat
    BY <1>5 DEF DayPasses
  <2>6. GateType'
    BY <2>1 DEF GateType
  <2> QED
    BY <2>1, <2>3, <2>4, <2>5, <2>6, IngestStays, PowerStays, ValidateStays
<1> QED
  BY <1>1, <1>2, <1>3, <1>4, <1>5 DEF Next

(* An empty database is well typed.                                        *)
LEMMA InitTypes == Init => TypeInv
<1> SUFFICES ASSUME Init PROVE TypeInv
  OBVIOUS
<1> USE DEF Init, Init0, IngestInit, PowerInit, ValidateInit
<1>1. DatabaseType
  <2>1. <<>> \in Seq(RunRows(Snapshots)) /\ <<>> \in Seq(RunRows(Labels))
          /\ <<>> \in Seq(Issues)
    OBVIOUS
  <2>2. supplement \in [Cells -> [Hours -> {NoRun} \cup PowerIds]]
    OBVIOUS
  <2> QED
    BY <2>1, <2>2, EmptyTypes DEF DatabaseType, StationTables, Warnings
<1>2. IngestType /\ PowerType /\ ValidateType /\ GateType
  BY DEF IngestType, PowerType, ValidateType, GateType, Idle, Resting, Off
<1>3. mishaps \in Nat
  OBVIOUS
<1>4. Events <= MaxEvents
  <2>1. AtWork = 0
    BY DEF AtWork
  <2>2. Len(ingestRuns) = 0 /\ Len(powerRuns) = 0
    OBVIOUS
  <2> QED
    BY <2>1, <2>2, WarehouseAssumption DEF Events, Crowd
<1> QED
  BY <1>1, <1>2, <1>3, <1>4 DEF TypeInv

(* Every step of every verb keeps the types.                               *)
LEMMA TypeStep == TypeInv /\ [Next]_vars => TypeInv'
<1> SUFFICES ASSUME TypeInv, [Next]_vars PROVE TypeInv'
  OBVIOUS
<1>1. CASE Next
  <2>1. Events' <= MaxEvents
    BY <1>1 DEF Next, IngestActs, PowerActs, ValidateActs, GateActs, DayPasses,
       Bounded
  <2> QED
    BY <1>1, <2>1, TypesStep DEF TypeInv
<1>2. CASE UNCHANGED vars
  <2>1. UNCHANGED <<database, lock, station, ingestRuns, powerRuns, ingestVars,
                    power, validate, gate, mishaps>>
    BY <1>2 DEF vars, database, observed
  <2>2. DatabaseType'
    BY <2>1, DatabaseStays DEF TypeInv
  <2>3. /\ IngestType' /\ PowerType' /\ ValidateType' /\ GateType'
        /\ mishaps' \in Nat
    <3>1. Len(ingestRuns) \in Nat /\ Len(powerRuns) \in Nat
      BY DEF TypeInv, DatabaseType
    <3>2. /\ Len(ingestRuns) <= Len(ingestRuns')
          /\ Len(powerRuns) <= Len(powerRuns')
      BY <2>1, <3>1
    <3> QED
      BY <2>1, <2>2, <3>2, IngestStays, PowerStays, ValidateStays
      DEF TypeInv, GateType
  <2>4. Events' = Events
    BY <2>1 DEF Events, Crowd, AtWork, ingestVars
  <2> QED
    BY <2>2, <2>3, <2>4 DEF TypeInv
<1> QED
  BY <1>1, <1>2

(* The tables hold what the schema declares, every process what its step     *)
(* needs, and the lock is an ingest's exactly while it has a draft.        *)
THEOREM Types == Spec => []TypeOK
<1>1. TypeInv => TypeOK
  <2> SUFFICES ASSUME TypeInv PROVE TypeOK
    OBVIOUS
  <2>1. \A s \in Stations : \/ station[s] = NoStation
                            \/ station[s].place \in Places \cup {NoPlace}
    BY DEF TypeInv, DatabaseType, StationTables, Rows
  <2>2. draft.open <=> lock = "ingest"
    <3>1. CASE lock = "ingest"
      BY <3>1 DEF TypeInv, IngestType, Drafts
    <3>2. CASE lock # "ingest"
      BY <3>2 DEF TypeInv, IngestType, NoDraft
    <3> QED
      BY <3>1, <3>2
  <2> QED
    BY <2>1, <2>2 DEF TypeOK, TypeInv, DatabaseType, Warnings
<1> QED
  BY <1>1, InitTypes, TypeStep, PTL DEF Spec

-----------------------------------------------------------------------------
(* A step of ingest moves the observed tables only to where every station   *)
(* is known.                                                               *)
LEMMA ObservedMoves ==
    ASSUME DatabaseType, IngestType, IngestType', IngestActs
    PROVE  UNCHANGED observed \/ \A s \in Stations : Known(s)'
<1>1. CASE Seed \/ StationCommits
  <2>1. ingest'.at \in {"open", "loop"}
    <3>1. ingest \in Ingests
      BY <1>1, IngestPlace DEF Seed, StationCommits
    <3> QED
      BY <1>1, <3>1 DEF Seed, StationCommits, Ingests
  <2>2. station' \in [Stations -> Rows]
    BY <2>1 DEF IngestType
  <2> QED
    BY <2>2, EmptyTypes DEF Known
<1>2. CASE ~(Seed \/ StationCommits)
  BY <1>2
  DEF IngestActs, IngestStep, IngestFault, IngestLeaves, OpenIngestRun,
      StationBegins, FileTaken, CloseIngestRun, IngestStart, StationFails,
      CloseIngestFails, IngestCancelled, IngestKilled, database
<1> QED
  BY <1>1, <1>2

(* Power writes cells before the links and the rows that name them, and      *)
(* names the stations it read, which are known for ever.                   *)
PowerRefs ==
    /\ power # Resting =>
          /\ \A s \in Stations : power.view[s] # NoPlace => Known(s)
          /\ power.left \subseteq Mapped(power.view)
    /\ power.at \in {"loop", "fetch", "write"} => Mapped(power.view) \subseteq grid
    /\ power.at \in {"fetch", "write"} => power.now \in grid

ReferenceInv == StationRefs /\ CellRefs /\ PowerRefs

(* Ingest only adds stations, and names those it has added.                *)
LEMMA IngestRefs ==
    ASSUME TypeInv, TypeInv', ReferenceInv, IngestActs
    PROVE  ReferenceInv'
<1>1. UNCHANGED <<powered, power>>
  BY IngestFrame
<1>2. CASE UNCHANGED observed
  BY <1>1, <1>2
  DEF ReferenceInv, StationRefs, CellRefs, PowerRefs, observed, powered, Known
<1>3. CASE \A s \in Stations : Known(s)'
  <2>1. StationRefs'
    BY <1>3 DEF StationRefs
  <2>2. CellRefs' /\ PowerRefs'
    BY <1>1, <1>3 DEF ReferenceInv, CellRefs, PowerRefs, powered
  <2> QED
    BY <2>1, <2>2 DEF ReferenceInv
<1> QED
  BY <1>2, <1>3, ObservedMoves DEF TypeInv

(* Power writes a cell before what refers to it.                           *)
LEMMA PowerKeepsRefs ==
    ASSUME TypeInv, TypeInv', ReferenceInv, PowerActs
    PROVE  ReferenceInv'
<1>1. UNCHANGED observed
  BY PowerFrame
<1>2. \A s \in Stations : Known(s)' <=> Known(s)
  BY <1>1 DEF observed, Known
<1>3. ASSUME UNCHANGED powered PROVE StationRefs' /\ CellRefs'
  BY <1>1, <1>3 DEF ReferenceInv, StationRefs, CellRefs, observed, powered, Known
<1>4. ASSUME power' = Resting PROVE PowerRefs'
  BY <1>4 DEF PowerRefs, Resting
<1>5. ASSUME power \in Powers, power' \in Powers, power'.view = power.view,
             power'.left \subseteq power.left, grid \subseteq grid',
             power'.at \in {"loop", "fetch", "write"} =>
                 Mapped(power.view) \subseteq grid',
             power'.at \in {"fetch", "write"} => power'.now \in grid'
      PROVE  PowerRefs'
  <2>1. power # Resting
    BY <1>5 DEF Powers, Resting
  <2> QED
    BY <1>2, <1>5, <2>1 DEF ReferenceInv, PowerRefs
<1>6. CASE PowerLeaves \/ ClosePowerFails \/ PowerKilled \/ ClosePowerRun
  BY <1>3, <1>4, <1>6
  DEF PowerLeaves, ClosePowerFails, PowerKilled, ClosePowerRun, database, ReferenceInv
<1>7. CASE UpsertCells
  <2>1. power \in Powers /\ power # Resting
    BY <1>7, PowerPlace DEF UpsertCells, TypeInv, Resting
  <2>2. /\ power' \in Powers /\ power'.view = power.view
        /\ power'.left = power.left /\ power'.at = "loop"
    BY <1>7, <2>1 DEF UpsertCells, Powers
  <2>3. grid' = grid \cup Mapped(power.view)
    BY <1>7 DEF UpsertCells
  <2>4. PowerRefs'
    BY <1>5, <2>1, <2>2, <2>3
  <2>5. /\ link' = [s \in Stations |-> IF power.view[s] = NoPlace THEN link[s]
                                       ELSE CellOf[power.view[s]]]
        /\ UNCHANGED supplement
    BY <1>7 DEF UpsertCells
  <2>6. \A s \in Stations : power.view[s] # NoPlace =>
            Known(s) /\ CellOf[power.view[s]] \in Mapped(power.view)
    BY <2>1 DEF ReferenceInv, PowerRefs, Mapped
  <2>7. StationRefs'
    BY <1>1, <1>2, <2>5, <2>6 DEF ReferenceInv, StationRefs, observed
  <2>8. CellRefs'
    BY <2>3, <2>5, <2>6 DEF ReferenceInv, CellRefs
  <2> QED
    BY <2>4, <2>7, <2>8 DEF ReferenceInv
<1>8. CASE CellWritten
  <2>1. power \in Powers /\ power # Resting /\ power.now \in grid
    BY <1>8, PowerPlace
    DEF CellWritten, TypeInv, Resting, ReferenceInv, PowerRefs
  <2>2. /\ power' \in Powers \cup {Resting} /\ power'.view = power.view
        /\ power'.left = power.left /\ power'.at = "loop" /\ grid' = grid
    BY <1>8, <2>1 DEF CellWritten, TypeInv, PowerType, Powers
  <2>3. PowerRefs'
    BY <1>5, <1>8, <2>1, <2>2 DEF CellWritten, ReferenceInv, PowerRefs, Resting
  <2>4. \A c \in Cells : c # power.now => supplement'[c] = supplement[c]
    BY <1>8 DEF CellWritten, TypeInv, DatabaseType
  <2>5. CellRefs'
    BY <1>8, <2>1, <2>2, <2>4 DEF CellWritten, ReferenceInv, CellRefs
  <2>6. StationRefs'
    BY <1>1, <1>8 DEF CellWritten, ReferenceInv, StationRefs, observed, Known
  <2> QED
    BY <2>3, <2>5, <2>6 DEF ReferenceInv
<1>9. CASE OpenPowerRun \/ CellBegins \/ PowerStops \/ CellFetched
             \/ UpsertCellsFails \/ CellFails \/ PowerCancelled
  <2>1. power \in Powers /\ power # Resting
    <3>1. power # Resting
      <4>1. CASE PowerCancelled
        BY <4>1 DEF PowerCancelled
      <4>2. CASE ~PowerCancelled
        <5>1. power.at # "idle"
          BY <1>9, <4>2
          DEF OpenPowerRun, CellBegins, PowerStops, CellFetched, UpsertCellsFails,
              CellFails
        <5> QED
          BY <5>1 DEF Resting
      <4> QED
        BY <4>1, <4>2
    <3> QED
      BY <3>1, PowerPlace DEF TypeInv
  <2>2. UNCHANGED powered
    BY <1>9
    DEF OpenPowerRun, CellBegins, PowerStops, CellFetched, UpsertCellsFails,
        CellFails, PowerCancelled, database
  <2>3. power' \in Powers /\ power'.view = power.view
    <3>1. power' \in Powers \cup {Resting}
      BY DEF TypeInv, PowerType
    <3>2. power'.view = power.view /\ power'.at # "idle"
      BY <1>9, <2>1
      DEF OpenPowerRun, CellBegins, PowerStops, CellFetched, UpsertCellsFails,
          CellFails, PowerCancelled, Powers
    <3> QED
      BY <3>1, <3>2 DEF Resting
  <2>4. power.left \subseteq Mapped(power.view) /\ grid' = grid
    BY <2>1, <2>2 DEF ReferenceInv, PowerRefs, powered
  <2>5. CASE CellBegins
    <3>1. First(power.left) \in power.left
      BY <2>1, <2>5, FirstCell DEF CellBegins, Powers
    <3>2. /\ power'.left \subseteq power.left /\ power'.now = First(power.left)
          /\ power.at = "loop"
      BY <2>1, <2>5 DEF CellBegins, Powers
    <3>3. Mapped(power.view) \subseteq grid
      BY <3>2 DEF ReferenceInv, PowerRefs
    <3>4. PowerRefs'
      BY <1>5, <2>1, <2>3, <2>4, <3>1, <3>2, <3>3
    <3> QED
      BY <1>3, <2>2, <3>4 DEF ReferenceInv
  <2>6. CASE ~CellBegins
    <3>1. power'.left = power.left
      BY <1>9, <2>1, <2>6
      DEF OpenPowerRun, PowerStops, CellFetched, UpsertCellsFails,
          CellFails, PowerCancelled, Powers
    <3>2. \/ power'.at \in {"cells", "abort"}
          \/ /\ power'.at = "loop" /\ power.at \in {"fetch", "write"}
          \/ /\ power'.at = "write" /\ power.at = "fetch" /\ power'.now = power.now
          \/ power'.at = power.at /\ power'.now = power.now
      BY <1>9, <2>1, <2>6
      DEF OpenPowerRun, PowerStops, CellFetched, UpsertCellsFails,
          CellFails, PowerCancelled, Powers
    <3>3. /\ power'.at \in {"loop", "fetch", "write"} =>
                 Mapped(power.view) \subseteq grid'
          /\ power'.at \in {"fetch", "write"} => power'.now \in grid'
      BY <2>4, <3>2 DEF ReferenceInv, PowerRefs
    <3>4. PowerRefs'
      BY <1>5, <2>1, <2>3, <2>4, <3>1, <3>3
    <3> QED
      BY <1>3, <2>2, <3>4 DEF ReferenceInv
  <2> QED
    BY <2>5, <2>6
<1>10. ASSUME NEW span \in Spans, PowerStart(span) PROVE ReferenceInv'
  <2>1. UNCHANGED powered
    BY <1>10 DEF PowerStart, database
  <2>2. \A s \in Stations : power'.view[s] # NoPlace => Known(s)
    BY <1>10 DEF PowerStart
  <2>3. power'.left \subseteq Mapped(power'.view) /\ power'.at = "open"
    BY <1>10 DEF PowerStart, Chosen
  <2>4. PowerRefs'
    BY <1>2, <2>2, <2>3 DEF PowerRefs
  <2> QED
    BY <1>3, <2>1, <2>4 DEF ReferenceInv
<1> QED
  BY <1>6, <1>7, <1>8, <1>9, <1>10 DEF PowerActs, PowerStep, PowerFault

(* No step leaves a reference dangling.                                    *)
LEMMA ReferenceStep == TypeInv /\ TypeInv' /\ ReferenceInv /\ [Next]_vars => ReferenceInv'
<1> SUFFICES ASSUME TypeInv, TypeInv', ReferenceInv, [Next]_vars PROVE ReferenceInv'
  OBVIOUS
<1>1. ASSUME UNCHANGED <<observed, powered, power>> PROVE ReferenceInv'
  BY <1>1
  DEF ReferenceInv, StationRefs, CellRefs, PowerRefs, observed, powered, Known
<1>2. CASE ValidateActs
  BY <1>1, <1>2, ValidateFrame
<1>3. CASE GateActs
  BY <1>1, <1>3, GateFrame DEF database
<1>4. CASE DayPasses
  BY <1>1, <1>4 DEF DayPasses
<1>5. CASE UNCHANGED vars
  BY <1>1, <1>5 DEF vars, database
<1> QED
  BY <1>2, <1>3, <1>4, <1>5, IngestRefs, PowerKeepsRefs DEF Next

(* An empty database refers to nothing.                                    *)
LEMMA InitReferences == Init => ReferenceInv
<1> SUFFICES ASSUME Init PROVE ReferenceInv
  OBVIOUS
<1>1. StationRefs
  BY DEF Init, Init0, StationRefs, NoTables, Files
<1>2. CellRefs /\ PowerRefs
  BY DEF Init, Init0, PowerInit, CellRefs, PowerRefs, Resting
<1> QED
  BY <1>1, <1>2 DEF ReferenceInv

(* No table ever names a station, a cell or a run that is not there, with    *)
(* foreign keys off and every process free to die between two transactions.*)
THEOREM NoDangling == Spec => []References
<1>1. TypeInv /\ ReferenceInv => References
  BY DEF TypeInv, DatabaseType, ReferenceInv, References, RunRefs, Referenced, PowerIds
<1> QED
  BY <1>1, InitTypes, TypeStep, InitReferences, ReferenceStep, PTL DEF Spec

-----------------------------------------------------------------------------
(* Closing a row settles its status and its report, and nothing else.       *)
LEMMA ClosedRow ==
    ASSUME NEW Abouts, NEW row \in RunRows(Abouts), NEW verdict, NEW report
    PROVE  /\ Closed(row, verdict, report).status = verdict
           /\ Closed(row, verdict, report).report = report
           /\ Closed(row, verdict, report).old = row.old
           /\ Closed(row, verdict, report).about = row.about
           /\ [row EXCEPT !.status = "aborted"].status = "aborted"
           /\ [row EXCEPT !.status = "aborted"].report = row.report
           /\ [row EXCEPT !.status = "aborted"].old = row.old
           /\ [row EXCEPT !.status = "aborted"].about = row.about
  BY DEF Closed, RunRows

(* How an ingest's process moves against its run row.                      *)
LEMMA IngestRunMoves ==
    ASSUME DatabaseType, IngestType, IngestActs
    PROVE  \/ CloseIngestRun
           \/ OpenIngestRun
           \/ UNCHANGED ingestRuns /\ ingest' = Idle
           \/ UNCHANGED ingestRuns /\ ingest'.at = "seed" /\ ingest'.run = NoRun
           \/ /\ UNCHANGED ingestRuns
              /\ ingest \in Ingests
              /\ ingest'.run = ingest.run
              /\ \/ ingest'.at = ingest.at
                 \/ ingest'.at \in {"loop", "file"} /\ ingest.at \in {"loop", "file"}
                 \/ ingest'.at = "open" /\ ingest.at = "seed"
<1>1. CASE IngestLeaves \/ CloseIngestFails \/ IngestKilled
  BY <1>1 DEF IngestLeaves, CloseIngestFails, IngestKilled, database
<1>2. ASSUME NEW request \in Requests, IngestStart(request)
      PROVE  UNCHANGED ingestRuns /\ ingest'.at = "seed" /\ ingest'.run = NoRun
  BY <1>2 DEF IngestStart, database
<1>3. CASE Seed \/ StationBegins \/ FileTaken \/ StationCommits \/ StationFails
             \/ IngestCancelled
  <2>1. ingest \in Ingests
    <3>1. CASE IngestCancelled
      BY <3>1, IngestPlace DEF IngestCancelled
    <3>2. CASE ~IngestCancelled
      <4>1. ingest.at # "idle"
        BY <1>3, <3>2
        DEF Seed, StationBegins, FileTaken, StationCommits, StationFails
      <4> QED
        BY <4>1, IngestPlace
    <3> QED
      BY <3>1, <3>2
  <2> QED
    BY <1>3, <2>1
    DEF Seed, StationBegins, FileTaken, StationCommits, StationFails,
        IngestCancelled, Ingests, database
<1> QED
  BY <1>1, <1>2, <1>3 DEF IngestActs, IngestStep, IngestFault

(* How a power run's process moves against its run row.                    *)
PowerOpened == {"cells", "loop", "fetch", "write", "abort"}

(* It closes or opens the row, leaves, starts, or keeps its id.            *)
LEMMA PowerRunMoves ==
    ASSUME PowerType, PowerActs
    PROVE  \/ ClosePowerRun
           \/ OpenPowerRun
           \/ UNCHANGED powerRuns /\ power' = Resting
           \/ UNCHANGED powerRuns /\ power'.at = "open" /\ power'.run = NoRun
           \/ /\ UNCHANGED powerRuns
              /\ power \in Powers
              /\ power'.run = power.run
              /\ \/ power'.at = power.at
                 \/ power'.at \in PowerOpened /\ power.at \in PowerOpened
<1>1. CASE PowerLeaves \/ ClosePowerFails \/ PowerKilled
  BY <1>1 DEF PowerLeaves, ClosePowerFails, PowerKilled, database
<1>2. ASSUME NEW span \in Spans, PowerStart(span)
      PROVE  UNCHANGED powerRuns /\ power'.at = "open" /\ power'.run = NoRun
  BY <1>2 DEF PowerStart, database
<1>3. CASE UpsertCells \/ CellBegins \/ PowerStops \/ CellFetched \/ CellWritten
             \/ UpsertCellsFails \/ CellFails \/ PowerCancelled
  <2>1. power \in Powers
    <3>1. CASE PowerCancelled
      BY <3>1, PowerPlace DEF PowerCancelled
    <3>2. CASE ~PowerCancelled
      <4>1. power.at # "idle"
        BY <1>3, <3>2
        DEF UpsertCells, CellBegins, PowerStops, CellFetched, CellWritten,
            UpsertCellsFails, CellFails
      <4> QED
        BY <4>1, PowerPlace
    <3> QED
      BY <3>1, <3>2
  <2> QED
    BY <1>3, <2>1
    DEF UpsertCells, CellBegins, PowerStops, CellFetched, CellWritten,
        UpsertCellsFails, CellFails, PowerCancelled, Powers, PowerOpened, database
<1> QED
  BY <1>1, <1>2, <1>3 DEF PowerActs, PowerStep, PowerFault

(* Rows are never taken away, never grow young again, and are never opened   *)
(* again; what a row is about never changes.                               *)
Grows(runs, later) ==
    /\ DOMAIN runs \subseteq DOMAIN later
    /\ \A i \in DOMAIN runs :
          /\ runs[i].old => later[i].old
          /\ runs[i].status # "running" => later[i].status # "running"
          /\ later[i].about = runs[i].about

(* Ingest settles no row but its own.                                      *)
LEMMA IngestLedger ==
    ASSUME DatabaseType, IngestType, IngestActs
    PROVE  /\ Grows(ingestRuns, ingestRuns')
           /\ \A i \in IngestIds :
                 /\ ingestRuns'[i].old = ingestRuns[i].old
                 /\ \/ ingestRuns'[i].status = ingestRuns[i].status
                    \/ CloseIngestRun /\ ingest.run = i
<1>0. DOMAIN ingestRuns = IngestIds /\ Len(ingestRuns) \in Nat
        /\ \A i \in IngestIds : ingestRuns[i] \in RunRows(Snapshots)
  BY DEF DatabaseType, IngestIds
<1>1. CASE UNCHANGED ingestRuns
  BY <1>0, <1>1 DEF Grows
<1>2. CASE OpenIngestRun
  <2>1. /\ DOMAIN ingestRuns' = 1 .. Len(ingestRuns) + 1
        /\ \A i \in IngestIds : ingestRuns'[i] = ingestRuns[i]
    BY <1>0, <1>2 DEF OpenIngestRun, IngestIds, DatabaseType
  <2> QED
    BY <1>0, <2>1 DEF Grows, IngestIds
<1>3. CASE CloseIngestRun
  <2>1. ingestRuns' = [ingestRuns EXCEPT ![ingest.run] =
                          Closed(@, IngestVerdict, ingest.report)]
    BY <1>3 DEF CloseIngestRun
  <2>2. \A i \in IngestIds : i # ingest.run => ingestRuns'[i] = ingestRuns[i]
    BY <1>0, <2>1
  <2>3. ingest.run \in IngestIds =>
           /\ ingestRuns'[ingest.run].old = ingestRuns[ingest.run].old
           /\ ingestRuns'[ingest.run].about = ingestRuns[ingest.run].about
           /\ ingestRuns'[ingest.run].status # "running"
    BY <1>0, <2>1, ClosedRow DEF IngestVerdict
  <2>4. DOMAIN ingestRuns' = DOMAIN ingestRuns
    BY <1>0, <2>1
  <2> QED
    BY <1>0, <1>3, <2>2, <2>3, <2>4 DEF Grows
<1> QED
  BY <1>1, <1>2, <1>3, IngestRunMoves

(* Power settles no row but its own, and reports on no other.              *)
LEMMA PowerLedger ==
    ASSUME DatabaseType, PowerType, PowerActs
    PROVE  /\ Grows(powerRuns, powerRuns')
           /\ \A i \in PowerIds :
                 /\ powerRuns'[i].old = powerRuns[i].old
                 /\ \/ /\ powerRuns'[i].status = powerRuns[i].status
                       /\ powerRuns'[i].report = powerRuns[i].report
                    \/ ClosePowerRun /\ power.run = i
<1>0. DOMAIN powerRuns = PowerIds /\ Len(powerRuns) \in Nat
        /\ \A i \in PowerIds : powerRuns[i] \in RunRows(Labels)
  BY DEF DatabaseType, PowerIds
<1>1. CASE UNCHANGED powerRuns
  BY <1>0, <1>1 DEF Grows
<1>2. CASE OpenPowerRun
  <2>1. /\ DOMAIN powerRuns' = 1 .. Len(powerRuns) + 1
        /\ \A i \in PowerIds : powerRuns'[i] = powerRuns[i]
    BY <1>0, <1>2 DEF OpenPowerRun, PowerIds, DatabaseType
  <2> QED
    BY <1>0, <2>1 DEF Grows, PowerIds
<1>3. CASE ClosePowerRun
  <2>1. powerRuns' = [powerRuns EXCEPT ![power.run] =
                          Closed(@, PowerVerdict, power.report)]
    BY <1>3 DEF ClosePowerRun
  <2>2. \A i \in PowerIds : i # power.run => powerRuns'[i] = powerRuns[i]
    BY <1>0, <2>1
  <2>3. power.run \in PowerIds =>
           /\ powerRuns'[power.run].old = powerRuns[power.run].old
           /\ powerRuns'[power.run].about = powerRuns[power.run].about
           /\ powerRuns'[power.run].status # "running"
    BY <1>0, <2>1, ClosedRow DEF PowerVerdict
  <2>4. DOMAIN powerRuns' = DOMAIN powerRuns
    BY <1>0, <2>1
  <2> QED
    BY <1>0, <1>3, <2>2, <2>3, <2>4 DEF Grows
<1> QED
  BY <1>1, <1>2, <1>3, PowerRunMoves

(* What is found orphaned: rows that were overdue when they were found, and *)
(* that are closed before the finding is written.                          *)
IsOld(f) == /\ f.table \in {"ingest", "power"}
            /\ f.run \in DOMAIN Ledger(f.table)
            /\ Ledger(f.table)[f.run].old
IsSettled(f) == Ledger(f.table)[f.run].status # "running"

Reconciling(f) == /\ validate.at = "reconcile"
                  /\ f.table = RunTables[validate.next]
                  /\ f.run \in validate.ids

FoundOld ==
    /\ validate.at = "reconcile" =>
          \A i \in validate.ids : Ledger(RunTables[validate.next])[i].old
    /\ \A f \in findings : f.rule = "orphan-runs" => IsOld(f) /\ IsSettled(f)
    /\ validate # Off =>
          \A f \in validate.batch :
              f.rule = "orphan-runs" =>
                  IsOld(f) /\ (IsSettled(f) \/ Reconciling(f))

(* As long as a live run's row is not overdue it is running: only the rows   *)
(* of the overdue are closed over their process's head.                    *)
OwnRuns ==
    /\ ingest.at \in {"seed", "open"} => ingest.run = NoRun
    /\ ingest.at \in {"loop", "file"} =>
          ingestRuns[ingest.run].old \/ ingestRuns[ingest.run].status = "running"
    /\ power.at = "open" => power.run = NoRun
    /\ power.at \in PowerOpened =>
          powerRuns[power.run].old \/ powerRuns[power.run].status = "running"

(* What was found stays found as the ledgers grow.                         *)
LEMMA FoundStays ==
    ASSUME FoundOld, UNCHANGED <<findings, validate>>, ValidateType,
           Grows(ingestRuns, ingestRuns'), Grows(powerRuns, powerRuns')
    PROVE  FoundOld'
<1>1. \A table : /\ DOMAIN Ledger(table) \subseteq DOMAIN Ledger(table)'
                 /\ \A i \in DOMAIN Ledger(table) :
                       /\ Ledger(table)[i].old => Ledger(table)'[i].old
                       /\ Ledger(table)[i].status # "running" =>
                              Ledger(table)'[i].status # "running"
  BY DEF Grows, Ledger
<1>2. \A f : IsOld(f) => IsOld(f)' /\ (IsSettled(f) => IsSettled(f)')
  BY <1>1 DEF IsOld, IsSettled
<1>3. \A f : Reconciling(f)' <=> Reconciling(f)
  BY DEF Reconciling
<1>4. validate.at = "reconcile" =>
          \A i \in validate.ids : Ledger(RunTables[validate.next])'[i].old
  BY <1>1 DEF FoundOld, ValidateType
<1> QED
  BY <1>2, <1>3, <1>4 DEF FoundOld, RunTables

(* Closing an overdue row: the status of one row of one ledger.             *)
LEMMA ReconcileLedger ==
    ASSUME DatabaseType, ValidateType, FoundOld, Reconcile
    PROVE  \E i \in validate.ids :
              /\ validate' = [validate EXCEPT !.ids = @ \ {i}]
              /\ Ledger(RunTables[validate.next])'[i].status = "aborted"
              /\ \A table : /\ DOMAIN Ledger(table)' = DOMAIN Ledger(table)
                            /\ \A j \in DOMAIN Ledger(table) :
                                  /\ Ledger(table)'[j].old = Ledger(table)[j].old
                                  /\ Ledger(table)'[j].about = Ledger(table)[j].about
                                  /\ Ledger(table)'[j].report = Ledger(table)[j].report
                                  /\ \/ Ledger(table)'[j].status = Ledger(table)[j].status
                                     \/ /\ Ledger(table)'[j].status = "aborted"
                                        /\ Ledger(table)[j].old
<1>1. PICK i \in validate.ids :
         /\ validate' = [validate EXCEPT !.ids = @ \ {i}]
         /\ \/ /\ RunTables[validate.next] = "ingest" /\ i \in IngestIds
               /\ ingestRuns' = [ingestRuns EXCEPT
                                    ![i] = [@ EXCEPT !.status = "aborted"]]
               /\ UNCHANGED powerRuns
            \/ /\ RunTables[validate.next] = "power" /\ i \in PowerIds
               /\ powerRuns' = [powerRuns EXCEPT
                                   ![i] = [@ EXCEPT !.status = "aborted"]]
               /\ UNCHANGED ingestRuns
  BY ReconcileRows
<1>6. validate'.next = validate.next
  <2>1. validate \in Validates
    BY ValidatePlace DEF Reconcile
  <2> QED
    BY <1>1, <2>1 DEF Validates
<1>2. Ledger(RunTables[validate.next])[i].old
  BY DEF Reconcile, FoundOld
<1>3. /\ DOMAIN ingestRuns = IngestIds /\ DOMAIN powerRuns = PowerIds
      /\ \A j \in IngestIds : ingestRuns[j] \in RunRows(Snapshots)
      /\ \A j \in PowerIds : powerRuns[j] \in RunRows(Labels)
  BY DEF DatabaseType, IngestIds, PowerIds
<1>4. CASE RunTables[validate.next] = "ingest"
  <2>1. /\ i \in IngestIds /\ UNCHANGED powerRuns
        /\ ingestRuns' = [ingestRuns EXCEPT
                            ![i] = [ingestRuns[i] EXCEPT !.status = "aborted"]]
    BY <1>1, <1>4
  <2>2. /\ DOMAIN ingestRuns' = DOMAIN ingestRuns
        /\ \A j \in IngestIds : j # i => ingestRuns'[j] = ingestRuns[j]
        /\ ingestRuns'[i] = [ingestRuns[i] EXCEPT !.status = "aborted"]
    BY <1>3, <2>1
  <2>3. /\ ingestRuns'[i].status = "aborted"
        /\ ingestRuns'[i].old = ingestRuns[i].old
        /\ ingestRuns'[i].about = ingestRuns[i].about
        /\ ingestRuns'[i].report = ingestRuns[i].report
    BY <1>3, <2>1, <2>2, ClosedRow
  <2>4. ingestRuns[i].old
    BY <1>2, <1>4 DEF Ledger
  <2>5. /\ DOMAIN ingestRuns' = DOMAIN ingestRuns
        /\ \A j \in DOMAIN ingestRuns :
              /\ ingestRuns'[j].old = ingestRuns[j].old
              /\ ingestRuns'[j].about = ingestRuns[j].about
              /\ ingestRuns'[j].report = ingestRuns[j].report
              /\ \/ ingestRuns'[j].status = ingestRuns[j].status
                 \/ ingestRuns'[j].status = "aborted" /\ ingestRuns[j].old
    BY <1>3, <2>2, <2>3, <2>4
  <2>6. Ledger(RunTables[validate.next])'[i].status = "aborted"
    BY <1>4, <1>6, <2>3 DEF Ledger, RunTables
  <2>7. ASSUME NEW table
        PROVE  /\ DOMAIN Ledger(table)' = DOMAIN Ledger(table)
               /\ \A j \in DOMAIN Ledger(table) :
                     /\ Ledger(table)'[j].old = Ledger(table)[j].old
                     /\ Ledger(table)'[j].about = Ledger(table)[j].about
                     /\ Ledger(table)'[j].report = Ledger(table)[j].report
                     /\ \/ Ledger(table)'[j].status = Ledger(table)[j].status
                        \/ /\ Ledger(table)'[j].status = "aborted"
                           /\ Ledger(table)[j].old
    <3>1. CASE table = "ingest"
      BY <2>1, <2>5, <3>1 DEF Ledger
    <3>2. CASE table # "ingest"
      BY <2>1, <2>5, <3>2 DEF Ledger
    <3> QED
      BY <3>1, <3>2
  <2> QED
    BY <1>1, <2>6, <2>7
<1>5. CASE RunTables[validate.next] # "ingest"
  <2>1. /\ i \in PowerIds /\ UNCHANGED ingestRuns
        /\ powerRuns' = [powerRuns EXCEPT
                            ![i] = [powerRuns[i] EXCEPT !.status = "aborted"]]
    BY <1>1, <1>5
  <2>2. /\ DOMAIN powerRuns' = DOMAIN powerRuns
        /\ \A j \in PowerIds : j # i => powerRuns'[j] = powerRuns[j]
        /\ powerRuns'[i] = [powerRuns[i] EXCEPT !.status = "aborted"]
    BY <1>3, <2>1
  <2>3. /\ powerRuns'[i].status = "aborted"
        /\ powerRuns'[i].old = powerRuns[i].old
        /\ powerRuns'[i].about = powerRuns[i].about
        /\ powerRuns'[i].report = powerRuns[i].report
    BY <1>3, <2>1, <2>2, ClosedRow
  <2>4. powerRuns[i].old
    BY <1>2, <1>5 DEF Ledger
  <2>5. /\ DOMAIN powerRuns' = DOMAIN powerRuns
        /\ \A j \in DOMAIN powerRuns :
              /\ powerRuns'[j].old = powerRuns[j].old
              /\ powerRuns'[j].about = powerRuns[j].about
              /\ powerRuns'[j].report = powerRuns[j].report
              /\ \/ powerRuns'[j].status = powerRuns[j].status
                 \/ powerRuns'[j].status = "aborted" /\ powerRuns[j].old
    BY <1>3, <2>2, <2>3, <2>4
  <2>6. Ledger(RunTables[validate.next])'[i].status = "aborted"
    BY <1>5, <1>6, <2>3 DEF Ledger, RunTables
  <2>7. ASSUME NEW table
        PROVE  /\ DOMAIN Ledger(table)' = DOMAIN Ledger(table)
               /\ \A j \in DOMAIN Ledger(table) :
                     /\ Ledger(table)'[j].old = Ledger(table)[j].old
                     /\ Ledger(table)'[j].about = Ledger(table)[j].about
                     /\ Ledger(table)'[j].report = Ledger(table)[j].report
                     /\ \/ Ledger(table)'[j].status = Ledger(table)[j].status
                        \/ /\ Ledger(table)'[j].status = "aborted"
                           /\ Ledger(table)[j].old
    <3>1. CASE table = "ingest"
      BY <2>1, <2>5, <3>1 DEF Ledger
    <3>2. CASE table # "ingest"
      BY <2>1, <2>5, <3>2 DEF Ledger
    <3> QED
      BY <3>1, <3>2
  <2> QED
    BY <1>1, <2>6, <2>7
<1> QED
  BY <1>4, <1>5

(* The validate verb closes overdue rows, and does nothing else to the runs. *)
LEMMA ValidateLedger ==
    ASSUME DatabaseType, ValidateType, FoundOld, ValidateActs
    PROVE  /\ Grows(ingestRuns, ingestRuns') /\ Grows(powerRuns, powerRuns')
           /\ \A i \in IngestIds :
                 /\ ingestRuns'[i].old = ingestRuns[i].old
                 /\ ingestRuns[i].old \/ ingestRuns'[i].status = ingestRuns[i].status
           /\ \A i \in PowerIds :
                 /\ powerRuns'[i].old = powerRuns[i].old
                 /\ powerRuns'[i].report = powerRuns[i].report
                 /\ powerRuns[i].old \/ powerRuns'[i].status = powerRuns[i].status
<1>1. DOMAIN ingestRuns = IngestIds /\ DOMAIN powerRuns = PowerIds
  BY DEF DatabaseType, IngestIds, PowerIds
<1>2. CASE Reconcile
  <2>1. \A table : /\ DOMAIN Ledger(table)' = DOMAIN Ledger(table)
                   /\ \A j \in DOMAIN Ledger(table) :
                         /\ Ledger(table)'[j].old = Ledger(table)[j].old
                         /\ Ledger(table)'[j].about = Ledger(table)[j].about
                         /\ Ledger(table)'[j].report = Ledger(table)[j].report
                         /\ \/ Ledger(table)'[j].status = Ledger(table)[j].status
                            \/ /\ Ledger(table)'[j].status = "aborted"
                               /\ Ledger(table)[j].old
    BY <1>2, ReconcileLedger
  <2>2. /\ Ledger("ingest") = ingestRuns /\ Ledger("power") = powerRuns
        /\ Ledger("ingest")' = ingestRuns' /\ Ledger("power")' = powerRuns'
    BY DEF Ledger
  <2> QED
    BY <1>1, <2>1, <2>2 DEF Grows
<1>3. CASE ~Reconcile
  <2>1. UNCHANGED <<ingestRuns, powerRuns>>
    BY <1>3 DEF ValidateActs, ValidateStep, ValidateStops, ValidateStart, Clear,
       ScanOrphans, NextTable, ReadRule, WriteBatch, database
  <2> QED
    BY <1>1, <2>1 DEF Grows
<1> QED
  BY <1>2, <1>3

(* A day that passes only makes rows old.                                  *)
LEMMA DayLedger ==
    ASSUME DatabaseType, DayPasses
    PROVE  /\ Grows(ingestRuns, ingestRuns') /\ Grows(powerRuns, powerRuns')
           /\ DOMAIN ingestRuns' = DOMAIN ingestRuns
           /\ DOMAIN powerRuns' = DOMAIN powerRuns
           /\ \A i \in IngestIds :
                 /\ ingestRuns'[i].status = ingestRuns[i].status
                 /\ ingestRuns'[i].about = ingestRuns[i].about
           /\ \A i \in PowerIds :
                 /\ powerRuns'[i].status = powerRuns[i].status
                 /\ powerRuns'[i].about = powerRuns[i].about
                 /\ powerRuns'[i].report = powerRuns[i].report
<1>1. DOMAIN ingestRuns = IngestIds /\ DOMAIN powerRuns = PowerIds
  BY DEF DatabaseType, IngestIds, PowerIds
<1>2. /\ ingestRuns \in Seq(RunRows(Snapshots)) /\ powerRuns \in Seq(RunRows(Labels))
      /\ ingestRuns' = Overdue(ingestRuns) /\ powerRuns' = Overdue(powerRuns)
  BY DEF DatabaseType, DayPasses
<1> QED
  BY <1>1, <1>2, OverdueRows DEF Grows, IngestIds, PowerIds

(* The row of a process stays open until the process closes it or the row  *)
(* is overdue.                                                             *)
LEMMA OwnRunsStep ==
    ASSUME TypeInv, TypeInv', OwnRuns, FoundOld, [Next]_vars
    PROVE  OwnRuns'
<1>0. /\ ingest.at \in {"loop", "file"} => ingest.run \in IngestIds
      /\ power.at \in PowerOpened => power.run \in PowerIds
  BY DEF TypeInv, IngestType, PowerType, PowerOpened
<1>1. ASSUME UNCHANGED <<ingest, power>>,
             \A i \in IngestIds :
                /\ ingestRuns[i].old => ingestRuns'[i].old
                /\ ingestRuns[i].old \/ ingestRuns'[i].status = ingestRuns[i].status,
             \A i \in PowerIds :
                /\ powerRuns[i].old => powerRuns'[i].old
                /\ powerRuns[i].old \/ powerRuns'[i].status = powerRuns[i].status
      PROVE  OwnRuns'
  BY <1>0, <1>1 DEF OwnRuns
<1>2. CASE IngestActs
  <2>1. UNCHANGED <<power, powerRuns>>
    BY <1>2, IngestFrame
  <2>2. CASE OpenIngestRun
    <3>1. ingest' = [ingest EXCEPT !.at = "loop", !.run = Len(ingestRuns'),
                                   !.report.attempted = Len(ingest.targets)]
          /\ ingestRuns' = Append(ingestRuns, Opening(ingest.date))
      BY <2>2 DEF OpenIngestRun
    <3>2. ingest \in Ingests
      BY <2>2, IngestPlace DEF OpenIngestRun, TypeInv
    <3>3. ingest'.at = "loop" /\ ingest'.run = Len(ingestRuns')
      BY <3>1, <3>2 DEF Ingests
    <3>4. ingestRuns'[Len(ingestRuns')] = Opening(ingest.date)
      BY <3>1 DEF TypeInv, DatabaseType
    <3>5. Opening(ingest.date).status = "running"
      BY DEF Opening
    <3> QED
      BY <2>1, <3>3, <3>4, <3>5 DEF OwnRuns
  <2>3. CASE ingest' = Idle
    BY <2>1, <2>3 DEF OwnRuns, Idle
  <2>4. CASE ingest'.at = "seed" /\ ingest'.run = NoRun
    BY <2>1, <2>4 DEF OwnRuns
  <2>5. CASE UNCHANGED ingestRuns /\ ingest'.run = ingest.run
             /\ \/ ingest'.at = ingest.at
                \/ ingest'.at \in {"loop", "file"} /\ ingest.at \in {"loop", "file"}
                \/ ingest'.at = "open" /\ ingest.at = "seed"
    BY <2>1, <2>5 DEF OwnRuns
  <2> QED
    BY <1>2, <2>2, <2>3, <2>4, <2>5, IngestRunMoves DEF TypeInv, CloseIngestRun
<1>3. CASE PowerActs
  <2>1. UNCHANGED <<ingest, ingestRuns>>
    BY <1>3, PowerFrame DEF ingestVars
  <2>2. CASE OpenPowerRun
    <3>1. power' = [power EXCEPT !.at = "cells", !.run = Len(powerRuns')]
          /\ powerRuns' = Append(powerRuns, Opening(power.span.label))
      BY <2>2 DEF OpenPowerRun
    <3>2. power \in Powers
      BY <2>2, PowerPlace DEF OpenPowerRun, TypeInv
    <3>3. power'.at = "cells" /\ power'.run = Len(powerRuns')
      BY <3>1, <3>2 DEF Powers
    <3>4. powerRuns'[Len(powerRuns')] = Opening(power.span.label)
      BY <3>1 DEF TypeInv, DatabaseType
    <3>5. Opening(power.span.label).status = "running"
      BY DEF Opening
    <3> QED
      BY <2>1, <3>3, <3>4, <3>5 DEF OwnRuns
  <2>3. CASE power' = Resting
    BY <2>1, <2>3 DEF OwnRuns, Resting, PowerOpened
  <2>4. CASE power'.at = "open" /\ power'.run = NoRun
    BY <2>1, <2>4 DEF OwnRuns, PowerOpened
  <2>5. CASE UNCHANGED powerRuns /\ power'.run = power.run
             /\ \/ power'.at = power.at
                \/ power'.at \in PowerOpened /\ power.at \in PowerOpened
    BY <2>1, <2>5 DEF OwnRuns, PowerOpened
  <2> QED
    BY <1>3, <2>2, <2>3, <2>4, <2>5, PowerRunMoves DEF TypeInv, ClosePowerRun
<1>4. CASE ValidateActs
  <2>1. UNCHANGED <<ingest, power>>
    BY <1>4, ValidateFrame DEF ingestVars
  <2> QED
    BY <1>1, <1>4, <2>1, ValidateLedger DEF TypeInv
<1>5. CASE GateActs
  <2>1. UNCHANGED <<ingest, power, ingestRuns, powerRuns>>
    BY <1>5, GateFrame DEF ingestVars, database
  <2> QED
    BY <1>1, <2>1
<1>6. CASE DayPasses
  <2>1. UNCHANGED <<ingest, power>>
    BY <1>6 DEF DayPasses, ingestVars
  <2>2. DOMAIN ingestRuns = IngestIds /\ DOMAIN powerRuns = PowerIds
    BY DEF TypeInv, DatabaseType, IngestIds, PowerIds
  <2> QED
    BY <1>1, <1>6, <2>1, <2>2, DayLedger DEF TypeInv, Grows
<1>7. CASE UNCHANGED vars
  <2>1. UNCHANGED <<ingest, power, ingestRuns, powerRuns>>
    BY <1>7 DEF vars, database, ingestVars
  <2> QED
    BY <1>1, <2>1
<1> QED
  BY <1>2, <1>3, <1>4, <1>5, <1>6, <1>7 DEF Next

(* What a validate holds as orphaned was old when it was found, and stays  *)
(* so.                                                                     *)
LEMMA FoundOldStep ==
    ASSUME TypeInv, TypeInv', FoundOld, [Next]_vars
    PROVE  FoundOld'
<1> USE DEF TypeInv
<1>0. DatabaseType /\ ValidateType
  OBVIOUS
<1>1. CASE IngestActs
  <2>1. UNCHANGED <<powerRuns, findings, validate>>
    BY <1>1, IngestFrame
  <2> QED
    BY <1>1, <2>1, IngestLedger, FoundStays DEF Grows
<1>2. CASE PowerActs
  <2>1. UNCHANGED <<ingestRuns, findings, validate>>
    BY <1>2, PowerFrame
  <2> QED
    BY <1>2, <2>1, PowerLedger, FoundStays DEF Grows
<1>3. CASE GateActs \/ UNCHANGED vars
  <2>1. UNCHANGED <<ingestRuns, powerRuns, findings, validate>>
    BY <1>3, GateFrame DEF database, vars
  <2> QED
    BY <2>1, FoundStays DEF Grows
<1>4. CASE DayPasses
  <2>1. UNCHANGED <<findings, validate>>
    BY <1>4 DEF DayPasses
  <2> QED
    BY <1>4, <2>1, DayLedger, FoundStays
<1>5. CASE ValidateActs
  <2>1. CASE ValidateStart \/ ValidateStops
    <3>1. UNCHANGED <<ingestRuns, powerRuns, findings>>
      BY <2>1 DEF ValidateStart, ValidateStops, database
    <3>2. \/ validate' = Off
          \/ validate' = [at |-> "clear", next |-> 1, ids |-> {}, batch |-> {}]
      BY <2>1 DEF ValidateStart, ValidateStops
    <3> QED
      BY <3>1, <3>2 DEF FoundOld, IsOld, IsSettled, Ledger, Off
  <2>2. CASE Clear
    <3>1. validate \in Validates /\ validate # Off
      BY <2>2, ValidatePlace DEF Clear, Off
    <3>2. /\ UNCHANGED <<ingestRuns, powerRuns>> /\ findings' = {}
          /\ validate'.at \in {"scan", "rules"} /\ validate'.batch = validate.batch
          /\ validate.at = "clear"
      BY <2>2, <3>1 DEF Clear, Validates
    <3> QED
      BY <3>1, <3>2 DEF FoundOld, IsOld, IsSettled, Reconciling, Ledger
  <2>3. CASE ScanOrphans
    <3> DEFINE table == RunTables[validate.next]
    <3>1. validate \in Validates /\ validate # Off /\ table \in {"ingest", "power"}
      BY <2>3, ValidatePlace DEF ScanOrphans, Off
    <3>2. /\ UNCHANGED <<ingestRuns, powerRuns, findings>>
          /\ validate'.at = "reconcile" /\ validate'.next = validate.next
          /\ validate'.ids = Orphans(table)
          /\ validate'.batch = validate.batch
                                \cup {Reaped(table, i) : i \in Orphans(table)}
          /\ validate.at = "scan"
      BY <2>3, <3>1 DEF ScanOrphans, Validates, database
    <3>3. \A t : Ledger(t)' = Ledger(t)
      BY <3>2 DEF Ledger
    <3>4. \A i \in Orphans(table) : i \in DOMAIN Ledger(table) /\ Ledger(table)[i].old
      BY DEF Orphans
    <3>5. \A i \in validate'.ids : Ledger(RunTables[validate.next])'[i].old
      BY <3>2, <3>3, <3>4 DEF RunTables
    <3>6. \A f : /\ IsOld(f)' <=> IsOld(f)
                 /\ IsSettled(f)' <=> IsSettled(f)
      BY <3>3 DEF IsOld, IsSettled
    <3>7. \A f \in validate.batch :
              f.rule = "orphan-runs" => IsOld(f)' /\ IsSettled(f)'
      BY <3>1, <3>2, <3>6 DEF FoundOld, Reconciling
    <3>8. \A i \in Orphans(table) :
              IsOld(Reaped(table, i))' /\ Reconciling(Reaped(table, i))'
      BY <3>1, <3>2, <3>3, <3>4 DEF IsOld, Reconciling, Reaped, RunTables
    <3>9. \A f \in validate'.batch :
              f.rule = "orphan-runs" =>
                  IsOld(f)' /\ (IsSettled(f)' \/ Reconciling(f)')
      BY <3>2, <3>7, <3>8
    <3> QED
      BY <3>2, <3>5, <3>6, <3>9 DEF FoundOld
  <2>4. CASE Reconcile
    <3>1. PICK i \in validate.ids :
              /\ validate' = [validate EXCEPT !.ids = @ \ {i}]
              /\ Ledger(RunTables[validate.next])'[i].status = "aborted"
              /\ \A table : /\ DOMAIN Ledger(table)' = DOMAIN Ledger(table)
                            /\ \A j \in DOMAIN Ledger(table) :
                                  /\ Ledger(table)'[j].old = Ledger(table)[j].old
                                  /\ \/ Ledger(table)'[j].status = Ledger(table)[j].status
                                     \/ Ledger(table)'[j].status = "aborted"
      BY <1>0, <2>4, ReconcileLedger
    <3>2. validate \in Validates /\ validate # Off /\ validate.at = "reconcile"
      BY <2>4, ValidatePlace DEF Reconcile, Off
    <3>3. /\ validate'.at = "reconcile" /\ validate'.next = validate.next
          /\ validate'.ids = validate.ids \ {i}
          /\ validate'.batch = validate.batch
      BY <3>1, <3>2 DEF Validates
    <3>4. findings' = findings
      BY <2>4 DEF Reconcile
    <3>5. \A f : IsOld(f) => IsOld(f)' /\ (IsSettled(f) => IsSettled(f)')
      BY <3>1 DEF IsOld, IsSettled
    <3>6. \A f : Reconciling(f) => Reconciling(f)' \/ IsSettled(f)'
      BY <3>1, <3>2, <3>3 DEF Reconciling, IsSettled, RunTables
    <3>7. \A j \in validate.ids : j \in DOMAIN Ledger(RunTables[validate.next])
      BY <3>2 DEF ValidateType
    <3>8. \A j \in validate'.ids : Ledger(RunTables[validate.next])'[j].old
      <4> DEFINE table == RunTables[validate.next]
      <4>1. \A j \in validate.ids : Ledger(table)[j].old /\ j \in DOMAIN Ledger(table)
        BY <3>2, <3>7 DEF FoundOld
      <4>2. \A t : \A j \in DOMAIN Ledger(t) : Ledger(t)[j].old => Ledger(t)'[j].old
        BY <3>1
      <4>3. PICK t : t = table
        OBVIOUS
      <4>4. Ledger(table)' = Ledger(t)'
        BY <3>3, <4>3 DEF Ledger, RunTables
      <4> QED
        BY <3>3, <4>1, <4>2, <4>3, <4>4
    <3> QED
      BY <3>2, <3>3, <3>4, <3>5, <3>6, <3>8 DEF FoundOld, RunTables
  <2>5. CASE NextTable \/ ReadRule
    <3>1. validate \in Validates /\ validate # Off
      BY <2>5, ValidatePlace DEF NextTable, ReadRule, Off
    <3>2. /\ UNCHANGED <<ingestRuns, powerRuns, findings>>
          /\ validate'.at \in {"scan", "rules"}
          /\ validate.at \in {"reconcile", "rules"}
          /\ validate.at = "reconcile" => validate.ids = {}
          /\ \A f \in validate'.batch : f \in validate.batch \/ f.rule # "orphan-runs"
      <4>1. CASE NextTable
        BY <3>1, <4>1 DEF NextTable, Validates, database
      <4>2. CASE ReadRule
        <5> DEFINE rule == VerbRules[validate.next]
        <5>1. rule \in Rules
          BY <3>1, <4>2, RulesAssumption DEF ReadRule, Validates
        <5>2. Error(rule).rule # "orphan-runs"
          BY <5>1 DEF Error, Rules
        <5>3. /\ validate'.at = "rules"
              /\ validate'.batch = validate.batch
                    \cup (IF Fails(rule) THEN {Error(rule)} ELSE {})
          BY <3>1, <4>2 DEF ReadRule, Validates
        <5>4. \A f \in validate'.batch : f \in validate.batch \/ f = Error(rule)
          BY <5>3, Zenon
        <5> QED
          BY <4>2, <5>2, <5>3, <5>4 DEF ReadRule, database
      <4> QED
        BY <2>5, <4>1, <4>2
    <3>3. \A t : Ledger(t)' = Ledger(t)
      BY <3>2 DEF Ledger
    <3>4. \A f : /\ IsOld(f)' <=> IsOld(f)
                 /\ IsSettled(f)' <=> IsSettled(f)
                 /\ ~Reconciling(f)
      BY <3>2, <3>3 DEF IsOld, IsSettled, Reconciling
    <3> QED
      BY <3>1, <3>2, <3>4 DEF FoundOld
  <2>6. CASE WriteBatch
    <3>1. validate # Off /\ validate.at = "rules"
      BY <2>6 DEF WriteBatch, Off
    <3>2. /\ UNCHANGED <<ingestRuns, powerRuns>> /\ validate' = Off
          /\ findings' = findings \cup validate.batch
      BY <2>6 DEF WriteBatch
    <3>3. \A f \in findings' : f.rule = "orphan-runs" => IsOld(f) /\ IsSettled(f)
      BY <3>1, <3>2 DEF FoundOld, Reconciling
    <3>4. \A f : /\ IsOld(f)' <=> IsOld(f)
                 /\ IsSettled(f)' <=> IsSettled(f)
      BY <3>2 DEF IsOld, IsSettled, Ledger
    <3> QED
      BY <3>2, <3>3, <3>4 DEF FoundOld, Off
  <2> QED
    BY <1>5, <2>1, <2>2, <2>3, <2>4, <2>5, <2>6 DEF ValidateActs, ValidateStep
<1> QED
  BY <1>1, <1>2, <1>3, <1>4, <1>5 DEF Next

(* There is no run at first.                                               *)
LEMMA InitRuns == Init => OwnRuns /\ FoundOld
  BY DEF Init, Init0, IngestInit, PowerInit, ValidateInit, OwnRuns, FoundOld, Idle,
     Resting, Off, PowerOpened

(* A finding that a run was orphaned is written only of a run that had been  *)
(* open past the threshold and has been closed since.                      *)
THEOREM OrphansSettled == Spec => []OrphansClosed
<1>1. FoundOld => OrphansClosed
  BY DEF FoundOld, IsOld, IsSettled, OrphansClosed
<1>2. TypeInv /\ TypeInv' /\ (OwnRuns /\ FoundOld) /\ [Next]_vars =>
          (OwnRuns /\ FoundOld)'
  BY OwnRunsStep, FoundOldStep
<1> QED
  BY <1>1, <1>2, InitTypes, TypeStep, InitRuns, PTL DEF Spec

(* A row that is not overdue is settled by its own process alone.          *)
LEMMA SettledStep == TypeInv /\ OwnRuns /\ FoundOld /\ [Next]_vars => [SettledStays]_vars
<1> SUFFICES ASSUME TypeInv, OwnRuns, FoundOld, Next PROVE SettledStays
  OBVIOUS
<1> USE DEF TypeInv
<1>1. CASE IngestActs
  <2>1. UNCHANGED powerRuns
    BY <1>1, IngestFrame
  <2>2. CloseIngestRun => ingest.at = "loop" /\ ingest # Idle
    BY DEF CloseIngestRun, Idle
  <2> QED
    BY <1>1, <2>1, <2>2, IngestLedger DEF SettledStays, OwnRuns
<1>2. CASE PowerActs
  <2>1. UNCHANGED ingestRuns
    BY <1>2, PowerFrame
  <2>2. ClosePowerRun => power.at \in PowerOpened /\ power # Resting
    BY DEF ClosePowerRun, Ending, PowerOpened, Resting
  <2> QED
    BY <1>2, <2>1, <2>2, PowerLedger DEF SettledStays, OwnRuns
<1>3. CASE ValidateActs
  BY <1>3, ValidateLedger DEF SettledStays
<1>4. CASE GateActs
  BY <1>4, GateFrame DEF SettledStays, database
<1>5. CASE DayPasses
  BY <1>5, DayLedger DEF SettledStays
<1> QED
  BY <1>1, <1>2, <1>3, <1>4, <1>5 DEF Next

(* A run's row that is not overdue is settled by the process that opened it, *)
(* and by no other; settled, it never changes.                             *)
THEOREM OldRowsReaped == Spec => OnlyOldRowsReaped
<1>1. TypeInv /\ TypeInv' /\ (OwnRuns /\ FoundOld) /\ [Next]_vars =>
          (OwnRuns /\ FoundOld)'
  BY OwnRunsStep, FoundOldStep
<1> QED
  BY <1>1, InitTypes, TypeStep, InitRuns, SettledStep, PTL
  DEF Spec, OnlyOldRowsReaped

-----------------------------------------------------------------------------
(* The gate's rules, as they are read: while nobody moves, what it has read  *)
(* of the database is still true of it.                                    *)
Latest(date) == \E i \in Complete : /\ ingestRuns[i].about = date
                                    /\ \A j \in Complete : j <= i

ReadSoFar ==
    /\ gate.at = "rules" /\ gate.calm /\ ~gate.errors =>
          \A n \in 1 .. gate.next - 1 : ~Fails(GateRules[n])
    /\ gate.at = "passed" /\ gate.calm =>
          \A n \in DOMAIN GateRules : ~Fails(GateRules[n])
    /\ gate # Off /\ gate.calm => Latest(gate.date)

(* What two of the rules say when they pass.                               *)
LEMMA LedgerRules ==
    ASSUME DatabaseType
    PROVE  /\ ~Fails("runs-in-flight") =>
                 /\ \A i \in IngestIds : ingestRuns[i].status # "running"
                 /\ \A i \in PowerIds : powerRuns[i].status # "running"
           /\ ~Fails("run-label-unique") => Colliding = {}
<1>1. DOMAIN ingestRuns = IngestIds /\ DOMAIN powerRuns = PowerIds
  BY DEF DatabaseType, IngestIds, PowerIds
<1>2. /\ Ledger(RunTables[1]) = ingestRuns
      /\ Ledger(RunTables[2]) = powerRuns
  BY DEF Ledger, RunTables
<1>3. Fails("runs-in-flight") <=>
          \E t \in {1, 2} : \E i \in DOMAIN Ledger(RunTables[t]) :
              InFlight(Ledger(RunTables[t])[i])
  BY DEF Fails
<1>4. Fails("run-label-unique") <=> Colliding # {}
  BY DEF Fails
<1> QED
  BY <1>1, <1>2, <1>3, <1>4 DEF InFlight

(* Nothing a rule reads is the age of a row.                               *)
LEMMA RulesIgnoreAge ==
    ASSUME TypeInv, DayPasses, NEW rule \in Rules
    PROVE  Fails(rule)' <=> Fails(rule)
<1>1. UNCHANGED <<observed, powered>>
  BY DEF DayPasses
<1>2. /\ DOMAIN ingestRuns' = DOMAIN ingestRuns
      /\ DOMAIN powerRuns' = DOMAIN powerRuns
      /\ DOMAIN ingestRuns = IngestIds /\ DOMAIN powerRuns = PowerIds
      /\ \A i \in IngestIds : ingestRuns'[i].status = ingestRuns[i].status
      /\ \A i \in PowerIds : /\ powerRuns'[i].status = powerRuns[i].status
                             /\ powerRuns'[i].about = powerRuns[i].about
  BY DayLedger DEF TypeInv, DatabaseType, IngestIds, PowerIds
<1>3. IngestIds' = IngestIds /\ PowerIds' = PowerIds
  BY <1>2, OverdueRows DEF DayPasses, TypeInv, DatabaseType, IngestIds, PowerIds
<1>4. CASE rule = "bbox"
  BY <1>1, <1>4 DEF Fails, Known, observed
<1>5. CASE rule = "runs-in-flight"
  <2>1. \A table : /\ DOMAIN Ledger(table)' = DOMAIN Ledger(table)
                   /\ \A i \in DOMAIN Ledger(table) :
                        InFlight(Ledger(table)[i])' <=> InFlight(Ledger(table)[i])
    BY <1>2 DEF Ledger, InFlight
  <2>2. \A t \in {1, 2} : RunTables[t]' = RunTables[t]
    BY DEF RunTables
  <2>3. \A t \in {1, 2} :
           (\E i \in DOMAIN Ledger(RunTables[t]) : InFlight(Ledger(RunTables[t])[i]))'
             <=> \E i \in DOMAIN Ledger(RunTables[t]) : InFlight(Ledger(RunTables[t])[i])
    BY <2>1, <2>2
  <2> QED
    BY <1>5, <2>3 DEF Fails
<1>6. CASE rule = "ingest-complete"
  <2>1. Complete' = Complete
    BY <1>2, <1>3 DEF Complete
  <2> QED
    BY <1>6, <2>1 DEF Fails
<1>7. CASE rule = "station-refs"
  <2>1. StationRefs' <=> StationRefs
    BY <1>1 DEF StationRefs, Known, observed, powered
  <2> QED
    BY <1>7, <2>1 DEF Fails
<1>8. CASE rule = "cell-refs"
  <2>1. CellRefs' <=> CellRefs
    BY <1>1 DEF CellRefs, powered
  <2> QED
    BY <1>8, <2>1 DEF Fails
<1>9. Referenced' = Referenced
  BY <1>1 DEF Referenced, powered
<1>10. CASE rule = "run-refs"
  <2>1. RunRefs' <=> RunRefs
    BY <1>3, <1>9 DEF RunRefs
  <2> QED
    BY <1>10, <2>1 DEF Fails
<1>11. CASE rule = "run-label-unique"
  <2>1. Referenced \subseteq PowerIds
    BY DEF TypeInv, DatabaseType, Referenced, PowerIds
  <2>2. Colliding' = Colliding
    BY <1>2, <1>9, <2>1 DEF Colliding
  <2> QED
    BY <1>11, <2>2 DEF Fails
<1> QED
  BY <1>4, <1>5, <1>6, <1>7, <1>8, <1>10, <1>11 DEF Rules

(* What the gate has read so far, on a database nobody touched, still      *)
(* holds.                                                                  *)
LEMMA ReadSoFarStep ==
    ASSUME TypeInv, TypeInv', ReadSoFar, [Next]_vars
    PROVE  ReadSoFar'
<1> USE DEF TypeInv
<1>5. ASSUME UNCHANGED database
      PROVE  /\ \A n \in DOMAIN GateRules : Fails(GateRules[n])' <=> Fails(GateRules[n])
             /\ \A date : Latest(date)' <=> Latest(date)
  BY <1>5
  DEF Fails, Latest, Complete, IngestIds, PowerIds, Ledger, StationRefs, CellRefs,
      RunRefs, Referenced, Colliding, Known, database, observed, powered
<1>6. gate.at = "rules" => \A n \in 1 .. gate.next - 1 : n \in DOMAIN GateRules
  <2>1. gate.at = "rules" => gate.next \in 1 .. Len(GateRules)
    BY RulesAssumption DEF GateType, Gates, Off
  <2> QED
    BY <2>1, RulesAssumption
<1>1. CASE gate' = Disturbed
  BY <1>1 DEF ReadSoFar, Disturbed, Off, GateType, Gates
<1>2. CASE GateActs
  <2>1. UNCHANGED database
    BY <1>2, GateFrame
  <2>2. /\ \A n \in DOMAIN GateRules : Fails(GateRules[n])' <=> Fails(GateRules[n])
        /\ \A date : Latest(date)' <=> Latest(date)
    BY <1>5, <2>1
  <2>3. CASE GateStart
    <3> DEFINE last == CHOOSE j \in Complete : \A k \in Complete : j >= k
    <3>1. Complete \subseteq 1 .. Len(ingestRuns) /\ Len(ingestRuns) \in Nat
      BY DEF Complete, IngestIds, DatabaseType
    <3>2. last \in Complete /\ \A k \in Complete : last >= k
      <4>1. \E j \in Complete : \A k \in Complete : j >= k
        BY <2>3, <3>1, GreatestUpTo DEF GateStart
      <4> QED
        BY <4>1
    <3>3. gate' = [at |-> "rules", next |-> 1, calm |-> TRUE, errors |-> FALSE,
                   date |-> ingestRuns[last].about]
      BY <2>3 DEF GateStart
    <3> HIDE DEF last
    <3>4. Latest(gate'.date)
      BY <3>1, <3>2, <3>3 DEF Latest
    <3>5. Latest(gate.date)'
      BY <2>2, <3>4
    <3> QED
      BY <3>3, <3>5 DEF ReadSoFar
  <2>4. CASE GateReads
    <3> DEFINE errors == gate.errors \/ Fails(GateRules[gate.next])
    <3>1. gate \in Gates /\ gate.at = "rules" /\ gate # Off
      BY <2>4 DEF GateReads, GateType, Off
    <3>2. DOMAIN GateRules = 1 .. Len(GateRules) /\ Len(GateRules) \in Nat
      BY RulesAssumption
    <3>3. gate.next \in 1 .. Len(GateRules)
      BY <3>1, <3>2 DEF Gates
    <3>4. gate.calm /\ ~errors =>
              \A n \in 1 .. gate.next : ~Fails(GateRules[n])
      BY <3>1, <3>3 DEF ReadSoFar
    <3>5. gate.calm => Latest(gate.date)
      BY <3>1 DEF ReadSoFar
    <3>6. CASE gate.next < Len(GateRules)
      <4>1. gate' = [gate EXCEPT !.next = gate.next + 1, !.errors = errors]
        BY <2>4, <3>6 DEF GateReads
      <4> HIDE DEF errors
      <4>2. /\ gate'.at = "rules" /\ gate'.next = gate.next + 1
            /\ gate'.errors = errors /\ gate'.calm = gate.calm
            /\ gate'.date = gate.date
        BY <3>1, <4>1 DEF Gates
      <4>3. gate'.calm /\ ~gate'.errors =>
                \A n \in 1 .. gate'.next - 1 : ~Fails(GateRules[n])'
        BY <2>2, <3>2, <3>3, <3>4, <3>6, <4>2
      <4> QED
        BY <2>2, <3>5, <4>2, <4>3 DEF ReadSoFar
    <3>7. CASE ~(gate.next < Len(GateRules))
      <4>1. gate' = [gate EXCEPT !.at = IF errors THEN "refused" ELSE "passed",
                                 !.errors = errors]
        BY <2>4, <3>7 DEF GateReads
      <4> HIDE DEF errors
      <4>2. /\ gate'.at = IF errors THEN "refused" ELSE "passed"
            /\ gate'.calm = gate.calm /\ gate'.date = gate.date
        BY <3>1, <4>1 DEF Gates
      <4>3. gate'.calm /\ gate'.at = "passed" =>
                \A n \in DOMAIN GateRules : ~Fails(GateRules[n])'
        BY <2>2, <3>2, <3>3, <3>4, <3>7, <4>2
      <4> QED
        BY <2>2, <3>5, <4>2, <4>3 DEF ReadSoFar
    <3> QED
      BY <3>6, <3>7
  <2>5. CASE GateLeaves
    BY <2>5 DEF GateLeaves, ReadSoFar, Off
  <2> QED
    BY <1>2, <2>3, <2>4, <2>5 DEF GateActs, GateStep
<1>3. CASE DayPasses
  <2>1. gate' = gate
    BY <1>3 DEF DayPasses
  <2>2. \A n \in DOMAIN GateRules : Fails(GateRules[n])' <=> Fails(GateRules[n])
    BY <1>3, RulesIgnoreAge, RulesAssumption
  <2>3. \A date : Latest(date)' <=> Latest(date)
    <3>1. /\ IngestIds' = IngestIds
          /\ \A i \in IngestIds : /\ ingestRuns'[i].status = ingestRuns[i].status
                                  /\ ingestRuns'[i].about = ingestRuns[i].about
      BY <1>3, DayLedger, OverdueRows DEF DayPasses, DatabaseType, IngestIds
    <3>2. Complete' = Complete
      BY <3>1 DEF Complete
    <3> QED
      BY <3>1, <3>2 DEF Latest, Complete
  <2> QED
    BY <1>6, <2>1, <2>2, <2>3 DEF ReadSoFar
<1>4. CASE UNCHANGED vars
  <2>1. gate' = gate /\ UNCHANGED database
    BY <1>4 DEF vars
  <2> QED
    BY <1>5, <1>6, <2>1 DEF ReadSoFar
<1> QED
  BY <1>1, <1>2, <1>3, <1>4, IngestFrame, PowerFrame, ValidateFrame DEF Next

(* When the gate passes and nobody has moved since it chose its snapshot, no *)
(* run is open, a process still at work belongs to a run closed over its     *)
(* head, no two runs of the supplements share a label, and the deposit is   *)
(* named after the latest complete run: because the gate applies no        *)
(* threshold, and whatever the other rules are.                            *)
THEOREM PassedQuiet == Spec => []GateQuiet
<1>1. TypeInv /\ OwnRuns /\ ReadSoFar => GateQuiet
  <2> SUFFICES ASSUME TypeInv, OwnRuns, ReadSoFar, gate.at = "passed", gate.calm
               PROVE  /\ \A i \in IngestIds : ingestRuns[i].status # "running"
                      /\ \A i \in PowerIds : powerRuns[i].status # "running"
                      /\ ingest # Idle /\ ingest.run # NoRun =>
                            ingestRuns[ingest.run].old
                      /\ power # Resting /\ power.run # NoRun =>
                            powerRuns[power.run].old
                      /\ Colliding = {}
                      /\ Latest(gate.date)
    BY DEF GateQuiet, Latest
  <2>1. \A n \in DOMAIN GateRules : ~Fails(GateRules[n])
    BY DEF ReadSoFar
  <2>2. ~Fails("runs-in-flight") /\ ~Fails("run-label-unique")
    BY <2>1, RulesAssumption
  <2>3. /\ \A i \in IngestIds : ingestRuns[i].status # "running"
        /\ \A i \in PowerIds : powerRuns[i].status # "running"
        /\ Colliding = {}
    BY <2>2, LedgerRules DEF TypeInv
  <2>4. ingest # Idle /\ ingest.run # NoRun => ingestRuns[ingest.run].old
    <3>1. ingest # Idle => ingest.at \in {"seed", "open", "loop", "file"}
      BY DEF TypeInv, IngestType, Ingests
    <3>2. ingest.at \in {"loop", "file"} => ingest.run \in IngestIds
      BY DEF TypeInv, IngestType
    <3> QED
      BY <2>3, <3>1, <3>2 DEF OwnRuns
  <2>5. power # Resting /\ power.run # NoRun => powerRuns[power.run].old
    <3>1. power # Resting => power.at = "open" \/ power.at \in PowerOpened
      BY DEF TypeInv, PowerType, Powers, PowerOpened
    <3>2. power.at \in PowerOpened => power.run \in PowerIds
      BY DEF TypeInv, PowerType, PowerOpened
    <3> QED
      BY <2>3, <3>1, <3>2 DEF OwnRuns
  <2>6. Latest(gate.date)
    BY DEF ReadSoFar, Off
  <2> QED
    BY <2>3, <2>4, <2>5, <2>6
<1>2. Init => ReadSoFar
  BY DEF Init, ValidateInit, ReadSoFar, Off
<1>3. TypeInv /\ TypeInv' /\ (OwnRuns /\ FoundOld) /\ [Next]_vars =>
          (OwnRuns /\ FoundOld)'
  BY OwnRunsStep, FoundOldStep
<1>4. TypeInv /\ TypeInv' /\ ReadSoFar /\ [Next]_vars => ReadSoFar'
  BY ReadSoFarStep
<1> QED
  BY <1>1, <1>2, <1>3, <1>4, InitTypes, TypeStep, InitRuns, PTL DEF Spec

-----------------------------------------------------------------------------
(* Writing a cell of which a run had no row yet adds as many rows of that run  *)
(* as there are hours written.                                             *)
LEMMA RowsSigned ==
    ASSUME DatabaseType, NEW cell \in Cells, NEW run \in PowerIds,
           NEW got \in SUBSET Hours,
           \A h \in Hours : supplement[cell][h] # run,
           supplement' = [supplement EXCEPT ![cell] =
                             [h \in Hours |-> IF h \in got THEN run ELSE @[h]]]
    PROVE  Cardinality(Signed(run)') = Cardinality(Signed(run)) + Cardinality(got)
<1>1. IsFiniteSet(Cells \X Hours) /\ IsFiniteSet(got)
  BY CellsFinite, PowerAssumption, FS_Product, FS_Subset
<1>2. IsFiniteSet(Signed(run))
  BY <1>1, FS_Subset DEF Signed
<1>3. IsFiniteSet({cell} \X got) /\ Cardinality({cell} \X got) = Cardinality(got)
  <2>1. IsFiniteSet({cell}) /\ Cardinality({cell}) = 1
    BY FS_Singleton
  <2>2. Cardinality(got) \in Nat
    BY <1>1, FS_CardinalityType
  <2>3. /\ IsFiniteSet({cell} \X got)
        /\ Cardinality({cell} \X got) = Cardinality({cell}) * Cardinality(got)
    BY <1>1, <2>1, FS_Product
  <2> QED
    BY <2>1, <2>2, <2>3
<1>4. /\ \A c \in Cells : c # cell => supplement'[c] = supplement[c]
      /\ \A h \in Hours : supplement'[cell][h] = IF h \in got THEN run
                                                  ELSE supplement[cell][h]
  BY DEF DatabaseType
<1>5. Signed(run)' = Signed(run) \cup ({cell} \X got)
  <2>1. ASSUME NEW row \in Cells \X Hours
        PROVE  supplement'[row[1]][row[2]] = run <=>
                  \/ supplement[row[1]][row[2]] = run
                  \/ row[1] = cell /\ row[2] \in got
    BY <1>4
  <2>2. \A row : row \in {cell} \X got <=>
                   row \in Cells \X Hours /\ row[1] = cell /\ row[2] \in got
    OBVIOUS
  <2>3. Signed(run)' = {row \in Cells \X Hours : supplement'[row[1]][row[2]] = run}
    BY DEF Signed
  <2> QED
    BY <2>1, <2>2, <2>3 DEF Signed
<1>6. Signed(run) \cap ({cell} \X got) = {}
  BY DEF Signed
<1>7. Cardinality(Signed(run)) \in Nat /\ Cardinality(got) \in Nat
  BY <1>1, <1>2, FS_CardinalityType
<1>8. Cardinality(Signed(run) \cap ({cell} \X got)) = 0
  BY <1>6, FS_EmptySet
<1>9. Cardinality(Signed(run) \cup ({cell} \X got)) =
        Cardinality(Signed(run)) + Cardinality({cell} \X got)
          - Cardinality(Signed(run) \cap ({cell} \X got))
  BY <1>2, <1>3, FS_Union
<1> QED
  BY <1>3, <1>5, <1>7, <1>8, <1>9

(* A run that has just been opened has signed nothing.                      *)
LEMMA NothingSigned ==
    ASSUME DatabaseType, NEW run \in Nat, run > Len(powerRuns)
    PROVE  Cardinality(Signed(run)) = 0 /\ \A c \in Cells, h \in Hours :
                                               supplement[c][h] # run
<1>1. Len(powerRuns) \in Nat
  BY DEF DatabaseType
<1>2. \A c \in Cells, h \in Hours : supplement[c][h] # run
  BY <1>1 DEF DatabaseType, PowerIds, NoRun
<1>3. Signed(run) = {}
  BY <1>2 DEF Signed
<1> QED
  BY <1>2, <1>3, FS_EmptySet

(* The loop of a power run: of the cells it chose, those it tried and those  *)
(* left; of those it tried, those that went either way and the one at hand; *)
(* and of none that is still to be written a row that bears its id.        *)
Budget   == Chosen(power.view, power.span.most)
Underway == IF power.at \in {"fetch", "write"} THEN 1 ELSE 0

Accounts ==
    /\ power.at = "open" => power.left = Budget /\ power.report = NoReport
    /\ power.at \in PowerOpened =>
          /\ power.report.attempted + Cardinality(power.left) = Cardinality(Budget)
          /\ power.report.succeeded + power.report.failed + Underway
                = power.report.attempted
          /\ power.report.rows = Cardinality(Signed(power.run))
          /\ \A c \in power.left, h \in Hours : supplement[c][h] # power.run
          /\ power.at \in {"fetch", "write"} =>
                /\ power.now \notin power.left
                /\ \A h \in Hours : supplement[power.now][h] # power.run

(* Every step of power keeps its accounts.                                 *)
LEMMA AccountsStep ==
    ASSUME TypeInv, TypeInv', Accounts, [Next]_vars
    PROVE  Accounts'
<1> USE DEF TypeInv
<1>1. ASSUME UNCHANGED <<power, supplement>> PROVE Accounts'
  BY <1>1 DEF Accounts, Budget, Underway, Signed
<1>2. CASE PowerActs
  <2>1. ASSUME power' = Resting PROVE Accounts'
    BY <2>1 DEF Accounts, Resting, PowerOpened
  <2>2. ASSUME power \in Powers, power.at \in PowerOpened, UNCHANGED supplement,
               power'.view = power.view, power'.span = power.span,
               power'.left = power.left, power'.run = power.run,
               power'.report = power.report, power'.now = power.now,
               power'.at \in PowerOpened,
               power'.at \in {"fetch", "write"} <=> power.at \in {"fetch", "write"}
        PROVE  Accounts'
    BY <2>2 DEF Accounts, Budget, Underway, Signed, PowerOpened
  <2>3. CASE PowerLeaves \/ ClosePowerFails \/ PowerKilled \/ ClosePowerRun
    BY <2>1, <2>3 DEF PowerLeaves, ClosePowerFails, PowerKilled, ClosePowerRun
  <2>4. CASE UpsertCells \/ PowerStops \/ CellFetched \/ UpsertCellsFails
    <3>1. power \in Powers /\ power.at \in PowerOpened
      <4>1. power.at \in PowerOpened
        BY <2>4 DEF UpsertCells, PowerStops, CellFetched, UpsertCellsFails, PowerOpened
      <4> QED
        BY <4>1, PowerPlace DEF PowerOpened
    <3> QED
      BY <2>2, <2>4, <3>1
      DEF UpsertCells, PowerStops, CellFetched, UpsertCellsFails, Powers, PowerOpened,
          database, powered
  <2>5. CASE PowerCancelled
    <3>1. power \in Powers
      BY <2>5, PowerPlace DEF PowerCancelled
    <3>2. power' = [power EXCEPT !.ctx = "cancelled"] /\ supplement' = supplement
      BY <2>5 DEF PowerCancelled, database, powered
    <3>3. /\ power'.at = power.at /\ power'.view = power.view
          /\ power'.span = power.span /\ power'.left = power.left
          /\ power'.run = power.run /\ power'.report = power.report
          /\ power'.now = power.now
      BY <3>1, <3>2 DEF Powers
    <3> QED
      BY <3>2, <3>3 DEF Accounts, Budget, Underway, Signed
  <2>6. ASSUME NEW span \in Spans, PowerStart(span) PROVE Accounts'
    BY <2>6 DEF PowerStart, Accounts, Budget, PowerOpened
  <2>7. CASE OpenPowerRun
    <3>1. power \in Powers /\ power.at = "open"
      BY <2>7, PowerPlace DEF OpenPowerRun
    <3>2. power' = [power EXCEPT !.at = "cells", !.run = Len(powerRuns')]
          /\ Len(powerRuns') = Len(powerRuns) + 1 /\ Len(powerRuns) \in Nat
          /\ supplement' = supplement
      BY <2>7 DEF OpenPowerRun, DatabaseType, powered
    <3>3. /\ power'.at = "cells" /\ power'.run = Len(powerRuns) + 1
          /\ power'.left = power.left /\ power'.report = power.report
          /\ Budget' = Budget
      BY <3>1, <3>2 DEF Powers, Budget
    <3>4. power.left = Budget /\ power.report = NoReport
      BY <3>1 DEF Accounts
    <3>5. /\ Cardinality(Signed(Len(powerRuns) + 1)) = 0
          /\ \A c \in Cells, h \in Hours : supplement[c][h] # Len(powerRuns) + 1
      BY <3>2, NothingSigned
    <3>6. Signed(power.run)' = Signed(Len(powerRuns) + 1)
      BY <3>2, <3>3 DEF Signed
    <3>7. Cardinality(power.left) \in Nat
      BY <3>1, CellsFinite, FS_Subset, FS_CardinalityType DEF Powers
    <3>8. power.left \subseteq Cells
      BY <3>1 DEF Powers
    <3> QED
      BY <3>2, <3>3, <3>4, <3>5, <3>6, <3>7, <3>8
      DEF Accounts, Underway, NoReport
  <2>8. CASE CellBegins
    <3> DEFINE cell == First(power.left)
    <3>1. power \in Powers /\ power.at = "loop" /\ power.left # {}
            /\ power.at \in PowerOpened
      BY <2>8, PowerPlace DEF CellBegins, PowerOpened
    <3>2. power.left \subseteq Cells /\ IsFiniteSet(power.left)
      BY <3>1, CellsFinite, FS_Subset DEF Powers
    <3>3. cell \in power.left
      BY <3>1, <3>2, FirstCell
    <3>4. power' = [power EXCEPT !.at = "fetch", !.now = cell, !.left = @ \ {cell},
                       !.report = [power.report EXCEPT !.attempted = @ + 1]]
          /\ supplement' = supplement
      BY <2>8, <3>1 DEF CellBegins, Powers, database, powered
    <3>5. power.report \in Reports
      BY <3>1 DEF Powers
    <3> HIDE DEF cell
    <3>6. /\ power'.at = "fetch" /\ power'.now = cell
          /\ power'.left = power.left \ {cell} /\ power'.run = power.run
          /\ power'.report = [power.report EXCEPT !.attempted = @ + 1]
          /\ Budget' = Budget
      BY <3>1, <3>4 DEF Powers, Budget
    <3>7. /\ power'.report.attempted = power.report.attempted + 1
          /\ power'.report.succeeded = power.report.succeeded
          /\ power'.report.failed = power.report.failed
          /\ power'.report.rows = power.report.rows
      BY <3>5, <3>6 DEF Reports
    <3>8. /\ Cardinality(power'.left) = Cardinality(power.left) - 1
          /\ Cardinality(power.left) \in Nat
      BY <3>2, <3>3, <3>6, FS_RemoveElement, FS_CardinalityType
    <3>9. Signed(power.run)' = Signed(power.run)
      BY <3>4, <3>6 DEF Signed
    <3>10. /\ power.report.attempted \in Nat /\ power.report.succeeded \in Nat
           /\ power.report.failed \in Nat
      BY <3>5 DEF Reports
    <3>11. /\ power.report.attempted + Cardinality(power.left) = Cardinality(Budget)
           /\ power.report.succeeded + power.report.failed + 0
                 = power.report.attempted
           /\ power.report.rows = Cardinality(Signed(power.run))
           /\ \A c \in power.left, h \in Hours : supplement[c][h] # power.run
      BY <3>1 DEF Accounts, Underway
    <3>12. /\ power'.report.attempted + Cardinality(power'.left) = Cardinality(Budget')
           /\ power'.report.succeeded + power'.report.failed + 1
                 = power'.report.attempted
      BY <3>6, <3>7, <3>8, <3>10, <3>11
    <3> QED
      BY <3>3, <3>4, <3>6, <3>7, <3>9, <3>11, <3>12 DEF Accounts, Underway
  <2>9. CASE CellWritten
    <3>1. power \in Powers /\ power.at = "write" /\ power.at \in PowerOpened
      BY <2>9, PowerPlace DEF CellWritten, PowerOpened
    <3>2. power.run \in PowerIds /\ power.now \in Cells /\ power.got \in SUBSET Hours
      BY <3>1 DEF PowerType, Powers
    <3>3. power' = [power EXCEPT !.at = "loop", !.now = NoCell, !.got = {},
                       !.report = [power.report EXCEPT !.succeeded = @ + 1,
                                      !.rows = @ + RowsWritten]]
      BY <2>9, <3>1 DEF CellWritten, Powers, Reports
    <3>4. supplement' = [supplement EXCEPT ![power.now] =
                           [h \in Hours |-> IF h \in power.got THEN power.run
                                            ELSE @[h]]]
      BY <2>9 DEF CellWritten
    <3>5. power.report \in Reports
      BY <3>1 DEF Powers
    <3>6. /\ power'.at = "loop" /\ power'.left = power.left
          /\ power'.run = power.run /\ Budget' = Budget
          /\ power'.report = [power.report EXCEPT !.succeeded = @ + 1,
                                 !.rows = @ + RowsWritten]
      BY <3>1, <3>3 DEF Powers, Budget
    <3>7. /\ power'.report.attempted = power.report.attempted
          /\ power'.report.succeeded = power.report.succeeded + 1
          /\ power'.report.failed = power.report.failed
          /\ power'.report.rows = power.report.rows + RowsWritten
      BY <3>5, <3>6 DEF Reports
    <3>8. /\ power.report.attempted + Cardinality(power.left) = Cardinality(Budget)
          /\ power.report.succeeded + power.report.failed + 1
                = power.report.attempted
          /\ power.report.rows = Cardinality(Signed(power.run))
          /\ \A c \in power.left, h \in Hours : supplement[c][h] # power.run
          /\ power.now \notin power.left
          /\ \A h \in Hours : supplement[power.now][h] # power.run
      BY <3>1 DEF Accounts, Underway
    <3>9. Cardinality(Signed(power.run)') = Cardinality(Signed(power.run)) + RowsWritten
      <4>1. \A run \in PowerIds :
              run = power.run =>
                Cardinality(Signed(run)') = Cardinality(Signed(run))
                                              + Cardinality(power.got)
        BY <3>2, <3>4, <3>8, RowsSigned
      <4>2. PICK run \in PowerIds : run = power.run
        BY <3>2
      <4>3. Signed(power.run)' = Signed(run)' /\ Signed(power.run) = Signed(run)
        BY <3>6, <4>2 DEF Signed
      <4> QED
        BY <4>1, <4>2, <4>3 DEF RowsWritten
    <3>10. /\ power.report.attempted \in Nat /\ power.report.succeeded \in Nat
           /\ power.report.failed \in Nat
      BY <3>5 DEF Reports
    <3>11. /\ power'.report.attempted + Cardinality(power'.left) = Cardinality(Budget')
           /\ power'.report.succeeded + power'.report.failed + 0
                 = power'.report.attempted
           /\ power'.report.rows = Cardinality(Signed(power.run)')
      BY <3>6, <3>7, <3>8, <3>9, <3>10
    <3>12. power.left \subseteq Cells
      BY <3>1 DEF Powers
    <3>13. \A c \in power.left : supplement'[c] = supplement[c]
      BY <3>4, <3>8, <3>12 DEF DatabaseType
    <3>14. \A c \in power'.left, h \in Hours : supplement'[c][h] # power'.run
      BY <3>6, <3>8, <3>13
    <3> QED
      BY <3>6, <3>11, <3>14 DEF Accounts, Underway
  <2>10. CASE CellFails
    <3>1. power.at \in {"fetch", "write"} /\ power.at \in PowerOpened
      BY <2>10 DEF CellFails, PowerOpened
    <3>2. power \in Powers
      BY <3>1, PowerPlace
    <3>3. power' = [power EXCEPT !.at = "loop", !.now = NoCell, !.got = {},
                       !.report = [power.report EXCEPT !.failed = @ + 1]]
          /\ supplement' = supplement
      BY <2>10, <3>2 DEF CellFails, Powers, database, powered
    <3>4. power.report \in Reports
      BY <3>2 DEF Powers
    <3>5. /\ power'.at = "loop" /\ power'.left = power.left
          /\ power'.run = power.run /\ Budget' = Budget
          /\ power'.report = [power.report EXCEPT !.failed = @ + 1]
      BY <3>2, <3>3 DEF Powers, Budget
    <3>6. /\ power'.report.attempted = power.report.attempted
          /\ power'.report.succeeded = power.report.succeeded
          /\ power'.report.failed = power.report.failed + 1
          /\ power'.report.rows = power.report.rows
      BY <3>4, <3>5 DEF Reports
    <3>7. Signed(power.run)' = Signed(power.run)
      BY <3>3, <3>5 DEF Signed
    <3>8. /\ power.report.attempted \in Nat /\ power.report.succeeded \in Nat
          /\ power.report.failed \in Nat
      BY <3>4 DEF Reports
    <3>9. /\ power.report.attempted + Cardinality(power.left) = Cardinality(Budget)
          /\ power.report.succeeded + power.report.failed + 1
                = power.report.attempted
          /\ power.report.rows = Cardinality(Signed(power.run))
          /\ \A c \in power.left, h \in Hours : supplement[c][h] # power.run
      BY <3>1 DEF Accounts, Underway
    <3>10. power'.report.succeeded + power'.report.failed + 0
             = power'.report.attempted
      BY <3>6, <3>8, <3>9
    <3> QED
      BY <3>3, <3>5, <3>6, <3>7, <3>9, <3>10 DEF Accounts, Underway
  <2> QED
    BY <1>2, <2>3, <2>4, <2>5, <2>6, <2>7, <2>8, <2>9, <2>10
    DEF PowerActs, PowerStep, PowerFault
<1>3. CASE IngestActs
  BY <1>1, <1>3, IngestFrame DEF powered
<1>4. CASE ValidateActs
  BY <1>1, <1>4, ValidateFrame DEF powered
<1>5. CASE GateActs \/ DayPasses \/ UNCHANGED vars
  BY <1>1, <1>5, GateFrame DEF DayPasses, vars, database, powered
<1> QED
  BY <1>2, <1>3, <1>4, <1>5 DEF Next

(* What the close of a power run records: every cell tried went one way or    *)
(* the other, the rows counted are those that bear the run's id, and a      *)
(* complete run tried every cell of its budget, whatever moved meanwhile.   *)
THEOREM RunsAccounted == Spec => PowerAccounts
<1> DEFINE Accounted ==
      \A i \in PowerIds :
         /\ powerRuns'[i].report # powerRuns[i].report
         => LET report == powerRuns'[i].report IN
            /\ power.run = i
            /\ report.succeeded + report.failed = report.attempted
            /\ report.rows = Cardinality(Signed(i))
            /\ powerRuns'[i].status = "complete" =>
                 report.attempted =
                     Cardinality(Chosen(power.view, power.span.most))
<1>1. TypeInv /\ FoundOld /\ Accounts /\ [Next]_vars => [Accounted]_vars
  <2> SUFFICES ASSUME TypeInv, FoundOld, Accounts, Next, NEW i \in PowerIds,
                      powerRuns'[i].report # powerRuns[i].report
               PROVE  /\ power.run = i
                      /\ powerRuns'[i].report.succeeded + powerRuns'[i].report.failed
                            = powerRuns'[i].report.attempted
                      /\ powerRuns'[i].report.rows = Cardinality(Signed(i))
                      /\ powerRuns'[i].status = "complete" =>
                           powerRuns'[i].report.attempted = Cardinality(Budget)
    BY DEF Budget
  <2> USE DEF TypeInv
  <2>1. PowerActs
    <3>1. ~IngestActs
      BY IngestFrame
    <3>2. ~ValidateActs
      BY ValidateLedger
    <3>3. ~GateActs
      BY GateFrame DEF database
    <3>4. ~DayPasses
      BY DayLedger
    <3> QED
      BY <3>1, <3>2, <3>3, <3>4 DEF Next
  <2>2. ClosePowerRun /\ power.run = i
    BY <2>1, PowerLedger
  <2>3. power \in Powers /\ power.at \in PowerOpened
          /\ power.at \notin {"fetch", "write"}
    BY <2>2, PowerPlace DEF ClosePowerRun, Ending, PowerOpened
  <2>4. powerRuns[i] \in RunRows(Labels)
    BY DEF DatabaseType, PowerIds
  <2>5. powerRuns'[i] = Closed(powerRuns[i], PowerVerdict, power.report)
    BY <2>2 DEF ClosePowerRun, DatabaseType, PowerIds
  <2>6. powerRuns'[i].report = power.report /\ powerRuns'[i].status = PowerVerdict
    BY <2>4, <2>5, ClosedRow
  <2>7. /\ power.report.attempted + Cardinality(power.left) = Cardinality(Budget)
        /\ power.report.succeeded + power.report.failed + 0
              = power.report.attempted
        /\ power.report.rows = Cardinality(Signed(i))
    BY <2>2, <2>3 DEF Accounts, Underway
  <2>8. PowerVerdict = "complete" => power.left = {}
    BY <2>2 DEF ClosePowerRun, Ending, PowerVerdict
  <2>9. /\ power.report.attempted \in Nat /\ power.report.succeeded \in Nat
        /\ power.report.failed \in Nat
    BY <2>3 DEF Powers, Reports
  <2>10. PowerVerdict = "complete" => Cardinality(power.left) = 0
    BY <2>8, FS_EmptySet
  <2>11. /\ power.report.succeeded + power.report.failed = power.report.attempted
         /\ PowerVerdict = "complete" => power.report.attempted = Cardinality(Budget)
    BY <2>7, <2>9, <2>10
  <2> QED
    BY <2>2, <2>6, <2>7, <2>11
<1>2. Init => Accounts
  BY DEF Init, PowerInit, Resting, Accounts, PowerOpened
<1>3. TypeInv /\ TypeInv' /\ (OwnRuns /\ FoundOld) /\ [Next]_vars =>
          (OwnRuns /\ FoundOld)'
  BY OwnRunsStep, FoundOldStep
<1>4. TypeInv /\ TypeInv' /\ Accounts /\ [Next]_vars => Accounts'
  BY AccountsStep
<1> HIDE DEF Accounted
<1>5. Spec => [][Accounted]_vars
  BY <1>1, <1>2, <1>3, <1>4, InitTypes, TypeStep, InitRuns, PTL DEF Spec
<1> QED
  BY <1>5 DEF PowerAccounts, Accounted

-----------------------------------------------------------------------------
(* What an ingest leaves in the observed tables: they move by whole files   *)
(* of one station with what is derived from them (StationStore), and a      *)
(* complete run has in them what the files it selected say.                 *)

(* The files of the open transaction that are taken, as kinds and as files. *)
Taken == {ingest.kinds[j] : j \in 1 .. Len(ingest.kinds) - Len(ingest.left)}

Entry(k) == Manifest[ingest.date][Target][k]

TakenFile(f) == f[1] = ingest.date /\ f[3] = Target /\ f[2] \in Taken

(* The columns derived from a known station's rows are those of its rows.   *)
Fresh ==
    \A s \in Stations :
        Known(s) => /\ station[s].years = YearsOf(tables[s])
                    /\ station[s].score = ScoreOf(tables[s])

NoRepeats == \A i, j \in DOMAIN ingest.kinds :
                 ingest.kinds[i] = ingest.kinds[j] => i = j

(* The draft is what is committed, with the files taken so far and no       *)
(* others; those left are the tail of those selected.                      *)
Drafted ==
    /\ Len(ingest.left) <= Len(ingest.kinds)
    /\ \A i \in DOMAIN ingest.left :
           ingest.left[i] = ingest.kinds[Len(ingest.kinds) - Len(ingest.left) + i]
    /\ \A s \in Stations : /\ draft.station[s].years = station[s].years
                           /\ draft.station[s].score = station[s].score
    /\ \A k \in Kinds : draft.tables[k] =
           IF k \in Taken THEN Upserted(tables[Target][k], Result(Entry(k)).rows)
                          ELSE tables[Target][k]
    /\ \A f \in Files :
           /\ draft.noted[f] = IF TakenFile(f) THEN <<>> ELSE noted[f]
           /\ draft.issues[f] = IF TakenFile(f) THEN Result(Entry(f[2])).issues
                                               ELSE <<>>

(* What the loop counted, and what it owes when nothing failed.             *)
Counted ==
    /\ ingest.report.attempted = Len(ingest.targets)
    /\ ingest.next <= Len(ingest.targets) + 1
    /\ ingest.report.succeeded + ingest.report.failed = ingest.next - 1
    /\ ingest.report.failed = 0 =>
          \A t \in 1 .. ingest.next - 1, k \in DOMAIN ingest.kinds :
              Reflected(ingest.targets[t], ingest.kinds[k])

StoreInv ==
    /\ Fresh
    /\ ingest # Idle => NoRepeats
    /\ ingest.at \in {"seed", "open"} => ingest.next = 1 /\ ingest.report = NoReport
    /\ ingest.at = "file" => Drafted
    /\ ingest.at \in {"loop", "file"} => Counted

-----------------------------------------------------------------------------
(* Taking the first of the files left adds its kind to those taken, and no  *)
(* file is taken twice.                                                    *)
LEMMA TakesOne ==
    ASSUME NEW kinds \in Seq(Kinds), NEW left \in Seq(Kinds),
           \A i, j \in DOMAIN kinds : kinds[i] = kinds[j] => i = j,
           Len(left) <= Len(kinds), left # <<>>,
           \A i \in DOMAIN left : left[i] = kinds[Len(kinds) - Len(left) + i]
    PROVE  LET n == Len(kinds) - Len(left)
               before == {kinds[j] : j \in 1 .. n}
           IN /\ Head(left) \notin before
              /\ Len(Tail(left)) = Len(left) - 1
              /\ {kinds[j] : j \in 1 .. Len(kinds) - Len(Tail(left))}
                    = before \cup {Head(left)}
              /\ \A i \in DOMAIN Tail(left) : Tail(left)[i] =
                    kinds[Len(kinds) - Len(Tail(left)) + i]
<1> DEFINE n == Len(kinds) - Len(left)
           before == {kinds[j] : j \in 1 .. n}
<1>1. n \in Nat /\ n + 1 \in DOMAIN kinds /\ Len(left) \in Nat \ {0}
  OBVIOUS
<1>2. Head(left) = kinds[n + 1]
  <2>1. Head(left) = left[1] /\ 1 \in DOMAIN left
    OBVIOUS
  <2> QED
    BY <2>1
<1>3. Len(Tail(left)) = Len(left) - 1 /\ Tail(left) \in Seq(Kinds)
        /\ \A i \in 1 .. Len(left) - 1 : Tail(left)[i] = left[i + 1]
  BY HeadTailProperties
<1>4. Head(left) \notin before
  BY <1>1, <1>2
<1>5. Len(kinds) - Len(Tail(left)) = n + 1
  BY <1>1, <1>3
<1>6. {kinds[j] : j \in 1 .. n + 1} = before \cup {Head(left)}
  <2>1. 1 .. n + 1 = (1 .. n) \cup {n + 1}
    BY <1>1
  <2> QED
    BY <1>2, <2>1
<1>7. ASSUME NEW i \in DOMAIN Tail(left)
      PROVE  Tail(left)[i] = kinds[n + 1 + i]
  <2>1. i \in 1 .. Len(left) - 1
    BY <1>3
  <2>2. DOMAIN left = 1 .. Len(left) /\ i + 1 \in 1 .. Len(left)
    BY <1>1, <2>1
  <2>3. n + (i + 1) = n + 1 + i
    BY <1>1, <2>1
  <2> QED
    BY <1>3, <2>1, <2>2, <2>3
<1> QED
  BY <1>3, <1>4, <1>5, <1>6, <1>7

(* Nothing is derived from empty tables.                                   *)
LEMMA NothingDerived ==
    ASSUME NEW rows, \A k \in Kinds : rows[k] = Bare
    PROVE  YearsOf(rows) = NoYears /\ ScoreOf(rows) = NoScore
<1>1. \A k \in Kinds : Held(rows[k]) = {}
  BY DEF Held, Bare
<1>2. {n \in NormalsKinds : Held(rows[n]) # {}} = {}
  BY <1>1, KindsAssumption
<1>3. Ends({PeriodOf[k] : k \in {n \in NormalsKinds : Held(rows[n]) # {}}}) = {}
  BY <1>2 DEF Ends
<1>4. YearsOf(rows) = NoYears
  BY <1>1, <1>3, KindsAssumption DEF YearsOf, NoYears
<1>5. ScoreOf(rows) = NoScore
  BY KindsAssumption DEF ScoreOf, NoScore
<1> QED
  BY <1>4, <1>5

(* The draft follows the files as they are taken.                          *)
LEMMA TakenDrafted ==
    ASSUME TypeInv, TypeInv', StoreInv, FileTaken
    PROVE  StoreInv'
<1> USE DEF TypeInv
<1> DEFINE k == Head(ingest.left)
           result == Result(Manifest[ingest.date][Target][k])
<1>1. /\ ingest \in Ingests /\ draft \in Drafts /\ Target \in Stations
      /\ ingest # Idle /\ lock = "ingest"
  <2>1. ingest.at = "file"
    BY DEF FileTaken
  <2> QED
    BY <2>1, IngestPlace DEF Idle
<1>2. NoRepeats /\ Drafted /\ Counted
  BY <1>1 DEF StoreInv, FileTaken
<1>3. /\ ingest' = [ingest EXCEPT !.left = Tail(@)]
      /\ UNCHANGED <<station, tables, noted>>
      /\ draft' = [draft EXCEPT
              !.noted[File(k)] = <<>>,
              !.issues[File(k)] = @ \o result.issues,
              !.tables[k] = Upserted(@, result.rows),
              !.station = [s \in Stations |->
                              IF s \in result.named
                              THEN UpsertStation(@[s], result.place)
                              ELSE @[s]]]
  BY DEF FileTaken, database, observed
<1>4. /\ ingest'.kinds = ingest.kinds /\ ingest'.targets = ingest.targets
      /\ ingest'.next = ingest.next /\ ingest'.date = ingest.date
      /\ ingest'.report = ingest.report /\ ingest'.at = "file"
      /\ ingest'.left = Tail(ingest.left)
  BY <1>1, <1>3 DEF Ingests, FileTaken
<1>5. /\ ingest.kinds \in Seq(Kinds) /\ ingest.left \in Seq(Kinds)
      /\ ingest.left # <<>> /\ k \in Kinds
  <2>1. ingest.kinds \in Seq(Kinds) /\ ingest.left \in Seq(Kinds)
          /\ ingest.left # <<>>
    BY <1>1 DEF Ingests, FileTaken
  <2> QED
    BY <2>1, HeadTailProperties
<1>6. /\ k \notin Taken
      /\ Len(ingest'.left) = Len(ingest.left) - 1
      /\ Taken' = Taken \cup {k}
      /\ \A i \in DOMAIN ingest'.left : ingest'.left[i] =
             ingest'.kinds[Len(ingest'.kinds) - Len(ingest'.left) + i]
  <2>1. /\ \A i, j \in DOMAIN ingest.kinds : ingest.kinds[i] = ingest.kinds[j] => i = j
        /\ Len(ingest.left) <= Len(ingest.kinds)
        /\ \A i \in DOMAIN ingest.left : ingest.left[i] =
              ingest.kinds[Len(ingest.kinds) - Len(ingest.left) + i]
    BY <1>2 DEF Drafted, NoRepeats
  <2>2. /\ k \notin {ingest.kinds[j] : j \in 1 .. Len(ingest.kinds) - Len(ingest.left)}
        /\ Len(Tail(ingest.left)) = Len(ingest.left) - 1
        /\ {ingest.kinds[j] : j \in 1 .. Len(ingest.kinds) - Len(Tail(ingest.left))}
              = {ingest.kinds[j] : j \in 1 .. Len(ingest.kinds) - Len(ingest.left)}
                  \cup {k}
        /\ \A i \in DOMAIN Tail(ingest.left) : Tail(ingest.left)[i] =
              ingest.kinds[Len(ingest.kinds) - Len(Tail(ingest.left)) + i]
    BY <1>5, <2>1, TakesOne
  <2> QED
    BY SMTT(30), <1>4, <2>2 DEF Taken
<1>7. Target' = Target /\ \A kind : Entry(kind)' = Entry(kind)
  BY <1>4 DEF Target, Entry
<1>8. /\ draft.station \in [Stations -> Rows] /\ draft.tables \in [Kinds -> Table]
      /\ draft.noted \in Warnings /\ draft.issues \in Warnings
      /\ draft = [open |-> draft.open, station |-> draft.station,
                  tables |-> draft.tables, noted |-> draft.noted,
                  issues |-> draft.issues]
  BY <1>1 DEF Drafts
<1>9. /\ draft'.noted = [draft.noted EXCEPT ![File(k)] = <<>>]
      /\ draft'.issues = [draft.issues EXCEPT ![File(k)] = @ \o result.issues]
      /\ draft'.tables = [draft.tables EXCEPT ![k] = Upserted(@, result.rows)]
      /\ draft'.station = [s \in Stations |->
                              IF s \in result.named
                              THEN UpsertStation(draft.station[s], result.place)
                              ELSE draft.station[s]]
  BY <1>1, <1>3 DEF Drafts
<1>10. /\ result.rows \in Table /\ result.place \in Places \cup {NoPlace}
       /\ result.issues \in Seq(Issues)
  BY <1>1, <1>5, ManifestAssumption, ResultTypes DEF Ingests
<1>11. ASSUME NEW s \in Stations
       PROVE  /\ draft'.station[s].years = station'[s].years
              /\ draft'.station[s].score = station'[s].score
  <2>1. draft.station[s] \in Rows /\ draft.station[s] # NoStation
    BY <1>8, EmptyTypes
  <2>2. /\ UpsertStation(draft.station[s], result.place).years
               = draft.station[s].years
        /\ UpsertStation(draft.station[s], result.place).score
               = draft.station[s].score
    BY <1>10, <2>1, UpsertedStation
  <2>3. \/ draft'.station[s] = UpsertStation(draft.station[s], result.place)
        \/ draft'.station[s] = draft.station[s]
    BY <1>9
  <2>4. /\ draft'.station[s].years = draft.station[s].years
        /\ draft'.station[s].score = draft.station[s].score
    BY <2>2, <2>3
  <2> QED
    BY <1>2, <1>3, <2>4 DEF Drafted
<1>12. ASSUME NEW kind \in Kinds
       PROVE  draft'.tables[kind] =
                 IF kind \in Taken'
                 THEN Upserted(tables'[Target'][kind], Result(Entry(kind)').rows)
                 ELSE tables'[Target'][kind]
  <2>1. CASE kind = k
    <3>1. draft'.tables[k] = Upserted(draft.tables[k], result.rows)
      BY <1>5, <1>8, <1>9
    <3>2. draft.tables[k] = tables[Target][k]
      BY <1>2, <1>5, <1>6 DEF Drafted
    <3> QED
      BY <1>3, <1>6, <1>7, <2>1, <3>1, <3>2 DEF Entry
  <2>2. CASE kind # k
    <3>1. draft'.tables[kind] = draft.tables[kind]
      BY <1>8, <1>9, <2>2
    <3> QED
      BY <1>2, <1>3, <1>6, <1>7, <2>2, <3>1 DEF Drafted
  <2> QED
    BY <2>1, <2>2
<1>13. ASSUME NEW f \in Files
       PROVE  /\ draft'.noted[f] = IF TakenFile(f)' THEN <<>> ELSE noted'[f]
              /\ draft'.issues[f] = IF TakenFile(f)'
                                    THEN Result(Entry(f[2])').issues ELSE <<>>
  <2>1. File(k) \in Files /\ File(k)[1] = ingest.date /\ File(k)[2] = k
          /\ File(k)[3] = Target
    BY <1>1, <1>5 DEF File, Files, Ingests
  <2>2. f = File(k) <=> f[1] = ingest.date /\ f[3] = Target /\ f[2] = k
    BY <2>1 DEF Files, File
  <2>3. TakenFile(f)' <=> TakenFile(f) \/ f = File(k)
    BY <1>4, <1>6, <1>7, <2>2 DEF TakenFile
  <2>4. CASE f = File(k)
    <3>1. ~TakenFile(f)
      BY <1>6, <2>1, <2>4 DEF TakenFile
    <3>2. draft'.noted[f] = <<>> /\ draft'.issues[f] = <<>> \o result.issues
      BY ZenonT(60), <1>2, <1>8, <1>9, <2>4, <3>1 DEF Drafted, Warnings
    <3>3. <<>> \o result.issues = result.issues
      BY <1>10
    <3> QED
      BY <1>7, <2>1, <2>3, <2>4, <3>2, <3>3 DEF Entry
  <2>5. CASE f # File(k)
    <3>1. draft'.noted[f] = draft.noted[f] /\ draft'.issues[f] = draft.issues[f]
      BY <1>8, <1>9, <2>5 DEF Warnings
    <3> QED
      BY <1>2, <1>3, <1>7, <2>3, <2>5, <3>1 DEF Drafted
  <2> QED
    BY <2>4, <2>5
<1>14. Len(ingest'.left) <= Len(ingest'.kinds)
  BY <1>2, <1>4, <1>5, <1>6 DEF Drafted
<1>15. Drafted'
  BY <1>6, <1>11, <1>12, <1>13, <1>14 DEF Drafted
<1>16. Counted'
  <2>1. \A s, kind : Reflected(s, kind)' <=> Reflected(s, kind)
    BY <1>3, <1>4 DEF Reflected
  <2> QED
    BY <1>2, <1>4, <2>1 DEF Counted
<1>17. Fresh' /\ NoRepeats'
  BY ZenonT(60), <1>2, <1>3, <1>4 DEF StoreInv, Fresh, Known, NoRepeats
<1> QED
  BY <1>4, <1>15, <1>16, <1>17 DEF StoreInv

(* What a commit makes of the tables: the files selected, and all that is   *)
(* derived from them, of one station.                                      *)
Selected == {ingest.kinds[j] : j \in DOMAIN ingest.kinds}

Landed ==
    /\ Target \in Stations /\ ingest.date \in Snapshots /\ Selected \subseteq Kinds
    /\ \A s \in Stations : s # Target =>
          /\ tables'[s] = tables[s]
          /\ station'[s].years = station[s].years
          /\ station'[s].score = station[s].score
    /\ tables'[Target] =
          [k \in Kinds |->
              IF k \in Selected
              THEN Upserted(tables[Target][k], Result(Entry(k)).rows)
              ELSE tables[Target][k]]
    /\ station'[Target].years = YearsOf(tables'[Target])
    /\ station'[Target].score = ScoreOf(tables'[Target])
    /\ noted' = [f \in Files |->
                    IF f[1] = ingest.date /\ f[3] = Target /\ f[2] \in Selected
                    THEN Result(Entry(f[2])).issues ELSE noted[f]]

(* What a commit makes visible is what the files of the station amount to. *)
LEMMA CommitLands ==
    ASSUME TypeInv, StoreInv, StationCommits
    PROVE  Landed
<1> USE DEF TypeInv
<1>1. /\ ingest \in Ingests /\ draft \in Drafts /\ Target \in Stations
      /\ ingest.at = "file" /\ lock = "ingest"
  <2>1. ingest.at = "file"
    BY DEF StationCommits
  <2> QED
    BY <2>1, IngestPlace DEF Idle
<1>2. Drafted /\ Fresh
  BY <1>1 DEF StoreInv
<1>3. /\ station \in [Stations -> Rows] /\ draft.station \in [Stations -> Rows]
      /\ draft.tables \in [Kinds -> Table] /\ draft.noted \in Warnings
      /\ draft.issues \in Warnings /\ tables \in [Stations -> [Kinds -> Table]]
      /\ ingest.kinds \in Seq(Kinds) /\ ingest.date \in Snapshots
  BY <1>1 DEF Drafts, IngestType, DatabaseType, Ingests
<1>4. /\ station' = [draft.station EXCEPT ![Target] = Derived]
      /\ tables' = [tables EXCEPT ![Target] = draft.tables]
      /\ noted' = [f \in Files |-> Noted(f)]
  BY DEF StationCommits
<1>5. Selected = Taken /\ Selected \subseteq Kinds
  <2>1. ingest.left = <<>>
    BY DEF StationCommits
  <2>2. Len(ingest.kinds) - Len(ingest.left) = Len(ingest.kinds)
    BY <1>3, <2>1
  <2>3. DOMAIN ingest.kinds = 1 .. Len(ingest.kinds)
    BY <1>3
  <2>4. Selected \subseteq Kinds
    BY <1>3 DEF Selected
  <2> QED
    BY <2>2, <2>3, <2>4 DEF Selected, Taken
<1>6. tables'[Target] = draft.tables
  BY <1>1, <1>3, <1>4
<1>7. draft.tables = [k \in Kinds |->
              IF k \in Selected
              THEN Upserted(tables[Target][k], Result(Entry(k)).rows)
              ELSE tables[Target][k]]
  BY <1>2, <1>3, <1>5 DEF Drafted
<1>8. station'[Target] = Derived /\ draft.station[Target] \in Rows
  BY <1>1, <1>3, <1>4
<1>9. /\ Derived.years = YearsOf(draft.tables)
      /\ Derived.score = IF LoadsNormals THEN ScoreOf(draft.tables)
                         ELSE draft.station[Target].score
  BY <1>8 DEF Derived, Rows
<1>10. Derived.score = ScoreOf(draft.tables)
  <2>1. CASE LoadsNormals
    BY <1>9, <2>1
  <2>2. CASE ~LoadsNormals
    <3>1. \A k \in NormalsKinds : k \notin Selected /\ k \in Kinds
      BY <2>2, KindsAssumption DEF LoadsNormals, Selected
    <3>2. \A k \in NormalsKinds : draft.tables[k] = tables[Target][k]
      BY <1>7, <3>1
    <3>3. ScoreOf(draft.tables) = ScoreOf(tables[Target])
      BY <3>2 DEF ScoreOf
    <3>4. draft.station[Target].score = ScoreOf(tables[Target])
      <4>1. Known(Target)
        BY <1>1, <1>3, EmptyTypes DEF Known
      <4> QED
        BY <1>1, <1>2, <4>1 DEF Drafted, Fresh
    <3> QED
      BY <1>9, <2>2, <3>3, <3>4
  <2> QED
    BY <2>1, <2>2
<1>11. ASSUME NEW s \in Stations, s # Target
       PROVE  /\ tables'[s] = tables[s]
              /\ station'[s].years = station[s].years
              /\ station'[s].score = station[s].score
  BY <1>2, <1>3, <1>4, <1>11 DEF Drafted
<1>12. ASSUME NEW f \in Files
       PROVE  Noted(f) =
                  IF f[1] = ingest.date /\ f[3] = Target /\ f[2] \in Selected
                  THEN Result(Entry(f[2])).issues ELSE noted[f]
  <2>1. /\ draft.noted[f] \in Seq(Issues) /\ draft.issues[f] \in Seq(Issues)
        /\ Noted(f) = draft.noted[f] \o draft.issues[f]
    BY <1>3 DEF Warnings, Noted
  <2>2. CASE TakenFile(f)
    <3>1. draft.noted[f] = <<>> /\ draft.issues[f] = Result(Entry(f[2])).issues
      BY <1>2, <2>2 DEF Drafted
    <3>2. Noted(f) = draft.issues[f]
      BY <2>1, <3>1
    <3> QED
      BY <1>5, <2>2, <3>1, <3>2 DEF TakenFile
  <2>3. CASE ~TakenFile(f)
    <3>1. draft.noted[f] = noted[f] /\ draft.issues[f] = <<>>
      BY <1>2, <2>3 DEF Drafted
    <3>2. Noted(f) = draft.noted[f]
      BY <2>1, <3>1
    <3> QED
      BY <1>5, <2>3, <3>1, <3>2 DEF TakenFile
  <2> QED
    BY <2>2, <2>3
<1>13. noted' = [f \in Files |->
                    IF f[1] = ingest.date /\ f[3] = Target /\ f[2] \in Selected
                    THEN Result(Entry(f[2])).issues ELSE noted[f]]
  BY <1>4, <1>12
<1> QED
  BY <1>1, <1>3, <1>5, <1>6, <1>7, <1>8, <1>9, <1>10, <1>11, <1>13 DEF Landed

(* A file just taken is reflected, and one reflected stays so.             *)
LEMMA CommitReflects ==
    ASSUME TypeInv, StoreInv, StationCommits,
           ingest'.date = ingest.date
    PROVE  \A s \in Stations, k \in Selected :
               s = Target \/ Reflected(s, k) => Reflected(s, k)'
<1> USE DEF TypeInv
<1>1. Landed
  BY CommitLands
<1>2. tables \in [Stations -> [Kinds -> Table]]
  BY DEF DatabaseType
<1>3. \A k \in Selected : Entry(k) \in Recorded /\ k \in Kinds
  <2>1. Target \in Stations /\ ingest.date \in Snapshots /\ Selected \subseteq Kinds
    BY <1>1 DEF Landed
  <2>2. Manifest \in [Snapshots -> [Stations -> [Kinds -> Recorded]]]
    BY ManifestAssumption
  <2> QED
    BY <2>1, <2>2 DEF Entry
<1>4. ASSUME NEW k \in Selected,
             Entry(k).outcome = "fetched", Entry(k).body.parsed
      PROVE  Upserted(tables'[Target][k], Entry(k).body.rows) = tables'[Target][k]
  <2>1. Result(Entry(k)).rows = Entry(k).body.rows
    BY <1>4 DEF Result, Opened
  <2>2. Entry(k).body.rows \in Table
    BY <1>3, <2>1, ResultTypes
  <2>3. tables'[Target][k] = Upserted(tables[Target][k], Entry(k).body.rows)
    BY <1>1, <1>3, <2>1 DEF Landed
  <2>4. tables[Target][k] \in Table
    BY <1>1, <1>2, <1>3 DEF Landed
  <2> QED
    BY <2>2, <2>3, <2>4, UpsertedTable
<1>5. ASSUME NEW s \in Stations, s # Target PROVE tables'[s] = tables[s]
  BY <1>1, <1>5 DEF Landed
<1>6. ASSUME NEW k \in Selected, NEW s, s = Target
      PROVE  Reflected(s, k)'
  BY <1>4, <1>6 DEF Reflected, Entry
<1>7. ASSUME NEW s \in Stations, NEW k \in Selected, s # Target, Reflected(s, k)
      PROVE  Reflected(s, k)'
  BY <1>5, <1>7 DEF Reflected
<1> HIDE DEF Reflected
<1> QED
  BY <1>6, <1>7

(* A commit leaves the derived columns fresh and one more target counted.  *)
LEMMA CommitKeeps ==
    ASSUME TypeInv, TypeInv', StoreInv, StationCommits
    PROVE  StoreInv'
<1> USE DEF TypeInv
<1>1. Landed /\ NoRepeats /\ Fresh /\ Counted /\ ingest \in Ingests
      /\ Target \in Stations
  <2>1. ingest.at = "file"
    BY DEF StationCommits
  <2> QED
    BY <2>1, IngestPlace, CommitLands DEF StoreInv, Idle
<1>2. /\ ingest'.kinds = ingest.kinds /\ ingest'.targets = ingest.targets
      /\ ingest'.next = ingest.next + 1 /\ ingest'.date = ingest.date
      /\ ingest'.report.attempted = ingest.report.attempted
      /\ ingest'.report.succeeded = ingest.report.succeeded + 1
      /\ ingest'.report.failed = ingest.report.failed
      /\ ingest'.at = "loop"
  <2>1. ingest.report \in Reports
    BY <1>1 DEF Ingests
  <2>2. ingest' = [ingest EXCEPT !.at = "loop", !.next = @ + 1,
                       !.report = [ingest.report EXCEPT !.succeeded = @ + 1]]
    BY <1>1 DEF StationCommits, Ingests
  <2>3. [ingest.report EXCEPT !.succeeded = @ + 1].succeeded
            = ingest.report.succeeded + 1
    BY <2>1 DEF Reports
  <2>4. /\ [ingest.report EXCEPT !.succeeded = @ + 1].attempted
               = ingest.report.attempted
        /\ [ingest.report EXCEPT !.succeeded = @ + 1].failed = ingest.report.failed
    BY <2>1 DEF Reports
  <2> QED
    BY <1>1, <2>2, <2>3, <2>4 DEF Ingests
<1>3. /\ ingest.report.attempted \in Nat /\ ingest.report.succeeded \in Nat
      /\ ingest.report.failed \in Nat /\ ingest.next \in Nat \ {0}
      /\ ingest.targets \in Seq(Stations) /\ Len(ingest.targets) \in Nat
      /\ ingest.kinds \in Seq(Kinds)
  BY <1>1 DEF Ingests, Reports
<1>4. ingest.next <= Len(ingest.targets)
  BY <1>3 DEF StationCommits, IngestType, Finished
<1>5. Fresh'
  <2> SUFFICES ASSUME NEW s \in Stations, Known(s)'
               PROVE  /\ station'[s].years = YearsOf(tables'[s])
                      /\ station'[s].score = ScoreOf(tables'[s])
    BY DEF Fresh
  <2>1. CASE s = Target
    BY <1>1, <2>1 DEF Landed
  <2>2. CASE s # Target
    <3>1. Known(s)
      BY EmptyTypes DEF StationCommits, IngestType, Known
    <3> QED
      BY <1>1, <2>2, <3>1 DEF Landed, Fresh
  <2> QED
    BY <2>1, <2>2
<1>6. NoRepeats'
  BY <1>1, <1>2 DEF NoRepeats
<1>7. ASSUME ingest'.report.failed = 0, NEW t \in 1 .. ingest'.next - 1,
             NEW k \in DOMAIN ingest'.kinds
      PROVE  Reflected(ingest.targets[t], ingest.kinds[k])'
  <2>1. ingest.kinds[k] \in Selected
    BY <1>2, <1>7 DEF Selected
  <2>2. t \in 1 .. ingest.next /\ ingest.targets[t] \in Stations
    BY <1>2, <1>3, <1>4, <1>7
  <2>3. t = ingest.next => ingest.targets[t] = Target
    BY DEF Target
  <2>4. t # ingest.next => Reflected(ingest.targets[t], ingest.kinds[k])
    <3>1. t # ingest.next => t \in 1 .. ingest.next - 1
      BY <1>3, <2>2
    <3> QED
      BY <1>1, <1>2, <1>7, <3>1 DEF Counted
  <2>5. PICK s \in Stations, kind \in Selected :
            /\ s = ingest.targets[t] /\ kind = ingest.kinds[k]
            /\ s = Target \/ Reflected(s, kind)
    BY <2>1, <2>2, <2>3, <2>4
  <2>6. Reflected(s, kind)'
    BY <1>2, <2>5, CommitReflects
  <2>7. s = ingest'.targets[t] /\ kind = ingest'.kinds[k]
    BY <1>2, <2>5
  <2> QED
    BY <2>6, <2>7 DEF Reflected
<1>8. Counted'
  <2>1. /\ ingest.report.attempted = Len(ingest.targets)
        /\ ingest.report.succeeded + ingest.report.failed = ingest.next - 1
    BY <1>1 DEF Counted
  <2>2. /\ ingest'.report.attempted = Len(ingest'.targets)
        /\ ingest'.next <= Len(ingest'.targets) + 1
        /\ ingest'.report.succeeded + ingest'.report.failed = ingest'.next - 1
    <3> DEFINE a == ingest.report.succeeded
               b == ingest.report.failed
               c == ingest.next
               n == Len(ingest.targets)
    <3>1. /\ a \in Nat /\ b \in Nat /\ c \in Nat /\ n \in Nat
          /\ a + b = c - 1 /\ c <= n
      BY <1>3, <1>4, <2>1
    <3> HIDE DEF a, b, c, n
    <3>2. (a + 1) + b = (c + 1) - 1 /\ c + 1 <= n + 1
      BY <3>1
    <3> QED
      BY <1>2, <2>1, <3>2, Zenon DEF a, b, c, n
  <2> QED
    BY <1>7, <2>2 DEF Counted
<1> QED
  BY <1>2, <1>5, <1>6, <1>8 DEF StoreInv

(* The other steps of an ingest: the seed keeps what is derived, a station   *)
(* that fails is counted, and a transaction that begins has taken nothing. *)
LEMMA OthersKeep ==
    ASSUME TypeInv, TypeInv', ReferenceInv, StoreInv, IngestActs,
           ~FileTaken, ~StationCommits
    PROVE  StoreInv'
<1> USE DEF TypeInv
<1>1. UNCHANGED tables /\ (UNCHANGED observed \/ Seed)
  BY DEF IngestActs, IngestStep, IngestFault, Seed, IngestLeaves, OpenIngestRun,
     StationBegins, CloseIngestRun, IngestStart, StationFails, CloseIngestFails,
     IngestCancelled, IngestKilled, database, observed
<1>2. Fresh'
  <2>1. CASE UNCHANGED observed
    BY <2>1 DEF StoreInv, Fresh, Known, observed
  <2>2. CASE Seed
    <3> SUFFICES ASSUME NEW s \in Stations
                 PROVE  /\ station'[s].years = YearsOf(tables'[s])
                        /\ station'[s].score = ScoreOf(tables'[s])
      BY DEF Fresh
    <3>1. station'[s] = UpsertStation(station[s], NoPlace) /\ tables' = tables
      BY <1>1, <2>2 DEF Seed, SeededTable
    <3>2. station[s] \in Rows \cup {NoStation}
      BY DEF DatabaseType, StationTables
    <3>3. CASE Known(s)
      BY <3>1, <3>2, <3>3, UpsertedStation DEF StoreInv, Fresh, Known
    <3>4. CASE ~Known(s)
      <4>1. station'[s].years = NoYears /\ station'[s].score = NoScore
        BY <3>1, <3>2, <3>4, UpsertedStation DEF Known
      <4>2. \A k \in Kinds : tables[s][k] = Bare
        BY <3>4 DEF ReferenceInv, StationRefs
      <4>3. YearsOf(tables[s]) = NoYears /\ ScoreOf(tables[s]) = NoScore
        BY <4>2, NothingDerived
      <4> QED
        BY <3>1, <4>1, <4>3
    <3> QED
      BY <3>3, <3>4
  <2> QED
    BY <1>1, <2>1, <2>2
<1>3. ASSUME ingest' = Idle PROVE StoreInv'
  BY <1>2, <1>3 DEF StoreInv, Idle
<1>4. CASE IngestLeaves \/ CloseIngestRun \/ CloseIngestFails \/ IngestKilled
  BY <1>3, <1>4 DEF IngestLeaves, CloseIngestRun, CloseIngestFails, IngestKilled
<1>5. ASSUME NEW request \in Requests, IngestStart(request) PROVE StoreInv'
  <2>1. /\ ingest'.kinds = request.kinds /\ ingest'.at = "seed"
    BY <1>5 DEF IngestStart
  <2>2. NoRepeats'
    BY <2>1, ManifestAssumption DEF NoRepeats
  <2> QED
    <3>1. ingest'.next = 1 /\ ingest'.report = NoReport
      BY <1>5 DEF IngestStart
    <3> QED
      BY <1>2, <2>1, <2>2, <3>1 DEF StoreInv
<1>6. ASSUME NEW s, NEW k, ingest'.date = ingest.date
      PROVE  Reflected(s, k)' <=> Reflected(s, k)
  BY <1>1, <1>6 DEF Reflected
<1>7. CASE Seed
  <2>1. ingest \in Ingests /\ ingest # Idle
    BY <1>7, IngestPlace DEF Seed, Idle
  <2>2. ingest'.kinds = ingest.kinds /\ ingest'.at = "open" /\ ingest.at = "seed"
          /\ ingest'.next = ingest.next /\ ingest'.report = ingest.report
    BY <1>7, <2>1 DEF Seed, Ingests
  <2> QED
    BY <1>2, <2>1, <2>2 DEF StoreInv, NoRepeats
<1>8. CASE OpenIngestRun
  <2>1. ingest \in Ingests /\ ingest # Idle
    BY <1>8, IngestPlace DEF OpenIngestRun, Idle
  <2>2. ingest'.kinds = ingest.kinds /\ ingest'.at = "loop"
          /\ ingest'.next = ingest.next /\ ingest'.targets = ingest.targets
          /\ ingest'.report = [ingest.report EXCEPT
                                   !.attempted = Len(ingest.targets)]
    BY <1>8, <2>1 DEF OpenIngestRun, Ingests
  <2>3. ingest.next = 1 /\ ingest.report = NoReport
    BY <1>8, <2>1 DEF OpenIngestRun, StoreInv
  <2>4. /\ ingest'.report.attempted = Len(ingest.targets)
        /\ ingest'.report.succeeded = 0 /\ ingest'.report.failed = 0
    BY <2>2, <2>3 DEF NoReport
  <2>5. Counted'
    BY <2>1, <2>2, <2>3, <2>4 DEF Counted, Ingests
  <2> QED
    BY <1>2, <2>1, <2>2, <2>5 DEF StoreInv, NoRepeats
<1>9. CASE StationBegins
  <2>1. ingest \in Ingests /\ ingest # Idle /\ Counted /\ NoRepeats
          /\ Target \in Stations
    <3>1. ingest.at = "loop" /\ ~Finished
      BY <1>9 DEF StationBegins
    <3>2. ingest \in Ingests /\ ingest # Idle
      BY <3>1, IngestPlace DEF Idle
    <3> QED
      BY <3>1, <3>2 DEF StoreInv, Ingests, Target, Finished
  <2>2. /\ ingest'.kinds = ingest.kinds /\ ingest'.at = "file"
        /\ ingest'.next = ingest.next /\ ingest'.targets = ingest.targets
        /\ ingest'.date = ingest.date /\ ingest'.report = ingest.report
        /\ ingest'.left = ingest.kinds
    BY <1>9, <2>1 DEF StationBegins, Ingests
  <2>3. Counted'
    BY <1>6, <2>1, <2>2 DEF Counted
  <2>4. ingest.kinds \in Seq(Kinds) /\ Len(ingest.kinds) \in Nat
    BY <2>1 DEF Ingests
  <2>5. Taken' = {}
    BY <2>2, <2>4 DEF Taken
  <2>6. draft' = [open |-> TRUE, station |-> station, tables |-> tables[Target],
                  noted |-> noted, issues |-> [f \in Files |-> <<>>]]
          /\ UNCHANGED <<station, tables, noted>>
    BY <1>9 DEF StationBegins, observed
  <2>7. Target' = Target
    BY <2>2 DEF Target
  <2>8. \A i \in DOMAIN ingest'.left : ingest'.left[i] =
            ingest'.kinds[Len(ingest'.kinds) - Len(ingest'.left) + i]
    BY <2>2, <2>4
  <2>9. Drafted'
    BY <2>2, <2>4, <2>5, <2>6, <2>7, <2>8 DEF Drafted, TakenFile
  <2> QED
    BY <1>2, <2>1, <2>2, <2>3, <2>9 DEF StoreInv, NoRepeats
<1>10. CASE StationFails
  <2>1. ingest \in Ingests /\ ingest # Idle /\ Counted /\ NoRepeats
          /\ ingest.next <= Len(ingest.targets)
    <3>1. ingest.at \in {"loop", "file"} /\ ~Finished
      BY <1>10 DEF StationFails, IngestType
    <3>2. ingest \in Ingests /\ ingest # Idle
      BY <3>1, IngestPlace DEF Idle
    <3> QED
      BY <3>1, <3>2 DEF StoreInv, Ingests, Finished
  <2>2. /\ ingest.report.attempted \in Nat /\ ingest.report.succeeded \in Nat
        /\ ingest.report.failed \in Nat /\ ingest.next \in Nat \ {0}
        /\ Len(ingest.targets) \in Nat
    BY <2>1 DEF Ingests, Reports
  <2>3. /\ ingest'.kinds = ingest.kinds /\ ingest'.at = "loop"
        /\ ingest'.next = ingest.next + 1 /\ ingest'.targets = ingest.targets
        /\ ingest'.report = [ingest.report EXCEPT !.failed = @ + 1]
    BY <1>10, <2>1 DEF StationFails, Ingests
  <2>4. /\ ingest'.report.attempted = ingest.report.attempted
        /\ ingest'.report.succeeded = ingest.report.succeeded
        /\ ingest'.report.failed = ingest.report.failed + 1
    BY <2>1, <2>3 DEF Ingests, Reports
  <2>5. ingest'.report.failed # 0
    BY <2>2, <2>4
  <2>6. /\ ingest.report.attempted = Len(ingest.targets)
        /\ ingest.report.succeeded + ingest.report.failed = ingest.next - 1
    BY <2>1 DEF Counted
  <2>7. /\ ingest'.report.attempted = Len(ingest'.targets)
        /\ ingest'.next <= Len(ingest'.targets) + 1
        /\ ingest'.report.succeeded + ingest'.report.failed = ingest'.next - 1
    <3>1. \A a, b \in Nat, c \in Nat : a + b = c - 1 => a + (b + 1) = (c + 1) - 1
      OBVIOUS
    <3>2. \A c, l \in Nat : c <= l => c + 1 <= l + 1
      OBVIOUS
    <3> QED
      BY SMTT(30), <2>1, <2>2, <2>3, <2>4, <2>6, <3>1, <3>2
  <2>8. Counted'
    BY <2>5, <2>7 DEF Counted
  <2> QED
    BY <1>2, <2>1, <2>3, <2>8 DEF StoreInv, NoRepeats
<1>11. CASE IngestCancelled
  <2>1. ingest \in Ingests /\ ingest # Idle
    BY <1>11, IngestPlace DEF IngestCancelled
  <2>2. /\ ingest'.kinds = ingest.kinds /\ ingest'.at = ingest.at
        /\ ingest'.next = ingest.next /\ ingest'.targets = ingest.targets
        /\ ingest'.date = ingest.date /\ ingest'.report = ingest.report
        /\ ingest'.left = ingest.left
        /\ UNCHANGED <<draft, station, tables, noted>>
    BY <1>11, <2>1 DEF IngestCancelled, Ingests, database, observed
  <2>3. Taken' = Taken /\ Target' = Target /\ \A k : Entry(k)' = Entry(k)
    BY <2>2 DEF Taken, Target, Entry
  <2>4. Drafted => Drafted'
    BY <2>2, <2>3 DEF Drafted, TakenFile
  <2>5. Counted => Counted'
    BY <1>6, <2>2 DEF Counted
  <2> QED
    BY <1>2, <2>1, <2>2, <2>4, <2>5 DEF StoreInv, NoRepeats
<1> QED
  BY <1>4, <1>5, <1>7, <1>8, <1>9, <1>10, <1>11
  DEF IngestActs, IngestStep, IngestFault

(* No step of any verb disturbs what an ingest has drafted, counted or     *)
(* derived.                                                                *)
LEMMA StoreStep ==
    TypeInv /\ TypeInv' /\ ReferenceInv /\ StoreInv /\ [Next]_vars => StoreInv'
<1> SUFFICES ASSUME TypeInv, TypeInv', ReferenceInv, StoreInv, [Next]_vars
             PROVE  StoreInv'
  OBVIOUS
<1>1. ASSUME UNCHANGED <<observed, ingestVars>> PROVE StoreInv'
  <2>1. UNCHANGED <<station, tables, noted, ingest, draft>>
    BY <1>1 DEF observed, ingestVars
  <2>2. Fresh' /\ (NoRepeats => NoRepeats')
    BY <2>1 DEF StoreInv, Fresh, Known, NoRepeats
  <2>3. Taken' = Taken /\ Target' = Target /\ \A k : Entry(k)' = Entry(k)
    BY <2>1 DEF Taken, Target, Entry
  <2>4. Drafted => Drafted'
    BY <2>1, <2>3 DEF Drafted, TakenFile
  <2>5. \A s, k : Reflected(s, k)' <=> Reflected(s, k)
    BY <2>1 DEF Reflected
  <2>6. Counted => Counted'
    BY <2>1, <2>5 DEF Counted
  <2> QED
    BY <2>1, <2>2, <2>4, <2>6 DEF StoreInv
<1>2. CASE PowerActs
  BY <1>1, <1>2, PowerFrame
<1>3. CASE ValidateActs
  BY <1>1, <1>3, ValidateFrame
<1>4. CASE GateActs
  BY <1>1, <1>4, GateFrame DEF database
<1>5. CASE DayPasses
  BY <1>1, <1>5 DEF DayPasses
<1>6. CASE UNCHANGED vars
  BY <1>1, <1>6 DEF vars, database
<1> QED
  BY <1>2, <1>3, <1>4, <1>5, <1>6, TakenDrafted, CommitKeeps, OthersKeep DEF Next

(* An empty database derives nothing.                                      *)
LEMMA InitStore == Init => StoreInv
  BY DEF Init, Init0, IngestInit, StoreInv, Fresh, Known, Idle

(* Together: every reachable state has the types, the references and the     *)
(* derived columns.                                                        *)
LEMMA Reached == Spec => [](TypeInv /\ ReferenceInv /\ StoreInv)
  BY InitTypes, TypeStep, InitReferences, ReferenceStep, InitStore, StoreStep, PTL
  DEF Spec

-----------------------------------------------------------------------------
(* A row of the runs is completed by the run's own process, and no other.   *)
LEMMA CompletedBy ==
    ASSUME TypeInv, FoundOld, Next, NEW i \in IngestIds,
           ingestRuns'[i].status = "complete", ingestRuns[i].status # "complete"
    PROVE  CloseIngestRun /\ ingest.run = i
<1> USE DEF TypeInv
<1>1. ~ValidateActs
  <2>1. Reconcile => ingestRuns'[i].status \in {ingestRuns[i].status, "aborted"}
    <3>1. /\ Ledger("ingest") = ingestRuns /\ Ledger("ingest")' = ingestRuns'
          /\ i \in DOMAIN ingestRuns
      BY DEF Ledger, DatabaseType, IngestIds
    <3> QED
      BY <3>1, ReconcileLedger
  <2>2. ValidateActs => Reconcile \/ UNCHANGED ingestRuns
    BY DEF ValidateActs, ValidateStep, ValidateStops, ValidateStart, Clear,
       ScanOrphans, NextTable, ReadRule, WriteBatch, database
  <2> QED
    BY <2>1, <2>2
<1>2. ~PowerActs
  BY PowerFrame
<1>3. ~GateActs
  BY GateFrame DEF database
<1>4. ~DayPasses
  BY DayLedger
<1> QED
  BY <1>1, <1>2, <1>3, <1>4, IngestLedger DEF Next

(* A complete run tried every target, and with none failed the rows of every *)
(* file it selected are those the tables hold, whatever failed before it.  *)
THEOREM CompleteReflects == Spec => CompleteMeans
<1> DEFINE Completed ==
      \A i \in 1 .. Len(ingestRuns') :
         /\ ingestRuns'[i].status = "complete"
         /\ i \in IngestIds
         /\ ingestRuns[i].status # "complete"
         => LET report == ingestRuns'[i].report IN
            /\ ingest # Idle /\ ingest.run = i
            /\ report.attempted = Len(ingest.targets)
            /\ report.succeeded + report.failed = report.attempted
            /\ report.failed = 0 =>
                 \A t \in DOMAIN ingest.targets, k \in DOMAIN ingest.kinds :
                     Reflected(ingest.targets[t], ingest.kinds[k])
<1>1. TypeInv /\ FoundOld /\ StoreInv /\ [Next]_vars => [Completed]_vars
  <2> SUFFICES ASSUME TypeInv, FoundOld, StoreInv, Next, NEW i \in IngestIds,
                      ingestRuns'[i].status = "complete",
                      ingestRuns[i].status # "complete"
               PROVE  LET report == ingestRuns'[i].report IN
                      /\ ingest # Idle /\ ingest.run = i
                      /\ report.attempted = Len(ingest.targets)
                      /\ report.succeeded + report.failed = report.attempted
                      /\ report.failed = 0 =>
                           \A t \in DOMAIN ingest.targets, k \in DOMAIN ingest.kinds :
                               Reflected(ingest.targets[t], ingest.kinds[k])
    OBVIOUS
  <2> USE DEF TypeInv
  <2>1. CloseIngestRun /\ ingest.run = i
    BY CompletedBy
  <2>2. ingest.at = "loop" /\ ingest \in Ingests /\ ingest # Idle
    BY <2>1, IngestPlace DEF CloseIngestRun, Idle
  <2>3. ingestRuns[i] \in RunRows(Snapshots)
    BY DEF DatabaseType, IngestIds
  <2>4. ingestRuns'[i] = Closed(ingestRuns[i], IngestVerdict, ingest.report)
    BY <2>1 DEF CloseIngestRun, DatabaseType, IngestIds
  <2>5. ingestRuns'[i].report = ingest.report /\ ingestRuns'[i].status = IngestVerdict
    BY <2>3, <2>4, ClosedRow
  <2>6. ingest.next > Len(ingest.targets)
    BY <2>5 DEF IngestVerdict, Finished
  <2>7. Counted
    BY <2>2 DEF StoreInv
  <2>8. ingest.next - 1 = Len(ingest.targets)
          /\ DOMAIN ingest.targets = 1 .. Len(ingest.targets)
    BY <2>2, <2>6, <2>7 DEF Counted, Ingests
  <2> HIDE DEF Reflected
  <2> QED
    BY <2>1, <2>2, <2>5, <2>7, <2>8 DEF Counted
<1>2. TypeInv /\ TypeInv' /\ (OwnRuns /\ FoundOld) /\ [Next]_vars =>
          (OwnRuns /\ FoundOld)'
  BY OwnRunsStep, FoundOldStep
<1> HIDE DEF Completed
<1>3. Spec => [][Completed]_vars
  BY <1>1, <1>2, Reached, InitTypes, TypeStep, InitRuns, PTL DEF Spec
<1> QED
  BY <1>3 DEF CompleteMeans, Completed

-----------------------------------------------------------------------------
(* The store's operators are the ingest's.                                 *)
LEMMA StoreOperators ==
    /\ \A file : Store!Result(file) = Result(file)
    /\ \A stored, rows : Store!Upserted(stored, rows) = Upserted(stored, rows)
    /\ \A rows : /\ Store!YearsOf(rows) = YearsOf(rows)
                 /\ Store!ScoreOf(rows) = ScoreOf(rows)
    /\ Store!NoTables = NoTables /\ Store!NoYears = NoYears /\ Store!NoScore = NoScore
    /\ Store!Files = Files
    /\ Store!NormalsKinds = NormalsKinds /\ Store!Bare = Bare
<1>1. \A file : Store!Result(file) = Result(file)
  BY DEF Store!Result, Result, Store!Nothing, Nothing, Store!Opened, Opened,
     Store!Bare, Bare, Store!Parsed, Parsed
<1>2. \A stored, rows : Store!Upserted(stored, rows) = Upserted(stored, rows)
  BY DEF Store!Upserted, Upserted
<1>3. \A rows : Store!YearsOf(rows) = YearsOf(rows)
  BY DEF Store!YearsOf, YearsOf, Store!Held, Held, Store!Ends, Ends, Store!Daily, Daily,
     Store!NormalsKinds, NormalsKinds
<1>4. \A rows : Store!ScoreOf(rows) = ScoreOf(rows)
  BY DEF Store!ScoreOf, ScoreOf, Store!NormalsKinds, NormalsKinds
<1>5. Store!NoTables = NoTables /\ Store!NoYears = NoYears /\ Store!NoScore = NoScore
        /\ Store!Files = Files
        /\ Store!NormalsKinds = NormalsKinds /\ Store!Bare = Bare
  BY DEF Store!NoTables, NoTables, Store!NoYears, NoYears, Store!NoScore, NoScore,
     Store!Bare, Bare, Store!NormalsKinds, NormalsKinds, Store!Files, Files
<1> QED
  BY <1>1, <1>2, <1>3, <1>4, <1>5

YearsStored == [s \in Stations |-> IF Known(s) THEN station[s].years ELSE NoYears]
ScoreStored == [s \in Stations |-> IF Known(s) THEN station[s].score ELSE NoScore]

(* The commit of a station's transaction takes the files selected of it and  *)
(* scores every period by its rows; it is the only step of any process that *)
(* the store sees.                                                         *)
LEMMA CommitTakes ==
    ASSUME TypeInv, TypeInv', StoreInv, StationCommits
    PROVE  Store!Next
<1> USE DEF TypeInv
<1>1. Landed
  BY CommitLands
<1>2. /\ \A s \in Stations : Known(s) /\ Known(s)'
      /\ tables \in [Stations -> [Kinds -> Table]]
      /\ tables' \in [Stations -> [Kinds -> Table]]
  <2>1. ingest.at = "file" /\ ingest \in Ingests
    BY IngestPlace DEF StationCommits
  <2>2. ingest'.at = "loop"
    BY <2>1 DEF StationCommits, Ingests
  <2> QED
    BY <2>1, <2>2, EmptyTypes DEF IngestType, DatabaseType, Known
<1>3. tables' = [tables EXCEPT ![Target] =
                    [k \in Kinds |->
                        IF k \in Selected THEN Upserted(@[k], Result(Entry(k)).rows)
                                          ELSE @[k]]]
  BY <1>1, <1>2 DEF Landed
<1>4. YearsStored' = [YearsStored EXCEPT ![Target] = YearsOf(tables'[Target])]
  BY <1>1, <1>2 DEF Landed, YearsStored
<1>5. ScoreStored' = [ScoreStored EXCEPT ![Target] = ScoreOf(tables'[Target])]
  BY <1>1, <1>2 DEF Landed, ScoreStored
<1>6. PICK s \in Stations, date \in Snapshots, kinds \in SUBSET Kinds :
          s = Target /\ date = ingest.date /\ kinds = Selected
  BY <1>1 DEF Landed
<1> DEFINE Scored == [k \in Store!NormalsKinds |->
                         IF k \in {} THEN Store!Bare
                                     ELSE Store!ScoreOf(tables'[s])[k]]
<1>7. ScoreOf(tables'[Target]) = Scored
  BY <1>6, StoreOperators DEF ScoreOf
<1>8. ScoreStored' = [ScoreStored EXCEPT ![s] = Scored]
  BY <1>5, <1>6, <1>7
<1> HIDE DEF Scored
<1>9. tables' = [tables EXCEPT ![s] =
                    [k \in Kinds |->
                        IF k \in kinds
                        THEN Store!Upserted(@[k],
                                 Store!Result(Manifest[date][s][k]).rows)
                        ELSE @[k]]]
  BY <1>3, <1>6, StoreOperators DEF Entry
<1>10. YearsStored' = [YearsStored EXCEPT ![s] = Store!YearsOf(tables'[s])]
  BY <1>4, <1>6, StoreOperators
<1>11. noted' = [f \in Store!Files |->
                    IF f[1] = date /\ f[3] = s /\ f[2] \in kinds
                    THEN Store!Result(Manifest[date][s][f[2]]).issues
                    ELSE noted[f]]
  <2>1. noted' = [f \in Files |->
                     IF f[1] = ingest.date /\ f[3] = Target /\ f[2] \in Selected
                     THEN Result(Entry(f[2])).issues ELSE noted[f]]
    BY <1>1 DEF Landed
  <2> QED
    BY <1>6, <2>1, StoreOperators DEF Entry
<1>12. Store!Take(s, date, kinds, {})
  BY <1>6, <1>8, <1>9, <1>10, <1>11 DEF Store!Take, YearsStored, ScoreStored, Scored
<1> QED
  BY <1>12 DEF Store!Next

(* Seeding gives a new station what no rows amount to; nothing but a commit *)
(* touches the rest.                                                       *)
LEMMA OthersStutter ==
    ASSUME TypeInv, TypeInv', [Next]_vars, ~(IngestActs /\ StationCommits)
    PROVE  UNCHANGED Store!vars
<1> USE DEF TypeInv
<1>1. UNCHANGED <<tables, noted>> /\ (UNCHANGED station \/ Seed)
  <2>1. IngestActs => UNCHANGED observed \/ (Seed /\ UNCHANGED <<tables, noted>>)
    BY DEF IngestActs, IngestStep, IngestFault, Seed, IngestLeaves, OpenIngestRun,
       StationBegins, FileTaken, StationCommits, CloseIngestRun, IngestStart,
       StationFails, CloseIngestFails, IngestCancelled, IngestKilled, database, observed
  <2>2. ~IngestActs => UNCHANGED observed
    BY PowerFrame, ValidateFrame, GateFrame DEF Next, DayPasses, vars, database
  <2> QED
    BY <2>1, <2>2 DEF observed
<1>2. YearsStored' = YearsStored /\ ScoreStored' = ScoreStored
  <2>1. CASE UNCHANGED station
    BY <2>1 DEF YearsStored, ScoreStored, Known
  <2>2. CASE Seed
    <3> SUFFICES ASSUME NEW s \in Stations
                 PROVE  /\ Known(s)'
                        /\ station'[s].years = IF Known(s) THEN station[s].years
                                                           ELSE NoYears
                        /\ station'[s].score = IF Known(s) THEN station[s].score
                                                           ELSE NoScore
      BY DEF YearsStored, ScoreStored
    <3>1. station' = SeededTable /\ station[s] \in Rows \cup {NoStation}
      BY <2>2 DEF Seed, DatabaseType, StationTables
    <3>2. station'[s] = UpsertStation(station[s], NoPlace)
      BY <3>1 DEF SeededTable
    <3> QED
      BY <3>1, <3>2, UpsertedStation, EmptyTypes DEF Known
  <2> QED
    BY <1>1, <2>1, <2>2
<1> QED
  BY <1>1, <1>2 DEF Store!vars, YearsStored, ScoreStored

(* A step takes files whole or stutters in the promise.                    *)
LEMMA StoreRefined ==
    TypeInv /\ TypeInv' /\ StoreInv /\ [Next]_vars => [Store!Next]_(Store!vars)
  BY CommitTakes, OthersStutter

(* An empty database is an empty store.                                    *)
LEMMA StoreBegins == Init => Store!Init
  BY StoreOperators DEF Init, Init0, Store!Init, Known

(* The ingest, with its transactions, its failures and the verbs beside it, *)
(* does to the observed tables what StationStore says and nothing else.    *)
THEOREM StoreImplemented == Spec => ImplementsStore
  BY Reached, StoreBegins, StoreRefined, PTL DEF Spec, ImplementsStore, Store!Spec

(* At no moment do the years of a station lag behind its rows, and no score  *)
(* is that of other rows than those stored.                                 *)
THEOREM DerivedKept == Spec => []Store!DerivedFresh
<1>1. TypeInv /\ ReferenceInv /\ StoreInv => Store!DerivedFresh
  <2> SUFFICES ASSUME ReferenceInv, StoreInv, NEW s \in Stations
               PROVE  /\ YearsStored[s] = YearsOf(tables[s])
                      /\ ScoreStored[s] = ScoreOf(tables[s])
    BY StoreOperators DEF Store!DerivedFresh, YearsStored, ScoreStored
  <2>1. CASE Known(s)
    BY <2>1 DEF StoreInv, Fresh, YearsStored, ScoreStored
  <2>2. CASE ~Known(s)
    BY <2>2, NothingDerived DEF ReferenceInv, StationRefs, YearsStored, ScoreStored
  <2> QED
    BY <2>1, <2>2
<1> QED
  BY <1>1, Reached, PTL
=============================================================================
