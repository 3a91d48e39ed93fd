------------------------------ MODULE Database ------------------------------
(***************************************************************************)
(* The processing database the verbs share (internal/schema): its tables   *)
(* and SQLite's write lock.  A writer holds the lock from the first write  *)
(* of a transaction to its commit or rollback; a reader sees what is       *)
(* committed.  Foreign keys are off, so nothing but the verbs' own order   *)
(* keeps the references whole.                                             *)
(*                                                                         *)
(* The run tables are sequences, a row's id being its place in them.       *)
(***************************************************************************)
EXTENDS StationData

CONSTANTS Snapshots,   \* the dates of the raw snapshots
          CellOf,      \* CellFor: the POWER cell of each place
          Hours,       \* supplement keys within a cell: months or dates
          Spans        \* the spans power may be asked for

NoCell == 0
Cells  == {CellOf[p] : p \in Places}
Files  == Snapshots \X Kinds \X Stations

(* A span's run_label is its mode and its years, hours are its keys; most   *)
(* is --max-cells.                                                          *)
ASSUME PowerAssumption ==
    /\ CellOf \in [Places -> Nat \ {NoCell}]
    /\ IsFiniteSet(Places) /\ IsFiniteSet(Hours)
    /\ \A span \in Spans : span.hours \subseteq Hours /\ span.most \in Nat

VARIABLES station,     \* stations: NoStation or what is known of it
          tables,      \* tables[s][k]: daily_observations, monthly_normals
          noted,       \* parsing_warnings by source file, as ingest writes
          ingestRuns,  \* ingest_runs
          grid,        \* nasa_power_grid_cells
          link,        \* station_power_cell
          supplement,  \* monthly_, daily_supplement: each row's power_run_id
          powerRuns,   \* power_runs
          findings,    \* parsing_warnings under validate:
          lock         \* who is writing

observed == <<station, tables, noted>>
powered  == <<grid, link, supplement>>
database == <<observed, ingestRuns, powered, powerRuns, findings, lock>>

Verbs == {"ingest", "power", "validate"}

NoStation == [seeded |-> FALSE]
Seeded    == [seeded |-> TRUE, place |-> NoPlace, years |-> NoYears,
              score |-> NoScore]
Known(s)  == station[s] # NoStation

(* UpsertStation: a new row, or the stored one unless the file is better;   *)
(* NULL coordinates do not overwrite.                                       *)
UpsertStation(row, place) ==
    LET known == IF row = NoStation THEN Seeded ELSE row
    IN IF place = NoPlace THEN known ELSE [known EXCEPT !.place = place]

NoRun == 0
IngestIds == 1 .. Len(ingestRuns)
PowerIds  == 1 .. Len(powerRuns)

Free == lock = "free"

Init0 ==
    /\ station = [s \in Stations |-> NoStation]
    /\ tables = [s \in Stations |-> NoTables]
    /\ noted = [f \in Files |-> <<>>]
    /\ ingestRuns = <<>>
    /\ grid = {}
    /\ link = [s \in Stations |-> NoCell]
    /\ supplement = [c \in Cells |-> [h \in Hours |-> NoRun]]
    /\ powerRuns = <<>>
    /\ findings = {}
    /\ lock = "free"

(* A running row turns old when it is past the orphan threshold.            *)
NoReport == [attempted |-> 0, succeeded |-> 0, failed |-> 0, rows |-> 0]
Opening(about) == [status |-> "running", old |-> FALSE, about |-> about,
                   report |-> NoReport]
Closed(row, verdict, report) ==
    [row EXCEPT !.status = verdict, !.report = report]
Overdue(runs) == [i \in 1 .. Len(runs) |->
                    [runs[i] EXCEPT !.old = @ \/ runs[i].status = "running"]]

(* The runs a supplement row names, and those that share a run_label.       *)
Referenced == {supplement[c][h] : c \in Cells, h \in Hours} \ {NoRun}
Colliding  == {pair \in Referenced \X Referenced :
                  /\ pair[1] # pair[2]
                  /\ powerRuns[pair[1]].about = powerRuns[pair[2]].about}

(* The referential anchors of the gate, as the schema declares them.        *)
StationRefs ==
    \A s \in Stations :
        ~Known(s) => /\ \A k \in Kinds : tables[s][k] = Bare
                     /\ link[s] = NoCell
                     /\ \A d \in Snapshots, k \in Kinds :
                            noted[<<d, k, s>>] = <<>>
CellRefs ==
    /\ \A c \in Cells : (\E h \in Hours : supplement[c][h] # NoRun) => c \in grid
    /\ \A s \in Stations : link[s] # NoCell => link[s] \in grid
RunRefs == Referenced \subseteq PowerIds
=============================================================================
