----------------------------- MODULE Warehouse -----------------------------
(***************************************************************************)
(* The verbs over one database: an ingest, a power run, a validate and a   *)
(* publish's gate, each in a process of its own, at any step of each       *)
(* other, killed and run again.                                            *)
(***************************************************************************)
EXTENDS Ingest, Power, Validate

CONSTANT MaxEvents   \* bound: runs, mishaps and processes beside the first

ASSUME WarehouseAssumption == MaxEvents \in Nat

VARIABLE mishaps   \* failures, cancellations, kills and overlong days so far

vars == <<database, ingestVars, power, validate, gate, mishaps>>

AtWork == (IF ingest = Idle THEN 0 ELSE 1) + (IF power = Resting THEN 0 ELSE 1)
          + (IF validate = Off THEN 0 ELSE 1) + (IF gate = Off THEN 0 ELSE 1)

Crowd   == IF AtWork = 0 THEN 0 ELSE AtWork - 1
Events  == Len(ingestRuns) + Len(powerRuns) + mishaps + Crowd
Bounded == Events' <= MaxEvents

Init == Init0 /\ IngestInit /\ PowerInit /\ ValidateInit /\ mishaps = 0

(* A cancellation is one mishap, whatever it makes fail.                    *)
Mishap(process) ==
    mishaps' = IF process.ctx = "cancelled" THEN mishaps
               ELSE mishaps + 1

IngestActs ==
    /\ \/ IngestStep /\ UNCHANGED mishaps
       \/ IngestFault /\ Mishap(ingest)
    /\ gate' = Disturbed
    /\ UNCHANGED <<power, validate>>
    /\ Bounded

PowerActs ==
    /\ \/ PowerStep /\ UNCHANGED mishaps
       \/ PowerFault /\ Mishap(power)
    /\ gate' = Disturbed
    /\ UNCHANGED <<ingestVars, validate>>
    /\ Bounded

ValidateActs ==
    /\ \/ ValidateStep /\ UNCHANGED mishaps
       \/ ValidateStops /\ mishaps' = mishaps + 1
    /\ gate' = Disturbed
    /\ UNCHANGED <<ingestVars, power>>
    /\ Bounded

GateActs == /\ GateStep
            /\ UNCHANGED <<ingestVars, power, validate, mishaps>>
            /\ Bounded

(* Runs at work for longer than the threshold: nothing keeps a live one     *)
(* from becoming overdue.                                                   *)
DayPasses ==
    /\ ingestRuns' = Overdue(ingestRuns)
    /\ powerRuns' = Overdue(powerRuns)
    /\ ingestRuns' # ingestRuns \/ powerRuns' # powerRuns
    /\ UNCHANGED <<observed, powered, findings, lock, ingestVars, power,
                   validate, gate>>
    /\ mishaps' = mishaps + 1
    /\ Bounded

Next == IngestActs \/ PowerActs \/ ValidateActs \/ GateActs \/ DayPasses

Spec == Init /\ [][Next]_vars

-----------------------------------------------------------------------------
TypeOK ==
    /\ \A s \in Stations :
          station[s] = NoStation
            \/ station[s].place \in Places \cup {NoPlace}
    /\ tables \in [Stations -> [Kinds -> Table]]
    /\ noted \in [Files -> Seq(Issues)]
    /\ link \in [Stations -> Cells \cup {NoCell}]
    /\ grid \subseteq Cells
    /\ supplement \in [Cells -> [Hours -> {NoRun} \cup PowerIds]]
    /\ lock \in {"free", "ingest"}
    /\ draft.open <=> lock = "ingest"
    /\ Events <= MaxEvents

(* The observed tables move by whole files of one station, with the years,  *)
(* the scores and the warnings derived from them, whatever fails between.   *)
(* Of a period whose file the snapshot has lost the store leaves the score  *)
(* open, where a comment and a test of the repository disagree.             *)
Store == INSTANCE StationStore WITH
    years <- [s \in Stations |-> IF Known(s) THEN station[s].years ELSE NoYears],
    score <- [s \in Stations |-> IF Known(s) THEN station[s].score ELSE NoScore]

ImplementsStore == Store!Spec

(* The rows a fetched file has are those the tables hold.                   *)
Reflected(s, k) ==
    LET file == Manifest[ingest.date][s][k] IN
    file.outcome = "fetched" /\ file.body.parsed =>
        Upserted(tables[s][k], file.body.rows) = tables[s][k]

(* An ingest run becomes complete only by its own process, once every       *)
(* target was tried; with none failed, every selected file is reflected,    *)
(* however many earlier runs were killed half-way (ingest.go closeIngestRun).*)
CompleteMeans ==
    [][\A i \in 1 .. Len(ingestRuns') :
         /\ ingestRuns'[i].status = "complete"
         /\ i \in IngestIds
         /\ ingestRuns[i].status # "complete"
         => LET report == ingestRuns'[i].report IN
            /\ ingest # Idle /\ ingest.run = i
            /\ report.attempted = Len(ingest.targets)
            /\ report.succeeded + report.failed = report.attempted
            /\ report.failed = 0 =>
                 \A t \in DOMAIN ingest.targets, k \in DOMAIN ingest.kinds :
                     Reflected(ingest.targets[t], ingest.kinds[k])]_vars

(* No table holds a dangling reference at any moment, with foreign keys off *)
(* and every process free to die between two transactions.                  *)
References == StationRefs /\ CellRefs /\ RunRefs

(* A row that was settled before it grew old never changes, and a young one *)
(* is settled by the process that opened it alone (rule_orphans.go).        *)
SettledStays ==
    /\ \A i \in IngestIds :
          ~ingestRuns[i].old =>
             \/ ingestRuns'[i].status = ingestRuns[i].status
             \/ /\ ingestRuns[i].status = "running"
                /\ ingest # Idle /\ ingest.run = i
    /\ \A i \in PowerIds :
          ~powerRuns[i].old =>
             \/ powerRuns'[i].status = powerRuns[i].status
             \/ /\ powerRuns[i].status = "running"
                /\ power # Resting /\ power.run = i

OnlyOldRowsReaped == [][SettledStays]_vars

(* What the close of a power run records: the cells it tried add up, and a  *)
(* complete run tried every cell it chose of the stations it read, however  *)
(* they moved since; the rows it counted are those that bear its id.        *)
Signed(i) == {row \in Cells \X Hours : supplement[row[1]][row[2]] = i}

PowerAccounts ==
    [][\A i \in PowerIds :
         /\ powerRuns'[i].report # powerRuns[i].report
         => LET report == powerRuns'[i].report IN
            /\ power.run = i
            /\ report.succeeded + report.failed = report.attempted
            /\ report.rows = Cardinality(Signed(i))
            /\ powerRuns'[i].status = "complete" =>
                 report.attempted =
                     Cardinality(Chosen(power.view, power.span.most))]_vars

(* A finding that a run was orphaned is written only of a run that had been *)
(* open past the threshold and has been closed since.                       *)
OrphansClosed ==
    \A f \in findings :
        f.rule = "orphan-runs" =>
            /\ Ledger(f.table)[f.run].old
            /\ Ledger(f.table)[f.run].status # "running"

(* When the gate passes on a database nobody touched meanwhile, no run is   *)
(* open, what a process still at work writes belongs to a run closed over   *)
(* its head, no two runs of the supplements share a label, and the deposit  *)
(* is named after the latest complete run.                                  *)
GateQuiet ==
    gate.at = "passed" /\ gate.calm =>
        /\ \A i \in IngestIds : ingestRuns[i].status # "running"
        /\ \A i \in PowerIds : powerRuns[i].status # "running"
        /\ ingest # Idle /\ ingest.run # NoRun => ingestRuns[ingest.run].old
        /\ power # Resting /\ power.run # NoRun => powerRuns[power.run].old
        /\ Colliding = {}
        /\ \E i \in Complete : /\ ingestRuns[i].about = gate.date
                               /\ \A j \in Complete : j <= i
=============================================================================
