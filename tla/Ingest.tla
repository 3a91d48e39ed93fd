------------------------------- MODULE Ingest -------------------------------
(***************************************************************************)
(* The ingest verb (internal/ingest, cmd/ingest.go): the seed transaction, *)
(* the run row, one transaction per station over its files, and the close  *)
(* of the row.  A transaction's statements are steps of their own on a     *)
(* draft of the tables, which the commit makes visible at once; any of     *)
(* them may fail, the context may die, and the process may be killed.      *)
(***************************************************************************)
EXTENDS Database

CONSTANTS Manifest,       \* Manifest[date]: the index of each snapshot
          Requests,       \* the verb's flags: a snapshot's date, resolveKinds
                          \* of --kind, pickTargets of --external-id
          IngestFaults    \* what may fail in this instance

ASSUME ManifestAssumption ==
    /\ Manifest \in [Snapshots -> [Stations -> [Kinds -> Recorded]]]
    /\ \A request \in Requests : /\ request.date \in Snapshots
                                 /\ request.kinds \in Seq(Kinds)
                                 /\ \A i, j \in DOMAIN request.kinds :
                                        request.kinds[i] = request.kinds[j] => i = j
                                 /\ request.targets \in Seq(Stations)
    /\ IngestFaults \subseteq {"database", "sink"}

VARIABLES ingest,   \* the process
          draft     \* what its open transaction has written

ingestVars == <<ingest, draft>>

Idle == [at |-> "idle"]
NoDraft == [open |-> FALSE]

Target   == ingest.targets[ingest.next]
Finished == ingest.next > Len(ingest.targets)
File(k)  == <<ingest.date, k, Target>>

(* A statement fails when the database does, or when the context is dead.   *)
MayFail(fault) == fault \in IngestFaults \/ ingest.ctx = "cancelled"

IngestInit == ingest = Idle /\ draft = NoDraft

-----------------------------------------------------------------------------
(* runSeedTx: every station of the manifest, in one transaction.            *)
SeededTable == [s \in Stations |-> UpsertStation(station[s], NoPlace)]

IngestStart(request) ==
    /\ ingest = Idle
    /\ ingest' = [at |-> "seed", date |-> request.date,
                  kinds |-> request.kinds, targets |-> request.targets,
                  next |-> 1, left |-> <<>>,
                  run |-> NoRun, ctx |-> "live", report |-> NoReport]
    /\ UNCHANGED <<database, draft>>

Seed ==
    /\ ingest.at = "seed"
    /\ ingest.ctx = "live"
    /\ Free
    /\ station' = SeededTable
    /\ ingest' = [ingest EXCEPT !.at = "open"]
    /\ UNCHANGED <<tables, noted, ingestRuns, powered, powerRuns, findings,
                   lock, draft>>

(* --stations-only, an unknown --external-id, and a seed or a run row that  *)
(* fails: the run ends with no row of its own.                              *)
IngestLeaves ==
    /\ ingest.at \in {"seed", "open"}
    /\ ingest' = Idle
    /\ UNCHANGED <<database, draft>>

OpenIngestRun ==
    /\ ingest.at = "open"
    /\ ingest.ctx = "live"
    /\ Free
    /\ ingestRuns' = Append(ingestRuns, Opening(ingest.date))
    /\ ingest' = [ingest EXCEPT !.at = "loop", !.run = Len(ingestRuns'),
                                !.report.attempted = Len(ingest.targets)]
    /\ UNCHANGED <<observed, powered, powerRuns, findings, lock, draft>>

(* The context is looked at between stations.                               *)
StationBegins ==
    /\ ingest.at = "loop"
    /\ ~Finished
    /\ ingest.ctx = "live"
    /\ Free
    /\ lock' = "ingest"
    /\ draft' = [open |-> TRUE, station |-> station,
                 tables |-> tables[Target],
                 noted |-> noted, issues |-> [f \in Files |-> <<>>]]
    /\ ingest' = [ingest EXCEPT !.at = "file", !.left = ingest.kinds]
    /\ UNCHANGED <<observed, ingestRuns, powered, powerRuns, findings>>

(* One file: its earlier warnings go, whatever its outcome; its header      *)
(* enriches the station it names, its rows are upserted.                    *)
FileTaken ==
    /\ ingest.at = "file"
    /\ ingest.left # <<>>
    /\ ingest.ctx = "live"
    /\ LET k == Head(ingest.left)
           result == Result(Manifest[ingest.date][Target][k])
       IN draft' = [draft EXCEPT
              !.noted[File(k)] = <<>>,
              !.issues[File(k)] = @ \o result.issues,
              !.tables[k] = Upserted(@, result.rows),
              !.station = [s \in Stations |->
                              IF s \in result.named
                              THEN UpsertStation(@[s], result.place)
                              ELSE @[s]]]
    /\ ingest' = [ingest EXCEPT !.left = Tail(@)]
    /\ UNCHANGED database

(* A slip of LoadsNormals: only for runs that load nothing else.            *)
LoadsOnlyNormals == \A i \in DOMAIN ingest.kinds : ingest.kinds[i] # Daily

(* First and last year, the scores when the run loads normals, the          *)
(* warnings, and the commit.  A dead context fails the transaction.         *)
LoadsNormals == \E i \in DOMAIN ingest.kinds : ingest.kinds[i] # Daily

Derived ==
    [draft.station[Target] EXCEPT
        !.years = YearsOf(draft.tables),
        !.score = IF LoadsNormals THEN ScoreOf(draft.tables) ELSE @]

Noted(file) == draft.noted[file] \o draft.issues[file]

StationCommits ==
    /\ ingest.at = "file"
    /\ ingest.left = <<>>
    /\ ingest.ctx = "live"
    /\ station' = [draft.station EXCEPT ![Target] = Derived]
    /\ tables' = [tables EXCEPT ![Target] = draft.tables]
    /\ noted' = [f \in Files |-> Noted(f)]
    /\ lock' = "free"
    /\ draft' = NoDraft
    /\ ingest' = [ingest EXCEPT !.at = "loop", !.next = @ + 1,
                                !.report.succeeded = @ + 1]
    /\ UNCHANGED <<ingestRuns, powered, powerRuns, findings>>

(* A slip of StationFails: a return without the rollback.                   *)
StationFailsOpen ==
    /\ ingest.at = "file"
    /\ MayFail("database") \/ MayFail("sink")
    /\ draft' = NoDraft
    /\ ingest' = [ingest EXCEPT !.at = "loop", !.next = @ + 1, !.left = <<>>,
                                !.report.failed = @ + 1]
    /\ UNCHANGED database

(* Any step of the station fails: its transaction is rolled back, the loop  *)
(* goes on.  A transaction that cannot begin its writing fails the same.    *)
StationFails ==
    /\ \/ /\ ingest.at = "file"
          /\ MayFail("database") \/ MayFail("sink")
          /\ lock' = "free"
       \/ /\ ingest.at = "loop" /\ ~Finished /\ ingest.ctx = "live"
          /\ "database" \in IngestFaults \/ ~Free
          /\ UNCHANGED lock
    /\ draft' = NoDraft
    /\ ingest' = [ingest EXCEPT !.at = "loop", !.next = @ + 1, !.left = <<>>,
                                !.report.failed = @ + 1]
    /\ UNCHANGED <<observed, ingestRuns, powered, powerRuns, findings>>

-----------------------------------------------------------------------------
(* A slip of IngestVerdict: an abort is not told from the end.              *)
IngestVerdictBlind == "complete"

(* closeIngestRun: after the last station the run is complete, whatever     *)
(* failed; a context found dead before a station aborts it.  The row is     *)
(* updated by id alone.                                                     *)
IngestVerdict == IF Finished THEN "complete" ELSE "aborted"

CloseIngestRun ==
    /\ ingest.at = "loop"
    /\ Finished \/ ingest.ctx = "cancelled"
    /\ Free
    /\ ingestRuns' = [ingestRuns EXCEPT ![ingest.run] =
                          Closed(@, IngestVerdict, ingest.report)]
    /\ ingest' = Idle
    /\ UNCHANGED <<observed, powered, powerRuns, findings, lock, draft>>

(* A close that fails is logged, and the run ends as if it had not.         *)
CloseIngestFails ==
    /\ ingest.at = "loop"
    /\ Finished \/ ingest.ctx = "cancelled"
    /\ "database" \in IngestFaults \/ ~Free
    /\ ingest' = Idle
    /\ UNCHANGED <<database, draft>>

IngestCancelled ==
    /\ ingest # Idle
    /\ ingest.ctx = "live"
    /\ ingest' = [ingest EXCEPT !.ctx = "cancelled"]
    /\ UNCHANGED <<database, draft>>

IngestKilled ==
    /\ ingest # Idle
    /\ ingest' = Idle
    /\ draft' = NoDraft
    /\ lock' = IF lock = "ingest" THEN "free" ELSE lock
    /\ UNCHANGED <<observed, ingestRuns, powered, powerRuns, findings>>

IngestStep == \/ Seed \/ IngestLeaves \/ OpenIngestRun \/ StationBegins
              \/ FileTaken \/ StationCommits \/ CloseIngestRun
              \/ \E request \in Requests : IngestStart(request)

IngestFault == \/ StationFails \/ CloseIngestFails \/ IngestCancelled
               \/ IngestKilled
=============================================================================
