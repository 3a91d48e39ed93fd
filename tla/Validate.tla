------------------------------ MODULE Validate ------------------------------
(***************************************************************************)
(* The validate verb and the gate of publish (internal/validate).  The     *)
(* verb clears its findings, closes the runs it takes for dead, reads its  *)
(* rules one by one and writes every finding in one batch at the end; the  *)
(* gate reads, and never writes.  Nothing holds the database still between *)
(* two rules.                                                              *)
(***************************************************************************)
EXTENDS Database

CONSTANTS Impossible,  \* places no station can be at
          VerbRules,   \* the verb's rules after orphan-runs, less --skip
          GateRules    \* the gate's rules

Rules == {"bbox", "runs-in-flight", "ingest-complete", "station-refs",
          "cell-refs", "run-refs", "run-label-unique"}

(* Whatever else it reads, the gate reads the run ledgers.                  *)
ASSUME RulesAssumption ==
    /\ Impossible \subseteq Places
    /\ VerbRules \in Seq(Rules) /\ GateRules \in Seq(Rules)
    /\ \A rule \in {"runs-in-flight", "run-label-unique"} :
           \E i \in DOMAIN GateRules : GateRules[i] = rule

VARIABLES validate,  \* the verb's process
          gate       \* publish, from the choice of a snapshot to the verdict

Off == [at |-> "idle"]

RunTables == <<"ingest", "power">>
Ledger(table) == IF table = "ingest" THEN ingestRuns ELSE powerRuns

Complete == {i \in IngestIds : ingestRuns[i].status = "complete"}

(* A slip of InFlight: a run past the threshold is taken for dead.          *)
InFlightYoung(row) == row.status = "running" /\ ~row.old

(* scanRunning: the gate applies no threshold.                              *)
InFlight(row) == row.status = "running"

(* Whether a rule has an error to report of the database as it is now.      *)
Fails(rule) ==
    CASE rule = "bbox" ->
            \E s \in Stations : Known(s) /\ station[s].place \in Impossible
      [] rule = "runs-in-flight" ->
            \E t \in {1, 2} : \E i \in DOMAIN Ledger(RunTables[t]) :
                InFlight(Ledger(RunTables[t])[i])
      [] rule = "ingest-complete"  -> Complete = {}
      [] rule = "station-refs"     -> ~StationRefs
      [] rule = "cell-refs"        -> ~CellRefs
      [] rule = "run-refs"         -> ~RunRefs
      [] rule = "run-label-unique" -> Colliding # {}

Reaped(table, i) == [rule |-> "orphan-runs", table |-> table, run |-> i]
Error(rule)      == [rule |-> rule, table |-> "none", run |-> NoRun]

ValidateInit == validate = Off /\ gate = Off

-----------------------------------------------------------------------------
ValidateStart ==
    /\ validate = Off
    /\ validate' = [at |-> "clear", next |-> 1, ids |-> {}, batch |-> {}]
    /\ UNCHANGED database

(* clearPriorWarnings: a transaction of its own; with --skip the orphans    *)
(* are left alone.                                                          *)
Clear ==
    /\ validate.at = "clear"
    /\ Free
    /\ findings' = {}
    /\ \E at \in {"scan", "rules"} :
          validate' = [validate EXCEPT !.at = at]
    /\ UNCHANGED <<observed, ingestRuns, powered, powerRuns, lock>>

(* A slip of Orphans: no threshold.                                         *)
OrphansAll(table) == {i \in DOMAIN Ledger(table) :
                         Ledger(table)[i].status = "running"}

(* scanOrphans: one table's overdue rows, and a finding for each.           *)
Orphans(table) == {i \in DOMAIN Ledger(table) :
                      /\ Ledger(table)[i].status = "running"
                      /\ Ledger(table)[i].old}

ScanOrphans ==
    /\ validate.at = "scan"
    /\ LET table == RunTables[validate.next] IN
       validate' = [validate EXCEPT
                       !.at = "reconcile",
                       !.ids = Orphans(table),
                       !.batch = @ \cup {Reaped(table, i) : i \in Orphans(table)}]
    /\ UNCHANGED database

(* One UPDATE by id for each row found, whatever its status is by now.      *)
Reconcile ==
    /\ validate.at = "reconcile"
    /\ validate.ids # {}
    /\ Free
    /\ LET i == CHOOSE j \in validate.ids : \A k \in validate.ids : j <= k
       IN /\ IF RunTables[validate.next] = "ingest"
             THEN /\ ingestRuns' = [ingestRuns EXCEPT ![i].status = "aborted"]
                  /\ UNCHANGED powerRuns
             ELSE /\ powerRuns' = [powerRuns EXCEPT ![i].status = "aborted"]
                  /\ UNCHANGED ingestRuns
          /\ validate' = [validate EXCEPT !.ids = @ \ {i}]
    /\ UNCHANGED <<observed, powered, findings, lock>>

(* A slip of NextTable: the rows that are left stay running.                *)
NextTableEarly ==
    /\ validate.at = "reconcile"
    /\ validate' = IF validate.next < Len(RunTables)
                   THEN [validate EXCEPT !.at = "scan", !.next = @ + 1]
                   ELSE [validate EXCEPT !.at = "rules", !.next = 1]
    /\ UNCHANGED database

NextTable ==
    /\ validate.at = "reconcile"
    /\ validate.ids = {}
    /\ validate' = IF validate.next < Len(RunTables)
                   THEN [validate EXCEPT !.at = "scan", !.next = @ + 1]
                   ELSE [validate EXCEPT !.at = "rules", !.next = 1]
    /\ UNCHANGED database

ReadRule ==
    /\ validate.at = "rules"
    /\ validate.next <= Len(VerbRules)
    /\ LET rule == VerbRules[validate.next] IN
       validate' = [validate EXCEPT
                       !.next = @ + 1,
                       !.batch = @ \cup (IF Fails(rule) THEN {Error(rule)}
                                         ELSE {})]
    /\ UNCHANGED database

(* writeWarnings: every finding in one transaction, after the last rule.    *)
WriteBatch ==
    /\ validate.at = "rules"
    /\ validate.next > Len(VerbRules)
    /\ Free
    /\ findings' = findings \cup validate.batch
    /\ validate' = Off
    /\ UNCHANGED <<observed, ingestRuns, powered, powerRuns, lock>>

(* A query or a write that fails, an interrupt, a kill: at any point.       *)
ValidateStops ==
    /\ validate # Off
    /\ validate' = Off
    /\ UNCHANGED database

-----------------------------------------------------------------------------
(* resolveSnapshot: the latest complete run's snapshot, before the gate.    *)
GateStart ==
    /\ gate = Off
    /\ Complete # {}
    /\ gate' = [at |-> "rules", next |-> 1, calm |-> TRUE, errors |-> FALSE,
                date |-> LET i == CHOOSE j \in Complete :
                                     \A k \in Complete : j >= k
                         IN ingestRuns[i].about]
    /\ UNCHANGED database

(* Gate: rule after rule; every error refuses.                              *)
GateReads ==
    /\ gate.at = "rules"
    /\ LET errors == gate.errors \/ Fails(GateRules[gate.next])
       IN gate' = IF gate.next < Len(GateRules)
                  THEN [gate EXCEPT !.next = @ + 1, !.errors = errors]
                  ELSE [gate EXCEPT !.at = IF errors THEN "refused" ELSE "passed",
                                    !.errors = errors]
    /\ UNCHANGED database

(* The publish run ends, or its gate cannot read.                           *)
GateLeaves ==
    /\ gate # Off
    /\ gate' = Off
    /\ UNCHANGED database

(* calm is a history: whether no verb has moved since publish began.        *)
Disturbed == IF gate = Off THEN gate ELSE [gate EXCEPT !.calm = FALSE]

ValidateStep == \/ ValidateStart \/ Clear \/ ScanOrphans \/ Reconcile
                \/ NextTable \/ ReadRule \/ WriteBatch
GateStep == GateStart \/ GateReads \/ GateLeaves
=============================================================================
