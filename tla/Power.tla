-------------------------------- MODULE Power --------------------------------
(***************************************************************************)
(* The power verb (internal/power, cmd/power.go): the stations are read    *)
(* once, snapped to cells, and the run row, the cells and links, and each  *)
(* cell's rows are written in transactions of their own, with the counters *)
(* in memory until the row is closed.                                      *)
(***************************************************************************)
EXTENDS Database

CONSTANTS Series,       \* Series[c]: what POWER may return of a cell: the
                        \* hours for which it has a value
          PowerFaults   \* what may fail in this instance

ASSUME SeriesAssumption ==
    /\ \A c \in Cells : Series[c] \subseteq SUBSET Hours
    /\ PowerFaults \subseteq {"database", "api"}

VARIABLE power

Resting == [at |-> "idle"]

(* buildCellMap, in sortedCellIDs's order.                                  *)
Mapped(view) == {CellOf[view[s]] : s \in {t \in Stations : view[t] # NoPlace}}
First(cells) == CHOOSE c \in cells : \A d \in cells : c <= d

(* --max-cells cuts the list the loop walks, not the cells it upserts.      *)
Chosen(view, most) ==
    {c \in Mapped(view) : Cardinality({d \in Mapped(view) : d <= c}) <= most}

PowerInit == power = Resting

-----------------------------------------------------------------------------
(* loadStations: the stations with coordinates, as committed now.           *)
PowerStart(span) ==
    /\ power = Resting
    /\ LET view == [s \in Stations |-> IF Known(s) THEN station[s].place
                                       ELSE NoPlace]
       IN power' = [at |-> "open", span |-> span, view |-> view,
                    left |-> Chosen(view, span.most), now |-> NoCell, got |-> {},
                    run |-> NoRun, ctx |-> "live", report |-> NoReport]
    /\ UNCHANGED database

PowerLeaves ==
    /\ power.at = "open"
    /\ power' = Resting
    /\ UNCHANGED database

OpenPowerRun ==
    /\ power.at = "open"
    /\ power.ctx = "live"
    /\ Free
    /\ powerRuns' = Append(powerRuns, Opening(power.span.label))
    /\ power' = [power EXCEPT !.at = "cells", !.run = Len(powerRuns')]
    /\ UNCHANGED <<observed, ingestRuns, powered, findings, lock>>

(* A slip of UpsertCells: the links without their cells.                    *)
UpsertCellsLinks ==
    /\ power.at = "cells"
    /\ power.ctx = "live"
    /\ Free
    /\ link' = [s \in Stations |-> IF power.view[s] = NoPlace THEN link[s]
                                   ELSE CellOf[power.view[s]]]
    /\ power' = [power EXCEPT !.at = "loop"]
    /\ UNCHANGED <<observed, ingestRuns, grid, supplement, powerRuns, findings,
                   lock>>

(* upsertCells: the cells and the links, in one transaction.                *)
UpsertCells ==
    /\ power.at = "cells"
    /\ power.ctx = "live"
    /\ Free
    /\ grid' = grid \cup Mapped(power.view)
    /\ link' = [s \in Stations |-> IF power.view[s] = NoPlace THEN link[s]
                                   ELSE CellOf[power.view[s]]]
    /\ power' = [power EXCEPT !.at = "loop"]
    /\ UNCHANGED <<observed, ingestRuns, supplement, powerRuns, findings, lock>>

UpsertCellsFails ==
    /\ power.at = "cells"
    /\ "database" \in PowerFaults \/ ~Free \/ power.ctx = "cancelled"
    /\ power' = [power EXCEPT !.at = "abort"]
    /\ UNCHANGED database

(* The context is looked at between cells.                                  *)
CellBegins ==
    /\ power.at = "loop"
    /\ power.left # {}
    /\ power.ctx = "live"
    /\ LET c == First(power.left)
       IN power' = [power EXCEPT !.at = "fetch", !.now = c, !.left = @ \ {c},
                                 !.report.attempted = @ + 1]
    /\ UNCHANGED database

PowerStops ==
    /\ power.at = "loop"
    /\ power.left # {}
    /\ power.ctx = "cancelled"
    /\ power' = [power EXCEPT !.at = "abort"]
    /\ UNCHANGED database

(* FetchBatched, then RollUp or ExtractDaily: the hours of the span that    *)
(* have a value.                                                            *)
CellFetched ==
    /\ power.at = "fetch"
    /\ power.ctx = "live"
    /\ \E hours \in Series[power.now] :
          power' = [power EXCEPT !.at = "write",
                                 !.got = hours \cap power.span.hours]
    /\ UNCHANGED database

(* A slip of RowsWritten: the rows asked for, not those written.            *)
RowsAsked   == Cardinality(power.span.hours)
RowsWritten == Cardinality(power.got)

(* writeSupplement: a row for each hour that has a value, whole or not at   *)
(* all; the rows of the other hours stay.                                   *)
CellWritten ==
    /\ power.at = "write"
    /\ power.ctx = "live"
    /\ Free
    /\ supplement' = [supplement EXCEPT ![power.now] =
                         [h \in Hours |-> IF h \in power.got THEN power.run
                                          ELSE @[h]]]
    /\ power' = [power EXCEPT !.at = "loop", !.now = NoCell, !.got = {},
                              !.report.succeeded = @ + 1,
                              !.report.rows = @ + RowsWritten]
    /\ UNCHANGED <<observed, ingestRuns, grid, link, powerRuns, findings, lock>>

(* A cell that cannot be fetched or written is counted; the loop goes on.   *)
CellFails ==
    /\ \/ power.at = "fetch" /\ "api" \in PowerFaults
       \/ power.at = "write" /\ ("database" \in PowerFaults \/ ~Free)
       \/ power.at \in {"fetch", "write"} /\ power.ctx = "cancelled"
    /\ power' = [power EXCEPT !.at = "loop", !.now = NoCell, !.got = {},
                              !.report.failed = @ + 1]
    /\ UNCHANGED database

-----------------------------------------------------------------------------
(* closeRun, on a context of its own: complete when the cells ran out.      *)
Ending == power.at = "abort" \/ (power.at = "loop" /\ power.left = {})
PowerVerdict == IF power.at = "abort" THEN "aborted" ELSE "complete"

ClosePowerRun ==
    /\ Ending
    /\ Free
    /\ powerRuns' = [powerRuns EXCEPT ![power.run] =
                         Closed(@, PowerVerdict, power.report)]
    /\ power' = Resting
    /\ UNCHANGED <<observed, ingestRuns, powered, findings, lock>>

ClosePowerFails ==
    /\ Ending
    /\ "database" \in PowerFaults \/ ~Free
    /\ power' = Resting
    /\ UNCHANGED database

PowerCancelled ==
    /\ power # Resting
    /\ power.ctx = "live"
    /\ power' = [power EXCEPT !.ctx = "cancelled"]
    /\ UNCHANGED database

PowerKilled ==
    /\ power # Resting
    /\ power' = Resting
    /\ UNCHANGED database

PowerStep == \/ PowerLeaves \/ OpenPowerRun \/ UpsertCells \/ CellBegins
             \/ PowerStops \/ CellFetched \/ CellWritten \/ ClosePowerRun
             \/ \E span \in Spans : PowerStart(span)

PowerFault == \/ UpsertCellsFails \/ CellFails \/ ClosePowerFails
              \/ PowerCancelled \/ PowerKilled
=============================================================================
