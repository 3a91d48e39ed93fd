---------------------------- MODULE MCWarehouse ----------------------------
(***************************************************************************)
(* Two stations, a daily file and one normals period, two snapshots: the   *)
(* new one has lost s1's normals file, moves s1 and cannot parse s2's; s2's *)
(* normals header names s1.                                                *)
(***************************************************************************)
EXTENDS Warehouse

MCStations == {"s1", "s2"}
MCKinds == {"daily", "n81", "n91"}
MCPeriodOf == [n81 |-> 1981, n91 |-> 1991]
MCSlots == 1 .. 2
MCReadings == {"a", "b"}
MCPlaces == {"here", "moved", "zero"}

Body(s, place, rows) ==
    [outcome |-> "fetched",
     body |-> [parsed |-> TRUE, names |-> s, place |-> place,
               rows |-> rows, malformed |-> FALSE]]
Broken(file) == [file EXCEPT !.body.parsed = FALSE]
Bad(file)    == [file EXCEPT !.body.malformed = TRUE]
Missing      == [outcome |-> "not_found"]
Failed       == [outcome |-> "error"]
Lost         == [outcome |-> "lost"]

MCManifest == [
    old |-> [s1 |-> [daily |-> Body("s1", "here", <<"a", "-">>),
                     n81   |-> Lost,
                     n91   |-> Bad(Body("s1", "-", <<"a", "a">>))],
             s2 |-> [daily |-> Body("s2", "moved", <<"-", "a">>),
                     n81   |-> Body("s2", "-", <<"a", "-">>),
                     n91   |-> Failed]],
    new |-> [s1 |-> [daily |-> Body("s1", "moved", <<"b", "b">>),
                     n81   |-> Body("s1", "-", <<"-", "b">>),
                     n91   |-> Missing],
             s2 |-> [daily |-> Broken(Body("s2", "here", <<"a", "a">>)),
                     n81   |-> Missing,
                     n91   |-> Body("s1", "zero", <<"b", "-">>)]]]

Request(date, kinds, targets) ==
    [date |-> date, kinds |-> kinds, targets |-> targets]
MCRequests == {Request("old", <<"daily", "n81", "n91">>, <<"s1", "s2">>),
               Request("new", <<"daily", "n81", "n91">>, <<"s1", "s2">>),
               Request("new", <<"daily">>, <<"s1">>)}
MCCellOf == [here |-> 1, moved |-> 2, zero |-> 2]
MCHours == 1 .. 2
MCSpans == {[label |-> "daily", hours |-> {1}, most |-> 1],
            [label |-> "daily", hours |-> {1, 2}, most |-> 2]}
MCSeries == <<{{1, 2}}, {{2}}>>
MCVerbRules == <<"bbox", "run-label-unique">>
MCGateRules == <<"bbox", "runs-in-flight", "ingest-complete", "station-refs",
                 "cell-refs", "run-refs", "run-label-unique">>
=============================================================================
