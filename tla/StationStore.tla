---------------------------- MODULE StationStore ----------------------------
(***************************************************************************)
(* What the ingest promises of the observed tables: they change by whole   *)
(* files of one station at a time, the columns derived from them change    *)
(* with them, and the warnings under a source file are those of the last   *)
(* time it was taken.  No transactions, no failures, no order.             *)
(*                                                                         *)
(* One thing is left open: whether a period whose file the snapshot has    *)
(* lost keeps the score of the rows stored earlier, as a test has it       *)
(* (golden_test.go:437), or loses it, as a comment has it (wmo.go:147).    *)
(***************************************************************************)
EXTENDS StationData

CONSTANTS Snapshots, Manifest

VARIABLES tables,  \* the observed rows
          years,   \* first_year, last_year
          score,   \* wmo_completeness
          noted    \* parsing_warnings by source file

vars == <<tables, years, score, noted>>

Files == Snapshots \X Kinds \X Stations

Init == /\ tables = [s \in Stations |-> NoTables]
        /\ years = [s \in Stations |-> NoYears]
        /\ score = [s \in Stations |-> NoScore]
        /\ noted = [f \in Files |-> <<>>]

(* The periods that may be without a score although they have rows.         *)
Unscored(s, date, kinds) ==
    {k \in NormalsKinds : IF k \in kinds
                          THEN Manifest[date][s][k].outcome # "fetched"
                          ELSE score[s][k] = Bare}

(* Some files of one station's snapshot are taken.                          *)
Take(s, date, kinds, unscored) ==
    LET Taken(k) == Result(Manifest[date][s][k]) IN
    /\ tables' = [tables EXCEPT ![s] =
                     [k \in Kinds |-> IF k \in kinds
                                      THEN Upserted(@[k], Taken(k).rows)
                                      ELSE @[k]]]
    /\ years' = [years EXCEPT ![s] = YearsOf(tables'[s])]
    /\ score' = [score EXCEPT ![s] =
                    [k \in NormalsKinds |-> IF k \in unscored THEN Bare
                                            ELSE ScoreOf(tables'[s])[k]]]
    /\ noted' = [f \in Files |->
                    IF f[1] = date /\ f[3] = s /\ f[2] \in kinds
                    THEN Taken(f[2]).issues ELSE noted[f]]

Next == \E s \in Stations, date \in Snapshots, kinds \in SUBSET Kinds :
            \E unscored \in SUBSET Unscored(s, date, kinds) :
                Take(s, date, kinds, unscored)

Spec == Init /\ [][Next]_vars

-----------------------------------------------------------------------------
(* The derived columns are never staler than the rows they sum up: a score  *)
(* is that of the stored rows or NULL.                                      *)
DerivedFresh ==
    \A s \in Stations :
        /\ years[s] = YearsOf(tables[s])
        /\ \A k \in NormalsKinds : score[s][k] \in {Bare, ScoreOf(tables[s])[k]}
=============================================================================
