---------------------------- MODULE StationData ----------------------------
(***************************************************************************)
(* What one raw file says of a station and what the ingest derives from    *)
(* the rows it stores (internal/ingest: daily.go, normals.go, station.go,  *)
(* wmo.go, stations.go).  No state: operators on rows and bodies.          *)
(*                                                                         *)
(* A row is abstracted to the reading it carries; a slot is a date of the  *)
(* daily file or a month of a normals file.  A coordinate pair is a place. *)
(***************************************************************************)
EXTENDS Integers, Sequences, FiniteSets

CONSTANTS Stations,    \* CONAGUA's conventional stations
          Kinds,       \* conagua.KindDaily and the normals kinds
          PeriodOf,    \* the normals kinds and the period each stands for
          Slots,       \* dates or months, in order
          Readings,    \* the content of a row
          NoRow,       \* no row under that key
          Places,      \* coordinate pairs
          NoPlace      \* NULL coordinates

Daily == "daily"
NormalsKinds == DOMAIN PeriodOf

ASSUME KindsAssumption ==
    /\ Daily \in Kinds
    /\ NormalsKinds = Kinds \ {Daily}
    /\ PeriodOf \in [NormalsKinds -> Nat]
ASSUME SlotsAssumption == Slots \subseteq Nat /\ IsFiniteSet(Slots)
ASSUME AbsentAssumption == NoRow \notin Readings /\ NoPlace \notin Places

Table == [Slots -> Readings \cup {NoRow}]
Bare  == [i \in Slots |-> NoRow]

(* The issues of parsing_warnings: a malformed value, a file that cannot    *)
(* be parsed, a file the pull could not fetch, a body the sink has lost.    *)
Issues == {"row", "header", "pull", "missing"}

(* A stored file: whether its header parses, the station the header names,  *)
(* its coordinates, its rows, and whether a value in it is malformed.       *)
Bodies == [parsed : BOOLEAN, names : Stations, place : Places \cup {NoPlace},
           rows : Table, malformed : BOOLEAN]

(* What the snapshot has of a file: what its index says, and, for a fetched *)
(* one, the body, unless the sink has lost it.                              *)
Recorded == [outcome : {"not_found", "error", "lost"}]
              \cup [outcome : {"fetched"}, body : Bodies]

-----------------------------------------------------------------------------
(* INSERT ... ON CONFLICT DO UPDATE: a row of the file replaces the stored  *)
(* one, and a stored row the file does not have stays.                      *)
Upserted(stored, rows) ==
    [i \in Slots |-> IF rows[i] = NoRow THEN stored[i] ELSE rows[i]]

Held(table) == {i \in Slots : table[i] # NoRow}

Ends(S) == {x \in S : (\A y \in S : x <= y) \/ (\A y \in S : x >= y)}

(* updateFirstLastYear: the ends of the daily series, else the ends of the  *)
(* normals periods.                                                         *)
YearsOf(tables) ==
    IF Held(tables[Daily]) # {}
    THEN [of |-> "daily", ends |-> Ends(Held(tables[Daily]))]
    ELSE [of |-> "normals",
          ends |-> Ends({PeriodOf[k] : k \in
                            {n \in NormalsKinds : Held(tables[n]) # {}}})]

(* LoadExtrasForScoring and ScoreWMO: a period's score is a function of its *)
(* stored rows, abstracted to those rows; without any it is NULL.           *)
ScoreOf(tables) == [k \in NormalsKinds |-> tables[k]]

NoYears == [of |-> "normals", ends |-> {}]
NoScore == [k \in NormalsKinds |-> Bare]
NoTables == [k \in Kinds |-> Bare]

(* The warnings one ingestion of a file leaves.                             *)
Parsed(body) ==
    (IF body.malformed THEN <<"row">> ELSE <<>>)
      \o (IF body.parsed THEN <<>> ELSE <<"header">>)

(* The outcomes of one file within a station: what the tables take from it, *)
(* the station its header enriches, and the warnings it leaves.             *)
Nothing(issues) == [rows |-> Bare, named |-> {}, place |-> NoPlace,
                    issues |-> issues]

Opened(body) ==
    [rows   |-> IF body.parsed THEN body.rows ELSE Bare,
     named  |-> IF body.parsed THEN {body.names} ELSE {},
     place  |-> body.place,
     issues |-> Parsed(body)]

Result(file) ==
    CASE file.outcome = "not_found" -> Nothing(<<>>)
      [] file.outcome = "error"     -> Nothing(<<"pull">>)
      [] file.outcome = "lost"      -> Nothing(<<"missing">>)
      [] file.outcome = "fetched"   -> Opened(file.body)
=============================================================================
