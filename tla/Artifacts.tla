------------------------------ MODULE Artifacts ------------------------------
(***************************************************************************)
(* What the archives of a deposit hold (internal/publish): the entries of  *)
(* a state's archives, and the national archives that copy their per-unit  *)
(* files and regenerate the rest.  No state: operators on views of the     *)
(* database.                                                               *)
(*                                                                         *)
(* An entry is a path and the rows behind it.  A list of stations or cells *)
(* is read when an archive is assembled and the rows when it is written,   *)
(* so an archive is a function of two views.                               *)
(***************************************************************************)
EXTENDS Integers, Sequences, FiniteSets, SequencesExt

CONSTANTS StateOrder,  \* the states, in the order of their codes
          Views        \* the database, one commit after another: of each
                       \* station its state, rows and cell, of each cell its
                       \* rows, and the run ledgers

NoCell == "-"
SlugSet == ToSet(StateOrder)

(* A slug is never one of the words that mark the other scopes.             *)
ASSUME SlugsAssumption == {"all", "top"} \cap SlugSet = {}
ASSUME ViewsAssumption ==
    /\ Len(Views) \in Nat \ {0} /\ DOMAIN Views = 1 .. Len(Views)
    /\ \A v \in ToSet(Views) :
          /\ v.state \in [DOMAIN v.state -> SlugSet]
          /\ DOMAIN v.rows = DOMAIN v.state /\ DOMAIN v.cell = DOMAIN v.state
          /\ \A s \in DOMAIN v.cell : v.cell[s] \in DOMAIN v.power \cup {NoCell}

-----------------------------------------------------------------------------
(* The artifact groups.                                                     *)
PerState(g)    == g \in {"tabular", "json"}
FullRunOnly(g) == ~PerState(g) /\ g # "docs"
allGroups == <<"tabular", "json", "national-csv", "national-parquet",
               "national-json", "national-sqlite", "raw", "docs">>

(* x comes before y in the list.                                            *)
Precedes(list, x, y) == \E i \in DOMAIN list, j \in DOMAIN list :
                           i < j /\ list[i] = x /\ list[j] = y

copiesFrom == [g \in {"national-csv", "national-json"} |->
                  IF g = "national-csv" THEN "tabular" ELSE "json"]
Copies(g) == g \in DOMAIN copiesFrom

(* ResolveOnly: what a request selects, of which allGroups is the order,    *)
(* and when it is refused.                                                  *)
ResolveOnly(only, subset) ==
    {g \in ToSet(allGroups) : IF only # {} THEN g \in only
                              ELSE subset => PerState(g)}
Resolvable(only, subset) ==
    \A g \in only : /\ subset => ~FullRunOnly(g)
                    /\ Copies(g) => copiesFrom[g] \in only

-----------------------------------------------------------------------------
(* A scope: a state's stations, or every station; and the cells they        *)
(* reference.                                                               *)
All == "all"
Scope(v, where)  == {s \in DOMAIN v.state : where \in {All, v.state[s]}}
CellSet(v, where) == {v.cell[s] : s \in Scope(v, where)} \ {NoCell}
LoadStates(v) == {v.state[s] : s \in DOMAIN v.state}

(* LEFT JOIN: no rows where there is no cell.                               *)
PowerRows(v, c) == IF c = NoCell THEN NoCell ELSE v.power[c]

(* The seven whole-scope tables.                                            *)
ConaguaTables(v, where) ==
    LET stations == Scope(v, where) IN
    {<<<<"conagua/stations">>, stations>>,
     <<<<"conagua/monthly_normals">>, {<<s, v.rows[s]>> : s \in stations}>>,
     <<<<"conagua/monthly_normals_extras">>, {<<s, v.rows[s]>> : s \in stations}>>}
PowerTables(v, where) ==
    LET cells == CellSet(v, where) IN
    {<<<<"nasa_power/cells">>, cells>>,
     <<<<"nasa_power/station_cell_map">>,
       {<<s, v.cell[s]>> : s \in {t \in Scope(v, where) : v.cell[t] # NoCell}}>>,
     <<<<"nasa_power/monthly">>, {<<c, v.power[c]>> : c \in cells}>>}
CombinedMonthly(v, where) ==
    {<<<<"combined/combined_monthly">>,
       {<<s, v.rows[s], v.cell[s], PowerRows(v, v.cell[s])>> :
            s \in Scope(v, where)}>>}
TableEntries(v, where) ==
    ConaguaTables(v, where) \cup PowerTables(v, where) \cup CombinedMonthly(v, where)

(* The per-unit files: a station's under its state's shard, a cell's under  *)
(* none.                                                                    *)
Shard(folder, v, s) == <<folder, v.state[s], s>>
DailyEntries(listed, v, where) ==
    {<<Shard("conagua/daily_observations", listed, s), v.rows[s]>> :
        s \in Scope(listed, where)}
CombinedDailyEntries(listed, v, where) ==
    {<<Shard("combined/combined_daily", listed, s),
       <<v.rows[s], listed.cell[s], PowerRows(v, listed.cell[s])>>>> :
        s \in Scope(listed, where)}
CellDailyEntries(listed, v, where) ==
    {<<<<"nasa_power/daily", c>>, v.power[c]>> : c \in CellSet(listed, where)}

Units(listed, v, where) == DailyEntries(listed, v, where)
                             \cup CombinedDailyEntries(listed, v, where)
                             \cup CellDailyEntries(listed, v, where)

(* One Parquet file for each table: a per-unit table is its files, one      *)
(* after another.                                                           *)
ParquetEntries(listed, v, where) ==
    {<<<<"parquet", e[1][1]>>, e[2]>> : e \in TableEntries(v, where)}
      \cup {<<<<"parquet", folder>>,
              {e \in Units(listed, v, where) : e[1][1] = folder}>> :
            folder \in {"conagua/daily_observations", "nasa_power/daily",
                        "combined/combined_daily"}}

Provenance(runs) == {<<<<"provenance">>, runs.runs>>}

(* The filtered database: the state's stations with what refers to them,    *)
(* their cells with what refers to those, and the run ledgers whole.        *)
StateDB(v, st) ==
    LET stations == Scope(v, st)  cells == CellSet(v, st) IN
    [rows  |-> [s \in stations |-> v.rows[s]],
     cell  |-> [s \in stations |-> v.cell[s]],
     power |-> [c \in cells |-> v.power[c]],
     runs  |-> v.runs]

TabularEntries(listed, v, runs, st) ==
    TableEntries(v, st) \cup Units(listed, v, st)
      \cup ParquetEntries(listed, v, st) \cup Provenance(runs)
      \cup {<<<<"db", st>>, StateDB(v, st)>>}

(* A station's profile and its daily series.                                *)
JSONEntries(listed, v, runs, st) ==
    {<<<<"combined", listed.state[s], s, file>>,
       <<v.rows[s], listed.cell[s], PowerRows(v, listed.cell[s])>>>> :
        s \in Scope(listed, st), file \in {"profile", "daily"}}
      \cup Provenance(runs)

-----------------------------------------------------------------------------
(* A slip of EntryClass: the cells' files are taken for regenerated.        *)
CellsSkipped(source, st, path) ==
    LET Own == IF path[2] = st THEN "copy" ELSE "refuse" IN
    CASE path[1] \in {"parquet", "db", "nasa_power/daily"} -> "skip"
      [] OTHER -> Own

(* The copy-built national archives.  What is done with an entry of a       *)
(* state's archive that the national one does not generate itself.          *)
EntryClass(source, st, path) ==
    LET Own == IF path[2] = st THEN "copy" ELSE "refuse" IN
    CASE source = "tabular" /\ path[1] \in {"parquet", "db"} -> "skip"
      [] source = "tabular" /\ path[1] = "nasa_power/daily"  -> "copy"
      [] source = "tabular" /\ path[1] \in {"conagua/daily_observations",
                                            "combined/combined_daily"} -> Own
      [] source = "json" /\ path[1] = "combined"             -> Own
      [] OTHER -> "refuse"

(* The entries it generates.                                                *)
Regenerated(g, v, runs) ==
    Provenance(runs) \cup (IF g = "national-csv" THEN TableEntries(v, All) ELSE {})
RegeneratedPaths(g) == {e[1] : e \in Regenerated(g, Views[1], Views[1])}

(* The candidates of one source archive, an [of, entries] record.           *)
ToClass(g, archive) ==
    {e \in archive.entries : e[1] \notin RegeneratedPaths(g)}
ToCopy(g, archive) ==
    {e \in ToClass(g, archive) :
        EntryClass(copiesFrom[g], archive.of, e[1]) = "copy"}

(* A slip of Assembles: the states are not compared.                        *)
StatesUnchecked(g, v, sources) ==
    \A a \in sources, b \in sources :
        \A e \in ToCopy(g, a), f \in ToCopy(g, b) : e[1] = f[1] => e = f

(* Every state of the database once, nothing that is not accounted for, one *)
(* content for each path, and something from each archive that those of the *)
(* states before it do not have.                                            *)
Assembles(g, v, sources) ==
    /\ {a.of : a \in sources} = LoadStates(v)
    /\ \A a \in sources :
          /\ \A e \in ToClass(g, a) : EntryClass(copiesFrom[g], a.of, e[1]) # "refuse"
          /\ \E e \in ToCopy(g, a) : \A b \in sources :
                Precedes(StateOrder, b.of, a.of) => e[1] \notin {f[1] : f \in ToCopy(g, b)}
          /\ \A b \in sources :
                /\ a.of = b.of => a = b
                /\ \A e \in ToCopy(g, a), f \in ToCopy(g, b) : e[1] = f[1] => e = f

NationalEntries(g, v, runs, sources) ==
    Regenerated(g, v, runs) \cup UNION {ToCopy(g, a) : a \in sources}
=============================================================================
