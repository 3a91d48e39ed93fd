# conagua-etl in TLA+

This directory models the parts of `conagua-etl` whose correctness depends on
order, interruption and repetition, and the algorithms that carry something from
one line, row or answer to the next. Four parts share no module:

- the snapshot: `pull`, `mirror` and the pacing of requests, proved;
- the warehouse: `ingest`, `power` and `validate` over one database, proved;
- the deposit: the directory `publish` builds, proved;
- the readings: the parsers, the rules, the POWER client and the parity gates,
  proved.

Sections: inventory, modules, runs, bounds, fairness, proofs, what is
abstracted, what the code does that a reader may not expect, not modelled, plan.

## Inventory

The program is one binary with six verbs run by hand, usually one process at a
time; on the database nothing keeps two from running at once.
They communicate through durable state only: the snapshot directory (or
bucket), the SQLite database, and the deposit directory.

| Component | State it keeps | Operations | What is hard |
|---|---|---|---|
| `snapshot/progress.go`, the ledger | `_progress.json`, and its copy in memory under a mutex | LoadOrInit, UpsertStation, RecordFile, ShouldSkip, Flush, MarkCompleted | flush marshals under the lock, writes without it; crash between a verdict and its flush |
| `snapshot/manifest.go`, the index | `_index.json`, locally and in the bucket | WriteIndex, MirrorIndexToSink, LoadSnapshot | three documents that may disagree after a partial failure |
| `snapshot/localfs.go`, `r2.go`, the sinks | the bodies, temp residue | Exists, Get, Put, FetchIndex | atomic rename; an upload whose acknowledgement is lost |
| `fetcher/fetcher.go`, `retry.go` | the task in hand, its attempt | Run, handle, attempt, isRetryable | cancellation at every wait; retries that overwrite |
| `fetcher/rate.go`, the limiter | count, nextRestAt, the generator | NextWait, Wait | clamping order, rest cadence off by one |
| `cmd/pull.go` | the plan, the flusher goroutine | runPull, finalizeSnapshot | dispatch loop and flusher share the ledger; the exit order |
| `cmd/mirror.go` | a worker pool, the local copy | runMirror, mirrorOne | workers against cancellation; never overwrite, never leave an unverified body |
| `internal/ingest` | stations, normals, daily rows, warnings, `ingest_runs` | Run, seed, one transaction per station, WMO scores | crash between transactions, rows that outlive their snapshot |
| `internal/power` | cells, supplements, `power_runs` | Run, openRun, upsertCells, per-cell transaction, closeRun, Fetch | cancellation against the last cell, counters only in memory until closed |
| `internal/validate` | `parse_warnings` of its own, closes orphan runs | Run, 12 rules, Gate | findings written once at the end, a threshold on wall time |
| `internal/publish`, `internal/archive` | the deposit directory, a temp directory | Run: gate, archives, documents, manifest, checksums, verification | partial rebuilds over an older deposit |
| `internal/conagua` | a reader's place: pending number, section, rows so far | FetchCatalog, FetchFile, ParseHeader, ParseDaily, ParseNormals | what is carried from a line to the next |
| `internal/parity` | tallies, capped samples, a worker pool | the gates over two databases or snapshots | alignment by a rendered key, exact totals beside capped lists |
| `internal/schema` | the connection | Open, the tables | one writer at a time |
| `internal/envfile`, flags, renderers | none | parsing, text | nothing concurrent |

Interactions. `pull` writes bodies through a sink, verdicts through the ledger,
and the index at the end. `mirror` and `ingest` read the index or the ledger and
the bodies. `ingest` and `power` write the database, each with a run row that
says running, complete or aborted. `validate` reads those rows, closes stranded
ones, and its gate is what `publish` asks before it builds.

What makes each correct. Ledger and pull: documents never contradict the
bodies, verdicts are never undone, nothing answered is asked again, every run
ends and re-running converges. Pacing: never above five requests per second, a
rest at least every so many requests. Mirror: a local file is either absent or
has the digest of the index, or is somebody else's and untouched. Ingest and
power: a complete run's rows are those of its inputs, whatever was interrupted.
Publish: checksums and manifest describe the files beside them, and a national
archive holds one content for each path. Readers: the result is the one a
definition over the whole input gives, whatever was carried on the way.

The hazards, each at its line with the properties that cover it, are in
`PROJECT.json`.

## Modules

The snapshot.

- `Ledger`: the ledger document and its operations as operators. An entry keeps
  `outcome`, `sha256` and `last_error`, the fields whose value decides what a
  verb does or that the properties name. A pair the document does not list has
  the entry `Absent`.
- `Snapshot`: the abstract promise. Two variables, the stored bodies and the
  durable records; a body is stored only while its record is open, a record is
  made only if the stored body justifies it, and a settled record never changes.
- `Pull`: the verb, the fetcher, the sinks and the flusher, over any number of
  processes one after another. Durable variables are `sink`, `disk`
  (`_progress.json`), `index`, `bucketIndex`, `residue`; the rest is the
  process's. `pc` follows the dispatch goroutine from `runPull` into
  `Fetcher.Run`, `handle` and `attempt` and back through the drain to
  `finalizeSnapshot` or the plain flush; `flusher` follows the other goroutine
  between marshalling and renaming. `Cancel` (a signal) and `Crash` are enabled
  at every step. `Remote` chooses the sink; `Faults` names the operations that
  may fail in an instance (it bounds runs, the theorems hold for every value).
- `PullLive`: `Pull` with a bounded number of interrupts and fairness.
- `Pacing`: catalog requests and paced requests of one run after another; `gap`
  is the time between the last two, `served` the paced requests since a rest.
- `Mirror`: the mirror verb, over `Ledger`'s documents. `pc` and `todo` are the
  feeder on its unbuffered channel; `at`, `hand`, `stream` and `status` are the
  workers, each from the channel through `hashLocalFile`, `Sink.Get`, the copy
  and the rename to the report; `tally` is the renderer's. A run starts from any
  bodies and documents a snapshot's directories may hold. When the documents
  were written by a pull to the bucket they are true of the bucket (`TrueOf`,
  which is `RecordsHonest` of `Pull`).
- `PullProofs` (the ledger's operations first), `PacingProofs`, `MirrorProofs`:
  lemmas and theorems.

The warehouse: three verbs and a gate over one database.

- `StationData`: what a file of a station amounts to (`Result`), what upserting
  it does to a table (`Upserted`), and the columns derived from a station's
  tables, years and WMO scores. A row is the reading it carries.
- `Database`: the tables, SQLite's write lock, the run tables with their status
  and age, and the references the schema declares. Foreign keys are off.
- `Ingest`: seed, run row, one transaction per station over its files, close;
  statements that fail, a context that dies, a process that is killed. What a
  transaction has written is `draft` until it commits.
- `Power`: stations read once, run row, cells and links, one transaction per
  cell, close; the counters live in the process until then.
- `Validate`: the verb (clear, orphan runs, rules, one batch of findings) and the
  gate of `publish`, whose rules read whatever is committed between two of them.
- `StationStore`: the promise of ingest without transactions, order or failures:
  the observed tables change by whole files of one station, the years, scores
  and warnings with them.
- `Warehouse`: the composition, with `DayPasses` for the orphan threshold.
  `Warehouse` implements `StationStore`.
- `WarehouseProofs`: the types and what each verb leaves alone; references, run
  rows, accounts and the gate; what a station's transaction leaves, and the
  refinement.

The deposit.

- `Artifacts`: which entries an archive holds, as functions of views of the
  database: a state's archives, and the national ones that copy their files.
- `Deposit`: a build from its flags to `verifyOutDir`, every fail-soft and every
  fatal path, kills, re-runs into the same directory with other flags, another
  process's commits and files that come from elsewhere. A file is the record of
  what its bytes are a function of; equal records have equal digests. What is
  still to be built is a set, `left`; `Due` and `Sooner` pick from it in the
  code's order: state after state, group after group, national archives,
  documents.
- `DepositProofs`: theorems on both.

The readings: four readers that keep a place and what they have gathered.

- `Parsers`: header, daily rows, normals' sections and a catalog's rows, one
  action per line.
- `Rules`: the rules of `validate` on values, one action per row of their query.
- `Retrieval`: one cell from POWER: validation, batches, retries, merge, means,
  rows.
- `Comparison`: the parity gates: two ordered slices merged by a rendered key, a
  union of keys walked, links, multisets of warnings, two manifests, and two
  snapshots under a worker pool.
- `Readings`: what each of them promises, defined over the whole input at once
  without reusing the walk. One reader runs in a behaviour; they share nothing.
- `ReadingProofs`: `Retrieval` and `Parsers`. `RuleProofs` and `ComparisonProofs`
  build on it: each reader's steps leave the other three alone, so a property of
  one is proved of the behaviours in which it runs.

`MCPull`, `MCPullLive`, `MCPacing`, `MCMirror`, `MCWarehouse`, `MCDeposit` and
`MCReadings` hold the instances: model values, small sets, symmetry.

A definition marked "a slip of", or standing under "slips", is an operator or an
action as a plausible mistake would leave it. Nothing uses it; it is there to show that a property
notices the mistake (the pairs are the "mutants" of `PROJECT.json`).

## Runs

| Run | Instance | Shows |
|---|---|---|
| `PullLocal.cfg` | 2 files, 2 bodies, 2 attempts, local sink, failing heads, puts, flushes, indexes | all invariants and action properties of `Pull` |
| `PullRemote.cfg` | the same with the bucket, failing puts, lost acknowledgements, failing index copy | `SnapshotSpec` (refinement), `PullInv` |
| `PullLive.cfg` | 2 files, 1 body, 2 attempts, 1 interrupt | `RunTerminates`, `Converges` |
| `Pacing.cfg` | floor 2, cap 1, rests every 2..4 requests, samples from -2 to 9 | `NeverExceedsCap`, rests |
| `Mirror.cfg` | 2 files, 2 bodies, 2 workers, 3 documents, every operation failing, damaged streams | `CleanExit`, `LandsVerified`, `Accounted`, `MirrorInv`, `MirrorEnds` |
| `Warehouse.cfg` | 2 stations, 3 kinds, 2 snapshots, 2 cells, 2 spans, 4 events | the ingest implements `StationStore`; references, run rows, accounts and the gate under every interleaving |
| `Deposit.cfg` | 3 states, 4 stations, 3 views, 3 requests, 3 events | `Vouched`, `SealLast`, `CopiesAgree`, `WholeCountry` |
| `Readings.cfg` | files of up to 4 lines, tables, requests and pairs of sides over small alphabets | `ParsedAsPublished`, `Flagged`, `FetchedWhole`, `Compared` |
| `PullDigests.cfg` | no fault at all, only a crash | violated: `EveryBodyDigested` |
| `PullResidue.cfg` | a crash inside a write | violated: `ConvergenceCleans` |
| `PacingCatalog.cfg` | `--catalog-delay 0` | violated: `NeverExceedsCap` |
| `MirrorSkipped.cfg` | an index with a `skipped_existing` file, no fault | violated: `BringsBack` |

What the three later runs show.

Warehouse. `References`: no table names a station, a cell or a run that is not
there, at any moment. `ImplementsStore`: derived columns and warnings are never
staler than the rows (a score of a file the snapshot lost may also be NULL). `CompleteMeans`: a row becomes complete by its own process,
after every target; with none failed, every selected file is in the tables,
whatever earlier runs left half-done. `PowerAccounts`: the counters that are
closed add up and equal the rows that bear the run's id. `OnlyOldRowsReaped`: the
orphan rule touches no row younger than the threshold. `OrphansClosed`: what is
reported as orphaned was old and is closed. `GateQuiet`: a gate that passes on a
database nobody touched meanwhile leaves no run open and names the deposit after
the latest complete one.

Deposit. `Vouched`: a build that ends well leaves exactly CHECKSUMS and what it
lists, as listed, and a manifest of the same files, whatever lay there before.
`SealLast`: when CHECKSUMS is written every planned file is listed or gone.
`CopiesAgree`: while CHECKSUMS verifies, a national copy was made of the state
archives beside it, one of every state. `WholeCountry`: on a quiet database it is
what reading the whole country at once would give. `TypeOK` also says which
hidden names may exist when.

Readings. Each property sets the end of a walk against a definition by sets over
the whole input, and says of a refused input why it was refused.

The four violated runs are disagreements between the text and the code:

- `EveryBodyDigested`: `README.md` says the sha256 of every downloaded file is
  recorded. A body stored just before a crash is found by the next run, recorded
  `skipped_existing`, and gets no digest (`fetcher.go`, `handle`).
- `ConvergenceCleans`: `publish/raw.go` tells an operator who meets a temp file
  to "re-run pull to convergence or remove it". Re-running does not remove it.
- `NeverExceedsCap` with no catalog delay: `README.md` says the rate "can never
  exceed five per second whatever the flags say". The catalog pages are spaced
  by `--catalog-delay` alone, which may be zero. At the default it holds, and
  it is proved for every delay not below the floor.
- `BringsBack`: `README.md` says that mirror "brings an R2 snapshot back to the
  local root", and `buildMirrorEntries` excludes what has "no stored body". A
  file recorded `skipped_existing` has one, is excluded too, and the run exits 0.
  This is the next link after `EveryBodyDigested`: the body without a digest is
  the one that is not brought back.

Of two more disagreements nothing is checked; the properties hold either way.

- Scores of a lost file. The comment on `StoreWMOCompleteness`
  (`ingest/wmo.go:147`) says that a re-ingest "whose snapshot lost a period's
  normals file correctly resets the column from a stale prior score back to
  NULL". Rows are upserted and never deleted, and the score is read from the rows,
  so the code writes it again, and a test wants it so (`golden_test.go:437`).
  `StationStore` lets such a period keep the score of the stored rows or have
  none, and `ImplementsStore` with it; `Ingest` does what the code does.
- Lines of a daily file's warnings. `conagua/daily.go:33` says that they are "keyed
  to positions in the full source file" and that the ingest hands in how many
  lines the header took. `ingest/daily.go:100` hands in 0, so the code counts
  from the end of the header. `ParsedAsPublished` takes either start, the same for
  all of a file's days; `Parsers` does what the code does.

`BodiesWriteOnce` ("a dated snapshot is never modified") is checked for the
local sink only. In a bucket an upload that was performed but not acknowledged
is repeated with whatever the server then serves; the record is still honest.

## Bounds

Why the bounds are enough. Two files are one in hand and one recorded or
waiting, which is all the interference there is between tasks: they are handled
one at a time and share only the document. Two bodies are what a repeated
upload needs to be observable, two attempts what a retry needs, and the number
of processes, crashes and interrupts is unbounded in the safety runs. Symmetry
is used in the safety runs only. In `Pacing` the samples lie below the floor,
between the bounds, above the cap and below zero; the cap is put below the
floor on purpose, since the limiter promises the floor even then.

In `Mirror` two workers are what a race needs, and with two files one can be
waiting, in hand or done while the other is; the documents have both files
fetched, one pending, one without a digest, and the local root starts with any
body, the right one, a wrong one or none, at each path.

In `Warehouse` the first snapshot puts s1 in one cell; the second moves it to
another, has lost one of its files, cannot parse s2's, and has a header that
names another station and impossible coordinates. One run takes both stations
and all kinds, one a single kind of a single station: what `--kind` and
`--external-id` do to scores and targets. `MaxEvents` counts opened runs,
failures, cancellations, kills, days that pass and processes at work beside the
first. Four are two overlapping runs with a mishap each, or a run that is killed,
reaped and run again, or four runs one after another; a longer behaviour repeats
these, since a run reads only the tables and the rows it opened itself. The
database is the only thing that fails in ingest (`sink` has the same effect,
`StationFails`) and the API in power.

In `Deposit` two states share a cell, a third appears with a commit, and a
commit may come between a list and its rows. `MaxEvents` counts faults, kills,
commits and foreign files. The flags are a country with tables, one with JSON
alone, and one state, so that one build finds another's files in its way.

In `Readings` an alphabet has a member for each branch of a reader: a number with
and without its units, malformed, missing, titles that are kept and not. A
month has 8 days with thresholds 4 and 3 for 31 with 11 and 5; a z-score
needs 10 readings rather than 30; normals have two months. A table has up to three rows with
two columns, a sample cap of 2 and keys whose numeric and textual orders differ.
A request has 1 to 3 parameters in batches of 2 or fewer with 4 attempts, over
two years or two months of days, and a thirteenth month.

## Fairness

`PullLive` assumes weak fairness of the dispatch goroutine (every wait, request
and write ends: the HTTP client has a timeout, calls of the sinks return), weak
fairness of the flusher's rename, and strong fairness of `Drain`: the flusher's
`select` takes a ready `Done` against a ready ticker with even odds, so it
cannot go on flushing for ever while the run waits for it. Nothing is assumed of
`FlushMarshal`, of `Cancel` or of `Crash`. For `Converges` the operator re-runs
the full pull again and again (strong fairness of `Rerun`), whatever other runs
he makes in between, and interrupts stop some day (`MaxInterrupts`): a system
interrupted for ever need not converge. The run injects failing puts and temp residue;
failing flushes are left out, since a disk that fails for ever never converges.

`Mirror` assumes weak fairness of the feeder and of each worker: goroutines are
scheduled, and every read, transfer and rename ends (the bucket's client returns
an error, and `ctxReader` cuts a copy when the context dies). Nothing is assumed
of a start, of `Cancel`, `Crash` or `Delete`.

The later runs check safety only. Nothing in the code bounds how long a verb may
wait for SQLite's lock or for POWER beyond its timeouts, and an operator decides
whether it is run again.

## Proofs

`tlapm` checks all proofs, from the named assumptions on the constants only, for
any sets of files, stations, cells, states and views, any lines, tables,
requests and sides that have the shapes named below, any faults, and any number
of runs, interrupts, kills and workers. All safety properties of the runs that
pass are stated by a theorem.

| Module | Theorem (property of a run) |
|---|---|
| `PullProofs` | what each ledger operation leaves, `RecordFileEntry` first; `TypeCorrect`, `Inductive` (`PullInv`), `Honesty` (`RecordsHonest`), `InterruptsLeaveNoVerdict` (`NoCasualtyRecorded`), `VerdictsStay` (`VerdictsFinal`), `NothingRefetched` (`NoRefetch`), `ExitsSaved` (`ExitSaved`), `CompletionEarned` (`CompletionSettles`), `BodiesStay` (`BodiesWriteOnce`), `Implements` (`SnapshotSpec`) |
| `PacingProofs` | `PacingInductive` (`PacingInv`), `RestsInTime` (`RestsComeInTime`), `RestsAnnounced` (`RestsAsAnnounced`), `CapHolds` (`NeverExceedsCap`) |
| `MirrorProofs` | `MirrorInductive` (`MirrorInv`), `CleanExits` (`CleanExit`), `LandedVerified` (`LandsVerified`), `EntriesAccounted` (`Accounted`) |
| `WarehouseProofs` | `Types` (`TypeOK`), `NoDangling` (`References`), `OrphansSettled` (`OrphansClosed`), `OldRowsReaped` (`OnlyOldRowsReaped`), `PassedQuiet` (`GateQuiet`), `RunsAccounted` (`PowerAccounts`), `CompleteReflects` (`CompleteMeans`), `StoreImplemented` (`ImplementsStore`), `DerivedKept` |
| `DepositProofs` | `Types` (`TypeOK`), `RunVouches` (`Vouched`), `ChecksumsSeal` (`SealLast`), `CopiesOfWhatIsListed` (`CopiesAgree`), `CopiesAreTheCountry` (`WholeCountry`) |
| `ReadingProofs` | `CellIsWhole` (`FetchedWhole`), `FileAsPublished` (`ParsedAsPublished`) |
| `RuleProofs` | `RuleReportsAll` (`Flagged`) |
| `ComparisonProofs` | `SidesComparedWhole` (`Compared`) |

TLC evaluates every assumption in the runs. Those that say more than a type:

- `IntervalAssumption`, `RestAssumption`: the floor is positive and the bounds of
  a rest are in order, as the rate's validation has them (`fetcher/rate.go:97`). `CapHolds`
  also assumes `CatalogDelay >= MinInterval`, without which it is false.
- `ManifestAssumption`: the kinds a run is asked for do not repeat
  (`resolveKinds`, `ingest/ingest.go:529`).
- `RulesAssumption`: the gate's rules include the two that read the run ledgers,
  as the gate's list does (`validate/gate.go`).
- `SlugsAssumption`, `DepositAssumption`: no state's slug is `all` or `top`, and
  no document is named like the manifest, CHECKSUMS or an archive.
- `ViewsAssumption`: there is a first view, and a station's cell is one of the
  view's, which is what `References` says of the database.
- `RequestsAssumption`: a request's dates are whole years or have dashes, as the
  verb's flags are parsed (`cmd/power.go:116`), and the keys POWER answers with
  are tuples of numbers.
- `InputsAssumption`: files are sequences of lines and pages sequences of rows.
- `CasesAssumption`: a table is finite, its rows have the columns its rule reads,
  and no two have the schema's primary key in common.
- `JobsAssumption`: the sides are finite, keyed by numbers or by a period and a
  month; rows of one key have the same columns, a multiset counts nothing zero
  times, and files that parse have the same header fields.

### Pull

`RecordsHonest` is not inductive: a put replaces a body,
which is harmless only because no document says anything of the file being
fetched (`OpenInHand`); that follows from the plan containing only files open in
memory (`PlanOpen`) together with the documents on disk and in the flusher's
hands being behind the one in memory (`Lineage`), which is where the code's rule
"one flusher, waited for before anyone else writes" enters. The verdict on its
way to the ledger must be true before it is recorded (`VerdictTrue`). `Lineage`
also gives `VerdictsFinal`: whatever is renamed over `_progress.json` is ahead
of what was there. The refinement maps a put to `Store`, a rename of the ledger
to `Commit`, everything else to a stutter; `OpenInHand` and `Honest` are what
those two need.

A second invariant, `PlanInv`, is about the plan rather than the documents. What
is left of it is open in memory under the flags of this run (`Planned`), hence on
disk by `Lineage`; and a body is asked for only if none was stored when the task
began (`Unstored`). The two are `NoRefetch`, and `Unstored` is `BodiesWriteOnce`
where no upload can be lost. `Saved` says that nothing writes the ledger after
the last flush, and `Reaching` that a wanted file is planned, in hand or settled
until the drain, where an uncancelled run has nothing left.

### Pacing

The limiter counts a request when it draws its wait, so
`count` and the requests really sent differ by one while a wait is being slept
(`CountsServed`); with `count <= nextRestAt` that bounds the requests between
rests, and `until` is the announced distance.

### Mirror

A worker acts on what it has found out some steps
before: that the path was empty, that the copied body had the right digest, that
the body in place matched. `Landing` says each of these still holds when it is
used. It is preserved because an entry is with one worker or with the feeder and
never with two (`HandedOnce`), so nobody else writes that path, and because a
rename keeps every other match (`MatchesStays`). `CleanExit` then needs that no
entry is lost on the way (`NothingLost`): it leaves the feeder for a hand, and a
hand only when it matches, when an error is counted or when the context is dead.
`Accounted` is a sum: results counted, entries in hands and entries to feed are
the entries of the document (`Balanced`), which each step of a worker moves by
one. Mismatches are bounded by `Contradicted`, the wrong bodies in place, and no
step of a worker changes that set.

### Warehouse

`TypeInv` carries who may hold the write lock and that a process past its
opening has a row of its own in the run table.

`References` is not inductive for power: the links and the rows of a cell are
written long after the stations were read, in another transaction than the cell.
`PowerRefs` says what its process relies on: the stations it read are known for
ever, and from the loop on every cell it maps is in the grid.

Two processes may settle one run row, its own and a validate that takes it for
dead. `Grows` is what any step does to a ledger: no row goes, grows young or is
opened again. `OwnRuns` says that the row of a live process is running unless it
is overdue, and `FoundOld` that whatever the reconciler has picked, or found, is
overdue, and closed before it is reported. Together they give
`OnlyOldRowsReaped` and `OrphansClosed`.

A gate reads one rule after another while others commit. `ReadSoFar` says that
as long as nobody did, no rule read so far fails now, and that the snapshot
chosen is still the latest.

`Accounts` has the sum of a power run's loop: of the cells chosen within the
budget, those tried and those left; of those tried, those that went either way
and the one at hand; and no row bears the run's id for a cell still left.

`ImplementsStore`: `Drafted` says that the draft of an open transaction is what
is committed with the files taken so far, and what is left of them the tail of
the files selected. It holds only because the lock keeps others from the tables
while a draft is open and because no kind is taken twice. A commit is then the
abstract step for the whole of the files selected (`CommitLands`), every other
step a stutter on the observed tables. `Counted` follows the loop for
`CompleteMeans`: with no failure, each station behind it is in the tables.

### Deposit

`Settled` is the invariant of a run: each artifact of its plan is still to be
made, or lies under its name as the run lists it, or failed and is not there
(`Kept`, `Dropped`, `Accounted`), and towards the end the manifest and CHECKSUMS
are of that list (`Closing`). Older files in the directory are never part of it,
which is why `Vouched` does not depend on what lay there.

`CopiesAgree` rests on the order of the plan. `Copying` says that once a national
copy exists no state's archive is left to be made, and that its sources are those its
run lists, one of every state; `RegeneratedOnce` that the paths a copy generates
itself have one entry each.

`WholeCountry` adds `Still`, that in a quiet run all that was read was read of one
view, and computes the entries: what the states' archives hold apart from what
is regenerated is, group by group, what one archive of all states would hold
(`TabularCopies`, `JSONCopies`, from `UnitsOfStates` and `ProfilesOfStates`).

### Readings

`Readings` defines its promises over the whole input: sums, sizes, ranks, folds.
The proofs say what a walk has gathered at each of its places, and meet such a
definition at the end. Where a value over a set would be shown by induction, they
take a smallest subset, or a least place, at which it fails, and find a smaller.

Retrieval. `GetInv`: a good answer is of a batch behind the one at hand and gave
the fill value in use (`Logged`); every batch behind has one (`AnsweredBefore`);
the last question is of the batch at hand or of the one before (`Follows`), and
its attempts are those counted (`Attempted`); and what is merged is the series of
the batches answered so far (`Merged`). When all are answered,
`InItsBatch` says that every parameter was in one of them, and in no other.

Parsers. `ParseInv` is of a file or of a page. Of a file it says that the header
in hand is what the lines so far give, that an open wrap is that of the last
label (`HeaderInv`), and below the header that rows, section and slots are those
of the lines of the body read (`BodyInv`). One more line is by cases on its kind.

Rules. `ScanInv`: the findings are those of the rows behind the walk (`Walked`),
in the order of the query. The sample a message quotes is the first of them in
that order, because rows of one station, taken in the query's order, keep the
order the sample asks for. The gap carried by the rule on missing days is the run
of missing days that ends at the last day read, and its maximum the longest run so
far. The variance is computed from a sum and a sum of squares; `Readings` has it
by deviations, and the two agree as sums over any finite set.

Comparison. `CompareInv` has a case for each of the places a gate can be in.

- Two ordered slices (`MergeInv`): the keys behind both heads are those of the
  walk so far, and the tally is theirs, in key order. Of two rows the one whose
  rendered key is the lesser goes first, and if neither is, they have one key.
- A union of keys, links and multisets (`UnionInv`): the tally is that of the keys
  taken, the samples their first, and what is left over is counted by sums.
- The pool (`FeedingInv`): as long as the context lives, a station handed out has
  its outcome or is in one worker's hand (`FedInto`). Of a cancelled
  pool nothing is reported.
- The reduction (`ReducingInv`): outcomes are merged in the order of stations,
  whatever order they came in, and the findings of one kind are those of the
  stations so far, one station's behind another's (`KindSoFar`, `OutcomeFits`),
  cut at the cap but counted whole.

### Only model-checked

`RunTerminates`, `Converges` and `MirrorEnds`: liveness needs fairness and ENABLED,
which the provers do not treat.

## What is abstracted

The snapshot.

- URLs, sizes, times, HTTP codes and the run header of the ledger (seed, rate
  configuration, counts) are left out: no control of a verb reads them back.
- The order of the task list is any order, and each (station, kind) pair occurs
  once: a catalog that listed a station in two states would yield two tasks for
  it, which the code does not filter and the model does not have.
- A wait is a step in `Pull`; its length is `Pacing`'s. `Pacing` says nothing
  of the time between the last request of one run and the first of the next.
- A crash is the death of the process. What was renamed stays renamed: losses
  of an operating system crash (no fsync is called) are not modelled.
- The two goroutines interleave at the points where the ledger is locked,
  written or renamed; a marshal under the mutex is atomic.
- The bucket answers consistently: an object once stored is seen by the next
  head request. A lost acknowledgement is the only half-done upload.
- The temp files of `mirrorOne` are left out: they never have a final path, and
  every failing exit removes its own. A crashed mirror may leave one, as a
  crashed pull does (`ConvergenceCleans`).
- Nobody else changes the local root or the bucket while mirror runs; between
  runs the operator may delete bodies.
- Two processes never pull the same snapshot at once: nothing in the program
  guards against it, and nothing in its text allows it.

The warehouse.

- A table of a station is a row of readings by slot. Ids, timestamps and texts
  are left out; a run row is its status, its age, what it was asked and its report.
- SQLite is a write lock and committed states. A writer that finds the
  lock taken waits for a while, or fails, at any moment.
- A cell's rows carry the id of the run that wrote them and nothing else, since
  that is what references and accounts are about. Values are in `Retrieval`.
- The rules that read values are one rule here (`bbox`), for its place between
  the others; what they find is in `Rules`.
- Power is asked for dashed dates, as its verb does (`cmd/power.go:116`).

The deposit.

- All views of the database lie in one snapshot date. Counts and quality loads are
  one read, and the time of a build is not part of a file's record.
- The archive named after the snapshot's date, zip encoding and the checks on
  entry paths are left out.

The readings.

- A line is what the reader's patterns make of it; mojibake and the HTML tree
  are decoded beforehand. Aliases of a header key are one name.
- Of the z-score's columns one is modelled. The queries are sets in their
  documented order; an error of a query ends a walk and is not modelled.
- A mean is a sum and a count; of a direction, the angles themselves.
- A drift has one cell. Gates that only look at presence are a table without
  columns. Of a run's manifest its fields are compared: one that is NULL or cannot
  be parsed is a field that differs, and rebuilding the example URL is left out.
  A finding is a function from its key, since the order in which the
  code emits them comes from a map.

## What the code does that a reader may not expect

No finding is made of these; the model has them as the code does.

- A section title right below a header with no blank between ends the header and
  is not read as a title.
- A station moved by its header is in another cell; the old rows keep the id of
  the old run, which shares its label with the new one, and the gate refuses
  until they are overwritten or removed.
- A cancellation during the last station or cell ends the loop normally: the run
  is complete with that one counted as failed.
- A monthly cell may write fewer than the 12 rows of which `power/run.go:109`
  speaks: `writeSupplement` skips a month whose values are all NULL.
- A reaped run that is still alive overwrites `aborted` when it closes.
- `complete` does not say which kinds or stations were asked for, and a deposit
  is named after the latest complete run even if tables mix snapshots.
- A validate that fails after closing an orphan leaves no record of it.
- Warnings are keyed by a source file whose name has the snapshot's date, so those
  of an older snapshot survive a newer one.
- The rule on missing days looks at months with at least one reading.
- A publish reads the database through a read-only handle, which holds nobody
  else off: archives may be of different commits (`WholeCountry` asks for a
  quiet one; `CopiesAgree` does not).
- A build that stops early over an older deposit leaves the older manifest and
  CHECKSUMS, which then do not verify; a killed one leaves hidden names that the
  next refuses (`checkOutDir`).

## Not modelled

- The texts: README, data dictionary, quality report, profile and their numbers
  (`publish/docs.go`, `dictionary.go`, `qa.go`, `profile.go`), renderers, progress
  lines. They are functions of one read of the database with no state, and what
  they promise is wording and arithmetic over SQL; the loads and how a failed one
  keeps a document from being written are in `Deposit`.
- Formats of others: zip, Parquet, SQLite's file, S3 requests, HTTP.
- The DDL parser and the column precisions of `schema`, which serve the
  dictionary; the environment file; flags beyond the constants of a run.
- `HaversineKm` and the trigonometry of a circular mean: real arithmetic.
- Four hazards have no property: the width of the mean interval
  (`rate.go:107`), a float conversion; the run header of the ledger
  (`progress.go:165`), which no verb reads back; the count and the samples of
  fill leaks in two queries (`rule_anchors.go:343`), whose disagreement would
  show in a message only; the lines of a daily file's warnings
  (`ingest/daily.go:100`), on which code and comment differ.

## Plan

1. Done: `Ledger`, `Snapshot`, `Pull`, `PullLive`, `Pacing`, their proofs.
2. Done: `Mirror` and its proofs.
3. Done: `Ingest`, `Power`, `Validate`, `Warehouse`, with `StationStore` as what
   the ingest implements.
4. Done: `Artifacts`, `Deposit`.
5. Done: `Parsers`, `Rules`, `Retrieval`, `Comparison` against `Readings`.
6. Done: the proofs of `Warehouse`, of `Deposit`, and of what was left of `Pull`
   and `Mirror`.
7. Done: the proofs of the readings.
8. Not planned: a run header in `Ledger`, the width of the mean interval.
