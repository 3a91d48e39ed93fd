------------------------------- MODULE Deposit -------------------------------
(***************************************************************************)
(* The publish run (internal/publish Run, internal/archive): one directory *)
(* is filled with artifacts, one after another, each written to a hidden   *)
(* sibling and renamed; an artifact that fails is skipped, a lost          *)
(* connection or an interrupt stops the run, a kill leaves what there is.  *)
(* The manifest and CHECKSUMS close a run that reached its end, and the    *)
(* directory is then held to them.  Meanwhile another process may commit   *)
(* to the database, and anything may put a file in the directory.          *)
(*                                                                         *)
(* A file is the record of what its bytes are a function of: its name, the *)
(* views its lists, rows and ledgers were read from, and the files it was  *)
(* made of.  Equal records have equal digests.                             *)
(***************************************************************************)
EXTENDS Artifacts

CONSTANTS DocsFiles,         \* builtDocsFiles, in write order
          Requests,          \* the verb's flags: --only and --state
          MaxTopLevelFiles,  \* Zenodo's cap
          MaxEvents          \* bound: faults, kills, commits, foreign files

ASSUME DepositAssumption ==
    /\ ToSet(DocsFiles) \cap ToSet(allGroups) = {}
    /\ ToSet(DocsFiles) \cap {"manifest.json", "CHECKSUMS", ".publish.tmp",
                             "foreign", "-"} = {}
    /\ MaxTopLevelFiles \in Nat /\ MaxEvents \in Nat
    /\ \A r \in Requests : r.only \subseteq ToSet(allGroups)

VARIABLES dir,      \* the files of the directory, by name
          residue,  \* the names of the hidden ones: temp siblings, temp dirs
          now,      \* which view the database is at
          publish,  \* the run
          events

vars == <<dir, residue, now, publish, events>>

View == Views[now]

(* An archive is named for its scope and its group; the other files are     *)
(* under "top".                                                             *)
Top(name)   == <<"top", name>>
Manifest    == Top("manifest.json")
CHECKSUMS   == Top("CHECKSUMS")
RunTemp     == Top(".publish.tmp")
Foreign     == Top("foreign")
IsArchive(name) == name[1] # "top"
Group(name)     == name[2]

NoName == Top("-")
Absent == [of |-> NoName]
Present == {n \in DOMAIN dir : dir[n] # Absent}

Where(g)  == IF PerState(g) THEN SlugSet ELSE {All}
Names == (UNION {{<<w, g>> : w \in Where(g)} : g \in ToSet(allGroups) \ {"docs"}})
           \cup {Top(n) : n \in ToSet(DocsFiles)} \cup {Manifest, CHECKSUMS, Foreign}

Off == [at |-> "off"]
AtWork == publish.at \notin {"off", "done", "failed"}

(* What a run plans: an archive of each state for each per-state group, the *)
(* national archives, the docs, the manifest and CHECKSUMS.                 *)
ArchivePlan(groups, states) ==
    (states \X {g \in groups : PerState(g)})
      \cup ({All} \X {g \in groups : FullRunOnly(g)})
DocsPlan(groups) == IF "docs" \in groups THEN {Top(n) : n \in ToSet(DocsFiles)} ELSE {}
PlannedNames(groups, states) ==
    ArchivePlan(groups, states) \cup DocsPlan(groups) \cup {Manifest, CHECKSUMS}

(* The build order: state after state, then the national archives.          *)
Sooner(m, n) ==
    LET g == Group(m)  h == Group(n) IN
    \/ PerState(g) /\ FullRunOnly(h)
    \/ PerState(g) /\ PerState(h) /\ Precedes(StateOrder, m[1], n[1])
    \/ m[1] = n[1] /\ (Precedes(allGroups, g, h) \/ Precedes(DocsFiles, g, h))

(* The bytes of an archive.                                                 *)
StateArchive(file) ==
    [of |-> file.of[1],
     entries |-> IF Group(file.of) = "tabular"
                 THEN TabularEntries(Views[file.lists], Views[file.rows],
                                     Views[file.runs], file.of[1])
                 ELSE JSONEntries(Views[file.lists], Views[file.rows],
                                  Views[file.runs], file.of[1])]
StateArchives(files) == {StateArchive(f) : f \in files}

(* What a copy-built archive is made of: the state archives of its source   *)
(* group that this run built.                                               *)
Built == publish.files
Sources(g) == IF Copies(g)
              THEN {f \in Built : Group(f.of) = copiesFrom[g]} ELSE {}
SourceFailed(g) == Copies(g) /\ \E n \in publish.failed : Group(n) = copiesFrom[g]

Init == /\ dir = [n \in Names |-> Absent]
        /\ residue = {}
        /\ now = 1
        /\ publish = Off
        /\ events = 0

Counted == events' = events + 1 /\ events < MaxEvents

-----------------------------------------------------------------------------
PublishStart(request) ==
    /\ ~AtWork
    /\ Resolvable(request.only, request.states # {})
    /\ request.states \subseteq SlugSet
    /\ publish' = [at |-> "check",
                   groups |-> ResolveOnly(request.only, request.states # {}),
                   wanted |-> request.states, states |-> {}, phase |-> "archives",
                   left |-> {}, name |-> NoName, lists |-> 0, runs |-> 0,
                   counts |-> 0, held |-> {}, files |-> {}, failed |-> {},
                   calm |-> TRUE, ctx |-> "live"]
    /\ UNCHANGED <<dir, residue, now, events>>

(* The gate, an unknown state, a missing snapshot: refused as it started.   *)
PublishRefused ==
    /\ publish.at \in {"check", "runs", "temp"}
    /\ publish' = [publish EXCEPT !.at = "failed"]
    /\ UNCHANGED <<dir, residue, now, events>>

Resolved == IF publish.wanted = {} THEN LoadStates(View)
            ELSE LoadStates(View) \cap publish.wanted

(* checkOutDir: nothing this run will not produce, hidden or not.           *)
CheckOutDir ==
    /\ publish.at = "check"
    /\ publish.wanted \subseteq LoadStates(View)
    /\ Present \subseteq PlannedNames(publish.groups, Resolved)
    /\ residue = {}
    /\ publish' = [publish EXCEPT !.at = "runs", !.states = Resolved,
                                  !.left = ArchivePlan(publish.groups, Resolved)]
    /\ UNCHANGED <<dir, residue, now, events>>

(* The run ledgers, once for the archives and the manifest.                 *)
LoadRuns ==
    /\ publish.at = "runs"
    /\ publish' = [publish EXCEPT !.at = "temp", !.runs = now]
    /\ UNCHANGED <<dir, residue, now, events>>

MakeRunTempDir ==
    /\ publish.at = "temp"
    /\ residue' = residue \cup {RunTemp}
    /\ publish' = [publish EXCEPT !.at = "artifact"]
    /\ UNCHANGED <<dir, now, events>>

-----------------------------------------------------------------------------
(* The artifact at work, and the one whose turn it is.                      *)
Name == publish.name
Due(n) == n \in publish.left /\ \A m \in publish.left : ~Sooner(m, n)

(* An archive's lists are read as it is assembled; then its temp sibling.   *)
(* The context is looked at before each artifact.                           *)
ArtifactBegins(n) ==
    /\ publish.at = "artifact"
    /\ publish.ctx = "live"
    /\ Due(n)
    /\ Copies(Group(n)) =>
          /\ ~SourceFailed(Group(n))
          /\ Assembles(Group(n), View, StateArchives(Sources(Group(n))))
    /\ residue' = residue \cup {n}
    /\ publish' = [publish EXCEPT !.at = "write", !.name = n, !.lists = now]
    /\ UNCHANGED <<dir, now, events>>

(* A national archive that cannot be assembled: fail-soft like any other.   *)
AssemblyFails(n) ==
    /\ publish.at = "artifact"
    /\ publish.ctx = "live"
    /\ Due(n)
    /\ Copies(Group(n))
    /\ \/ SourceFailed(Group(n))
       \/ ~Assembles(Group(n), View, StateArchives(Sources(Group(n))))
    /\ publish' = [publish EXCEPT !.at = "stale", !.name = n, !.failed = @ \cup {n}]
    /\ UNCHANGED <<dir, residue, now, events>>

(* The docs are rendered from inputs loaded once, of which some may be held *)
(* as errors: LICENSE needs none.                                           *)
Needs(name) == CASE Group(name) = "README.md" -> {"load", "raw"}
                 [] Group(name) = "LICENSE"   -> {}
                 [] Group(name) \in {"DATA-DICTIONARY.md", "DATA-DICTIONARY.json"}
                      -> {"dictionary"}
                 [] OTHER -> {"load"}
Held == ~IsArchive(Name) /\ Needs(Name) \cap publish.held # {}

Archive == [of |-> Name, lists |-> publish.lists, rows |-> now,
            runs |-> publish.runs, from |-> Sources(Group(Name))]
DocsFile == [of |-> Name, rows |-> publish.counts, runs |-> publish.runs]
Written == IF IsArchive(Name) THEN Archive ELSE DocsFile

(* The rename: the whole file, at once.                                     *)
ArtifactWritten ==
    /\ publish.at = "write"
    /\ ~Held
    /\ dir' = [dir EXCEPT ![Name] = Written]
    /\ residue' = residue \ {Name}
    /\ publish' = [publish EXCEPT !.at = "artifact", !.left = @ \ {Name},
                                  !.name = NoName, !.files = @ \cup {Written}]
    /\ UNCHANGED <<now, events>>

(* A write that fails leaves nothing of its own; the state archives of a    *)
(* copy that cannot be closed fail it after its rename.                     *)
ArtifactFails ==
    /\ publish.at = "write"
    /\ publish.ctx = "live"
    /\ IF Held THEN UNCHANGED events ELSE Counted
    /\ \/ UNCHANGED dir
       \/ /\ IsArchive(Name) /\ Copies(Group(Name))
          /\ dir' = [dir EXCEPT ![Name] = Written]
    /\ residue' = residue \ {Name}
    /\ publish' = [publish EXCEPT !.at = "stale", !.failed = @ \cup {Name}]
    /\ UNCHANGED now

(* A slip of RemoveStale: the prior run's file stays.                       *)
StaleKept ==
    /\ publish.at = "stale"
    /\ publish' = [publish EXCEPT !.at = "artifact", !.left = @ \ {Name},
                                  !.name = NoName]
    /\ UNCHANGED <<dir, residue, now, events>>

(* removeStale: a prior run's file at the path of a failed artifact goes.   *)
RemoveStale ==
    /\ publish.at = "stale"
    /\ dir' = [dir EXCEPT ![Name] = Absent]
    /\ publish' = [publish EXCEPT !.at = "artifact", !.left = @ \ {Name},
                                  !.name = NoName]
    /\ UNCHANGED <<residue, now, events>>

RemoveStaleFails ==
    /\ publish.at = "stale"
    /\ dir[Name] # Absent
    /\ publish' = [publish EXCEPT !.at = "abort", !.name = NoName]
    /\ Counted
    /\ UNCHANGED <<dir, residue, now>>

(* isLoopFatal: the context is dead, or the driver's connection lost.       *)
LoopFatal ==
    /\ \/ publish.at = "artifact" /\ publish.left # {} /\ publish.ctx = "cancelled"
          /\ UNCHANGED events
       \/ publish.at = "write" /\ publish.ctx = "cancelled" /\ UNCHANGED events
       \/ publish.at = "write" /\ publish.ctx = "live" /\ Counted
    /\ residue' = residue \ {Name}
    /\ publish' = [publish EXCEPT !.at = "abort", !.name = NoName]
    /\ UNCHANGED <<dir, now>>

(* The run ends where it stopped: the deferred removal of its temp dir, and *)
(* no manifest, no CHECKSUMS.                                               *)
Abort ==
    /\ publish.at = "abort"
    /\ residue' = residue \ {RunTemp}
    /\ publish' = [publish EXCEPT !.at = "failed"]
    /\ UNCHANGED <<dir, now, events>>
-----------------------------------------------------------------------------
(* A slip of RemoveRunTempDir: its removal is left to the deferred one.     *)
TempLeftToDefer ==
    /\ publish.at = "artifact"
    /\ publish.left = {}
    /\ publish.phase = "archives"
    /\ publish' = [publish EXCEPT !.at = "counts"]
    /\ UNCHANGED <<dir, residue, now, events>>

(* After the archives: the temp directory is removed, the counts are read,  *)
(* the docs' inputs loaded.                                                 *)
RemoveRunTempDir ==
    /\ publish.at = "artifact"
    /\ publish.left = {}
    /\ publish.phase = "archives"
    /\ residue' = residue \ {RunTemp}
    /\ publish' = [publish EXCEPT !.at = "counts"]
    /\ UNCHANGED <<dir, now, events>>

LoadCounts ==
    /\ publish.at = "counts"
    /\ publish.ctx = "live"
    /\ \E held \in SUBSET {"load", "raw", "dictionary"} :
          /\ IF held = {} THEN UNCHANGED events ELSE Counted
          /\ publish' = [publish EXCEPT !.at = "artifact", !.phase = "docs",
                                        !.counts = now, !.held = held,
                                        !.left = DocsPlan(publish.groups)]
    /\ UNCHANGED <<dir, residue, now>>

(* An error of the closing steps is the run's.                              *)
ClosingFails ==
    /\ \/ publish.at \in {"counts", "sums", "verify"}
       \/ publish.at = "artifact" /\ publish.left = {}
    /\ IF publish.ctx = "cancelled" /\ publish.at = "counts"
       THEN UNCHANGED events ELSE Counted
    /\ publish' = [publish EXCEPT !.at = "abort"]
    /\ UNCHANGED <<dir, residue, now>>

Listing(files) == [of |-> Manifest, files |-> files, runs |-> publish.runs,
                   rows |-> publish.counts]

WriteManifest ==
    /\ publish.at = "artifact"
    /\ publish.left = {}
    /\ publish.phase = "docs"
    /\ dir' = [dir EXCEPT ![Manifest] = Listing(publish.files)]
    /\ publish' = [publish EXCEPT !.at = "sums"]
    /\ UNCHANGED <<residue, now, events>>

Sums == [of |-> CHECKSUMS, files |-> publish.files \cup {dir[Manifest]}]

WriteChecksums ==
    /\ publish.at = "sums"
    /\ dir' = [dir EXCEPT ![CHECKSUMS] = Sums]
    /\ publish' = [publish EXCEPT !.at = "verify"]
    /\ UNCHANGED <<residue, now, events>>

(* A slip of VerifyOutDir: only the count is held to its cap.               *)
OnlyCounted ==
    /\ publish.at = "verify"
    /\ publish' = [publish EXCEPT
          !.at = IF Cardinality(Present) <= MaxTopLevelFiles THEN "done" ELSE "failed"]
    /\ UNCHANGED <<dir, residue, now, events>>

(* verifyOutDir: nothing there that CHECKSUMS does not list.                *)
Listed == {f.of : f \in dir[CHECKSUMS].files} \cup {CHECKSUMS}
VerifyOutDir ==
    /\ publish.at = "verify"
    /\ publish' = [publish EXCEPT
          !.at = IF /\ Present \subseteq Listed /\ residue = {}
                    /\ Cardinality(Present) <= MaxTopLevelFiles
                 THEN "done" ELSE "failed"]
    /\ UNCHANGED <<dir, residue, now, events>>

-----------------------------------------------------------------------------
Cancelled ==
    /\ AtWork
    /\ publish.ctx = "live"
    /\ publish' = [publish EXCEPT !.ctx = "cancelled"]
    /\ Counted
    /\ UNCHANGED <<dir, residue, now>>

(* A kill between any two steps; while the manifest or CHECKSUMS is being   *)
(* written their temp sibling stays.                                        *)
Killed ==
    /\ AtWork
    /\ \/ UNCHANGED residue
       \/ publish.at = "sums" /\ residue' = residue \cup {CHECKSUMS}
    /\ publish' = [publish EXCEPT !.at = "failed"]
    /\ Counted
    /\ UNCHANGED <<dir, now>>

(* Another process commits: a read-only handle does not hold it off.        *)
Commit ==
    /\ now < Len(Views)
    /\ now' = now + 1
    /\ publish' = IF AtWork THEN [publish EXCEPT !.calm = FALSE] ELSE publish
    /\ Counted
    /\ UNCHANGED <<dir, residue>>

ForeignArrives ==
    /\ dir[Foreign] = Absent
    /\ dir' = [dir EXCEPT ![Foreign] = [of |-> Foreign]]
    /\ publish.at # "done"
    /\ Counted
    /\ UNCHANGED <<residue, now, publish>>

(* What a refusal asks of the operator: remove them, or a fresh --out.      *)
OperatorClears ==
    /\ ~AtWork
    /\ residue # {} \/ dir[Foreign] # Absent
    /\ residue' = {}
    /\ \/ dir' = [dir EXCEPT ![Foreign] = Absent]
       \/ dir' = [n \in Names |-> Absent]
    /\ publish' = Off
    /\ UNCHANGED <<now, events>>

PublishStep == \/ PublishRefused \/ CheckOutDir \/ LoadRuns \/ MakeRunTempDir
               \/ \E n \in Names : ArtifactBegins(n) \/ AssemblyFails(n)
               \/ ArtifactWritten
               \/ ArtifactFails \/ RemoveStale \/ RemoveStaleFails \/ LoopFatal
               \/ Abort \/ RemoveRunTempDir \/ LoadCounts \/ ClosingFails
               \/ WriteManifest \/ WriteChecksums \/ VerifyOutDir
               \/ \E request \in Requests : PublishStart(request)

Next == PublishStep \/ Cancelled \/ Killed \/ Commit \/ ForeignArrives
          \/ OperatorClears

Spec == Init /\ [][Next]_vars
-----------------------------------------------------------------------------
(* Types; and of hidden names a run past its check leaves only its own, the *)
(* temp directory while it builds archives and the temp of one artifact.    *)
TypeOK ==
    /\ DOMAIN dir = Names
    /\ \A n \in Names : dir[n].of \in {n, Absent.of}
    /\ residue \subseteq Names \cup {RunTemp}
    /\ now \in DOMAIN Views
    /\ events <= MaxEvents
    /\ AtWork /\ publish.at # "check" =>
          residue \subseteq
              (IF publish.phase = "archives" /\ publish.at # "counts" THEN {RunTemp} ELSE {})
                \cup (IF publish.at = "write" THEN {Name} ELSE {})

(* A run that ends well leaves a directory that holds CHECKSUMS and what it *)
(* lists, each file as it was listed, and a manifest of the same files,     *)
(* whatever an earlier run, a commit or another hand did (publish.go Run).  *)
Vouched ==
    [][publish.at = "verify" /\ publish'.at = "done" =>
          LET files == dir'[CHECKSUMS].files IN
          /\ {n \in Names : dir'[n] # Absent} = {f.of : f \in files} \cup {CHECKSUMS}
          /\ \A f \in files : dir'[f.of] = f
          /\ dir'[Manifest].files = files \ {dir'[Manifest]}
          /\ residue' = {}]_vars

(* CHECKSUMS is written once everything the run planned is settled: there   *)
(* and listed, or failed and gone with what an earlier run had left.        *)
SealLast ==
    [][dir'[CHECKSUMS] \notin {dir[CHECKSUMS], Absent} =>
          \A n \in PlannedNames(publish.groups, publish.states) \ {CHECKSUMS} :
              IF n \in publish.failed THEN dir[n] = Absent
              ELSE dir[n] # Absent /\ dir[n] \in dir'[CHECKSUMS].files]_vars

(* Whatever was killed, aborted or replaced since: while CHECKSUMS verifies, *)
(* a national copy in it holds one content for each path, and was made of    *)
(* exactly the state archives listed with it, one of every state.            *)
Verifies == /\ dir[CHECKSUMS] # Absent
            /\ \A f \in dir[CHECKSUMS].files : dir[f.of] = f
Copied(f) == NationalEntries(Group(f.of), Views[f.lists], Views[f.runs],
                             StateArchives(f.from))
NationalCopies(files) == {f \in files : IsArchive(f.of) /\ Copies(Group(f.of))}

CopiesAgree ==
    Verifies =>
        \A f \in NationalCopies(dir[CHECKSUMS].files) :
            /\ f.from =
                  {g \in dir[CHECKSUMS].files : Group(g.of) = copiesFrom[Group(f.of)]}
            /\ {g.of[1] : g \in f.from} = LoadStates(Views[f.lists])
            /\ \A d, e \in Copied(f) : d[1] = e[1] => d = e

(* On a database nobody wrote to, a national copy holds what the whole      *)
(* country read at once would: every station and every cell once, in the    *)
(* tables and in the files (national.go assembleNational).                  *)
WholeCountry ==
    publish.at = "done" /\ publish.calm =>
        \A f \in NationalCopies(publish.files) :
            LET v == Views[f.lists] IN
            Copied(f) = IF Group(f.of) = "national-csv"
                        THEN TableEntries(v, All) \cup Units(v, v, All)
                               \cup Provenance(v)
                        ELSE JSONEntries(v, v, v, All)
=============================================================================
