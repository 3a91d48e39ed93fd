---------------------------- MODULE DepositProofs ----------------------------
(***************************************************************************)
(* Proofs about Deposit, for every list of states, every sequence of views *)
(* of the database, any docs and requests, and any number of faults,       *)
(* kills, commits and foreign files.                                       *)
(***************************************************************************)
EXTENDS Deposit, TLAPS

-----------------------------------------------------------------------------
(* Names.  The archives and the other files never share a name, and a plan  *)
(* names neither the manifest nor CHECKSUMS nor a foreign file.             *)
Archives   == {n \in Names : IsArchive(n)}
StateNames == {n \in Archives : PerState(Group(n))}
Reserved   == {Manifest, CHECKSUMS, Foreign, NoName}

(* The groups, as a set.                                                   *)
LEMMA GroupsListed ==
    ToSet(allGroups) = {"tabular", "json", "national-csv", "national-parquet",
                        "national-json", "national-sqlite", "raw", "docs"}
  BY DEF ToSet, allGroups

(* An archive's name is a scope and a group; the other names are under top. *)
LEMMA NameKinds ==
    ASSUME NEW n
    PROVE  /\ n \in Archives <=>
                 \E g \in ToSet(allGroups) \ {"docs"} : \E w \in Where(g) : n = <<w, g>>
           /\ n \in Names \ Archives <=>
                 \E d \in ToSet(DocsFiles) \cup {"manifest.json", "CHECKSUMS", "foreign"} :
                    n = Top(d)
<1> DEFINE Scoped == \E g \in ToSet(allGroups) \ {"docs"} : \E w \in Where(g) :
                       n = <<w, g>>
           OnTop == \E d \in ToSet(DocsFiles)
                              \cup {"manifest.json", "CHECKSUMS", "foreign"} : n = Top(d)
           A == UNION {{<<w, g>> : w \in Where(g)} : g \in ToSet(allGroups) \ {"docs"}}
           B == {Top(d) : d \in ToSet(DocsFiles)}
           C == {Manifest, CHECKSUMS, Foreign}
<1>1. n \in Names <=> Scoped \/ OnTop
  <2>1. n \in A <=> Scoped
    OBVIOUS
  <2>2. n \in B \/ n \in C <=> OnTop
    BY DEF Manifest, CHECKSUMS, Foreign
  <2>3. Names = A \cup B \cup C
    BY DEF Names
  <2> HIDE DEF Scoped, OnTop, A, B, C
  <2> QED
    BY <2>1, <2>2, <2>3
<1>2. Scoped => IsArchive(n)
  BY SlugsAssumption DEF Where, All, IsArchive
<1>3. OnTop => ~IsArchive(n)
  BY DEF Top, IsArchive
<1> QED
  BY <1>1, <1>2, <1>3 DEF Archives

(* The names the closing steps write, and what shares none of them.        *)
LEMMA ReservedNames ==
    /\ Manifest \in Names /\ CHECKSUMS \in Names /\ Foreign \in Names
    /\ NoName \notin Names /\ RunTemp \notin Names
    /\ Reserved \cap Archives = {}
    /\ Manifest # CHECKSUMS /\ Manifest # Foreign /\ CHECKSUMS # Foreign
<1>1. Manifest \in Names /\ CHECKSUMS \in Names /\ Foreign \in Names
  BY NameKinds DEF Manifest, CHECKSUMS, Foreign
<1>2. Reserved \cap Archives = {}
  BY DEF Reserved, Archives, IsArchive, Manifest, CHECKSUMS, Foreign, NoName, Top
<1>3. NoName \notin Names /\ RunTemp \notin Names
  BY NameKinds, DepositAssumption
  DEF Archives, IsArchive, NoName, RunTemp, Top
<1> QED
  BY <1>1, <1>2, <1>3 DEF Manifest, CHECKSUMS, Foreign, Top

(* A plan names archives and documents of its own.                         *)
LEMMA PlanNames ==
    ASSUME NEW groups \in SUBSET ToSet(allGroups), NEW states \in SUBSET SlugSet
    PROVE  /\ ArchivePlan(groups, states) \subseteq Archives
           /\ DocsPlan(groups) \subseteq Names \ (Archives \cup Reserved)
<1>1. ASSUME NEW n \in ArchivePlan(groups, states) PROVE n \in Archives
  <2>1. CASE n \in states \X {g \in groups : PerState(g)}
    <3>1. PICK w \in states, g \in groups : PerState(g) /\ n = <<w, g>>
      BY <2>1
    <3>2. g \in ToSet(allGroups) \ {"docs"} /\ w \in Where(g)
      BY <3>1 DEF PerState, Where
    <3> QED
      BY <3>1, <3>2, NameKinds
  <2>2. CASE n \in {All} \X {g \in groups : FullRunOnly(g)}
    <3>1. PICK g \in groups : FullRunOnly(g) /\ n = <<All, g>>
      BY <2>2
    <3>2. g \in ToSet(allGroups) \ {"docs"} /\ All \in Where(g)
      BY <3>1 DEF FullRunOnly, Where
    <3> QED
      BY <3>1, <3>2, NameKinds
  <2> QED
    BY <2>1, <2>2 DEF ArchivePlan
<1>2. ASSUME NEW n \in DocsPlan(groups) PROVE n \in Names \ (Archives \cup Reserved)
  <2>1. PICK d \in ToSet(DocsFiles) : n = Top(d)
    BY <1>2 DEF DocsPlan
  <2>2. n \in Names \ Archives
    BY <2>1, NameKinds
  <2> QED
    BY <2>1, <2>2, DepositAssumption
    DEF Reserved, Manifest, CHECKSUMS, Foreign, NoName, Top
<1> QED
  BY <1>1, <1>2

-----------------------------------------------------------------------------
(* Types.  A state's archive is made of no other file, a national one of    *)
(* none or of states' archives.                                             *)
Index         == DOMAIN Views
StateFiles    == [of : StateNames, lists : Index, rows : Index,
                  runs : Index \cup {0}, from : {{}}]
NationalFiles == [of : Archives \ StateNames, lists : Index, rows : Index,
                  runs : Index \cup {0}, from : SUBSET StateFiles]
DocFiles      == [of : Names \ Archives, rows : Index \cup {0},
                  runs : Index \cup {0}]
Files         == StateFiles \cup NationalFiles \cup DocFiles

Stages == {"check", "runs", "temp", "artifact", "write", "stale", "counts",
           "sums", "verify", "abort", "done", "failed"}
Runs == [at : Stages, groups : SUBSET ToSet(allGroups), wanted : SUBSET SlugSet,
         states : SUBSET SlugSet, phase : {"archives", "docs"},
         left : SUBSET Names, name : Names \cup {NoName},
         lists : Index \cup {0}, runs : Index \cup {0}, counts : Index \cup {0},
         held : SUBSET {"load", "raw", "dictionary"}, files : SUBSET Files,
         failed : SUBSET Names, calm : BOOLEAN, ctx : {"live", "cancelled"}]

Typed ==
    /\ publish \in Runs \cup {Off}
    /\ now \in Index
    /\ events \in Nat
    /\ publish.at = "write" => publish.lists \in Index
    /\ publish.at \in {"write", "stale"} => publish.name \in publish.left
    /\ publish.at \in {"check", "runs", "temp", "counts"} => publish.phase = "archives"

(* The views are numbered from one.                                        *)
LEMMA IndexIsNat == Index = 1 .. Len(Views) /\ Len(Views) \in Nat /\ 1 \in Index
  BY ViewsAssumption DEF Index

(* A run at work is a run.                                                  *)
LEMMA RunIsRun ==
    ASSUME Typed, publish.at # "off"
    PROVE  publish \in Runs /\ publish # Off
  BY DEF Typed, Off

(* A view has listed states only.                                          *)
LEMMA ViewStates == ASSUME NEW i \in Index PROVE LoadStates(Views[i]) \subseteq SlugSet
  BY ViewsAssumption DEF Index, LoadStates, ToSet

(* What a file is made of is states' archives, and what is written is a file. *)
LEMMA SourcesAreStates ==
    ASSUME publish \in Runs, NEW g \in ToSet(allGroups)
    PROVE  Sources(g) \subseteq StateFiles
<1> SUFFICES ASSUME Copies(g), NEW f \in publish.files, Group(f.of) = copiesFrom[g]
             PROVE  f \in StateFiles
  BY DEF Sources, Built
<1>1. PerState(Group(f.of)) /\ Group(f.of) \in ToSet(allGroups)
  BY GroupsListed DEF Copies, copiesFrom, PerState
<1>2. f \in Files
  BY DEF Runs
<1>3. CASE f \in DocFiles
  <2>1. PICK d \in ToSet(DocsFiles) \cup {"manifest.json", "CHECKSUMS", "foreign"} :
             f.of = Top(d)
    BY <1>3, NameKinds DEF DocFiles
  <2>2. Group(f.of) = d
    BY <2>1 DEF Group, Top
  <2> QED
    BY <1>1, <2>1, <2>2, DepositAssumption, GroupsListed
<1>4. CASE f \in NationalFiles
  BY <1>1, <1>4 DEF NationalFiles, StateNames
<1> QED
  BY <1>2, <1>3, <1>4 DEF Files

(* What is written is a file of the artifact at work.                      *)
LEMMA WrittenIsFile ==
    ASSUME Typed, publish.at = "write"
    PROVE  Written \in Files /\ Written.of = Name /\ Name \in Names
<1>1. publish \in Runs /\ Name \in publish.left /\ publish.lists \in Index
  BY RunIsRun DEF Typed, Name
<1>2. Name \in Names /\ publish.runs \in Index \cup {0} /\ publish.counts \in Index \cup {0}
      /\ now \in Index
  BY <1>1 DEF Runs, Typed
<1>3. CASE ~IsArchive(Name)
  BY <1>2, <1>3 DEF Written, DocsFile, Files, DocFiles, Archives
<1>4. CASE IsArchive(Name)
  <2>1. Name \in Archives /\ Group(Name) \in ToSet(allGroups)
    <3>1. Name \in Archives
      BY <1>2, <1>4 DEF Archives
    <3>2. PICK g \in ToSet(allGroups) \ {"docs"} : \E w \in Where(g) : Name = <<w, g>>
      BY <3>1, NameKinds
    <3> QED
      BY <3>1, <3>2 DEF Group
  <2>2. Sources(Group(Name)) \in SUBSET StateFiles
    BY <1>1, <2>1, SourcesAreStates
  <2>3. Name \in StateNames => Sources(Group(Name)) = {}
    BY DEF StateNames, PerState, Sources, Copies, copiesFrom
  <2>4. Archive \in StateFiles \cup NationalFiles /\ Archive.of = Name
    BY <1>1, <1>2, <2>1, <2>2, <2>3 DEF Archive, StateFiles, NationalFiles
  <2> QED
    BY <1>2, <1>4, <2>4 DEF Written, Files
<1> QED
  BY <1>3, <1>4

(* No run is one of the runs.                                              *)
LEMMA InitTyped == Init => Typed
  BY IndexIsNat DEF Init, Typed, Off

(* Every step keeps a run a run.                                           *)
LEMMA TypedStep == Typed /\ [Next]_vars => Typed'
<1> SUFFICES ASSUME Typed, [Next]_vars PROVE Typed'
  OBVIOUS
<1>0. now \in Index /\ events \in Nat
  BY DEF Typed
<1>1. ASSUME NEW request \in Requests, PublishStart(request) PROVE Typed'
  <2>1. publish' \in Runs /\ publish'.at = "check" /\ publish'.phase = "archives"
    <3>1. ResolveOnly(request.only, request.states # {}) \in SUBSET ToSet(allGroups)
      BY DEF ResolveOnly
    <3> QED
      BY <1>1, <3>1 DEF PublishStart, Runs, Stages
  <2> QED
    BY <1>0, <1>1, <2>1 DEF PublishStart, Typed
<1>2. CASE PublishRefused \/ Abort
  <2>1. publish \in Runs
    BY <1>2, RunIsRun DEF PublishRefused, Abort
  <2>2. publish' = [publish EXCEPT !.at = "failed"]
    BY <1>2 DEF PublishRefused, Abort
  <2>3. publish' \in Runs /\ publish'.at = "failed"
    BY <2>1, <2>2 DEF Runs, Stages
  <2> QED
    BY <1>0, <1>2, <2>3 DEF PublishRefused, Abort, Typed
<1>3. CASE CheckOutDir
  <2>1. publish \in Runs /\ publish.phase = "archives"
    BY <1>3, RunIsRun DEF CheckOutDir, Typed
  <2>2. publish.groups \in SUBSET ToSet(allGroups) /\ Resolved \in SUBSET SlugSet
    BY <1>0, <2>1, ViewStates DEF Resolved, View, Runs
  <2>3. ArchivePlan(publish.groups, Resolved) \in SUBSET Names
    BY <2>2, PlanNames DEF Archives
  <2>4. publish' \in Runs /\ publish'.at = "runs" /\ publish'.phase = "archives"
    BY <1>3, <2>1, <2>2, <2>3 DEF CheckOutDir, Runs, Stages
  <2> QED
    BY <1>0, <1>3, <2>4 DEF CheckOutDir, Typed
<1>4. CASE LoadRuns
  <2>1. publish \in Runs /\ publish.phase = "archives"
    BY <1>4, RunIsRun DEF LoadRuns, Typed
  <2>2. publish' \in Runs /\ publish'.at = "temp" /\ publish'.phase = "archives"
    BY <1>0, <1>4, <2>1 DEF LoadRuns, Runs, Stages
  <2> QED
    BY <1>0, <1>4, <2>2 DEF LoadRuns, Typed
<1>5. CASE MakeRunTempDir
  <2>1. publish \in Runs
    BY <1>5, RunIsRun DEF MakeRunTempDir
  <2>2. publish' \in Runs /\ publish'.at = "artifact"
    BY <1>5, <2>1 DEF MakeRunTempDir, Runs, Stages
  <2> QED
    BY <1>0, <1>5, <2>2 DEF MakeRunTempDir, Typed
<1>6. ASSUME NEW n \in Names, ArtifactBegins(n) PROVE Typed'
  <2>1. publish \in Runs
    BY <1>6, RunIsRun DEF ArtifactBegins
  <2>2. /\ publish' \in Runs /\ publish'.at = "write" /\ publish'.lists = now
        /\ publish'.name = n /\ publish'.left = publish.left
    BY <1>0, <1>6, <2>1 DEF ArtifactBegins, Runs, Stages
  <2> QED
    BY <1>0, <1>6, <2>2 DEF ArtifactBegins, Typed, Due
<1>7. ASSUME NEW n \in Names, AssemblyFails(n) PROVE Typed'
  <2>1. publish \in Runs
    BY <1>7, RunIsRun DEF AssemblyFails
  <2>2. /\ publish' \in Runs /\ publish'.at = "stale" /\ publish'.name = n
        /\ publish'.left = publish.left
    BY <1>7, <2>1 DEF AssemblyFails, Runs, Stages
  <2> QED
    BY <1>0, <1>7, <2>2 DEF AssemblyFails, Typed, Due
<1>8. CASE ArtifactWritten
  <2>1. publish \in Runs /\ Written \in Files
    BY <1>8, RunIsRun, WrittenIsFile DEF ArtifactWritten
  <2>2. publish' \in Runs /\ publish'.at = "artifact"
    BY <1>8, <2>1 DEF ArtifactWritten, Runs, Stages
  <2> QED
    BY <1>0, <1>8, <2>2 DEF ArtifactWritten, Typed
<1>9. CASE ArtifactFails
  <2>1. publish \in Runs /\ Name \in Names /\ Name \in publish.left
    BY <1>9, RunIsRun, WrittenIsFile DEF ArtifactFails, Typed, Name
  <2>2. /\ publish' \in Runs /\ publish'.at = "stale"
        /\ publish'.name = publish.name /\ publish'.left = publish.left
    BY ZenonT(60), <1>9, <2>1 DEF ArtifactFails, Runs, Stages
  <2>3. events' \in Nat
    BY <1>0, <1>9 DEF ArtifactFails, Counted
  <2> QED
    BY <1>0, <1>9, <2>1, <2>2, <2>3 DEF ArtifactFails, Typed, Name
<1>10. CASE RemoveStale
  <2>1. publish \in Runs
    BY <1>10, RunIsRun DEF RemoveStale
  <2>2. publish' \in Runs /\ publish'.at = "artifact"
    BY <1>10, <2>1 DEF RemoveStale, Runs, Stages
  <2> QED
    BY <1>0, <1>10, <2>2 DEF RemoveStale, Typed
<1>11. CASE RemoveStaleFails \/ LoopFatal
  <2>1. publish \in Runs
    BY <1>11, RunIsRun DEF RemoveStaleFails, LoopFatal
  <2>2. publish' = [publish EXCEPT !.at = "abort", !.name = NoName]
    BY <1>11 DEF RemoveStaleFails, LoopFatal
  <2>3. publish' \in Runs /\ publish'.at = "abort"
    BY <2>1, <2>2 DEF Runs, Stages
  <2>4. events' \in Nat /\ now' = now
    BY <1>0, <1>11 DEF RemoveStaleFails, LoopFatal, Counted
  <2> QED
    BY <1>0, <2>3, <2>4 DEF Typed
<1>12. CASE RemoveRunTempDir
  <2>1. publish \in Runs
    BY <1>12, RunIsRun DEF RemoveRunTempDir
  <2>2. publish' \in Runs /\ publish'.at = "counts" /\ publish'.phase = "archives"
    BY <1>12, <2>1 DEF RemoveRunTempDir, Runs, Stages
  <2> QED
    BY <1>0, <1>12, <2>2 DEF RemoveRunTempDir, Typed
<1>13. CASE LoadCounts
  <2>1. publish \in Runs /\ DocsPlan(publish.groups) \in SUBSET Names
    <3>1. publish \in Runs
      BY <1>13, RunIsRun DEF LoadCounts
    <3>2. publish.groups \in SUBSET ToSet(allGroups)
      BY <3>1 DEF Runs
    <3> QED
      BY <3>1, <3>2, PlanNames
  <2>2. PICK held \in SUBSET {"load", "raw", "dictionary"} :
           /\ IF held = {} THEN UNCHANGED events ELSE Counted
           /\ publish' = [publish EXCEPT !.at = "artifact", !.phase = "docs",
                                         !.counts = now, !.held = held,
                                         !.left = DocsPlan(publish.groups)]
    BY <1>13 DEF LoadCounts
  <2>3. publish' \in Runs /\ publish'.at = "artifact"
    BY <1>0, <2>1, <2>2 DEF Runs, Stages
  <2>4. events' \in Nat /\ now' = now
    BY <1>0, <1>13, <2>2 DEF LoadCounts, Counted
  <2> QED
    BY <1>0, <2>3, <2>4 DEF Typed
<1>14. CASE ClosingFails
  <2>1. publish \in Runs
    BY <1>14, RunIsRun DEF ClosingFails
  <2>2. publish' \in Runs /\ publish'.at = "abort"
    BY <1>14, <2>1 DEF ClosingFails, Runs, Stages
  <2>3. events' \in Nat /\ now' = now
    BY <1>0, <1>14 DEF ClosingFails, Counted
  <2> QED
    BY <1>0, <2>2, <2>3 DEF Typed
<1>15. CASE WriteManifest
  <2>1. publish \in Runs
    BY <1>15, RunIsRun DEF WriteManifest
  <2>2. publish' \in Runs /\ publish'.at = "sums"
    BY <1>15, <2>1 DEF WriteManifest, Runs, Stages
  <2> QED
    BY <1>0, <1>15, <2>2 DEF WriteManifest, Typed
<1>16. CASE WriteChecksums
  <2>1. publish \in Runs
    BY <1>16, RunIsRun DEF WriteChecksums
  <2>2. publish' \in Runs /\ publish'.at = "verify"
    BY <1>16, <2>1 DEF WriteChecksums, Runs, Stages
  <2> QED
    BY <1>0, <1>16, <2>2 DEF WriteChecksums, Typed
<1>17. CASE VerifyOutDir
  <2>1. publish \in Runs
    BY <1>17, RunIsRun DEF VerifyOutDir
  <2>2. publish' \in Runs /\ publish'.at \in {"done", "failed"}
    BY <1>17, <2>1 DEF VerifyOutDir, Runs, Stages
  <2> QED
    BY <1>0, <1>17, <2>2 DEF VerifyOutDir, Typed
<1>18. CASE Cancelled
  <2>1. publish \in Runs
    BY <1>18, RunIsRun DEF Cancelled, AtWork
  <2>2. /\ publish' \in Runs /\ publish'.at = publish.at
        /\ publish'.lists = publish.lists /\ publish'.name = publish.name
        /\ publish'.left = publish.left /\ publish'.phase = publish.phase
    BY <1>18, <2>1 DEF Cancelled, Runs, Stages
  <2> QED
    BY <1>0, <1>18, <2>2 DEF Cancelled, Counted, Typed
<1>19. CASE Killed
  <2>1. publish \in Runs
    BY <1>19, RunIsRun DEF Killed, AtWork
  <2>2. publish' \in Runs /\ publish'.at = "failed"
    BY <1>19, <2>1 DEF Killed, Runs, Stages
  <2> QED
    BY <1>0, <1>19, <2>2 DEF Killed, Counted, Typed
<1>20. CASE Commit
  <2>1. now' \in Index /\ events' \in Nat
    BY <1>0, <1>20, IndexIsNat DEF Commit, Counted
  <2>2. CASE AtWork
    <3>1. publish \in Runs
      BY <2>2, RunIsRun DEF AtWork
    <3>2. /\ publish' \in Runs /\ publish'.at = publish.at
          /\ publish'.lists = publish.lists /\ publish'.name = publish.name
          /\ publish'.left = publish.left /\ publish'.phase = publish.phase
      BY <1>20, <2>2, <3>1 DEF Commit, Runs, Stages
    <3> QED
      BY <2>1, <3>2 DEF Typed
  <2>3. CASE ~AtWork
    BY <1>20, <2>1, <2>3 DEF Commit, Typed
  <2> QED
    BY <2>2, <2>3
<1>21. CASE ForeignArrives
  BY <1>0, <1>21 DEF ForeignArrives, Counted, Typed
<1>22. CASE OperatorClears
  BY <1>0, <1>22 DEF OperatorClears, Typed, Off
<1>23. CASE UNCHANGED vars
  BY <1>23 DEF vars, Typed
<1> QED
  BY <1>1, <1>2, <1>3, <1>4, <1>5, <1>6, <1>7, <1>8, <1>9, <1>10, <1>11, <1>12,
     <1>13, <1>14, <1>15, <1>16, <1>17, <1>18, <1>19, <1>20, <1>21, <1>22, <1>23
  DEF Next, PublishStep

(* What a step writes is there under its own name.                          *)
LEMMA NamedDir ==
    ASSUME Typed, TypeOK, [Next]_vars
    PROVE  /\ DOMAIN dir' = Names
           /\ \A n \in Names : dir'[n].of \in {n, Absent.of}
<1> DEFINE Named(d) == /\ DOMAIN d = Names
                       /\ \A n \in Names : d[n].of \in {n, Absent.of}
<1>0. Named(dir)
  BY DEF TypeOK
<1>1. ASSUME NEW n \in Names, NEW file, file.of \in {n, Absent.of},
             dir' = [dir EXCEPT ![n] = file]
      PROVE  Named(dir')
  BY <1>0, <1>1
<1>a. ASSUME NEW n \in Names, dir' = [dir EXCEPT ![n] = Absent] PROVE Named(dir')
  BY <1>0, <1>a
<1>b. ASSUME NEW n \in Names, dir' = [dir EXCEPT ![n] = [of |-> n]] PROVE Named(dir')
  BY <1>0, <1>b
<1> HIDE DEF Named
<1>2. CASE ArtifactWritten \/ ArtifactFails
  <2>1. Name \in Names /\ Written.of = Name
    BY <1>2, WrittenIsFile DEF ArtifactWritten, ArtifactFails
  <2>2. dir' = [dir EXCEPT ![Name] = Written] \/ dir' = dir
    BY <1>2 DEF ArtifactWritten, ArtifactFails
  <2> QED
    BY <1>0, <1>1, <2>1, <2>2 DEF Named
<1>3. CASE RemoveStale
  <2>1. Name \in Names
    BY <1>3, RunIsRun DEF RemoveStale, Typed, Runs, Name
  <2> QED
    BY <1>a, <1>3, <2>1 DEF RemoveStale, Named
<1>4. CASE WriteManifest \/ WriteChecksums
  <2>1. Listing(publish.files).of = Manifest /\ Sums.of = CHECKSUMS
    BY DEF Listing, Sums
  <2> QED
    BY <1>1, <1>4, <2>1, ReservedNames DEF WriteManifest, WriteChecksums, Named
<1>5. CASE ForeignArrives
  <2>1. dir' = [dir EXCEPT ![Foreign] = [of |-> Foreign]]
    BY <1>5 DEF ForeignArrives
  <2> QED
    BY <1>b, <2>1, ReservedNames DEF Named
<1>6. CASE OperatorClears
  <2>1. CASE dir' = [dir EXCEPT ![Foreign] = Absent]
    BY <1>a, <2>1, ReservedNames DEF Named
  <2>2. CASE dir' = [n \in Names |-> Absent]
    BY <2>2 DEF Named
  <2> QED
    BY <1>6, <2>1, <2>2 DEF OperatorClears
<1>7. CASE UNCHANGED dir
  BY <1>0, <1>7 DEF Named
<1> QED
  BY <1>2, <1>3, <1>4, <1>5, <1>6, <1>7
  DEF Next, PublishStep, PublishRefused, CheckOutDir, LoadRuns, MakeRunTempDir,
      ArtifactBegins, AssemblyFails, RemoveStaleFails, LoopFatal, Abort,
      RemoveRunTempDir, LoadCounts, ClosingFails, VerifyOutDir, PublishStart,
      Cancelled, Killed, Commit, vars, Named

(* Of hidden names a run past its check has only its own.                   *)
Tidy ==
    AtWork /\ publish.at # "check" =>
        residue \subseteq
            (IF publish.phase = "archives" /\ publish.at # "counts" THEN {RunTemp} ELSE {})
              \cup (IF publish.at = "write" THEN {Name} ELSE {})

(* Every step removes the hidden name it leaves behind.                    *)
LEMMA TidyStep == Typed /\ Tidy /\ [Next]_vars => Tidy'
<1> SUFFICES ASSUME Typed, Tidy, [Next]_vars, (AtWork /\ publish.at # "check")'
             PROVE  residue' \subseteq
                       (IF publish'.phase = "archives" /\ publish'.at # "counts"
                        THEN {RunTemp} ELSE {})
                         \cup (IF publish'.at = "write" THEN {publish'.name} ELSE {})
  BY DEF Tidy, Name
<1>0. publish'.at \notin {"off", "check", "done", "failed"}
  BY DEF AtWork
<1> USE <1>0 DEF Tidy, AtWork, Name
<1>1. CASE CheckOutDir
  BY <1>1 DEF CheckOutDir
<1>2. CASE LoadRuns \/ MakeRunTempDir
  <2>1. publish \in Runs /\ publish.at \in {"runs", "temp"}
        /\ publish.phase = "archives"
    BY <1>2, RunIsRun DEF LoadRuns, MakeRunTempDir, Typed
  <2> QED
    BY <1>2, <2>1 DEF LoadRuns, MakeRunTempDir, Runs
<1>3. ASSUME NEW n \in Names, ArtifactBegins(n) \/ AssemblyFails(n)
      PROVE  residue' \subseteq
                 (IF publish'.phase = "archives" /\ publish'.at # "counts"
                  THEN {RunTemp} ELSE {})
                   \cup (IF publish'.at = "write" THEN {publish'.name} ELSE {})
  <2>1. publish \in Runs /\ publish.at = "artifact"
    BY <1>3, RunIsRun DEF ArtifactBegins, AssemblyFails
  <2> QED
    BY ZenonT(60), <1>3, <2>1 DEF ArtifactBegins, AssemblyFails, Runs
<1>4. CASE ArtifactWritten \/ ArtifactFails
  <2>1. publish \in Runs /\ publish.at = "write" /\ residue' = residue \ {publish.name}
    BY <1>4, RunIsRun DEF ArtifactWritten, ArtifactFails
  <2>2. publish'.phase = publish.phase /\ publish'.at \in {"artifact", "stale"}
    BY <1>4, <2>1 DEF ArtifactWritten, ArtifactFails, Runs
  <2> QED
    BY <2>1, <2>2
<1>5. CASE RemoveStale \/ RemoveStaleFails \/ LoopFatal
  <2>1. /\ publish \in Runs /\ publish.at \in {"artifact", "write", "stale"}
        /\ residue' \subseteq residue
        /\ publish.at = "write" => publish.name \notin residue'
    BY <1>5, RunIsRun DEF RemoveStale, RemoveStaleFails, LoopFatal
  <2>2. publish'.phase = publish.phase /\ publish'.at \in {"artifact", "abort"}
    BY ZenonT(60), <1>5, <2>1 DEF RemoveStale, RemoveStaleFails, LoopFatal, Runs
  <2> QED
    BY <2>1, <2>2
<1>6. CASE RemoveRunTempDir
  <2>1. publish \in Runs /\ publish.at = "artifact" /\ residue' = {}
    BY <1>6, RunIsRun DEF RemoveRunTempDir
  <2> QED
    BY <2>1
<1>7. CASE LoadCounts \/ ClosingFails \/ WriteManifest \/ WriteChecksums
  <2>1. /\ publish \in Runs /\ publish.at \in {"counts", "sums", "verify", "artifact"}
        /\ residue' = residue
    BY <1>7, RunIsRun DEF LoadCounts, ClosingFails, WriteManifest, WriteChecksums
  <2>2. /\ publish'.at # "counts"
        /\ publish.at = "counts" \/ publish'.phase = publish.phase
    BY ZenonT(60), <1>7, <2>1 DEF LoadCounts, ClosingFails, WriteManifest, WriteChecksums, Runs
  <2> QED
    BY <2>1, <2>2
<1>8. CASE Cancelled \/ Commit \/ ForeignArrives
  <2>1. residue' = residue
    BY <1>8 DEF Cancelled, Commit, ForeignArrives
  <2>2. publish.at # "off" => publish \in Runs
    BY RunIsRun
  <2>3. publish' = publish \/ (publish \in Runs /\ AtWork
             /\ publish' \in {[publish EXCEPT !.ctx = "cancelled"],
                              [publish EXCEPT !.calm = FALSE]})
    BY <1>8, <2>2 DEF Cancelled, Commit, ForeignArrives
  <2>4. publish'.at = publish.at /\ publish'.phase = publish.phase
        /\ publish'.name = publish.name
    BY <2>3 DEF Runs
  <2> QED
    BY <2>1, <2>4
<1>9. CASE UNCHANGED vars
  BY <1>9 DEF vars
<1>10. CASE PublishRefused \/ Abort \/ VerifyOutDir \/ Killed \/ OperatorClears
            \/ \E request \in Requests : PublishStart(request)
  <2>1. publish.at # "off" => publish \in Runs
    BY RunIsRun
  <2>2. publish'.at \in {"off", "check", "done", "failed"}
    BY <1>10, <2>1 DEF PublishRefused, Abort, VerifyOutDir, Killed, OperatorClears,
       PublishStart, Off, Runs
  <2> QED
    BY <2>2
<1> QED
  BY <1>1, <1>2, <1>3, <1>4, <1>5, <1>6, <1>7, <1>8, <1>9, <1>10
  DEF Next, PublishStep

(* Types are kept by every step.                                            *)
LEMMA TypeStep == Typed /\ TypeOK /\ [Next]_vars => TypeOK'
<1> SUFFICES ASSUME Typed, TypeOK, [Next]_vars PROVE TypeOK'
  OBVIOUS
<1>1. Typed' /\ Tidy'
  BY TypedStep, TidyStep DEF TypeOK, Tidy
<1>2. residue' \subseteq Names \cup {RunTemp}
  <2>1. ASSUME NEW n \in Names, ArtifactBegins(n) PROVE residue' \subseteq Names \cup {RunTemp}
    BY <2>1 DEF ArtifactBegins, TypeOK
  <2>2. CASE residue' \subseteq residue \cup {RunTemp, CHECKSUMS}
    BY <2>2, ReservedNames DEF TypeOK
  <2> QED
    BY <2>1, <2>2
    DEF Next, PublishStep, PublishRefused, CheckOutDir, LoadRuns, MakeRunTempDir,
        AssemblyFails, ArtifactWritten, ArtifactFails, RemoveStale,
        RemoveStaleFails, LoopFatal, Abort, RemoveRunTempDir, LoadCounts,
        ClosingFails, WriteManifest, WriteChecksums, VerifyOutDir, PublishStart,
        Cancelled, Killed, Commit, ForeignArrives, OperatorClears, vars
<1>3. events' <= MaxEvents
  <2>1. events' = events \/ Counted
    BY DEF Next, PublishStep, PublishRefused, CheckOutDir, LoadRuns,
        MakeRunTempDir, ArtifactBegins, AssemblyFails, ArtifactWritten,
        ArtifactFails, RemoveStale, RemoveStaleFails, LoopFatal, Abort,
        RemoveRunTempDir, LoadCounts, ClosingFails, WriteManifest,
        WriteChecksums, VerifyOutDir, PublishStart, Cancelled, Killed, Commit,
        ForeignArrives, OperatorClears, vars
  <2> QED
    BY <2>1, DepositAssumption DEF Counted, Typed, TypeOK
<1> QED
  BY <1>1, <1>2, <1>3, NamedDir DEF TypeOK, Typed, Tidy, Index

-----------------------------------------------------------------------------
(* What a run has settled.  An artifact of its plan is still to be made, or *)
(* there under its name as the run lists it, or failed and not there.       *)
Underway == publish.at \in {"runs", "temp", "artifact", "write", "stale", "counts",
                            "sums", "verify"}
Plan == IF publish.phase = "archives"
        THEN ArchivePlan(publish.groups, publish.states)
        ELSE ArchivePlan(publish.groups, publish.states) \cup DocsPlan(publish.groups)

Kept      == \A f \in publish.files : /\ f.of \in Plan \ (publish.left \cup publish.failed)
                                      /\ dir[f.of] = f
Dropped   == \A n \in publish.failed :
                 /\ n \in Plan
                 /\ \/ n \in publish.left /\ n = Name /\ publish.at = "stale"
                    \/ n \notin publish.left /\ dir[n] = Absent
Accounted == \A n \in Plan : \/ n \in publish.left \cup publish.failed
                             \/ \E f \in publish.files : f.of = n
ToCome    == /\ publish.left \subseteq Plan
             /\ publish.phase = "docs" => publish.left \subseteq DocsPlan(publish.groups)
             /\ publish.at = "stale" => Name \in publish.failed
             /\ publish.at \in {"counts", "sums", "verify"} => publish.left = {}
Closing   == /\ publish.at \in {"sums", "verify"} =>
                   /\ publish.phase = "docs"
                   /\ dir[Manifest] = Listing(publish.files)
             /\ publish.at = "verify" => dir[CHECKSUMS] = Sums

Settled == /\ publish.at = "check" => publish.files = {} /\ publish.failed = {}
           /\ Underway => Kept /\ Dropped /\ Accounted /\ ToCome /\ Closing

(* Nothing planned is reserved, and no document is an archive.             *)
LEMMA PlanIsNames ==
    ASSUME publish \in Runs
    PROVE  /\ Plan \subseteq Names \ Reserved
           /\ ArchivePlan(publish.groups, publish.states) \subseteq Archives
           /\ DocsPlan(publish.groups) \cap Archives = {}
<1>1. publish.groups \in SUBSET ToSet(allGroups) /\ publish.states \in SUBSET SlugSet
  BY DEF Runs
<1>2. Archives \subseteq Names \ Reserved
  BY ReservedNames DEF Archives
<1> QED
  BY <1>1, <1>2, PlanNames DEF Plan

(* The artifact at work is none of those settled.                           *)
LEMMA AtWorkOpen ==
    ASSUME Typed, Settled, publish.at \in {"write", "stale"}
    PROVE  /\ publish \in Runs /\ Underway /\ Name \in publish.left /\ Name \in Plan
           /\ Name \in Names \ Reserved
           /\ \A f \in publish.files : f.of # Name
           /\ publish.at = "write" => Name \notin publish.failed
<1>1. publish \in Runs /\ Underway /\ Name \in publish.left
  BY RunIsRun DEF Underway, Typed, Name
<1> QED
  BY <1>1, PlanIsNames DEF Settled, Kept, Dropped, ToCome

(* At its check a run has settled nothing, and plans its archives.         *)
LEMMA StartSettled ==
    ASSUME Typed, Settled,
           CheckOutDir \/ \E request \in Requests : PublishStart(request)
    PROVE  Settled'
<1>1. CASE CheckOutDir
  <2>1. publish \in Runs /\ publish.files = {} /\ publish.failed = {}
        /\ publish.phase = "archives"
    BY <1>1, RunIsRun DEF CheckOutDir, Settled, Typed
  <2>2. /\ publish'.at = "runs" /\ publish'.files = {} /\ publish'.failed = {}
        /\ publish'.phase = "archives" /\ publish'.groups = publish.groups
        /\ publish'.left = ArchivePlan(publish'.groups, publish'.states)
    BY <1>1, <2>1 DEF CheckOutDir, Runs
  <2> QED
    BY <2>2 DEF Settled, Underway, Kept, Dropped, Accounted, ToCome, Closing, Plan
<1>2. ASSUME NEW request \in Requests, PublishStart(request) PROVE Settled'
  BY <1>2 DEF PublishStart, Settled, Underway
<1> QED
  BY <1>1, <1>2

(* A rename settles the artifact as one that is there.                     *)
LEMMA WriteSettled ==
    ASSUME Typed, Settled, TypeOK, ArtifactWritten
    PROVE  Settled'
<1>1. /\ publish \in Runs /\ Underway /\ Name \in publish.left /\ Name \in Plan
      /\ Name \in Names \ Reserved
      /\ \A f \in publish.files : f.of # Name
      /\ Name \notin publish.failed
  BY AtWorkOpen DEF ArtifactWritten
<1>2. /\ publish'.at = "artifact" /\ publish'.left = publish.left \ {Name}
      /\ publish'.files = publish.files \cup {Written}
      /\ publish'.failed = publish.failed
      /\ publish'.groups = publish.groups
      /\ publish'.phase = publish.phase /\ Plan' = Plan
  BY <1>1 DEF ArtifactWritten, Runs, Plan
<1>3. Written.of = Name
  BY WrittenIsFile DEF ArtifactWritten
<1>4. dir'[Name] = Written /\ \A n \in Names : n # Name => dir'[n] = dir[n]
  BY <1>1 DEF ArtifactWritten, TypeOK
<1>5. Plan \subseteq Names
  BY <1>1, PlanIsNames
<1> USE <1>1, <1>2 DEF Settled
<1>6. Kept'
  BY <1>3, <1>4, <1>5 DEF Kept
<1>7. Dropped'
  BY <1>4, <1>5 DEF Dropped, ArtifactWritten
<1>8. Accounted'
  BY <1>3 DEF Accounted
<1>9. ToCome'
  BY DEF ToCome
<1> QED
  BY <1>6, <1>7, <1>8, <1>9 DEF Closing

(* A failure settles it as one to be removed.                              *)
LEMMA FailSettled ==
    ASSUME Typed, Settled, TypeOK, ArtifactFails
    PROVE  Settled'
<1>1. /\ publish \in Runs /\ Underway /\ Name \in publish.left /\ Name \in Plan
      /\ Name \in Names \ Reserved
      /\ \A f \in publish.files : f.of # Name
      /\ Name \notin publish.failed
  BY AtWorkOpen DEF ArtifactFails
<1>2. /\ publish'.at = "stale" /\ publish'.left = publish.left
      /\ publish'.files = publish.files
      /\ publish'.failed = publish.failed \cup {Name}
      /\ publish'.groups = publish.groups /\ publish'.name = publish.name
      /\ publish'.phase = publish.phase /\ Plan' = Plan
  BY <1>1 DEF ArtifactFails, Runs, Plan
<1>4. \A n \in Names : n # Name => dir'[n] = dir[n]
  BY <1>1 DEF ArtifactFails, TypeOK
<1>5. Plan \subseteq Names
  BY <1>1, PlanIsNames
<1> USE <1>1, <1>2 DEF Settled
<1>6. Kept'
  BY <1>4, <1>5 DEF Kept
<1>7. Dropped'
  BY <1>4, <1>5 DEF Dropped, ArtifactFails, Name
<1>8. Accounted'
  BY DEF Accounted
<1>9. ToCome'
  BY DEF ToCome, Name
<1> QED
  BY <1>6, <1>7, <1>8, <1>9 DEF Closing

(* The removal settles it as one that is gone.                             *)
LEMMA StaleSettled ==
    ASSUME Typed, Settled, TypeOK, RemoveStale
    PROVE  Settled'
<1>1. /\ publish \in Runs /\ Underway /\ Name \in publish.left /\ Name \in Plan
      /\ Name \in Names \ Reserved
      /\ \A f \in publish.files : f.of # Name
  BY AtWorkOpen DEF RemoveStale
<1>2. /\ publish'.at = "artifact" /\ publish'.left = publish.left \ {Name}
      /\ publish'.files = publish.files /\ publish'.failed = publish.failed
      /\ publish'.groups = publish.groups
      /\ publish'.phase = publish.phase /\ Plan' = Plan
  BY <1>1 DEF RemoveStale, Runs, Plan
<1>4. dir'[Name] = Absent /\ \A n \in Names : n # Name => dir'[n] = dir[n]
  BY <1>1 DEF RemoveStale, TypeOK
<1>5. Plan \subseteq Names
  BY <1>1, PlanIsNames
<1> USE <1>1, <1>2 DEF Settled
<1>6. Kept'
  BY <1>4, <1>5 DEF Kept
<1>7. Dropped'
  BY <1>4, <1>5 DEF Dropped, RemoveStale
<1>8. Name \in publish.failed
  BY DEF ToCome, RemoveStale
<1>9. Accounted'
  BY <1>8 DEF Accounted
<1>10. ToCome'
  BY DEF ToCome
<1> QED
  BY <1>6, <1>7, <1>9, <1>10 DEF Closing

(* A step that leaves the directory and what is planned alone.              *)
LEMMA QuietSettled ==
    ASSUME Typed, Settled, publish \in Runs, Underway,
           publish'.groups = publish.groups, publish'.states = publish.states,
           publish'.phase = publish.phase, publish'.left = publish.left,
           publish'.files = publish.files, publish'.failed = publish.failed,
           publish'.runs = publish.runs, publish'.counts = publish.counts,
           publish'.at = "stale" =>
              publish.at = "stale" /\ publish'.name = publish.name,
           publish.at = "stale" => publish'.at \in {"stale", "check", "abort", "failed"},
           publish'.at \in {"counts", "sums", "verify"} =>
              publish'.at = publish.at \/ (publish'.at = "counts" /\ publish.left = {}),
           \A n \in Names : n # Foreign => dir'[n] = dir[n],
           publish'.at # "check"
    PROVE  Settled'
<1>1. Plan \subseteq Names \ Reserved /\ Plan' = Plan
      /\ Manifest \in Names \ {Foreign} /\ CHECKSUMS \in Names \ {Foreign}
  BY PlanIsNames, ReservedNames DEF Plan
<1> USE <1>1 DEF Settled
<1> SUFFICES ASSUME Underway' PROVE (Kept /\ Dropped /\ Accounted /\ ToCome /\ Closing)'
  OBVIOUS
<1>2. Kept'
  BY DEF Kept, Reserved
<1>3. Dropped'
  BY DEF Dropped, Reserved, Underway, Name
<1>4. Accounted'
  BY DEF Accounted
<1>5. ToCome'
  BY DEF ToCome, Name
<1>6. Closing'
  BY DEF Closing, Listing, Sums
<1> QED
  BY <1>2, <1>3, <1>4, <1>5, <1>6

(* With the archives settled the documents are planned.                    *)
LEMMA DocsSettled ==
    ASSUME Typed, Settled, LoadCounts
    PROVE  Settled'
<1>1. /\ publish \in Runs /\ Underway /\ publish.at = "counts" /\ publish.left = {}
      /\ publish.phase = "archives" /\ UNCHANGED dir
  BY RunIsRun DEF LoadCounts, Underway, Settled, ToCome, Typed
<1>2. /\ publish'.at = "artifact" /\ publish'.phase = "docs"
      /\ publish'.left = DocsPlan(publish.groups)
      /\ publish'.files = publish.files /\ publish'.failed = publish.failed
      /\ publish'.groups = publish.groups /\ publish'.states = publish.states
  <2>1. PICK held \in SUBSET {"load", "raw", "dictionary"} :
           publish' = [publish EXCEPT !.at = "artifact", !.phase = "docs",
                                      !.counts = now, !.held = held,
                                      !.left = DocsPlan(publish.groups)]
    BY DEF LoadCounts
  <2> QED
    BY <1>1, <2>1 DEF Runs
<1>3. /\ Plan' = Plan \cup DocsPlan(publish.groups)
      /\ Plan \cap DocsPlan(publish.groups) = {}
  BY <1>1, <1>2, PlanIsNames DEF Plan
<1> USE <1>1, <1>2, <1>3 DEF Settled
<1>4. Kept'
  BY DEF Kept
<1>5. Dropped'
  BY DEF Dropped
<1>6. Accounted' /\ ToCome' /\ Closing'
  BY DEF Accounted, ToCome, Closing
<1> QED
  BY <1>4, <1>5, <1>6

(* The manifest and CHECKSUMS are written with nothing left to settle.     *)
LEMMA CloseSettled ==
    ASSUME Typed, Settled, TypeOK, WriteManifest \/ WriteChecksums
    PROVE  Settled'
<1>1. /\ publish \in Runs /\ Underway /\ publish.left = {}
      /\ publish.at = "artifact" \/ publish.at = "sums"
  BY RunIsRun DEF WriteManifest, WriteChecksums, Underway, Settled, ToCome, Typed
<1>2. /\ publish'.phase = publish.phase /\ publish'.left = {}
      /\ publish'.files = publish.files /\ publish'.failed = publish.failed
      /\ publish'.groups = publish.groups /\ publish'.states = publish.states
      /\ publish'.runs = publish.runs /\ publish'.counts = publish.counts
      /\ publish'.at \in {"sums", "verify"} /\ Plan' = Plan
  BY <1>1 DEF WriteManifest, WriteChecksums, Runs, Plan
<1>3. /\ Plan \subseteq Names \ Reserved
      /\ Manifest \in Names /\ CHECKSUMS \in Names /\ Manifest # CHECKSUMS
  BY <1>1, PlanIsNames, ReservedNames
<1>4. \A n \in Plan : dir'[n] = dir[n]
  BY <1>3 DEF WriteManifest, WriteChecksums, TypeOK, Reserved
<1> USE <1>1, <1>2, <1>3, <1>4 DEF Settled
<1>5. Kept' /\ Dropped'
  BY DEF Kept, Dropped
<1>6. Accounted' /\ ToCome'
  BY DEF Accounted, ToCome
<1>7. Closing'
  <2>1. CASE WriteManifest
    <3>1. publish'.phase = "docs" /\ publish'.at = "sums"
          /\ dir'[Manifest] = Listing(publish.files)
      BY <2>1 DEF WriteManifest, TypeOK, Runs
    <3> QED
      BY <3>1 DEF Closing, Listing
  <2>2. CASE WriteChecksums
    <3>1. /\ publish'.phase = "docs"
          /\ dir'[Manifest] = dir[Manifest] /\ dir'[CHECKSUMS] = Sums
          /\ dir[Manifest] = Listing(publish.files)
      BY <2>2 DEF WriteChecksums, TypeOK, Closing
    <3> QED
      BY <3>1 DEF Closing, Listing, Sums
  <2> QED
    BY <2>1, <2>2
<1> QED
  BY <1>5, <1>6, <1>7

(* Every step keeps the account of what is settled.                        *)
LEMMA SettledStep == Typed /\ TypeOK /\ Settled /\ [Next]_vars => Settled'
<1> SUFFICES ASSUME Typed, TypeOK, Settled, [Next]_vars PROVE Settled'
  OBVIOUS
<1>1. CASE CheckOutDir \/ \E request \in Requests : PublishStart(request)
  BY <1>1, StartSettled
<1>2. CASE ArtifactWritten \/ ArtifactFails \/ RemoveStale
  BY <1>2, WriteSettled, FailSettled, StaleSettled
<1>3. CASE LoadCounts \/ WriteManifest \/ WriteChecksums
  BY <1>3, DocsSettled, CloseSettled
<1>4. ASSUME NEW n \in Names, ArtifactBegins(n) PROVE Settled'
  <2>1. publish \in Runs /\ Underway /\ UNCHANGED dir /\ publish.at = "artifact"
    BY <1>4, RunIsRun DEF ArtifactBegins, Underway
  <2>2. publish' = [publish EXCEPT !.at = "write", !.name = n, !.lists = now]
    BY <1>4 DEF ArtifactBegins
  <2> QED
    BY <2>1, <2>2, QuietSettled DEF Runs
<1>5. ASSUME NEW n \in Names, AssemblyFails(n) PROVE Settled'
  <2>1. publish \in Runs /\ Underway /\ UNCHANGED dir /\ publish.at = "artifact"
        /\ n \in publish.left
    BY <1>5, RunIsRun DEF AssemblyFails, Underway, Due
  <2>2. /\ publish'.at = "stale" /\ publish'.left = publish.left
        /\ publish'.files = publish.files
        /\ publish'.failed = publish.failed \cup {n}
        /\ publish'.groups = publish.groups /\ publish'.name = n
        /\ publish'.phase = publish.phase /\ Plan' = Plan
    BY <1>5, <2>1 DEF AssemblyFails, Runs, Plan
  <2> USE <2>1, <2>2 DEF Settled
  <2>3. n \in Plan /\ n \notin publish.failed
    BY DEF ToCome, Dropped
  <2>4. Kept'
    BY DEF Kept
  <2>5. Dropped'
    BY <2>3 DEF Dropped, Name
  <2>6. Accounted' /\ ToCome' /\ Closing'
    BY DEF Accounted, ToCome, Closing, Name
  <2> QED
    BY <2>4, <2>5, <2>6
<1>6. CASE LoadRuns
  <2>1. publish \in Runs /\ Underway /\ UNCHANGED dir /\ publish.at = "runs"
        /\ publish' = [publish EXCEPT !.at = "temp", !.runs = now]
    BY <1>6, RunIsRun DEF LoadRuns, Underway
  <2>2. /\ publish'.at = "temp" /\ publish'.left = publish.left
        /\ publish'.files = publish.files /\ publish'.failed = publish.failed
        /\ publish'.groups = publish.groups /\ publish'.phase = publish.phase
        /\ Plan' = Plan
    BY <2>1 DEF Runs, Plan
  <2> QED
    BY <2>1, <2>2 DEF Settled, Kept, Dropped, Accounted, ToCome, Closing
<1>7. CASE MakeRunTempDir \/ RemoveRunTempDir
  <2>1. publish \in Runs /\ Underway /\ UNCHANGED dir /\ publish.at \in {"temp", "artifact"}
    BY <1>7, RunIsRun DEF MakeRunTempDir, RemoveRunTempDir, Underway
  <2>2. \/ publish' = [publish EXCEPT !.at = "artifact"]
        \/ publish' = [publish EXCEPT !.at = "counts"] /\ publish.left = {}
    BY <1>7 DEF MakeRunTempDir, RemoveRunTempDir
  <2> QED
    BY <2>1, <2>2, QuietSettled DEF Runs
<1>8. CASE Cancelled \/ Commit
  <2>1. UNCHANGED dir
    BY <1>8 DEF Cancelled, Commit
  <2>2. \/ publish' = publish
        \/ /\ publish \in Runs
           /\ \/ publish' = [publish EXCEPT !.ctx = "cancelled"]
              \/ publish' = [publish EXCEPT !.calm = FALSE]
    BY <1>8, RunIsRun DEF Cancelled, Commit, AtWork
  <2>3. publish.at = "check" => publish \in Runs
    BY RunIsRun
  <2>4. CASE Underway
    <3>1. publish \in Runs /\ publish.at # "check"
      BY <2>4, RunIsRun DEF Underway
    <3> QED
      BY <2>1, <2>2, <2>4, <3>1, QuietSettled DEF Runs
  <2>5. CASE ~Underway
    <3>1. publish'.at = publish.at /\ publish'.files = publish.files
          /\ publish'.failed = publish.failed
      BY <2>2, <2>5 DEF Runs, Underway
    <3> QED
      BY <2>5, <3>1 DEF Settled, Underway
  <2> QED
    BY <2>4, <2>5
<1>9. CASE ForeignArrives
  <2>1. UNCHANGED publish /\ \A n \in Names : n # Foreign => dir'[n] = dir[n]
    BY <1>9 DEF ForeignArrives, TypeOK
  <2>2. CASE Underway
    <3>1. publish \in Runs /\ publish.at # "check"
      BY <2>2, RunIsRun DEF Underway
    <3> QED
      BY <2>1, <2>2, <3>1, QuietSettled
  <2>3. CASE ~Underway
    BY <2>1, <2>3 DEF Settled, Underway
  <2> QED
    BY <2>2, <2>3
<1>10. CASE PublishRefused \/ Abort \/ VerifyOutDir \/ Killed \/ OperatorClears
            \/ RemoveStaleFails \/ LoopFatal \/ ClosingFails
  <2>1. publish.at # "off" => publish \in Runs
    BY RunIsRun
  <2>2. publish'.at \in {"off", "done", "failed", "abort"}
    <3>1. CASE PublishRefused \/ Abort \/ VerifyOutDir
      BY <2>1, <3>1 DEF PublishRefused, Abort, VerifyOutDir, Runs
    <3>2. CASE Killed \/ OperatorClears
      BY <2>1, <3>2 DEF Killed, OperatorClears, AtWork, Off, Runs
    <3>3. CASE RemoveStaleFails \/ LoopFatal \/ ClosingFails
      BY <2>1, <3>3 DEF RemoveStaleFails, LoopFatal, ClosingFails, Runs
    <3> QED
      BY <1>10, <3>1, <3>2, <3>3
  <2> QED
    BY <2>2 DEF Settled, Underway
<1>11. CASE UNCHANGED vars
  BY <1>11 DEF vars, Settled, Underway, Kept, Dropped, Accounted, ToCome, Closing,
     Plan, Name, Listing, Sums
<1> QED
  BY <1>1, <1>2, <1>3, <1>4, <1>5, <1>6, <1>7, <1>8, <1>9, <1>10, <1>11
  DEF Next, PublishStep

-----------------------------------------------------------------------------
(* No run has an empty account.                                            *)
LEMMA InitTypes == Init => Typed /\ TypeOK /\ Settled
<1> SUFFICES ASSUME Init PROVE TypeOK /\ Settled
  BY InitTyped
<1>1. publish.at = "off"
  BY DEF Init, Off
<1>2. TypeOK
  BY <1>1, IndexIsNat, DepositAssumption DEF Init, TypeOK, AtWork, Absent, Index
<1>3. Settled
  BY <1>1 DEF Settled, Underway
<1> QED
  BY <1>2, <1>3

(* Every reachable state has the types and the account.                    *)
LEMMA Steady == Spec => [](Typed /\ TypeOK /\ Settled)
<1>1. Typed /\ TypeOK /\ Settled /\ [Next]_vars => (Typed /\ TypeOK /\ Settled)'
  BY TypedStep, TypeStep, SettledStep
<1> QED
  BY <1>1, InitTypes, PTL DEF Spec

(* Every variable keeps its type, and past its check a run leaves no hidden *)
(* name but its own temp directory and the temp of the artifact at work.    *)
THEOREM Types == Spec => []TypeOK
  BY Steady, PTL

-----------------------------------------------------------------------------
(* The end of a run.  verifyOutDir accepts a directory only if nothing is   *)
(* there that CHECKSUMS does not list; that all it lists is there, as it    *)
(* was listed, is what the run settled on the way.                          *)
LEMMA VouchedStep ==
    ASSUME Typed, TypeOK, Settled, [Next]_vars,
           publish.at = "verify", publish'.at = "done"
    PROVE  LET files == dir'[CHECKSUMS].files IN
           /\ {n \in Names : dir'[n] # Absent} = {f.of : f \in files} \cup {CHECKSUMS}
           /\ \A f \in files : dir'[f.of] = f
           /\ dir'[Manifest].files = files \ {dir'[Manifest]}
           /\ residue' = {}
<1>1. publish \in Runs /\ Underway
  BY RunIsRun DEF Underway
<1>2. VerifyOutDir
  BY <1>1 DEF Next, PublishStep, PublishRefused, CheckOutDir, LoadRuns,
     MakeRunTempDir, ArtifactBegins, AssemblyFails, ArtifactWritten, ArtifactFails,
     RemoveStale, RemoveStaleFails, LoopFatal, Abort, RemoveRunTempDir, LoadCounts,
     ClosingFails, WriteManifest, WriteChecksums, PublishStart, Cancelled, Killed,
     Commit, ForeignArrives, OperatorClears, vars, Runs, Off, AtWork
<1>3. Present \subseteq Listed /\ residue = {} /\ UNCHANGED <<dir, residue>>
  BY <1>1, <1>2 DEF VerifyOutDir, Runs
<1> DEFINE manifest == dir[Manifest]
           files == publish.files \cup {manifest}
<1>4. /\ manifest = Listing(publish.files) /\ manifest.of = Manifest
      /\ manifest.files = publish.files
  BY DEF Settled, Underway, Closing, Listing
<1>5. dir[CHECKSUMS].files = files /\ dir[CHECKSUMS].of = CHECKSUMS
  BY DEF Settled, Underway, Closing, Sums
<1>6. /\ Plan \subseteq Names \ Reserved
      /\ Manifest \in Names /\ CHECKSUMS \in Names
      /\ Manifest \in Reserved /\ NoName \notin Names
  BY <1>1, PlanIsNames, ReservedNames DEF Reserved
<1>7. \A f \in publish.files : f.of \in Names \ Reserved /\ dir[f.of] = f
  BY <1>6 DEF Settled, Underway, Kept
<1> HIDE DEF manifest
<1>8. manifest \notin publish.files
  BY <1>4, <1>6, <1>7
<1>9. \A f \in files : f.of \in Names /\ dir[f.of] = f /\ f # Absent
  BY <1>4, <1>6, <1>7 DEF Absent, manifest
<1>10. dir[CHECKSUMS] # Absent
  BY <1>5, <1>6 DEF Absent
<1>11. {n \in Names : dir[n] # Absent} = {f.of : f \in files} \cup {CHECKSUMS}
  <2>1. {n \in Names : dir[n] # Absent} \subseteq {f.of : f \in files} \cup {CHECKSUMS}
    BY <1>3, <1>5 DEF Present, Listed, TypeOK
  <2> QED
    BY <1>6, <1>9, <1>10, <2>1
<1>12. manifest.files = files \ {manifest}
  BY <1>4, <1>8
<1> HIDE DEF files
<1> QED
  BY <1>3, <1>5, <1>9, <1>11, <1>12 DEF manifest

(* A run that ends well leaves CHECKSUMS and exactly what it lists, each    *)
(* file as listed, with a manifest of the same files and nothing hidden,    *)
(* whatever earlier runs, commits or other hands did (publish.go Run).      *)
THEOREM RunVouches == Spec => Vouched
<1> DEFINE Step == publish.at = "verify" /\ publish'.at = "done" =>
                     LET files == dir'[CHECKSUMS].files IN
                     /\ {n \in Names : dir'[n] # Absent}
                          = {f.of : f \in files} \cup {CHECKSUMS}
                     /\ \A f \in files : dir'[f.of] = f
                     /\ dir'[Manifest].files = files \ {dir'[Manifest]}
                     /\ residue' = {}
<1>1. Typed /\ TypeOK /\ Settled /\ [Next]_vars => Step
  BY VouchedStep
<1>2. Vouched <=> [][Step]_vars
  BY DEF Vouched
<1> HIDE DEF Step
<1> QED
  BY <1>1, <1>2, Steady, PTL DEF Spec

(* Only WriteChecksums puts a CHECKSUMS in the directory.                   *)
LEMMA SealStep ==
    ASSUME Typed, TypeOK, Settled, [Next]_vars,
           dir'[CHECKSUMS] \notin {dir[CHECKSUMS], Absent}
    PROVE  \A n \in PlannedNames(publish.groups, publish.states) \ {CHECKSUMS} :
              IF n \in publish.failed THEN dir[n] = Absent
              ELSE dir[n] # Absent /\ dir[n] \in dir'[CHECKSUMS].files
<1>1. Manifest \in Names /\ CHECKSUMS \in Names /\ Foreign \in Names
      /\ Manifest # CHECKSUMS /\ Foreign # CHECKSUMS /\ NoName \notin Names
  BY ReservedNames
<1>2. ~(ArtifactWritten \/ ArtifactFails \/ RemoveStale)
  <2>1. SUFFICES ASSUME ArtifactWritten \/ ArtifactFails \/ RemoveStale PROVE FALSE
    OBVIOUS
  <2>2. Name # CHECKSUMS
    BY <2>1, AtWorkOpen DEF ArtifactWritten, ArtifactFails, RemoveStale, Reserved
  <2> QED
    BY <1>1, <2>1, <2>2 DEF ArtifactWritten, ArtifactFails, RemoveStale, TypeOK
<1>3. ~(WriteManifest \/ ForeignArrives \/ OperatorClears)
  BY <1>1 DEF WriteManifest, ForeignArrives, OperatorClears, TypeOK
<1>4. WriteChecksums
  BY <1>2, <1>3 DEF Next, PublishStep, PublishRefused, CheckOutDir, LoadRuns,
     MakeRunTempDir, ArtifactBegins, AssemblyFails, RemoveStaleFails, LoopFatal,
     Abort, RemoveRunTempDir, LoadCounts, ClosingFails, VerifyOutDir, PublishStart,
     Cancelled, Killed, Commit, vars
<1>5. publish \in Runs /\ Underway /\ publish.at = "sums" /\ publish.left = {}
  BY <1>4, RunIsRun DEF WriteChecksums, Underway, Settled, ToCome
<1>6. dir'[CHECKSUMS].files = publish.files \cup {dir[Manifest]}
  BY <1>1, <1>4 DEF WriteChecksums, Sums, TypeOK
<1>7. dir[Manifest] # Absent /\ Manifest \notin Plan /\ Plan \subseteq Names
  <2>1. dir[Manifest].of = Manifest
    BY <1>5 DEF Settled, Closing, Listing
  <2> QED
    BY <1>1, <1>5, <2>1, PlanIsNames DEF Absent, Reserved
<1>8. PlannedNames(publish.groups, publish.states) \ {CHECKSUMS}
         = (Plan \cup {Manifest}) \ {CHECKSUMS}
  BY <1>1, <1>5 DEF PlannedNames, Plan, Settled, Closing
<1>9. Manifest \notin publish.failed
  BY <1>5, <1>7 DEF Settled, Dropped
<1>10. ASSUME NEW n \in Plan
       PROVE  IF n \in publish.failed THEN dir[n] = Absent
              ELSE dir[n] # Absent /\ dir[n] \in publish.files
  <2>1. CASE n \in publish.failed
    BY <1>5, <2>1 DEF Settled, Dropped
  <2>2. CASE n \notin publish.failed
    <3>1. PICK f \in publish.files : f.of = n
      BY <1>5, <2>2 DEF Settled, Accounted
    <3>2. dir[n] = f /\ n \in Names
      BY <1>5, <1>7, <3>1 DEF Settled, Kept
    <3> QED
      BY <1>1, <2>2, <3>1, <3>2 DEF Absent
  <2> QED
    BY <2>1, <2>2
<1> QED
  BY <1>6, <1>7, <1>8, <1>9, <1>10

(* CHECKSUMS is written once everything the run planned is settled: there   *)
(* and listed, or failed and gone with what an earlier run had left.        *)
THEOREM ChecksumsSeal == Spec => SealLast
<1> DEFINE Step == dir'[CHECKSUMS] \notin {dir[CHECKSUMS], Absent} =>
                     \A n \in PlannedNames(publish.groups, publish.states) \ {CHECKSUMS} :
                        IF n \in publish.failed THEN dir[n] = Absent
                        ELSE dir[n] # Absent /\ dir[n] \in dir'[CHECKSUMS].files
<1>1. Typed /\ TypeOK /\ Settled /\ [Next]_vars => Step
  BY SealStep
<1>2. SealLast <=> [][Step]_vars
  BY DEF SealLast
<1> HIDE DEF Step
<1> QED
  BY <1>1, <1>2, Steady, PTL DEF Spec

-----------------------------------------------------------------------------
(* Copies.  From its assembly on, a national copy is made of all the state  *)
(* archives of its source group that its run built, one of every state: no  *)
(* other is built after it, for the archives of the states come first.      *)
Stocked == Underway \/ publish.at = "done"
Sourced(files) ==
    \A f \in NationalCopies(files) :
        /\ f.from = {g \in files : Group(g.of) = copiesFrom[Group(f.of)]}
        /\ Assembles(Group(f.of), Views[f.lists], StateArchives(f.from))
Ready   == /\ Due(Name)
           /\ IsArchive(Name) /\ Copies(Group(Name)) =>
                 Assembles(Group(Name), Views[publish.lists],
                           StateArchives(Sources(Group(Name))))
Copying == /\ Stocked => Sourced(publish.files)
           /\ Underway /\ NationalCopies(publish.files) # {} =>
                 \A n \in publish.left : ~PerState(Group(n))
           /\ publish.at = "write" => Ready
           /\ dir[CHECKSUMS] # Absent => Sourced(dir[CHECKSUMS].files)

(* A file that is no state's archive sources nothing.                       *)
LEMMA SourcedStays ==
    ASSUME NEW files, NEW file, Sourced(files), ~PerState(Group(file.of)),
           ~(IsArchive(file.of) /\ Copies(Group(file.of)))
    PROVE  Sourced(files \cup {file}) /\ NationalCopies(files \cup {file})
                                            = NationalCopies(files)
<1>1. NationalCopies(files \cup {file}) = NationalCopies(files)
  BY DEF NationalCopies
<1>2. ASSUME NEW f \in NationalCopies(files)
      PROVE  {g \in files \cup {file} : Group(g.of) = copiesFrom[Group(f.of)]}
                = {g \in files : Group(g.of) = copiesFrom[Group(f.of)]}
  <2>1. PerState(copiesFrom[Group(f.of)])
    BY DEF NationalCopies, Copies, copiesFrom, PerState
  <2> QED
    BY <2>1
<1> QED
  BY <1>1, <1>2 DEF Sourced

(* A step that adds no file and no CHECKSUMS.                              *)
LEMMA QuietCopying ==
    ASSUME Copying, Stocked' => Stocked, Underway' => Underway,
           publish'.at = "write" =>
              /\ publish.at = "write" /\ publish'.name = publish.name
              /\ publish'.left = publish.left /\ publish'.lists = publish.lists,
           publish'.at \in Stages => publish'.files = publish.files,
           publish'.at \in Stages => publish'.left \subseteq publish.left,
           dir'[CHECKSUMS] \in {dir[CHECKSUMS], Absent}
    PROVE  Copying'
<1> USE DEF Copying
<1>1. (Stocked => Sourced(publish.files))'
  BY DEF Stocked, Underway, Stages
<1>2. (Underway /\ NationalCopies(publish.files) # {} =>
          \A n \in publish.left : ~PerState(Group(n)))'
  BY DEF Underway, Stages
<1>3. (publish.at = "write" => Ready)'
  BY DEF Ready, Due, Name, Sources, Built, Stages
<1>4. (dir[CHECKSUMS] # Absent => Sourced(dir[CHECKSUMS].files))'
  OBVIOUS
<1> QED
  BY <1>1, <1>2, <1>3, <1>4

(* A rename: of a copy, which finds every state archive built; of a state  *)
(* archive, before any copy; of another, which sources none.               *)
LEMMA WriteCopying ==
    ASSUME Typed, TypeOK, Settled, Copying, ArtifactWritten
    PROVE  Copying'
<1>1. /\ publish \in Runs /\ Underway /\ Stocked /\ Name \in publish.left
      /\ Name \in Names \ Reserved
      /\ publish.at = "write" /\ Written.of = Name
  BY AtWorkOpen, WrittenIsFile DEF ArtifactWritten, Stocked
<1>2. /\ publish'.at = "artifact" /\ publish'.left = publish.left \ {Name}
      /\ publish'.files = publish.files \cup {Written}
  BY <1>1 DEF ArtifactWritten, Runs
<1>3. dir'[CHECKSUMS] = dir[CHECKSUMS]
  BY <1>1, ReservedNames DEF ArtifactWritten, TypeOK, Reserved
<1>4. Sourced(publish.files) /\ Ready
  BY <1>1 DEF Copying
<1>5. /\ Sourced(publish.files \cup {Written})
      /\ NationalCopies(publish.files \cup {Written}) # {} =>
            \A n \in publish.left \ {Name} : ~PerState(Group(n))
  <2>1. CASE IsArchive(Name) /\ Copies(Group(Name))
    <3>1. ~PerState(Group(Name)) /\ FullRunOnly(Group(Name))
      BY <2>1 DEF Copies, copiesFrom, PerState, FullRunOnly
    <3>2. \A n \in publish.left : ~PerState(Group(n))
      BY <1>4, <3>1 DEF Ready, Due, Sooner
    <3>3. Written = Archive
      BY <2>1 DEF Written
    <3>4. /\ Written.from = {g \in publish.files : Group(g.of) = copiesFrom[Group(Name)]}
          /\ Written.lists = publish.lists
      BY <2>1, <3>3 DEF Archive, Sources, Built
    <3>5. Assembles(Group(Name), Views[Written.lists], StateArchives(Written.from))
      BY <1>4, <2>1, <3>3, <3>4 DEF Ready, Archive
    <3>6. NationalCopies(publish.files \cup {Written})
             = NationalCopies(publish.files) \cup {Written}
      BY <1>1, <2>1 DEF NationalCopies
    <3>7. ASSUME NEW f \in NationalCopies(publish.files) \cup {Written}
          PROVE  {g \in publish.files \cup {Written} :
                     Group(g.of) = copiesFrom[Group(f.of)]}
                    = {g \in publish.files : Group(g.of) = copiesFrom[Group(f.of)]}
      <4>1. PerState(copiesFrom[Group(f.of)])
        BY <1>1, <2>1 DEF NationalCopies, Copies, copiesFrom, PerState
      <4> QED
        BY <1>1, <3>1, <4>1
    <3>8. Sourced(publish.files \cup {Written})
      BY <1>1, <1>4, <3>4, <3>5, <3>6, <3>7 DEF Sourced
    <3> QED
      BY <3>2, <3>8
  <2>2. CASE ~(IsArchive(Name) /\ Copies(Group(Name))) /\ ~PerState(Group(Name))
    BY <1>1, <1>4, <2>2, SourcedStays DEF Copying
  <2>3. CASE PerState(Group(Name))
    <3>1. NationalCopies(publish.files) = {}
      BY <1>1, <2>3 DEF Copying
    <3>2. NationalCopies(publish.files \cup {Written}) = {}
      BY <1>1, <2>3, <3>1 DEF NationalCopies, Copies, copiesFrom, PerState
    <3> QED
      BY <3>2 DEF Sourced
  <2> QED
    BY <2>1, <2>2, <2>3
<1> QED
  BY <1>2, <1>3, <1>5 DEF Copying

(* The steps before a run's first archive and at its last: no copy yet, or  *)
(* all that the run built is sealed.                                        *)
LEMMA EndsCopying ==
    ASSUME Typed, TypeOK, Settled, Copying,
           CheckOutDir \/ LoadCounts \/ WriteManifest \/ WriteChecksums
    PROVE  Copying'
<1>1. publish \in Runs
  BY RunIsRun DEF CheckOutDir, LoadCounts, WriteManifest, WriteChecksums
<1>2. CASE CheckOutDir
  <2>1. publish'.files = {} /\ publish'.at = "runs" /\ UNCHANGED dir
    BY <1>1, <1>2 DEF CheckOutDir, Settled, Runs
  <2>2. NationalCopies({}) = {}
    BY DEF NationalCopies
  <2> QED
    BY <2>1, <2>2 DEF Copying, Sourced
<1>3. CASE LoadCounts
  <2>1. /\ publish'.files = publish.files /\ publish'.at = "artifact" /\ UNCHANGED dir
        /\ publish'.left = DocsPlan(publish.groups) /\ publish.at = "counts"
    <3>1. PICK held \in SUBSET {"load", "raw", "dictionary"} :
             publish' = [publish EXCEPT !.at = "artifact", !.phase = "docs",
                                        !.counts = now, !.held = held,
                                        !.left = DocsPlan(publish.groups)]
      BY <1>3 DEF LoadCounts
    <3> QED
      BY <1>1, <1>3, <3>1 DEF LoadCounts, Runs
  <2>2. \A n \in DocsPlan(publish.groups) : ~PerState(Group(n))
    BY DepositAssumption, GroupsListed DEF DocsPlan, PerState, Group, Top
  <2> QED
    BY <2>1, <2>2 DEF Copying, Stocked, Underway
<1>4. CASE WriteManifest
  <2>1. /\ publish'.files = publish.files /\ publish'.left = publish.left
        /\ publish'.at = "sums" /\ publish.at = "artifact"
        /\ dir'[CHECKSUMS] = dir[CHECKSUMS]
    BY <1>1, <1>4, ReservedNames DEF WriteManifest, Runs, TypeOK
  <2> QED
    BY <2>1 DEF Copying, Stocked, Underway
<1>5. CASE WriteChecksums
  <2>1. /\ publish'.files = publish.files /\ publish'.left = publish.left
        /\ publish'.at = "verify" /\ publish.at = "sums"
        /\ dir'[CHECKSUMS] = Sums
    BY <1>1, <1>5, ReservedNames DEF WriteChecksums, Runs, TypeOK
  <2>2. dir[Manifest].of = Manifest
    BY <2>1 DEF Settled, Underway, Closing, Listing
  <2>3. ~PerState(Group(Manifest)) /\ ~IsArchive(Manifest)
    BY DEF PerState, Group, IsArchive, Manifest, Top
  <2>4. Sourced(publish.files)
    BY <2>1 DEF Copying, Stocked, Underway
  <2>5. Sourced(publish.files \cup {dir[Manifest]})
    BY <2>2, <2>3, <2>4, SourcedStays
  <2>6. Sourced(dir'[CHECKSUMS].files)
    BY <2>1, <2>5 DEF Sums
  <2> QED
    BY <2>1, <2>4, <2>6 DEF Copying, Stocked, Underway
<1> QED
  BY <1>2, <1>3, <1>4, <1>5

(* No step separates a copy from the state archives it was made of.        *)
LEMMA CopyingStep == Typed /\ TypeOK /\ Settled /\ Copying /\ [Next]_vars => Copying'
<1> SUFFICES ASSUME Typed, TypeOK, Settled, Copying, [Next]_vars PROVE Copying'
  OBVIOUS
<1>0. publish.at # "off" => publish \in Runs
  BY RunIsRun
<1>1. CASE CheckOutDir \/ LoadCounts \/ WriteManifest \/ WriteChecksums
  BY <1>1, EndsCopying
<1>2. CASE ArtifactWritten
  BY <1>2, WriteCopying
<1>3. ASSUME NEW n \in Names, ArtifactBegins(n) PROVE Copying'
  <2>1. publish \in Runs /\ publish.at = "artifact" /\ UNCHANGED dir
    BY <1>0, <1>3 DEF ArtifactBegins
  <2>2. /\ publish'.at = "write" /\ publish'.left = publish.left
        /\ publish'.files = publish.files /\ publish'.name = n /\ publish'.lists = now
    BY <1>3, <2>1 DEF ArtifactBegins, Runs
  <2>3. /\ Due(n)
        /\ Copies(Group(n)) => Assembles(Group(n), Views[now],
              StateArchives({f \in publish.files : Group(f.of) = copiesFrom[Group(n)]}))
    BY <1>3 DEF ArtifactBegins, View, Sources, Built
  <2>4. Ready'
    BY <2>2, <2>3 DEF Ready, Due, Name, Sources, Built
  <2> QED
    BY <2>1, <2>2, <2>4 DEF Copying, Stocked, Underway
<1>4. ASSUME NEW n \in Names, AssemblyFails(n) PROVE Copying'
  <2>1. publish \in Runs /\ publish.at = "artifact" /\ UNCHANGED dir
    BY <1>0, <1>4 DEF AssemblyFails
  <2>2. /\ publish'.at = "stale" /\ publish'.left = publish.left
        /\ publish'.files = publish.files
    BY <1>4, <2>1 DEF AssemblyFails, Runs
  <2> QED
    BY <2>1, <2>2, QuietCopying DEF Stocked, Underway
<1>5. CASE ArtifactFails \/ RemoveStale
  <2>1. publish \in Runs /\ Underway /\ Name \in Names \ Reserved
    BY <1>5, AtWorkOpen DEF ArtifactFails, RemoveStale
  <2>2. dir'[CHECKSUMS] = dir[CHECKSUMS]
    BY <1>5, <2>1, ReservedNames DEF ArtifactFails, RemoveStale, TypeOK, Reserved
  <2>3. /\ publish'.at \in {"artifact", "stale"} /\ publish'.files = publish.files
        /\ publish'.left \subseteq publish.left
    <3>1. CASE ArtifactFails
      BY <2>1, <3>1 DEF ArtifactFails, Runs
    <3>2. CASE RemoveStale
      BY <2>1, <3>2 DEF RemoveStale, Runs
    <3> QED
      BY <1>5, <3>1, <3>2
  <2> QED
    BY <2>1, <2>2, <2>3, QuietCopying DEF Stocked
<1>6. CASE LoadRuns \/ MakeRunTempDir \/ RemoveRunTempDir
  <2>1. publish \in Runs /\ Underway /\ UNCHANGED dir
    BY <1>0, <1>6 DEF LoadRuns, MakeRunTempDir, RemoveRunTempDir, Underway
  <2>2. /\ publish'.at \in {"temp", "artifact", "counts"}
        /\ publish'.files = publish.files /\ publish'.left = publish.left
    BY <1>6, <2>1 DEF LoadRuns, MakeRunTempDir, RemoveRunTempDir, Runs
  <2> QED
    BY <2>1, <2>2, QuietCopying DEF Stocked
<1>7. CASE VerifyOutDir
  <2>1. publish \in Runs /\ Underway /\ UNCHANGED dir
    BY <1>0, <1>7 DEF VerifyOutDir, Underway
  <2>2. /\ publish'.at \in {"done", "failed"}
        /\ publish'.files = publish.files /\ publish'.left = publish.left
    BY <1>7, <2>1 DEF VerifyOutDir, Runs
  <2> QED
    BY <2>1, <2>2, QuietCopying DEF Stocked, Underway
<1>8. CASE Cancelled \/ Commit
  <2>1. UNCHANGED dir
    BY <1>8 DEF Cancelled, Commit
  <2>2. \/ publish' = publish
        \/ /\ publish \in Runs
           /\ \/ publish' = [publish EXCEPT !.ctx = "cancelled"]
              \/ publish' = [publish EXCEPT !.calm = FALSE]
    BY <1>0, <1>8 DEF Cancelled, Commit, AtWork
  <2>3. /\ publish'.at = publish.at /\ publish'.files = publish.files
        /\ publish'.left = publish.left /\ publish'.name = publish.name
        /\ publish'.lists = publish.lists
    BY <2>2 DEF Runs
  <2> QED
    BY <2>1, <2>3, QuietCopying DEF Stocked, Underway
<1>9. CASE ForeignArrives \/ UNCHANGED vars
  <2>1. UNCHANGED publish /\ dir'[CHECKSUMS] = dir[CHECKSUMS]
    BY <1>9, ReservedNames DEF ForeignArrives, vars, TypeOK
  <2> QED
    BY <2>1, QuietCopying DEF Stocked, Underway
<1>10. CASE PublishRefused \/ Abort \/ Killed \/ OperatorClears
            \/ RemoveStaleFails \/ LoopFatal \/ ClosingFails
            \/ \E request \in Requests : PublishStart(request)
  <2>1. publish'.at \in {"off", "failed", "abort", "check"}
    <3>1. CASE PublishRefused \/ Abort
      BY <1>0, <3>1 DEF PublishRefused, Abort, Runs
    <3>2. CASE Killed \/ OperatorClears
      BY <1>0, <3>2 DEF Killed, OperatorClears, AtWork, Off, Runs
    <3>3. CASE RemoveStaleFails \/ LoopFatal \/ ClosingFails
      BY <1>0, <3>3 DEF RemoveStaleFails, LoopFatal, ClosingFails, Runs
    <3>4. ASSUME NEW request \in Requests, PublishStart(request)
          PROVE  publish'.at = "check"
      BY <3>4 DEF PublishStart
    <3> QED
      BY <1>10, <3>1, <3>2, <3>3, <3>4
  <2>2. dir'[CHECKSUMS] \in {dir[CHECKSUMS], Absent}
    <3>1. CASE OperatorClears
      BY <3>1, ReservedNames DEF OperatorClears, TypeOK
    <3>2. CASE UNCHANGED dir
      BY <3>2
    <3> QED
      BY <1>10, <3>1, <3>2 DEF PublishRefused, Abort, Killed, RemoveStaleFails,
         LoopFatal, ClosingFails, PublishStart
  <2>3. ~Stocked' /\ ~Underway' /\ publish'.at # "write"
    BY <2>1 DEF Stocked, Underway
  <2> QED
    BY <2>2, <2>3 DEF Copying
<1> QED
  BY <1>1, <1>2, <1>3, <1>4, <1>5, <1>6, <1>7, <1>8, <1>9, <1>10
  DEF Next, PublishStep

(* Every reachable state has its copies sourced.                           *)
LEMMA CopyingHolds == Spec => [](Typed /\ TypeOK /\ Settled /\ Copying)
<1>1. Init => Copying
  <2> SUFFICES ASSUME Init PROVE Copying
    OBVIOUS
  <2>1. publish.at = "off" /\ dir[CHECKSUMS] = Absent
    BY ReservedNames DEF Init, Off
  <2> QED
    BY <2>1 DEF Copying, Stocked, Underway
<1> QED
  BY <1>1, CopyingStep, Steady, PTL DEF Spec

-----------------------------------------------------------------------------
(* Entries.  The paths a national archive generates itself are the same of  *)
(* every view, one entry each.                                              *)
TablePaths == {<<"conagua/stations">>, <<"conagua/monthly_normals">>,
               <<"conagua/monthly_normals_extras">>, <<"nasa_power/cells">>,
               <<"nasa_power/station_cell_map">>, <<"nasa_power/monthly">>,
               <<"combined/combined_monthly">>}

(* The seven tables of any scope have seven paths.                         *)
LEMMA TablesOnce ==
    ASSUME NEW v, NEW where
    PROVE  /\ \A e \in TableEntries(v, where) : e[1] \in TablePaths
           /\ \A p \in TablePaths : \E e \in TableEntries(v, where) : e[1] = p
           /\ \A d \in TableEntries(v, where), e \in TableEntries(v, where) :
                 d[1] = e[1] => d = e
<1> DEFINE stations == Scope(v, where)
           cells == CellSet(v, where)
           b == {<<s, v.rows[s]>> : s \in stations}
           q == {<<s, v.cell[s]>> : s \in {t \in stations : v.cell[t] # NoCell}}
           r == {<<c, v.power[c]>> : c \in cells}
           m == {<<s, v.rows[s], v.cell[s], PowerRows(v, v.cell[s])>> : s \in stations}
<1>1. TableEntries(v, where) =
         {<<<<"conagua/stations">>, stations>>,
          <<<<"conagua/monthly_normals">>, b>>,
          <<<<"conagua/monthly_normals_extras">>, b>>,
          <<<<"nasa_power/cells">>, cells>>,
          <<<<"nasa_power/station_cell_map">>, q>>,
          <<<<"nasa_power/monthly">>, r>>,
          <<<<"combined/combined_monthly">>, m>>}
  <2>1. ConaguaTables(v, where) =
           {<<<<"conagua/stations">>, stations>>,
            <<<<"conagua/monthly_normals">>, b>>,
            <<<<"conagua/monthly_normals_extras">>, b>>}
    BY DEF ConaguaTables
  <2>2. PowerTables(v, where) =
           {<<<<"nasa_power/cells">>, cells>>,
            <<<<"nasa_power/station_cell_map">>, q>>,
            <<<<"nasa_power/monthly">>, r>>}
    BY Zenon DEF PowerTables
  <2>3. CombinedMonthly(v, where) = {<<<<"combined/combined_monthly">>, m>>}
    BY DEF CombinedMonthly
  <2> HIDE DEF stations, cells, b, q, r, m
  <2> QED
    BY <2>1, <2>2, <2>3 DEF TableEntries
<1> HIDE DEF stations, cells, b, q, r, m
<1> QED
  BY <1>1 DEF TablePaths

(* So what is generated has one entry for each path, whatever the view.    *)
LEMMA RegeneratedOnce ==
    ASSUME NEW g \in DOMAIN copiesFrom, NEW v, NEW runs
    PROVE  /\ \A e \in Regenerated(g, v, runs) : e[1] \in RegeneratedPaths(g)
           /\ \A d \in Regenerated(g, v, runs), e \in Regenerated(g, v, runs) :
                 d[1] = e[1] => d = e
<1>1. \A r : /\ Provenance(r) = {<<<<"provenance">>, r.runs>>}
             /\ <<<<"provenance">>, r.runs>>[1] = <<"provenance">>
  BY DEF Provenance
<1>2. <<"provenance">> \notin TablePaths
  BY DEF TablePaths
<1> DEFINE Tables(w) == IF g = "national-csv" THEN TableEntries(w, All) ELSE {}
<1>3. \A w, r : Regenerated(g, w, r) = Provenance(r) \cup Tables(w)
  BY DEF Regenerated
<1>4. \A w : /\ \A e \in Tables(w) : e[1] \in TablePaths
             /\ \A d \in Tables(w), e \in Tables(w) : d[1] = e[1] => d = e
  BY TablesOnce
<1>5. \A e \in Tables(v) : \E d \in Tables(Views[1]) : d[1] = e[1]
  BY TablesOnce
<1> HIDE DEF Tables
<1>6. ASSUME NEW e \in Regenerated(g, v, runs) PROVE e[1] \in RegeneratedPaths(g)
  <2>1. PICK d \in Regenerated(g, Views[1], Views[1]) : d[1] = e[1]
    <3>1. CASE e \in Provenance(runs)
      <4>1. <<<<"provenance">>, Views[1].runs>> \in Regenerated(g, Views[1], Views[1])
        BY <1>1, <1>3
      <4>2. e[1] = <<"provenance">>
        BY <1>1, <3>1
      <4> QED
        BY <1>1, <4>1, <4>2
    <3>2. CASE e \in Tables(v)
      BY <1>3, <1>5, <3>2
    <3> QED
      BY <1>3, <1>6, <3>1, <3>2
  <2> QED
    BY <2>1 DEF RegeneratedPaths
<1> QED
  BY <1>1, <1>2, <1>3, <1>4, <1>6

(* The archives that assemble hold one content for each path.               *)
LEMMA AssembledOnce ==
    ASSUME NEW g \in DOMAIN copiesFrom, NEW v, NEW w, NEW runs, NEW sources,
           Assembles(g, v, sources)
    PROVE  \A d \in NationalEntries(g, w, runs, sources),
              e \in NationalEntries(g, w, runs, sources) : d[1] = e[1] => d = e
<1> DEFINE R == Regenerated(g, w, runs)
           U == UNION {ToCopy(g, a) : a \in sources}
<1>1. /\ \A e \in R : e[1] \in RegeneratedPaths(g)
      /\ \A d \in R, e \in R : d[1] = e[1] => d = e
  BY RegeneratedOnce
<1>2. \A e \in U : e[1] \notin RegeneratedPaths(g)
  BY DEF ToCopy, ToClass
<1>3. \A d \in U, e \in U : d[1] = e[1] => d = e
  BY DEF Assembles
<1>4. NationalEntries(g, w, runs, sources) = R \cup U
  BY DEF NationalEntries
<1> HIDE DEF R, U
<1> QED
  BY <1>1, <1>2, <1>3, <1>4

(* Whatever was killed, aborted or replaced since: while CHECKSUMS verifies, *)
(* a national copy holds one content for each path, and was made of exactly  *)
(* the state archives listed with it, one of every state (national.go).      *)
THEOREM CopiesOfWhatIsListed == Spec => []CopiesAgree
<1>1. ASSUME Copying PROVE CopiesAgree
  <2> SUFFICES ASSUME dir[CHECKSUMS] # Absent,
                      NEW f \in NationalCopies(dir[CHECKSUMS].files)
               PROVE  /\ f.from = {g \in dir[CHECKSUMS].files :
                                      Group(g.of) = copiesFrom[Group(f.of)]}
                      /\ {g.of[1] : g \in f.from} = LoadStates(Views[f.lists])
                      /\ \A d, e \in Copied(f) : d[1] = e[1] => d = e
    BY DEF CopiesAgree, Verifies
  <2>1. /\ f.from = {g \in dir[CHECKSUMS].files : Group(g.of) = copiesFrom[Group(f.of)]}
        /\ Assembles(Group(f.of), Views[f.lists], StateArchives(f.from))
    BY <1>1 DEF Copying, Sourced
  <2>2. {a.of : a \in StateArchives(f.from)} = {g.of[1] : g \in f.from}
    <3>1. \A g : StateArchive(g).of = g.of[1]
      BY DEF StateArchive
    <3> QED
      BY <3>1 DEF StateArchives
  <2>3. {g.of[1] : g \in f.from} = LoadStates(Views[f.lists])
    BY <2>1, <2>2 DEF Assembles
  <2>4. Group(f.of) \in DOMAIN copiesFrom
    BY DEF NationalCopies, Copies
  <2>5. \A d, e \in Copied(f) : d[1] = e[1] => d = e
    BY <2>1, <2>4, AssembledOnce DEF Copied
  <2> QED
    BY <2>1, <2>3, <2>5
<1> QED
  BY <1>1, CopyingHolds, PTL

-----------------------------------------------------------------------------
(* What a copy takes from a state's archive: its per-unit files, no more.   *)
LEMMA OwnPaths ==
    /\ RegeneratedPaths("national-csv") = TablePaths \cup {<<"provenance">>}
    /\ RegeneratedPaths("national-json") = {<<"provenance">>}
<1>1. Provenance(Views[1]) = {<<<<"provenance">>, Views[1].runs>>}
  BY DEF Provenance
<1>2. {e[1] : e \in Provenance(Views[1])} = {<<"provenance">>}
  BY <1>1
<1>3. {e[1] : e \in TableEntries(Views[1], All)} = TablePaths
  BY TablesOnce
<1>4. \A S, T : {e[1] : e \in S \cup T} = {e[1] : e \in S} \cup {e[1] : e \in T}
  OBVIOUS
<1>5. /\ Regenerated("national-csv", Views[1], Views[1])
            = Provenance(Views[1]) \cup TableEntries(Views[1], All)
      /\ Regenerated("national-json", Views[1], Views[1]) = Provenance(Views[1])
  BY DEF Regenerated
<1> QED
  BY <1>2, <1>3, <1>4, <1>5 DEF RegeneratedPaths

(* What EntryClass does with each kind of path.                            *)
LEMMA Classes ==
    ASSUME NEW st, NEW path
    PROVE  /\ path[1] \in {"parquet", "db"} => EntryClass("tabular", st, path) = "skip"
           /\ path[1] = "nasa_power/daily" => EntryClass("tabular", st, path) = "copy"
           /\ path[1] \in {"conagua/daily_observations", "combined/combined_daily"}
                 /\ path[2] = st => EntryClass("tabular", st, path) = "copy"
           /\ path[1] = "combined" /\ path[2] = st =>
                 EntryClass("json", st, path) = "copy"
  BY DEF EntryClass

(* A unit's file is under its own folder, a station's under its state.      *)
LEMMA UnitPaths ==
    ASSUME NEW v, NEW st \in SlugSet, NEW e \in Units(v, v, st)
    PROVE  /\ EntryClass("tabular", st, e[1]) = "copy"
           /\ e[1] \notin TablePaths \cup {<<"provenance">>}
<1>0. \A s \in Scope(v, st) : v.state[s] = st
  BY SlugsAssumption DEF Scope, All
<1>1. CASE e \in DailyEntries(v, v, st)
  <2>1. PICK s \in Scope(v, st) : e[1] = <<"conagua/daily_observations", v.state[s], s>>
    BY <1>1 DEF DailyEntries, Shard
  <2>2. e[1][1] = "conagua/daily_observations" /\ e[1][2] = st
    BY <1>0, <2>1
  <2> QED
    BY <2>2, Classes DEF TablePaths
<1>2. CASE e \in CombinedDailyEntries(v, v, st)
  <2>1. PICK s \in Scope(v, st) : e[1] = <<"combined/combined_daily", v.state[s], s>>
    BY <1>2 DEF CombinedDailyEntries, Shard
  <2>2. e[1][1] = "combined/combined_daily" /\ e[1][2] = st
    BY <1>0, <2>1
  <2> QED
    BY <2>2, Classes DEF TablePaths
<1>3. CASE e \in CellDailyEntries(v, v, st)
  <2>1. PICK c \in CellSet(v, st) : e[1] = <<"nasa_power/daily", c>>
    BY <1>3 DEF CellDailyEntries
  <2>2. e[1][1] = "nasa_power/daily"
    BY <2>1
  <2> QED
    BY <2>2, Classes DEF TablePaths
<1> QED
  BY <1>1, <1>2, <1>3 DEF Units

(* Of a tabular archive a copy takes the per-unit files.                   *)
LEMMA TabularCopies ==
    ASSUME NEW v, NEW st \in SlugSet
    PROVE  ToCopy("national-csv", [of |-> st, entries |-> TabularEntries(v, v, v, st)])
              = Units(v, v, st)
<1> DEFINE Entries == TabularEntries(v, v, v, st)
           Taken(e) == /\ e[1] \notin TablePaths \cup {<<"provenance">>}
                       /\ EntryClass("tabular", st, e[1]) = "copy"
           T == TableEntries(v, st)
           U == Units(v, v, st)
           P == ParquetEntries(v, v, st)
           R == Provenance(v)
           D == {<<<<"db", st>>, StateDB(v, st)>>}
<1>1. ToCopy("national-csv", [of |-> st, entries |-> Entries])
         = {e \in Entries : Taken(e)}
  <2>1. copiesFrom["national-csv"] = "tabular"
    BY DEF copiesFrom
  <2> HIDE DEF Entries
  <2> QED
    BY <2>1, OwnPaths DEF ToCopy, ToClass
<1>2. Entries = T \cup U \cup P \cup R \cup D
  BY DEF TabularEntries
<1>3. \A e \in T : ~Taken(e)
  BY TablesOnce
<1>4. \A e \in U : Taken(e)
  BY UnitPaths
<1>5. \A e \in P : e[1][1] = "parquet"
  BY DEF ParquetEntries
<1>6. \A e \in D : e[1][1] = "db"
  OBVIOUS
<1>7. \A e \in P \cup D : EntryClass("tabular", st, e[1]) # "copy"
  BY <1>5, <1>6, Classes
<1>8. \A e \in R : ~Taken(e)
  BY DEF Provenance
<1>9. \A e \in P \cup D : ~Taken(e)
  BY <1>7
<1> HIDE DEF Entries, Taken, T, U, P, R, D
<1>10. {e \in Entries : Taken(e)} = U
  BY <1>2, <1>3, <1>4, <1>8, <1>9
<1> QED
  BY <1>1, <1>10 DEF U, Entries

(* The profiles of a scope, each under its station's state.                 *)
Profiles(v, where) ==
    {<<<<"combined", v.state[s], s, file>>,
       <<v.rows[s], v.cell[s], PowerRows(v, v.cell[s])>>>> :
        s \in Scope(v, where), file \in {"profile", "daily"}}

(* A profile is under its own state's shard.                               *)
LEMMA ProfilePaths ==
    ASSUME NEW v, NEW st \in SlugSet, NEW e \in Profiles(v, st)
    PROVE  EntryClass("json", st, e[1]) = "copy" /\ e[1] # <<"provenance">>
<1>1. PICK s \in Scope(v, st), file \in {"profile", "daily"} :
         e[1] = <<"combined", v.state[s], s, file>>
  BY DEF Profiles
<1>2. v.state[s] = st
  BY SlugsAssumption DEF Scope, All
<1>3. e[1][1] = "combined" /\ e[1][2] = st
  BY <1>1, <1>2
<1> QED
  BY <1>3, Classes

(* Of a JSON archive a copy takes the profiles.                            *)
LEMMA JSONCopies ==
    ASSUME NEW v, NEW st \in SlugSet
    PROVE  ToCopy("national-json", [of |-> st, entries |-> JSONEntries(v, v, v, st)])
              = Profiles(v, st)
<1> DEFINE Entries == JSONEntries(v, v, v, st)
           Taken(e) == /\ e[1] # <<"provenance">>
                       /\ EntryClass("json", st, e[1]) = "copy"
           U == Profiles(v, st)
           R == Provenance(v)
<1>1. ToCopy("national-json", [of |-> st, entries |-> Entries])
         = {e \in Entries : Taken(e)}
  <2>1. copiesFrom["national-json"] = "json"
    BY DEF copiesFrom
  <2> HIDE DEF Entries
  <2> QED
    BY <2>1, OwnPaths DEF ToCopy, ToClass
<1>2. Entries = U \cup R
  BY DEF JSONEntries, Profiles
<1>3. \A e \in U : Taken(e)
  BY ProfilePaths
<1>4. \A e \in R : ~Taken(e)
  BY DEF Provenance
<1> HIDE DEF Entries, Taken, U, R
<1>5. {e \in Entries : Taken(e)} = U
  BY <1>2, <1>3, <1>4
<1> QED
  BY <1>1, <1>5 DEF U, Entries

(* The scopes of the states are every station's.                            *)
LEMMA ScopesOfStates ==
    ASSUME NEW v, \A s \in DOMAIN v.state : v.state[s] \in SlugSet
    PROVE  /\ Scope(v, All) = UNION {Scope(v, st) : st \in LoadStates(v)}
           /\ CellSet(v, All) = UNION {CellSet(v, st) : st \in LoadStates(v)}
<1>1. Scope(v, All) = DOMAIN v.state
  BY DEF Scope
<1>2. \A st \in LoadStates(v) : Scope(v, st) \subseteq DOMAIN v.state
  BY DEF Scope
<1>3. \A s \in DOMAIN v.state : v.state[s] \in LoadStates(v) /\ s \in Scope(v, v.state[s])
  BY DEF Scope, LoadStates
<1>4. Scope(v, All) = UNION {Scope(v, st) : st \in LoadStates(v)}
  BY <1>1, <1>2, <1>3
<1>5. \A w : CellSet(v, w) = {v.cell[s] : s \in Scope(v, w)} \ {NoCell}
  BY DEF CellSet
<1>6. CellSet(v, All) = UNION {CellSet(v, st) : st \in LoadStates(v)}
  BY <1>4, <1>5
<1> QED
  BY <1>4, <1>6

(* The country's files are those of its states; a cell that two states     *)
(* share is one file.                                                      *)
LEMMA UnitsOfStates ==
    ASSUME NEW v, \A s \in DOMAIN v.state : v.state[s] \in SlugSet
    PROVE  Units(v, v, All) = UNION {Units(v, v, st) : st \in LoadStates(v)}
<1> DEFINE D(w) == DailyEntries(v, v, w)
           C(w) == CombinedDailyEntries(v, v, w)
           P(w) == CellDailyEntries(v, v, w)
           S == LoadStates(v)
<1>1. D(All) = UNION {D(st) : st \in S}
  BY ScopesOfStates DEF DailyEntries
<1>2. C(All) = UNION {C(st) : st \in S}
  BY ScopesOfStates DEF CombinedDailyEntries
<1>3. P(All) = UNION {P(st) : st \in S}
  BY ScopesOfStates DEF CellDailyEntries
<1>4. \A w : Units(v, v, w) = D(w) \cup C(w) \cup P(w)
  BY DEF Units
<1> HIDE DEF D, C, P, S
<1> QED
  BY <1>1, <1>2, <1>3, <1>4 DEF S

(* And so are its profiles.                                                *)
LEMMA ProfilesOfStates ==
    ASSUME NEW v, \A s \in DOMAIN v.state : v.state[s] \in SlugSet
    PROVE  Profiles(v, All) = UNION {Profiles(v, st) : st \in LoadStates(v)}
<1>1. \A w, e : e \in Profiles(v, w) <=>
         \E s \in Scope(v, w), file \in {"profile", "daily"} :
            e = <<<<"combined", v.state[s], s, file>>,
                  <<v.rows[s], v.cell[s], PowerRows(v, v.cell[s])>>>>
  BY DEF Profiles
<1>2. \A s : s \in Scope(v, All) <=> \E st \in LoadStates(v) : s \in Scope(v, st)
  BY ScopesOfStates
<1>3. \A e : e \in Profiles(v, All) <=> \E st \in LoadStates(v) : e \in Profiles(v, st)
  BY <1>1, <1>2
<1> QED
  BY <1>3

(* While nobody commits, all that a run reads is read from one view.        *)
OneView == \A f \in publish.files : IsArchive(f.of) =>
              f.lists = publish.runs /\ f.rows = publish.runs /\ f.runs = publish.runs
Still == Stocked /\ publish.calm =>
            /\ OneView
            /\ publish.at \notin {"runs", "done"} => publish.runs = now
            /\ publish.at = "runs" => publish.files = {}
            /\ publish.at = "write" => publish.lists = now

(* Every reading of a quiet run is of the view it began with.              *)
LEMMA StillStep == Typed /\ Settled /\ Still /\ [Next]_vars => Still'
<1> SUFFICES ASSUME Typed, Settled, Still, [Next]_vars, (Stocked /\ publish.calm)'
             PROVE  (/\ OneView
                     /\ publish.at \notin {"runs", "done"} => publish.runs = now
                     /\ publish.at = "runs" => publish.files = {}
                     /\ publish.at = "write" => publish.lists = now)'
  BY DEF Still
<1> DEFINE Goal == /\ OneView
                   /\ publish.at \notin {"runs", "done"} => publish.runs = now
                   /\ publish.at = "runs" => publish.files = {}
                   /\ publish.at = "write" => publish.lists = now
<1>0. /\ publish.at # "off" => publish \in Runs
      /\ publish'.at \notin {"off", "check", "abort", "failed"} /\ publish'.calm
  BY RunIsRun DEF Stocked, Underway
<1>a. ASSUME publish \in Runs, Stocked, publish.calm, publish.at \notin {"runs", "done"},
             publish'.at # "runs", publish'.runs = publish.runs,
             publish'.files = publish.files, now' = now,
             publish'.at = "write" => publish'.lists = now
      PROVE  Goal'
  BY <1>a DEF Still, OneView
<1>1. CASE CheckOutDir
  <2>1. publish \in Runs /\ publish.files = {}
    BY <1>0, <1>1 DEF CheckOutDir, Settled
  <2>2. publish'.at = "runs" /\ publish'.files = {}
    BY <1>1, <2>1 DEF CheckOutDir, Runs
  <2> QED
    BY <2>2 DEF OneView
<1>2. CASE LoadRuns
  <2>1. publish \in Runs /\ Stocked /\ publish.at = "runs"
    BY <1>0, <1>2 DEF LoadRuns, Stocked, Underway
  <2>2. /\ publish'.at = "temp" /\ publish'.runs = now /\ now' = now
        /\ publish'.files = publish.files /\ publish'.calm = publish.calm
    BY <1>2, <2>1 DEF LoadRuns, Runs
  <2>3. publish.files = {}
    BY <1>0, <2>1, <2>2 DEF Still
  <2> QED
    BY <2>2, <2>3 DEF OneView
<1>3. ASSUME NEW n \in Names, ArtifactBegins(n) PROVE Goal'
  <2>1. publish \in Runs /\ Stocked /\ publish.at = "artifact"
    BY <1>0, <1>3 DEF ArtifactBegins, Stocked, Underway
  <2>2. /\ publish'.at = "write" /\ publish'.lists = now /\ now' = now
        /\ publish'.files = publish.files /\ publish'.runs = publish.runs
        /\ publish'.calm = publish.calm
    BY <1>3, <2>1 DEF ArtifactBegins, Runs
  <2> QED
    BY <1>0, <1>a, <2>1, <2>2
<1>4. ASSUME NEW n \in Names, AssemblyFails(n) PROVE Goal'
  <2>1. publish \in Runs /\ Stocked /\ publish.at = "artifact"
    BY <1>0, <1>4 DEF AssemblyFails, Stocked, Underway
  <2>2. /\ publish'.at = "stale" /\ now' = now
        /\ publish'.files = publish.files /\ publish'.runs = publish.runs
        /\ publish'.calm = publish.calm
    BY <1>4, <2>1 DEF AssemblyFails, Runs
  <2> QED
    BY <1>0, <1>a, <2>1, <2>2
<1>5. CASE ArtifactWritten
  <2>1. publish \in Runs /\ Stocked /\ publish.at = "write" /\ Written.of = Name
    BY <1>0, <1>5, WrittenIsFile DEF ArtifactWritten, Stocked, Underway
  <2>2. /\ publish'.at = "artifact" /\ now' = now
        /\ publish'.files = publish.files \cup {Written} /\ publish'.runs = publish.runs
        /\ publish'.calm = publish.calm
    BY <1>5, <2>1 DEF ArtifactWritten, Runs
  <2>3. publish.runs = now /\ publish.lists = now /\ OneView
    BY <1>0, <2>1, <2>2 DEF Still
  <2>4. IsArchive(Name) =>
           Written.lists = publish.runs /\ Written.rows = publish.runs
           /\ Written.runs = publish.runs
    BY <2>3 DEF Written, Archive
  <2> QED
    BY <2>1, <2>2, <2>3, <2>4 DEF OneView
<1>6. CASE ArtifactFails \/ RemoveStale
  <2>1. /\ publish \in Runs /\ Stocked /\ publish.at \in {"write", "stale"}
        /\ now' = now
    BY <1>0, <1>6 DEF ArtifactFails, RemoveStale, Stocked, Underway
  <2>2. /\ publish'.at \in {"stale", "artifact"}
        /\ publish'.files = publish.files /\ publish'.runs = publish.runs
        /\ publish'.calm = publish.calm
    <3>1. CASE ArtifactFails
      BY <2>1, <3>1 DEF ArtifactFails, Runs
    <3>2. CASE RemoveStale
      BY <2>1, <3>2 DEF RemoveStale, Runs
    <3> QED
      BY <1>6, <3>1, <3>2
  <2> QED
    BY <1>0, <1>a, <2>1, <2>2
<1>7. CASE MakeRunTempDir \/ RemoveRunTempDir \/ LoadCounts \/ WriteManifest
            \/ WriteChecksums \/ VerifyOutDir
  <2>1. /\ publish \in Runs /\ Stocked /\ publish.at \notin {"runs", "done"}
        /\ now' = now
    BY <1>0, <1>7 DEF MakeRunTempDir, RemoveRunTempDir, LoadCounts, WriteManifest,
       WriteChecksums, VerifyOutDir, Stocked, Underway
  <2>2. /\ publish'.at \notin {"runs", "write"}
        /\ publish'.files = publish.files /\ publish'.runs = publish.runs
        /\ publish'.calm = publish.calm
    <3>1. CASE LoadCounts
      <4>1. PICK held \in SUBSET {"load", "raw", "dictionary"} :
               publish' = [publish EXCEPT !.at = "artifact", !.phase = "docs",
                                          !.counts = now, !.held = held,
                                          !.left = DocsPlan(publish.groups)]
        BY <3>1 DEF LoadCounts
      <4> QED
        BY <2>1, <4>1 DEF Runs
    <3>2. CASE ~LoadCounts
      <4>1. PICK at \in Stages \ {"runs", "write"} : publish' = [publish EXCEPT !.at = at]
        BY <1>7, <3>2 DEF MakeRunTempDir, RemoveRunTempDir, WriteManifest,
           WriteChecksums, VerifyOutDir, Stages
      <4> QED
        BY <2>1, <4>1 DEF Runs
    <3> QED
      BY <3>1, <3>2
  <2> QED
    BY <1>0, <1>a, <2>1, <2>2
<1>8. CASE Cancelled
  <2>1. publish \in Runs /\ now' = now
    BY <1>0, <1>8 DEF Cancelled, AtWork
  <2>2. /\ publish'.at = publish.at /\ publish'.files = publish.files
        /\ publish'.runs = publish.runs /\ publish'.calm = publish.calm
        /\ publish'.lists = publish.lists
    BY <1>8, <2>1 DEF Cancelled, Runs
  <2> QED
    BY <1>0, <2>1, <2>2 DEF Still, OneView, Stocked, Underway
<1>9. CASE Commit
  <2>1. ~AtWork
    <3>1. SUFFICES ASSUME AtWork PROVE FALSE
      OBVIOUS
    <3>2. publish \in Runs /\ publish' = [publish EXCEPT !.calm = FALSE]
      BY <1>0, <1>9, <3>1 DEF Commit, AtWork
    <3> QED
      BY <1>0, <3>2 DEF Runs
  <2>2. publish' = publish
    BY <1>9, <2>1 DEF Commit
  <2>3. publish.at = "done"
    BY <1>0, <2>1, <2>2 DEF AtWork
  <2> QED
    BY <1>0, <2>2, <2>3 DEF Still, OneView, Stocked
<1>10. CASE ForeignArrives \/ UNCHANGED vars
  BY <1>0, <1>10 DEF ForeignArrives, vars, Still, OneView, Stocked, Underway
<1>11. CASE PublishRefused \/ Abort \/ Killed \/ OperatorClears
            \/ RemoveStaleFails \/ LoopFatal \/ ClosingFails
            \/ \E request \in Requests : PublishStart(request)
  <2>1. publish'.at \in {"off", "failed", "abort", "check"}
    <3>1. CASE PublishRefused \/ Abort
      BY <1>0, <3>1 DEF PublishRefused, Abort, Runs
    <3>2. CASE Killed \/ OperatorClears
      BY <1>0, <3>2 DEF Killed, OperatorClears, AtWork, Off, Runs
    <3>3. CASE RemoveStaleFails \/ LoopFatal \/ ClosingFails
      BY <1>0, <3>3 DEF RemoveStaleFails, LoopFatal, ClosingFails, Runs
    <3>4. ASSUME NEW request \in Requests, PublishStart(request)
          PROVE  publish'.at = "check"
      BY <3>4 DEF PublishStart
    <3> QED
      BY <1>11, <3>1, <3>2, <3>3, <3>4
  <2> QED
    BY <1>0, <2>1
<1> HIDE DEF Goal
<1>12. Goal'
  BY <1>1, <1>2, <1>3, <1>4, <1>5, <1>6, <1>7, <1>8, <1>9, <1>10, <1>11
  DEF Next, PublishStep, Goal
<1> QED
  BY <1>12 DEF Goal

(* A country's copy of one view's archives of states is what the country    *)
(* read at once would be.                                                   *)
LEMMA CountryAtOnce ==
    ASSUME NEW v, \A s \in DOMAIN v.state : v.state[s] \in SlugSet,
           NEW g \in DOMAIN copiesFrom, NEW sources,
           sources = {[of |-> st,
                       entries |-> IF copiesFrom[g] = "tabular"
                                   THEN TabularEntries(v, v, v, st)
                                   ELSE JSONEntries(v, v, v, st)] : st \in LoadStates(v)}
    PROVE  NationalEntries(g, v, v, sources)
              = IF g = "national-csv"
                THEN TableEntries(v, All) \cup Units(v, v, All) \cup Provenance(v)
                ELSE JSONEntries(v, v, v, All)
<1>1. LoadStates(v) \subseteq SlugSet
  BY DEF LoadStates
<1>2. CASE g = "national-csv"
  <2>1. copiesFrom[g] = "tabular"
    BY <1>2 DEF copiesFrom
  <2> DEFINE A(st) == [of |-> st, entries |-> TabularEntries(v, v, v, st)]
  <2>2. sources = {A(st) : st \in LoadStates(v)}
    BY <2>1
  <2>3. \A st \in LoadStates(v) : ToCopy(g, A(st)) = Units(v, v, st)
    BY <1>1, <1>2, TabularCopies
  <2> HIDE DEF A
  <2>4. UNION {ToCopy(g, a) : a \in sources} = UNION {Units(v, v, st) : st \in LoadStates(v)}
    BY <2>2, <2>3
  <2>5. UNION {ToCopy(g, a) : a \in sources} = Units(v, v, All)
    BY <2>4, UnitsOfStates
  <2>6. Regenerated(g, v, v) = Provenance(v) \cup TableEntries(v, All)
    BY <1>2 DEF Regenerated
  <2> QED
    BY <1>2, <2>5, <2>6 DEF NationalEntries
<1>3. CASE g = "national-json"
  <2>1. copiesFrom[g] = "json"
    BY <1>3 DEF copiesFrom
  <2> DEFINE A(st) == [of |-> st, entries |-> JSONEntries(v, v, v, st)]
  <2>2. sources = {A(st) : st \in LoadStates(v)}
    BY <2>1
  <2>3. \A st \in LoadStates(v) : ToCopy(g, A(st)) = Profiles(v, st)
    BY <1>1, <1>3, JSONCopies
  <2> HIDE DEF A
  <2>4. UNION {ToCopy(g, a) : a \in sources} = UNION {Profiles(v, st) : st \in LoadStates(v)}
    BY <2>2, <2>3
  <2>5. UNION {ToCopy(g, a) : a \in sources} = Profiles(v, All)
    BY <2>4, ProfilesOfStates
  <2>6. Regenerated(g, v, v) = Provenance(v)
    BY <1>3 DEF Regenerated
  <2>7. JSONEntries(v, v, v, All) = Profiles(v, All) \cup Provenance(v)
    BY DEF JSONEntries, Profiles
  <2> QED
    BY <1>3, <2>5, <2>6, <2>7 DEF NationalEntries
<1> QED
  BY <1>2, <1>3 DEF copiesFrom

(* On a database nobody wrote to, a national copy holds what the whole      *)
(* country read at once would: every station and cell once, in the tables   *)
(* and in the files (national.go assembleNational).                         *)
THEOREM CopiesAreTheCountry == Spec => []WholeCountry
<1>1. ASSUME Typed, Copying, Still PROVE WholeCountry
  <2> SUFFICES ASSUME publish.at = "done", publish.calm,
                      NEW f \in NationalCopies(publish.files)
               PROVE  LET v == Views[f.lists] IN
                      Copied(f) = IF Group(f.of) = "national-csv"
                                  THEN TableEntries(v, All) \cup Units(v, v, All)
                                         \cup Provenance(v)
                                  ELSE JSONEntries(v, v, v, All)
    BY DEF WholeCountry
  <2> DEFINE v == Views[publish.runs]
             g == Group(f.of)
             entries(st) == IF copiesFrom[g] = "tabular"
                            THEN TabularEntries(v, v, v, st)
                            ELSE JSONEntries(v, v, v, st)
  <2>1. /\ publish \in Runs /\ OneView
        /\ f \in publish.files /\ IsArchive(f.of) /\ g \in DOMAIN copiesFrom
    BY <1>1, RunIsRun DEF Still, Stocked, NationalCopies, Copies
  <2>2. f.lists = publish.runs /\ f.runs = publish.runs
    BY <2>1 DEF OneView
  <2>3. publish.runs \in Index
    <3>1. f \in Files
      BY <2>1 DEF Runs
    <3>2. f \notin DocFiles
      BY <2>1 DEF DocFiles, Archives
    <3> QED
      BY <2>2, <3>1, <3>2 DEF Files, StateFiles, NationalFiles
  <2>4. \A s \in DOMAIN v.state : v.state[s] \in SlugSet
    BY <2>3, ViewsAssumption DEF Index, ToSet
  <2>5. /\ f.from = {a \in publish.files : Group(a.of) = copiesFrom[g]}
        /\ Assembles(g, v, StateArchives(f.from))
    BY <1>1, <2>2 DEF Copying, Stocked, Sourced
  <2>6. f.from \subseteq StateFiles
    <3>1. g \in ToSet(allGroups) /\ Copies(g)
      BY <2>1, GroupsListed DEF copiesFrom, Copies
    <3> QED
      BY <2>1, <2>5, <3>1, SourcesAreStates DEF Sources, Built
  <2>7. ASSUME NEW a \in f.from
        PROVE  StateArchive(a) = [of |-> a.of[1], entries |-> entries(a.of[1])]
    <3>1. IsArchive(a.of) /\ a \in publish.files /\ Group(a.of) = copiesFrom[g]
      BY <2>5, <2>6 DEF StateFiles, StateNames, Archives
    <3>2. a.lists = publish.runs /\ a.rows = publish.runs /\ a.runs = publish.runs
      BY <2>1, <3>1 DEF OneView
    <3> QED
      BY <3>1, <3>2 DEF StateArchive
  <2>8. {a.of[1] : a \in f.from} = LoadStates(v)
    <3>1. \A a : StateArchive(a).of = a.of[1]
      BY DEF StateArchive
    <3>2. {b.of : b \in StateArchives(f.from)} = {a.of[1] : a \in f.from}
      BY <3>1 DEF StateArchives
    <3> QED
      BY <2>5, <3>2 DEF Assembles
  <2>9. StateArchives(f.from)
           = {[of |-> st, entries |-> entries(st)] : st \in LoadStates(v)}
    <3> HIDE DEF entries, v, g
    <3> QED
      BY <2>7, <2>8 DEF StateArchives
  <2>10. NationalEntries(g, v, v, StateArchives(f.from))
            = IF g = "national-csv"
              THEN TableEntries(v, All) \cup Units(v, v, All) \cup Provenance(v)
              ELSE JSONEntries(v, v, v, All)
    BY <2>1, <2>4, <2>9, CountryAtOnce
  <2> QED
    BY <2>2, <2>10 DEF Copied
<1>2. Init => Still
  BY DEF Init, Off, Still, Stocked, Underway
<1>3. Typed /\ Settled /\ Still /\ [Next]_vars => Still'
  BY StillStep
<1> QED
  BY <1>1, <1>2, <1>3, CopyingHolds, PTL DEF Spec
=============================================================================
