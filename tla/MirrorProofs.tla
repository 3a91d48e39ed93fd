---------------------------- MODULE MirrorProofs ----------------------------
(***************************************************************************)
(* Proofs about Mirror, for every pool of workers, every set of files and  *)
(* bodies, any documents and any faults.                                   *)
(***************************************************************************)
EXTENDS Mirror, FiniteSetTheorems, TLAPS

(* A file handed out is a file, and is none only for an idle worker.       *)
LEMMA HandIsFile ==
    ASSUME TypeOK, NEW w \in Workers, at[w] # "idle"
    PROVE  hand[w] \in Entered(doc) /\ hand[w] \in Files /\ hand[w] # NoFile
  BY FilesAssumption DEF TypeOK, Entered

(* Counting a result keeps the tally a tally, and counts every error.      *)
LEMMA CountedType ==
    ASSUME tally \in Tallies, NEW result \in Statuses
    PROVE  /\ Counted(result) \in Tallies
           /\ result \in {"mismatch", "error"} => Counted(result).errored # 0
           /\ Counted(result).errored = 0 => tally.errored = 0
<1>1. CASE result = "fetched"
  BY <1>1 DEF Tallies, Counted
<1>2. CASE result = "verified"
  BY <1>2 DEF Tallies, Counted
<1>3. CASE result = "mismatch"
  <2>1. Counted(result) = [tally EXCEPT !.errored = @ + 1, !.mismatches = @ + 1]
    BY <1>3 DEF Counted
  <2>2. tally.errored + 1 \in Nat \ {0} /\ tally.mismatches + 1 \in Nat
    BY DEF Tallies
  <2>3. Counted(result).errored = tally.errored + 1
    BY <2>1 DEF Tallies
  <2>4. Counted(result) \in Tallies
    BY <2>1, <2>2 DEF Tallies
  <2> QED
    BY <2>2, <2>3, <2>4
<1>4. CASE result = "error"
  BY <1>4 DEF Tallies, Counted
<1> QED
  BY <1>1, <1>2, <1>3, <1>4 DEF Statuses

(* The initial states satisfy the invariant.                               *)
LEMMA InitInv == Init => MirrorInv
<1> SUFFICES ASSUME Init PROVE MirrorInv
  OBVIOUS
<1>1. Fresh \in Documents
  BY DEF Fresh, Documents, Absent, Entries, Outcomes, Errors
<1>2. TypeOK
  BY <1>1 DEF Init, TypeOK, Statuses, NoStatus, Tallies, NothingYet
<1>3. HandedOnce
  BY DEF Init, HandedOnce
<1>4. Landing
  BY DEF Init, Landing, NoStatus
<1>5. NothingLost /\ CleanExit /\ Balanced /\ Accounted
  BY DEF Init, NothingLost, CleanExit, Balanced, Accounted, NoStatus
<1> QED
  BY <1>2, <1>3, <1>4, <1>5 DEF MirrorInv

-----------------------------------------------------------------------------
(* Every step keeps the types.                                             *)
LEMMA TypeStep == TypeOK /\ [Next]_vars => TypeOK'
<1> SUFFICES ASSUME TypeOK, [Next]_vars PROVE TypeOK'
  OBVIOUS
<1> USE DEF inputs, metadata
<1>1. ASSUME NEW b \in BOOLEAN, Start(b) PROVE TypeOK'
  <2>1. doc' \in Documents
    BY <1>1, RecordedAssumption DEF Start, Metadata, TypeOK
  <2>2. tally' \in Tallies
    BY <1>1 DEF Start, NothingYet, Tallies
  <2> QED
    BY <1>1, <2>1, <2>2 DEF Start, TypeOK, Statuses, NoStatus
<1>2. ASSUME NEW b \in BOOLEAN, StartRefused(b) PROVE TypeOK'
  BY <1>2 DEF StartRefused, workerVars, TypeOK, Entered
<1>3. ASSUME NEW w \in Workers, NEW f \in Files, Feed(w, f) PROVE TypeOK'
  BY <1>3, FilesAssumption DEF Feed, TypeOK, Entered
<1>4. CASE FeedEnds
  BY <1>4 DEF FeedEnds, workerVars, TypeOK, Entered
<1>5. CASE Exit
  BY <1>5 DEF Exit, workerVars, TypeOK, Entered
<1>6. ASSUME NEW w \in Workers, Worker(w) PROVE TypeOK'
  <2>1. pc # "down"
    BY <1>6 DEF Worker, TypeOK, SkipGiven, Unverifiable, BeginGiven,
       HashVerifies, HashMismatches, HashFails, HashMissing, GetOpens, GetFails,
       CopyVerifies, CopyFails, RenameLands, RenameFails, Casualty, Report
  <2>2. ASSUME NEW result \in Statuses, Return(w, result), local' = local,
               at[w] \notin {"idle", "report"}
        PROVE  TypeOK'
    BY <2>1, <2>2 DEF Return, TypeOK, Entered, Statuses, NoStatus
  <2>3. ASSUME Release(w), tally' \in Tallies, at[w] \in {"given", "report"}
        PROVE  TypeOK'
    BY <2>1, <2>3 DEF Release, TypeOK, Entered, Statuses, NoStatus
  <2>4. CASE SkipGiven(w) \/ Casualty(w)
    BY <2>3, <2>4 DEF SkipGiven, Casualty, TypeOK
  <2>5. CASE Report(w)
    <3>1. status[w] \in Statuses
      BY <2>5 DEF Report, TypeOK
    <3> QED
      BY <2>3, <2>5, <3>1, CountedType DEF Report, TypeOK
  <2>6. CASE BeginGiven(w) \/ HashMissing(w)
    BY <2>1, <2>6 DEF BeginGiven, HashMissing, TypeOK, Entered
  <2>7. CASE Unverifiable(w) \/ HashVerifies(w) \/ HashMismatches(w)
             \/ HashFails(w) \/ GetFails(w) \/ CopyFails(w) \/ RenameFails(w)
    BY <2>2, <2>7 DEF Unverifiable, HashVerifies, HashMismatches, HashFails,
       GetFails, CopyFails, RenameFails, Statuses
  <2>8. CASE GetOpens(w)
    BY <2>1, <2>8, NoBodyAssumption DEF GetOpens, TypeOK, Entered
  <2>9. CASE CopyVerifies(w)
    BY <2>1, <2>9 DEF CopyVerifies, TypeOK, Entered
  <2>10. CASE RenameLands(w)
    <3>1. stream[w] \in Contents \cup {NoBody}
      BY DEF TypeOK
    <3> QED
      BY <2>1, <2>10, <3>1
      DEF RenameLands, Return, TypeOK, Entered, Statuses, NoStatus
  <2> QED
    BY <1>6, <2>4, <2>5, <2>6, <2>7, <2>8, <2>9, <2>10 DEF Worker
<1>7. CASE Cancel
  BY <1>7 DEF Cancel, workerVars, TypeOK, Entered
<1>8. CASE Crash
  BY <1>8 DEF Crash, workerVars, TypeOK, Entered, Statuses, NoStatus
<1>9. ASSUME NEW f \in Files, Delete(f) PROVE TypeOK'
  BY <1>9 DEF Delete, workerVars, TypeOK, Entered
<1>10. CASE UNCHANGED vars
  BY <1>10 DEF vars, workerVars, TypeOK, Entered
<1> QED
  BY <1>1, <1>2, <1>3, <1>4, <1>5, <1>6, <1>7, <1>8, <1>9, <1>10
  DEF Next, Feeder

-----------------------------------------------------------------------------
(* What one worker's step leaves of the other workers, and what it may do   *)
(* to the stored bodies.                                                    *)
LEMMA WorkerLocal ==
    ASSUME TypeOK, NEW w \in Workers, Worker(w)
    PROVE  /\ UNCHANGED <<doc, todo, ctx, pc, remote, lastExit>>
           /\ \A v \in Workers \ {w} : /\ at'[v] = at[v]
                                       /\ hand'[v] = hand[v]
                                       /\ stream'[v] = stream[v]
                                       /\ status'[v] = status[v]
           /\ hand'[w] \in {hand[w], NoFile}
           /\ \/ UNCHANGED local
              \/ RenameLands(w)
  BY DEF TypeOK, Worker, SkipGiven, Unverifiable, BeginGiven, HashVerifies,
     HashMismatches, HashFails, HashMissing, GetOpens, GetFails, CopyVerifies, CopyFails,
     RenameLands, RenameFails, Casualty, Report, Return, Release, inputs

(* No entry is ever with two workers, or with a worker and the feeder.      *)
LEMMA HandedOnceStep == TypeOK /\ HandedOnce /\ [Next]_vars => HandedOnce'
<1> SUFFICES ASSUME TypeOK, HandedOnce, [Next]_vars PROVE HandedOnce'
  OBVIOUS
<1>0. NoFile \notin Entered(doc) /\ NoFile \notin todo
  BY FilesAssumption DEF TypeOK, Entered
<1>1. ASSUME NEW b \in BOOLEAN, Start(b) PROVE HandedOnce'
  BY <1>1, FilesAssumption DEF Start, HandedOnce, Entered
<1>2. ASSUME NEW w \in Workers, NEW f \in Files, Feed(w, f) PROVE HandedOnce'
  BY <1>0, <1>2 DEF Feed, HandedOnce, TypeOK
<1>3. ASSUME NEW w \in Workers, Worker(w) PROVE HandedOnce'
  BY <1>0, <1>3, WorkerLocal DEF HandedOnce
<1>4. CASE Crash
  BY <1>4 DEF Crash, HandedOnce
<1>5. CASE \/ \E b \in BOOLEAN : StartRefused(b)
           \/ FeedEnds \/ Exit \/ Cancel \/ \E f \in Files : Delete(f)
           \/ UNCHANGED vars
  BY <1>5 DEF StartRefused, FeedEnds, Exit, Cancel, Delete, workerVars, vars,
     HandedOnce
<1> QED
  BY <1>1, <1>2, <1>3, <1>4, <1>5 DEF Next, Feeder

(* A body that lands is the recorded one, in an empty place.                *)
LEMMA Lands ==
    ASSUME TypeOK, Landing, NEW w \in Workers, RenameLands(w)
    PROVE  /\ hand[w] \in Entered(doc) /\ hand[w] \in Files
           /\ local[hand[w]] = NoBody
           /\ local' = [local EXCEPT ![hand[w]] = stream[w]]
           /\ stream[w] # NoBody
           /\ Digest(stream[w]) = doc.files[hand[w]].sha
           /\ UNCHANGED doc
  BY HandIsFile DEF RenameLands, Return, inputs, Landing, TypeOK

(* A body that matches its record goes on matching it while doc stands.     *)
LEMMA MatchesStays ==
    ASSUME TypeOK, Landing, NEW w \in Workers, Worker(w), NEW f \in Files,
           Matches(f)
    PROVE  Matches(f)'
<1>1. CASE UNCHANGED local
  BY <1>1, WorkerLocal DEF Matches
<1>2. CASE RenameLands(w)
  BY <1>2, Lands DEF Matches, TypeOK
<1> QED
  BY <1>1, <1>2, WorkerLocal

(* What a worker has found out still holds when it acts on it.             *)
LEMMA LandingStep ==
    TypeOK /\ HandedOnce /\ Landing /\ [Next]_vars => Landing'
<1> SUFFICES ASSUME TypeOK, HandedOnce, Landing, [Next]_vars PROVE Landing'
  OBVIOUS
<1>1. ASSUME NEW b \in BOOLEAN, Start(b) PROVE Landing'
  BY <1>1 DEF Start, Landing, NoStatus
<1>2. ASSUME NEW w \in Workers, NEW f \in Files, Feed(w, f) PROVE Landing'
  BY <1>2 DEF Feed, Landing, TypeOK, Matches, inputs, NoStatus
<1>3. ASSUME NEW w \in Workers, Worker(w) PROVE Landing'
  <2> DEFINE Good(v) ==
               /\ at[v] \in {"get", "copy", "rename"} => local[hand[v]] = NoBody
               /\ at[v] = "rename" => Digest(stream[v]) = doc.files[hand[v]].sha
               /\ status[v] \in {"fetched", "verified"} => Matches(hand[v])
  <2>1. ASSUME NEW v \in Workers \ {w} PROVE Good(v)'
    <3>1. /\ at'[v] = at[v] /\ hand'[v] = hand[v]
          /\ stream'[v] = stream[v] /\ status'[v] = status[v] /\ doc' = doc
      BY <1>3, WorkerLocal
    <3>2. CASE UNCHANGED local
      BY <3>1, <3>2 DEF Landing, Matches
    <3>3. CASE RenameLands(w)
      <4>1. hand[w] # NoFile /\ (hand[v] = hand[w] => FALSE)
        BY <3>3, HandIsFile DEF RenameLands, HandedOnce
      <4>2. at[v] # "idle" => local'[hand[v]] = local[hand[v]]
        BY <3>3, <4>1, Lands, HandIsFile DEF TypeOK
      <4>3. status[v] # NoStatus => at[v] # "idle"
        BY DEF TypeOK
      <4> QED
        BY <3>1, <4>2, <4>3 DEF Landing, Matches, NoStatus
    <3> QED
      BY <1>3, <3>2, <3>3, WorkerLocal
  <2>2. Good(w)'
    <3>1. CASE SkipGiven(w) \/ Casualty(w) \/ Report(w)
      BY <3>1 DEF SkipGiven, Casualty, Report, Release, TypeOK, NoStatus
    <3>2. CASE BeginGiven(w) \/ HashMissing(w)
      BY <3>2 DEF BeginGiven, HashMissing, TypeOK, NoStatus
    <3>3. CASE HashVerifies(w)
      BY <3>3, HandIsFile DEF HashVerifies, Return, TypeOK, Matches, inputs
    <3>4. CASE Unverifiable(w) \/ HashMismatches(w) \/ HashFails(w)
               \/ GetFails(w) \/ CopyFails(w) \/ RenameFails(w)
      BY <3>4 DEF Unverifiable, HashMismatches, HashFails, GetFails, CopyFails, RenameFails,
         Return, TypeOK
    <3>5. CASE GetOpens(w)
      BY <3>5 DEF GetOpens, Landing, TypeOK, NoStatus
    <3>6. CASE CopyVerifies(w)
      BY <3>6 DEF CopyVerifies, Landing, TypeOK, NoStatus, inputs
    <3>7. CASE RenameLands(w)
      <4>1. at'[w] = "report" /\ hand'[w] = hand[w]
        BY <3>7 DEF RenameLands, Return, TypeOK
      <4>2. Matches(hand[w])'
        BY <3>7, <4>1, Lands DEF Matches, TypeOK
      <4> QED
        BY <4>1, <4>2
    <3> QED
      BY <1>3, <3>1, <3>2, <3>3, <3>4, <3>5, <3>6, <3>7 DEF Worker
  <2> QED
    BY <2>1, <2>2 DEF Landing
<1>4. CASE Crash
  BY <1>4 DEF Crash, Landing, NoStatus
<1>5. ASSUME NEW f \in Files, Delete(f) PROVE Landing'
  BY <1>5 DEF Delete, workerVars, Landing, TypeOK, NoStatus
<1>6. CASE \/ \E b \in BOOLEAN : StartRefused(b)
           \/ FeedEnds \/ Exit \/ Cancel \/ UNCHANGED vars
  BY <1>6 DEF StartRefused, FeedEnds, Exit, Cancel, inputs, workerVars, vars,
     Landing, Matches
<1> QED
  BY <1>1, <1>2, <1>3, <1>4, <1>5, <1>6 DEF Next, Feeder

-----------------------------------------------------------------------------
(* An entry leaves the feeder for a worker's hand, and the hand only when   *)
(* its body is in place, an error was counted or the context is dead.       *)
LEMMA WorkerKeepsEntries ==
    ASSUME TypeOK, Landing, NEW w \in Workers, Worker(w),
           ctx = "live", tally'.errored = 0
    PROVE  /\ tally.errored = 0
           /\ \A f \in Files : hand[w] = f => hand'[w] = f \/ Matches(f)'
<1>1. CASE SkipGiven(w) \/ Casualty(w)
  BY <1>1 DEF SkipGiven, Casualty
<1>2. CASE Report(w)
  <2>1. /\ status[w] \in Statuses /\ tally \in Tallies
        /\ tally' = Counted(status[w])
        /\ UNCHANGED <<local, doc>>
    BY <1>2 DEF Report, Release, TypeOK, inputs
  <2>2. tally.errored = 0 /\ status[w] \in {"fetched", "verified"}
    BY <2>1, CountedType DEF Statuses
  <2> QED
    BY <2>1, <2>2 DEF Landing, Matches
<1>3. CASE ~(SkipGiven(w) \/ Casualty(w) \/ Report(w))
  BY <1>3 DEF Worker, Unverifiable, BeginGiven, HashVerifies, HashMismatches,
     HashFails, HashMissing, GetOpens, GetFails, CopyVerifies, CopyFails,
     RenameLands, RenameFails, Return
<1> QED
  BY <1>1, <1>2, <1>3

(* No entry disappears between the feeder and a report.                    *)
LEMMA NothingLostStep ==
    TypeOK /\ Landing /\ NothingLost /\ [Next]_vars => NothingLost'
<1> SUFFICES ASSUME TypeOK, Landing, NothingLost, [Next]_vars
             PROVE  NothingLost'
  OBVIOUS
<1> USE DEF NothingLost
<1>1. ASSUME NEW b \in BOOLEAN, Start(b) PROVE NothingLost'
  BY <1>1 DEF Start
<1>2. ASSUME NEW w \in Workers, NEW f \in Files, Feed(w, f)
      PROVE  NothingLost'
  <2>1. hand' = [hand EXCEPT ![w] = f] /\ todo' = todo \ {f} /\ pc' = "feed"
        /\ UNCHANGED <<local, doc, ctx, tally>> /\ hand[w] = NoFile
    BY <1>2 DEF Feed, inputs, TypeOK
  <2>2. ASSUME NEW g \in Entered(doc), \E v \in Workers : hand[v] = g
        PROVE  \E v \in Workers : hand'[v] = g
    BY <2>1, <2>2, FilesAssumption DEF TypeOK, Entered
  <2>3. hand'[w] = f
    BY <2>1 DEF TypeOK
  <2> QED
    BY <1>2, <2>1, <2>2, <2>3 DEF Feed, Matches, Entered
<1>3. ASSUME NEW w \in Workers, Worker(w) PROVE NothingLost'
  <2>1. UNCHANGED <<doc, todo, ctx, pc>>
    BY <1>3, WorkerLocal
  <2>2. ASSUME pc # "down", ctx = "live", tally'.errored = 0,
               NEW f \in Entered(doc)
        PROVE  f \in todo \/ Matches(f)' \/ \E v \in Workers : hand'[v] = f
    <3>1. /\ f \in Files /\ tally.errored = 0
          /\ hand[w] = f => hand'[w] = f \/ Matches(f)'
      BY <1>3, <2>2, WorkerKeepsEntries DEF Entered
    <3>2. CASE Matches(f)
      BY <1>3, <3>2, MatchesStays DEF Entered
    <3>3. ASSUME NEW v \in Workers, hand[v] = f
          PROVE  Matches(f)' \/ hand'[v] = f
      BY <1>3, <3>1, <3>3, WorkerLocal
    <3> QED
      BY <2>2, <3>1, <3>2, <3>3
  <2> QED
    BY <2>1, <2>2 DEF Entered
<1>4. CASE FeedEnds
  BY <1>4 DEF FeedEnds, inputs, workerVars, Matches, Entered
<1>5. CASE Exit \/ Crash
  BY <1>5 DEF Exit, Crash
<1>6. CASE Cancel
  BY <1>6 DEF Cancel
<1>7. CASE (\E b \in BOOLEAN : StartRefused(b)) \/ (\E f \in Files : Delete(f))
  BY <1>7 DEF StartRefused, Delete
<1>8. CASE UNCHANGED vars
  BY <1>8 DEF vars, inputs, workerVars, Matches, Entered
<1> QED
  BY <1>1, <1>2, <1>3, <1>4, <1>5, <1>6, <1>7, <1>8 DEF Next, Feeder

(* A run that ends well ends with every entry in place.                     *)
LEMMA CleanExitStep ==
    TypeOK /\ NothingLost /\ CleanExit /\ [Next]_vars => CleanExit'
<1> SUFFICES ASSUME TypeOK, NothingLost, CleanExit, [Next]_vars
             PROVE  CleanExit'
  OBVIOUS
<1>1. ASSUME NEW b \in BOOLEAN, Start(b) PROVE CleanExit'
  BY <1>1 DEF Start, CleanExit, Entered
<1>2. CASE Exit
  <2>1. SUFFICES ASSUME lastExit' = "ok", NEW f \in Entered(doc)
                 PROVE  Matches(f)'
    BY <1>2 DEF Exit, CleanExit, inputs, Entered
  <2>2. ctx = "live" /\ ~(tally.errored > 0)
    BY <1>2, <2>1 DEF Exit, TypeOK
  <2>3. tally.errored = 0
    BY <2>2 DEF TypeOK, Tallies
  <2>4. f \in Files /\ todo = {} /\ \A w \in Workers : hand[w] = NoFile
    BY <1>2, <2>2 DEF Exit, NothingLost, TypeOK, Entered
  <2>5. Matches(f)
    BY <1>2, <2>2, <2>3, <2>4, FilesAssumption DEF Exit, NothingLost
  <2> QED
    BY <1>2, <2>5 DEF Exit, inputs, Matches
<1>3. ASSUME NEW w \in Workers, Worker(w) PROVE CleanExit'
  <2>1. at[w] # "idle"
    BY <1>3 DEF Worker, SkipGiven, Unverifiable, BeginGiven, HashVerifies,
       HashMismatches, HashFails, HashMissing, GetOpens, GetFails,
       CopyVerifies, CopyFails, RenameLands, RenameFails, Casualty, Report
  <2> QED
    BY <1>3, <2>1, WorkerLocal DEF TypeOK, CleanExit
<1>4. ASSUME NEW w \in Workers, NEW f \in Files, Feed(w, f) PROVE CleanExit'
  BY <1>4 DEF Feed, CleanExit
<1>5. CASE FeedEnds \/ Cancel
  BY <1>5 DEF FeedEnds, Cancel, CleanExit
<1>6. CASE \/ Crash
           \/ \E b \in BOOLEAN : StartRefused(b)
           \/ \E f \in Files : Delete(f)
  BY <1>6 DEF Crash, StartRefused, Delete, CleanExit
<1>7. CASE UNCHANGED vars
  BY <1>7 DEF vars, inputs, CleanExit, Matches, Entered
<1> QED
  BY <1>1, <1>2, <1>3, <1>4, <1>5, <1>6, <1>7 DEF Next, Feeder

-----------------------------------------------------------------------------
(* The entries are finitely many, so their numbers are numbers.             *)
LEMMA EntriesFinite ==
    ASSUME NEW S \in SUBSET Entered(doc)
    PROVE  IsFiniteSet(S) /\ Cardinality(S) \in Nat
<1>1. S \in SUBSET Files
  BY DEF Entered
<1>2. IsFiniteSet(S)
  BY <1>1, FS_Subset, FilesAssumption
<1> QED
  BY <1>2, FS_CardinalityType

(* A file contradicts the metadata until somebody deletes it: a worker      *)
(* writes only where there is none, and then the recorded body.             *)
LEMMA ContradictedStays ==
    ASSUME TypeOK, Landing, NEW w \in Workers, Worker(w)
    PROVE  Contradicted' = Contradicted
<1>1. CASE UNCHANGED local
  BY <1>1, WorkerLocal DEF Contradicted, Entered, Matches
<1>2. CASE RenameLands(w)
  <2>1. ASSUME NEW f \in Entered(doc), f # hand[w]
        PROVE  local'[f] = local[f]
    BY <1>2, <2>1, Lands DEF TypeOK, Entered
  <2>0. hand' = hand
    BY <1>2 DEF RenameLands, Return
  <2>2. Matches(hand[w])' /\ hand[w] \notin Contradicted
    <3>1. local'[hand[w]] = stream[w] /\ doc' = doc
      BY <1>2, Lands DEF TypeOK
    <3>2. Matches(hand[w])'
      BY <1>2, <2>0, <3>1, Lands DEF Matches
    <3> QED
      BY <1>2, <3>2, Lands DEF Contradicted
  <2>3. Entered(doc)' = Entered(doc) /\ doc' = doc
    BY <1>2, Lands DEF Entered
  <2>4. ASSUME NEW f \in Entered(doc)
        PROVE  (local[f] # NoBody /\ ~Matches(f))'
                  <=> local[f] # NoBody /\ ~Matches(f)
    <3>1. CASE f = hand[w]
      BY <2>0, <2>2, <2>4, <3>1 DEF Contradicted
    <3>2. CASE f # hand[w]
      BY <2>1, <2>3, <3>2 DEF Matches
    <3> QED
      BY <3>1, <3>2
  <2> QED
    BY <2>3, <2>4 DEF Contradicted
<1> QED
  BY <1>1, <1>2, WorkerLocal

(* What counting one result adds to the totals.                             *)
LEMMA CountedOnce ==
    ASSUME tally \in Tallies, NEW result \in Statuses
    PROVE  LET after == Counted(result) IN
           /\ after.mirrored + after.skipped + after.errored
                 = tally.mirrored + tally.skipped + tally.errored + 1
           /\ after.mismatches = IF result = "mismatch"
                                 THEN tally.mismatches + 1
                                 ELSE tally.mismatches
<1> DEFINE m == tally.mirrored
           s == tally.skipped
           e == tally.errored
           x == tally.mismatches
<1>0. /\ m \in Nat /\ s \in Nat /\ e \in Nat /\ x \in Nat
      /\ tally = [mirrored |-> m, skipped |-> s, errored |-> e, mismatches |-> x]
  BY DEF Tallies
<1>1. CASE result = "fetched"
  <2>1. Counted(result) = [mirrored |-> m + 1, skipped |-> s, errored |-> e,
                           mismatches |-> x]
    BY <1>0, <1>1 DEF Counted
  <2> QED
    BY <1>0, <1>1, <2>1
<1>2. CASE result = "verified"
  <2>1. Counted(result) = [mirrored |-> m, skipped |-> s + 1, errored |-> e,
                           mismatches |-> x]
    BY <1>0, <1>2 DEF Counted
  <2> QED
    BY <1>0, <1>2, <2>1
<1>3. CASE result = "mismatch"
  <2>1. Counted(result) = [mirrored |-> m, skipped |-> s, errored |-> e + 1,
                           mismatches |-> x + 1]
    BY <1>0, <1>3 DEF Counted
  <2> QED
    BY <1>0, <1>3, <2>1
<1>4. CASE result = "error"
  <2>1. Counted(result) = [mirrored |-> m, skipped |-> s, errored |-> e + 1,
                           mismatches |-> x]
    BY <1>0, <1>4 DEF Counted
  <2> QED
    BY <1>0, <1>4, <2>1
<1> QED
  BY <1>1, <1>2, <1>3, <1>4 DEF Statuses

(* A reported entry, and no other, leaves the unreported ones.              *)
LEMMA ReportTakesOne ==
    ASSUME TypeOK, HandedOnce, NEW w \in Workers, Report(w)
    PROVE  /\ hand[w] \in Unreported
           /\ Unreported' = Unreported \ {hand[w]}
<1>1. /\ hand[w] \in Entered(doc) /\ hand[w] # NoFile
      /\ hand' = [hand EXCEPT ![w] = NoFile] /\ UNCHANGED <<todo, doc>>
  BY HandIsFile DEF Report, Release, inputs
<1>2. NoFile \notin Entered(doc)
  BY FilesAssumption DEF Entered
<1>3. hand[w] \notin todo
      /\ \A v \in Workers : v # w => hand[v] # hand[w]
  BY <1>1 DEF HandedOnce
<1>4. hand'[w] = NoFile /\ \A v \in Workers : v # w => hand'[v] = hand[v]
  BY <1>1 DEF TypeOK
<1>5. ASSUME NEW f \in Entered(doc)
      PROVE  (\E v \in Workers : hand'[v] = f)
                <=> (\E v \in Workers : hand[v] = f) /\ f # hand[w]
  BY <1>2, <1>3, <1>4
<1>6. hand[w] \in Unreported
  BY <1>1 DEF Unreported
<1>7. Entered(doc)' = Entered(doc)
  BY <1>1 DEF Entered
<1> QED
  BY <1>1, <1>3, <1>5, <1>6, <1>7 DEF Unreported

(* Counting a worker's result moves its entry from the unreported ones to   *)
(* the totals.                                                              *)
LEMMA ReportBalances ==
    ASSUME TypeOK, HandedOnce, Landing, Balanced, NEW w \in Workers, Report(w),
           pc # "down", ctx = "live"
    PROVE  /\ tally'.mirrored + tally'.skipped + tally'.errored
                + Cardinality(Unreported') = Cardinality(Entered(doc))
           /\ tally'.mismatches <= Cardinality(Contradicted \ Unreported')
<1> DEFINE n == tally.mirrored + tally.skipped + tally.errored
           C == Contradicted \ Unreported
<1>1. Unreported \in SUBSET Entered(doc) /\ C \in SUBSET Entered(doc)
  BY DEF Unreported, Contradicted, TypeOK
<1>2. /\ IsFiniteSet(Unreported) /\ Cardinality(Unreported) \in Nat
      /\ IsFiniteSet(C) /\ Cardinality(C) \in Nat
      /\ Cardinality(Entered(doc)) \in Nat
  BY <1>1, EntriesFinite
<1>3. /\ n \in Nat /\ tally.mismatches \in Nat
      /\ n + Cardinality(Unreported) = Cardinality(Entered(doc))
      /\ tally.mismatches <= Cardinality(C)
  BY DEF TypeOK, Tallies, Balanced
<1>4. hand[w] \in Unreported /\ Unreported' = Unreported \ {hand[w]}
  BY ReportTakesOne
<1>5. Cardinality(Unreported') = Cardinality(Unreported) - 1
  BY <1>2, <1>4, FS_RemoveElement
<1>6. status[w] \in Statuses /\ tally' = Counted(status[w]) /\ tally \in Tallies
  BY DEF Report, TypeOK
<1>7. /\ tally'.mirrored + tally'.skipped + tally'.errored = n + 1
      /\ tally'.mismatches = IF status[w] = "mismatch"
                             THEN tally.mismatches + 1 ELSE tally.mismatches
  BY <1>6, CountedOnce
<1>8. CASE status[w] = "mismatch"
  <2>1. hand[w] \in Contradicted
    BY <1>8 DEF Balanced
  <2>2. Contradicted \ Unreported' = C \cup {hand[w]} /\ hand[w] \notin C
    BY <1>4, <2>1
  <2>3. Cardinality(Contradicted \ Unreported') = Cardinality(C) + 1
    BY <1>2, <2>2, FS_AddElement
  <2> HIDE DEF n, C
  <2> QED
    BY <1>2, <1>3, <1>5, <1>7, <1>8, <2>3
<1>9. CASE status[w] # "mismatch"
  <2>1. Contradicted \ Unreported' = C
        \/ Contradicted \ Unreported' = C \cup {hand[w]}
    BY <1>4
  <2>2. Cardinality(Contradicted \ Unreported') \in
            {Cardinality(C), Cardinality(C) + 1}
    BY <1>2, <2>1, FS_AddElement
  <2> HIDE DEF n, C
  <2> QED
    BY <1>2, <1>3, <1>5, <1>7, <1>9, <2>2
<1> QED
  BY <1>8, <1>9

(* The books balance through every step.                                    *)
LEMMA BalancedStep ==
    TypeOK /\ HandedOnce /\ Landing /\ Balanced /\ [Next]_vars => Balanced'
<1> SUFFICES ASSUME TypeOK, HandedOnce, Landing, Balanced, [Next]_vars
             PROVE  Balanced'
  OBVIOUS
<1>1. ASSUME NEW b \in BOOLEAN, Start(b) PROVE Balanced'
  <2>1. /\ todo' = Entered(doc)' /\ tally' = NothingYet
        /\ \A w \in Workers : status'[w] = NoStatus /\ hand'[w] = NoFile
    BY <1>1 DEF Start, Entered
  <2>2. Unreported' = Entered(doc)'
    BY <2>1 DEF Unreported
  <2>3. Cardinality(Entered(doc)') \in Nat
        /\ Cardinality((Contradicted \ Unreported)') \in Nat
    <3>1. Entered(doc)' \in SUBSET Files
          /\ (Contradicted \ Unreported)' \in SUBSET Files
      BY DEF Entered, Contradicted
    <3> QED
      BY <3>1, FilesAssumption, FS_Subset, FS_CardinalityType
  <2> QED
    BY <2>1, <2>2, <2>3 DEF Balanced, NothingYet, NoStatus
<1>2. ASSUME NEW w \in Workers, NEW f \in Files, Feed(w, f)
      PROVE  Balanced'
  <2>1. /\ hand' = [hand EXCEPT ![w] = f] /\ todo' = todo \ {f}
        /\ hand[w] = NoFile /\ f \in todo /\ f \in Entered(doc)
        /\ UNCHANGED <<local, doc, ctx, tally, status, pc>>
    BY <1>2 DEF Feed, inputs, TypeOK
  <2>2. hand'[w] = f /\ \A v \in Workers : v # w => hand'[v] = hand[v]
    BY <2>1 DEF TypeOK
  <2>3. NoFile \notin Entered(doc)
    BY FilesAssumption DEF Entered
  <2>4. Unreported' = Unreported
    <3>1. ASSUME NEW g \in Entered(doc)
          PROVE  (\E v \in Workers : hand'[v] = g)
                    <=> g = f \/ \E v \in Workers : hand[v] = g
      BY <2>1, <2>2, <2>3
    <3>2. Entered(doc)' = Entered(doc)
      BY <2>1 DEF Entered
    <3> QED
      BY <2>1, <3>1, <3>2 DEF Unreported
  <2>5. Contradicted' = Contradicted /\ Entered(doc)' = Entered(doc)
    BY <2>1 DEF Contradicted, Entered, Matches
  <2>6. ASSUME NEW v \in Workers, status[v] = "mismatch"
        PROVE  hand'[v] = hand[v]
    BY <1>2, <2>2, <2>6 DEF Feed, TypeOK, NoStatus
  <2> QED
    BY <2>1, <2>4, <2>5, <2>6 DEF Balanced
<1>3. ASSUME NEW w \in Workers, Worker(w) PROVE Balanced'
  <2>1. /\ UNCHANGED <<doc, todo, ctx, pc>> /\ Contradicted' = Contradicted
        /\ Entered(doc)' = Entered(doc)
    BY <1>3, WorkerLocal, ContradictedStays DEF Entered
  <2>2. ASSUME NEW v \in Workers, status'[v] = "mismatch"
        PROVE  hand'[v] \in Contradicted
    <3>1. CASE v # w
      BY <1>3, <2>2, <3>1, WorkerLocal DEF Balanced
    <3>2. CASE v = w /\ HashMismatches(w)
      BY <3>2, HandIsFile DEF HashMismatches, Return, Contradicted, TypeOK
    <3>3. CASE v = w /\ ~HashMismatches(w)
      <4>1. status[w] = "mismatch" /\ hand'[w] = hand[w]
        BY <1>3, <2>2, <3>3 DEF Worker, SkipGiven, Unverifiable, BeginGiven,
           HashVerifies, HashFails, HashMissing, GetOpens, GetFails,
           CopyVerifies, CopyFails, RenameLands, RenameFails, Casualty, Report,
           Return, Release, NoStatus, TypeOK
      <4> QED
        BY <3>3, <4>1 DEF Balanced
    <3> QED
      BY <3>1, <3>2, <3>3
  <2>3. CASE Report(w)
    BY <2>1, <2>2, <2>3, ReportBalances DEF Balanced
  <2>4. CASE ~Report(w) /\ ctx = "live"
    <3>1. UNCHANGED <<tally, hand>>
      BY <1>3, <2>4 DEF Worker, SkipGiven, Unverifiable, BeginGiven,
         HashVerifies, HashMismatches, HashFails, HashMissing, GetOpens,
         GetFails, CopyVerifies, CopyFails, RenameLands, RenameFails, Casualty,
         Return
    <3>2. Unreported' = Unreported
      BY <2>1, <3>1 DEF Unreported
    <3> QED
      BY <2>1, <2>2, <3>1, <3>2 DEF Balanced
  <2>5. CASE ctx # "live"
    BY <2>1, <2>2, <2>5 DEF Balanced
  <2> QED
    BY <2>3, <2>4, <2>5
<1>4. CASE FeedEnds
  BY <1>4 DEF FeedEnds, inputs, workerVars, Balanced, Unreported, Contradicted,
     Matches, Entered
<1>5. CASE Exit \/ (\E b \in BOOLEAN : StartRefused(b))
  <2>1. pc' = "down" /\ UNCHANGED <<status, hand, local, doc>>
    BY <1>5 DEF Exit, StartRefused, workerVars, inputs
  <2> QED
    BY <2>1 DEF Balanced, Contradicted, Matches, Entered
<1>6. CASE Crash
  BY <1>6 DEF Crash, Balanced, NoStatus
<1>7. CASE Cancel
  BY <1>7 DEF Cancel, inputs, workerVars, Balanced, Contradicted, Matches,
     Entered
<1>8. ASSUME NEW f \in Files, Delete(f) PROVE Balanced'
  BY <1>8 DEF Delete, workerVars, Balanced, TypeOK, NoStatus
<1>9. CASE UNCHANGED vars
  BY <1>9 DEF vars, inputs, workerVars, Balanced, Unreported, Contradicted,
     Matches, Entered
<1> QED
  BY <1>1, <1>2, <1>3, <1>4, <1>5, <1>6, <1>7, <1>8, <1>9 DEF Next, Feeder

(* A run that ends uninterrupted has counted every entry.                   *)
LEMMA AccountedStep ==
    TypeOK /\ NothingLost /\ Balanced /\ Accounted /\ [Next]_vars => Accounted'
<1> SUFFICES ASSUME TypeOK, NothingLost, Balanced, Accounted, [Next]_vars
             PROVE  Accounted'
  OBVIOUS
<1>1. ASSUME NEW b \in BOOLEAN, Start(b) PROVE Accounted'
  <2>1. SUFFICES ASSUME pc' = "down" PROVE Accounted'
    BY DEF Accounted
  <2>2. Entered(doc)' = {} /\ tally' = NothingYet
    BY <1>1, <2>1 DEF Start, Entered
  <2>3. {f \in Entered(doc) : local[f] # NoBody /\ ~Matches(f)}' = {}
    BY <2>2
  <2> QED
    BY <2>2, <2>3, FS_EmptySet DEF Accounted, NothingYet
<1>2. CASE Exit
  <2>1. SUFFICES ASSUME lastExit' \in {"ok", "failed"} PROVE Accounted'
    BY DEF Accounted
  <2>2. pc = "join" /\ ctx = "live"
        /\ UNCHANGED <<tally, local, doc, remote, bucket>>
    BY <1>2, <2>1 DEF Exit, inputs, TypeOK
  <2>3. Unreported = {}
    BY <1>2, <2>2, FilesAssumption
    DEF Exit, NothingLost, Unreported, TypeOK, Entered
  <2>4. /\ Cardinality(Entered(doc)) \in Nat
        /\ Cardinality(Unreported) = 0
        /\ Contradicted \ Unreported = Contradicted
    BY <2>3, EntriesFinite, FS_EmptySet
  <2>5. /\ tally.mirrored + tally.skipped + tally.errored \in Nat
        /\ tally.mirrored + tally.skipped + tally.errored + 0
              = Cardinality(Entered(doc))
        /\ tally.mismatches <= Cardinality(Contradicted)
    <3>1. tally.mirrored + tally.skipped + tally.errored \in Nat
      BY DEF TypeOK, Tallies
    <3>2. /\ tally.mirrored + tally.skipped + tally.errored
                + Cardinality(Unreported) = Cardinality(Entered(doc))
          /\ tally.mismatches <= Cardinality(Contradicted \ Unreported)
      BY <2>2 DEF Balanced
    <3> QED
      BY <2>4, <3>1, <3>2
  <2>6. tally.mirrored + tally.skipped + tally.errored
           = Cardinality(Entered(doc))
    BY <2>5
  <2>7. Entered(doc)' = Entered(doc) /\ Contradicted' = Contradicted
    BY <2>2 DEF Entered, Contradicted, Matches
  <2> QED
    BY <2>2, <2>5, <2>6, <2>7 DEF Accounted, Contradicted
<1>3. ASSUME NEW w \in Workers, Worker(w) PROVE Accounted'
  <2>1. at[w] # "idle"
    BY <1>3 DEF Worker, SkipGiven, Unverifiable, BeginGiven, HashVerifies,
       HashMismatches, HashFails, HashMissing, GetOpens, GetFails,
       CopyVerifies, CopyFails, RenameLands, RenameFails, Casualty, Report
  <2> QED
    BY <1>3, <2>1, WorkerLocal DEF TypeOK, Accounted
<1>4. ASSUME NEW w \in Workers, NEW f \in Files, Feed(w, f) PROVE Accounted'
  BY <1>4 DEF Feed, Accounted
<1>5. CASE FeedEnds \/ Cancel
  BY <1>5 DEF FeedEnds, Cancel, Accounted
<1>6. CASE \/ Crash
           \/ \E b \in BOOLEAN : StartRefused(b)
           \/ \E f \in Files : Delete(f)
  BY <1>6 DEF Crash, StartRefused, Delete, Accounted
<1>7. CASE UNCHANGED vars
  BY <1>7 DEF vars, inputs, Accounted, Matches, Entered
<1> QED
  BY <1>1, <1>2, <1>3, <1>4, <1>5, <1>6, <1>7 DEF Next, Feeder

-----------------------------------------------------------------------------
(* The inductive invariant holds of every run, whatever its workers, faults *)
(* and interrupts.                                                          *)
THEOREM MirrorInductive == Spec => []MirrorInv
<1>1. MirrorInv /\ [Next]_vars => MirrorInv'
  BY TypeStep, HandedOnceStep, LandingStep, NothingLostStep, BalancedStep,
     CleanExitStep, AccountedStep
  DEF MirrorInv
<1> QED
  BY <1>1, InitInv, PTL DEF Spec

(* mirror exits 0 only when every entry is in place with its digest.        *)
THEOREM CleanExits == Spec => []CleanExit
<1>1. MirrorInv => CleanExit
  BY DEF MirrorInv
<1> QED
  BY <1>1, MirrorInductive, PTL

(* mirror reports every entry once, and a mismatch only of a file that      *)
(* contradicts the metadata.                                                *)
THEOREM EntriesAccounted == Spec => []Accounted
<1>1. MirrorInv => Accounted
  BY DEF MirrorInv
<1> QED
  BY <1>1, MirrorInductive, PTL

(* mirror never overwrites a body and lands only verified ones.             *)
THEOREM LandedVerified == Spec => LandsVerified
<1> DEFINE Lawful ==
        pc # "down" =>
          \A f \in Files : local'[f] # local[f] =>
              /\ local[f] = NoBody
              /\ f \in Entered(doc)
              /\ Digest(local'[f]) = doc.files[f].sha
<1>1. MirrorInv /\ [Next]_vars => [Lawful]_vars
  <2> SUFFICES ASSUME MirrorInv, [Next]_vars, pc # "down" PROVE Lawful
    OBVIOUS
  <2> TypeOK /\ Landing
    BY DEF MirrorInv
  <2>1. ASSUME NEW w \in Workers, Worker(w) PROVE Lawful
    <3>1. CASE UNCHANGED local
      BY <3>1
    <3>2. CASE RenameLands(w)
      BY <3>2, Lands DEF TypeOK
    <3> QED
      BY <2>1, <3>1, <3>2, WorkerLocal
  <2>2. CASE UNCHANGED local
    BY <2>2
  <2>3. CASE Feeder \/ Cancel \/ Crash \/ UNCHANGED vars
    <3>1. UNCHANGED local
      BY <2>3 DEF Feeder, Feed, FeedEnds, Exit, Cancel, Crash, vars
    <3> QED
      BY <3>1
  <2>4. CASE \/ \E b \in BOOLEAN : Start(b) \/ StartRefused(b)
             \/ \E f \in Files : Delete(f)
    BY <2>4 DEF Start, StartRefused, Delete
  <2> QED
    BY <2>1, <2>3, <2>4 DEF Next
<1> QED
  BY <1>1, MirrorInductive, PTL DEF Spec, LandsVerified
=============================================================================
