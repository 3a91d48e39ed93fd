------------------------------- MODULE Mirror -------------------------------
(***************************************************************************)
(* The mirror verb (internal/cmd/mirror.go): a feeder and a pool of        *)
(* workers that bring the bodies a snapshot's metadata records as fetched  *)
(* from the sink to the local root, or, when the sink is the local root,   *)
(* audit them in place.  The process may be interrupted or die at any step *)
(* and be run again.                                                       *)
(*                                                                         *)
(* Durable: local (bodies at their final paths), bucket, and the three     *)
(* metadata documents, which mirror only reads.  A document that does not  *)
(* exist is NoDocument.  Temp files are not modelled: they never have a    *)
(* final path, and an uncrashed worker removes its own.                    *)
(***************************************************************************)
EXTENDS Ledger, Integers, FiniteSets

CONSTANTS Workers,   \* --concurrency, clamped
          Recorded,  \* what the metadata documents may say
          Faults     \* the operations that may fail in this instance

NoFile     == [nofile |-> TRUE]
NoDocument == [nodocument |-> TRUE]

ASSUME WorkersAssumption == IsFiniteSet(Workers) /\ Workers # {}
ASSUME FilesAssumption == IsFiniteSet(Files) /\ NoFile \notin Files
ASSUME RecordedAssumption == Recorded \subseteq Documents
ASSUME FaultsAssumption ==
    Faults \subseteq {"metadata", "hash", "get", "corrupt", "copy", "rename"}

VARIABLES local, bucket,             \* bodies
          index, disk, bucketIndex,  \* metadata
          remote,    \* --sink r2
          doc,       \* the document this run works from
          pc,        \* the feeder
          ctx,       \* the run's context
          todo,      \* entries not handed out
          at,        \* at[w]: where worker w is
          hand,      \* hand[w]: its entry
          stream,    \* stream[w]: the body it is receiving
          status,    \* status[w]: what mirrorOne returned
          tally,     \* the renderer's totals
          lastExit   \* how the last run ended

metadata   == <<index, disk, bucketIndex>>
workerVars == <<at, hand, stream, status>>
inputs     == <<bucket, metadata, remote, doc>>
vars == <<local, inputs, pc, ctx, todo, workerVars, tally, lastExit>>

Statuses   == {"fetched", "verified", "mismatch", "error"}
NoStatus   == "none"
NothingYet == [mirrored |-> 0, skipped |-> 0, errored |-> 0, mismatches |-> 0]
Tallies    == [mirrored : Nat, skipped : Nat, errored : Nat, mismatches : Nat]

(* buildMirrorEntries: the files whose outcome is fetched.                 *)
Entered(d) == {f \in Files : d.files[f].outcome = "fetched"}

(* The body at f's final path is the one the document records.             *)
Matches(f) == /\ local[f] # NoBody
              /\ Digest(local[f]) = doc.files[f].sha

(* Where mirrorOne gets a body from.                                       *)
Source(f) == IF remote THEN bucket[f] ELSE local[f]

(* LoadSnapshot's preference, and the bucket's index when the root has     *)
(* neither document.                                                       *)
Metadata(fromBucket) ==
    IF index # NoDocument THEN index
    ELSE IF disk # NoDocument THEN disk
    ELSE IF fromBucket THEN bucketIndex
    ELSE NoDocument

(* What a pull to the bucket leaves: every document true of it.            *)
TrueOf(d) == d # NoDocument =>
    \A f \in Files :
        /\ d.files[f].outcome = "fetched" =>
              bucket[f] \in Contents /\ d.files[f].sha = Digest(bucket[f])
        /\ d.files[f].outcome = "skipped_existing" => bucket[f] \in Contents

(* The snapshot was pulled to the bucket or to the local root, which may    *)
(* hold anything by now: it may have been copied, damaged or cleaned.       *)
Init ==
    /\ local \in [Files -> Contents \cup {NoBody}]
    /\ bucket \in [Files -> Contents \cup {NoBody}]
    /\ index \in Recorded \cup {NoDocument}
    /\ disk \in Recorded \cup {NoDocument}
    /\ bucketIndex \in Recorded \cup {NoDocument}
    /\ \/ TrueOf(index) /\ TrueOf(disk) /\ TrueOf(bucketIndex)
       \/ bucket = [f \in Files |-> NoBody] /\ bucketIndex = NoDocument
    /\ remote = FALSE
    /\ doc = Fresh
    /\ pc = "down"
    /\ ctx = "live"
    /\ todo = {}
    /\ at = [w \in Workers |-> "idle"]
    /\ hand = [w \in Workers |-> NoFile]
    /\ stream = [w \in Workers |-> NoBody]
    /\ status = [w \in Workers |-> NoStatus]
    /\ tally = NothingYet
    /\ lastExit = "none"

-----------------------------------------------------------------------------
(* mirrorOne returns.                                                      *)
Return(w, result) ==
    /\ at' = [at EXCEPT ![w] = "report"]
    /\ status' = [status EXCEPT ![w] = result]
    /\ stream' = [stream EXCEPT ![w] = NoBody]
    /\ UNCHANGED <<inputs, pc, ctx, todo, hand, tally, lastExit>>

(* The worker goes back to the channel.                                    *)
Release(w) ==
    /\ at' = [at EXCEPT ![w] = "idle"]
    /\ hand' = [hand EXCEPT ![w] = NoFile]
    /\ status' = [status EXCEPT ![w] = NoStatus]
    /\ UNCHANGED <<local, inputs, pc, ctx, todo, stream, lastExit>>

(* mirrorLog.result.                                                       *)
Counted(result) ==
    CASE result = "fetched"  -> [tally EXCEPT !.mirrored = @ + 1]
      [] result = "verified" -> [tally EXCEPT !.skipped = @ + 1]
      [] result = "mismatch" -> [tally EXCEPT !.errored = @ + 1,
                                              !.mismatches = @ + 1]
      [] result = "error"    -> [tally EXCEPT !.errored = @ + 1]

-----------------------------------------------------------------------------
(* Slips: each is an action below as a plausible mistake would leave it.    *)

(* LandsVerified: a file that contradicts the metadata is fetched anew.     *)
HashRepairs(w) ==
    /\ at[w] = "hash"
    /\ local[hand[w]] # NoBody
    /\ ~Matches(hand[w])
    /\ at' = [at EXCEPT ![w] = "get"]
    /\ UNCHANGED <<local, inputs, pc, ctx, todo, hand, stream, status, tally,
                   lastExit>>

(* MirrorInv: the received body is not compared with the recorded digest.   *)
CopyUnverified(w) ==
    /\ at[w] = "copy"
    /\ at' = [at EXCEPT ![w] = "rename"]
    /\ UNCHANGED <<local, inputs, pc, ctx, todo, hand, stream, status, tally,
                   lastExit>>

(* CleanExit: every error is dropped as a casualty.                         *)
CasualtyAlways(w) ==
    /\ at[w] = "report"
    /\ status[w] = "error"
    /\ Release(w)
    /\ UNCHANGED tally

(* Accounted: the run does not wait for its workers.                        *)
ExitUnwaited ==
    /\ pc = "join"
    /\ pc' = "down"
    /\ lastExit' = IF ctx = "cancelled" THEN "interrupted"
                   ELSE IF tally.errored > 0 THEN "failed" ELSE "ok"
    /\ UNCHANGED <<local, inputs, ctx, todo, workerVars, tally>>

(* MirrorEnds: the channel is closed only where the feed breaks off.        *)
FeedUnclosed ==
    /\ pc = "feed"
    /\ ctx = "cancelled"
    /\ pc' = "join"
    /\ UNCHANGED <<local, inputs, ctx, todo, workerVars, tally, lastExit>>

-----------------------------------------------------------------------------
(* runMirror up to the pool: the metadata, then the entries.  With none it  *)
(* ends at once, and well.                                                  *)
Start(fromBucket) ==
    /\ pc = "down"
    /\ Metadata(fromBucket) # NoDocument
    /\ remote' = fromBucket
    /\ doc' = Metadata(fromBucket)
    /\ todo' = Entered(doc')
    /\ ctx' = "live"
    /\ at' = [w \in Workers |-> "idle"]
    /\ hand' = [w \in Workers |-> NoFile]
    /\ stream' = [w \in Workers |-> NoBody]
    /\ status' = [w \in Workers |-> NoStatus]
    /\ tally' = NothingYet
    /\ pc' = IF todo' = {} THEN "down" ELSE "feed"
    /\ lastExit' = IF todo' = {} THEN "ok" ELSE "none"
    /\ UNCHANGED <<local, bucket, metadata>>

(* No metadata anywhere, or it cannot be read.                              *)
StartRefused(fromBucket) ==
    /\ pc = "down"
    /\ Metadata(fromBucket) = NoDocument \/ "metadata" \in Faults
    /\ lastExit' = "refused"
    /\ UNCHANGED <<local, inputs, pc, ctx, todo, workerVars, tally>>

(* The channel has no buffer: an entry goes from the feeder to a worker     *)
(* that waits for one.  When the context is dead as well, select takes      *)
(* either case.                                                             *)
Feed(w, f) ==
    /\ pc = "feed"
    /\ f \in todo
    /\ at[w] = "idle"
    /\ todo' = todo \ {f}
    /\ hand' = [hand EXCEPT ![w] = f]
    /\ at' = [at EXCEPT ![w] = "given"]
    /\ UNCHANGED <<local, inputs, pc, ctx, stream, status, tally, lastExit>>

FeedEnds ==
    /\ pc = "feed"
    /\ todo = {} \/ ctx = "cancelled"
    /\ pc' = "join"
    /\ UNCHANGED <<local, inputs, ctx, todo, workerVars, tally, lastExit>>

(* A worker looks at the context before it begins.                          *)
SkipGiven(w) ==
    /\ at[w] = "given"
    /\ ctx = "cancelled"
    /\ Release(w)
    /\ UNCHANGED tally

(* An entry without a digest has nothing to be verified against.            *)
Unverifiable(w) ==
    /\ at[w] = "given"
    /\ ctx = "live"
    /\ doc.files[hand[w]].sha = NoDigest
    /\ Return(w, "error")
    /\ UNCHANGED local

BeginGiven(w) ==
    /\ at[w] = "given"
    /\ ctx = "live"
    /\ doc.files[hand[w]].sha # NoDigest
    /\ at' = [at EXCEPT ![w] = "hash"]
    /\ UNCHANGED <<local, inputs, pc, ctx, todo, hand, stream, status, tally,
                   lastExit>>

(* hashLocalFile against the recorded digest.                               *)
HashVerifies(w) ==
    /\ at[w] = "hash"
    /\ Matches(hand[w])
    /\ Return(w, "verified")
    /\ UNCHANGED local

HashMismatches(w) ==
    /\ at[w] = "hash"
    /\ local[hand[w]] # NoBody
    /\ ~Matches(hand[w])
    /\ Return(w, "mismatch")
    /\ UNCHANGED local

(* The file is there and cannot be read to its end.                         *)
HashFails(w) ==
    /\ at[w] = "hash"
    /\ local[hand[w]] # NoBody
    /\ "hash" \in Faults \/ ctx = "cancelled"
    /\ Return(w, "error")
    /\ UNCHANGED local

HashMissing(w) ==
    /\ at[w] = "hash"
    /\ local[hand[w]] = NoBody
    /\ at' = [at EXCEPT ![w] = "get"]
    /\ UNCHANGED <<local, inputs, pc, ctx, todo, hand, stream, status, tally,
                   lastExit>>

(* Sink.Get: the stream may be damaged on its way.                          *)
GetOpens(w) ==
    /\ at[w] = "get"
    /\ Source(hand[w]) # NoBody
    /\ at' = [at EXCEPT ![w] = "copy"]
    /\ \E body \in Contents :
          /\ body = Source(hand[w]) \/ "corrupt" \in Faults
          /\ stream' = [stream EXCEPT ![w] = body]
    /\ UNCHANGED <<local, inputs, pc, ctx, todo, hand, status, tally,
                   lastExit>>

GetFails(w) ==
    /\ at[w] = "get"
    /\ \/ Source(hand[w]) = NoBody
       \/ "get" \in Faults
       \/ ctx = "cancelled"
    /\ Return(w, "error")
    /\ UNCHANGED local

(* The copy into a temp file, and its digest.                               *)
CopyVerifies(w) ==
    /\ at[w] = "copy"
    /\ Digest(stream[w]) = doc.files[hand[w]].sha
    /\ at' = [at EXCEPT ![w] = "rename"]
    /\ UNCHANGED <<local, inputs, pc, ctx, todo, hand, stream, status, tally,
                   lastExit>>

CopyFails(w) ==
    /\ at[w] = "copy"
    /\ \/ Digest(stream[w]) # doc.files[hand[w]].sha
       \/ "copy" \in Faults
       \/ ctx = "cancelled"
    /\ Return(w, "error")
    /\ UNCHANGED local

RenameLands(w) ==
    /\ at[w] = "rename"
    /\ local' = [local EXCEPT ![hand[w]] = stream[w]]
    /\ Return(w, "fetched")

RenameFails(w) ==
    /\ at[w] = "rename"
    /\ "rename" \in Faults
    /\ Return(w, "error")
    /\ UNCHANGED local

(* An error under a dead context is a casualty; all else is reported.       *)
Casualty(w) ==
    /\ at[w] = "report"
    /\ status[w] = "error" /\ ctx = "cancelled"
    /\ Release(w)
    /\ UNCHANGED tally

Report(w) ==
    /\ at[w] = "report"
    /\ ~(status[w] = "error" /\ ctx = "cancelled")
    /\ tally' = Counted(status[w])
    /\ Release(w)

(* close(work), wg.Wait, the totals and the exit code.                      *)
Exit ==
    /\ pc = "join"
    /\ \A w \in Workers : at[w] = "idle"
    /\ pc' = "down"
    /\ lastExit' = IF ctx = "cancelled" THEN "interrupted"
                   ELSE IF tally.errored > 0 THEN "failed" ELSE "ok"
    /\ UNCHANGED <<local, inputs, ctx, todo, workerVars, tally>>

-----------------------------------------------------------------------------
Cancel ==
    /\ pc # "down"
    /\ ctx = "live"
    /\ ctx' = "cancelled"
    /\ UNCHANGED <<local, inputs, pc, todo, workerVars, tally, lastExit>>

Crash ==
    /\ pc # "down"
    /\ pc' = "down"
    /\ lastExit' = "crashed"
    /\ ctx' = "live"
    /\ todo' = {}
    /\ at' = [w \in Workers |-> "idle"]
    /\ hand' = [w \in Workers |-> NoFile]
    /\ stream' = [w \in Workers |-> NoBody]
    /\ status' = [w \in Workers |-> NoStatus]
    /\ UNCHANGED <<local, inputs, tally>>

(* noteMismatches: "inspect, then delete to re-mirror".                     *)
Delete(f) ==
    /\ pc = "down"
    /\ local[f] # NoBody
    /\ local' = [local EXCEPT ![f] = NoBody]
    /\ lastExit' = "none"
    /\ UNCHANGED <<inputs, pc, ctx, todo, workerVars, tally>>

-----------------------------------------------------------------------------
Worker(w) ==
    \/ SkipGiven(w) \/ Unverifiable(w) \/ BeginGiven(w)
    \/ HashVerifies(w) \/ HashMismatches(w) \/ HashFails(w) \/ HashMissing(w)
    \/ GetOpens(w) \/ GetFails(w)
    \/ CopyVerifies(w) \/ CopyFails(w)
    \/ RenameLands(w) \/ RenameFails(w)
    \/ Casualty(w) \/ Report(w)

Feeder == \/ \E w \in Workers, f \in Files : Feed(w, f)
          \/ FeedEnds
          \/ Exit

Next == \/ \E fromBucket \in BOOLEAN :
              Start(fromBucket) \/ StartRefused(fromBucket)
        \/ Feeder
        \/ \E w \in Workers : Worker(w)
        \/ Cancel \/ Crash
        \/ \E f \in Files : Delete(f)

(* The feeder and every worker are scheduled, and every read, transfer and  *)
(* rename ends.                                                             *)
Fairness == WF_vars(Feeder) /\ \A w \in Workers : WF_vars(Worker(w))

Spec == Init /\ [][Next]_vars /\ Fairness

-----------------------------------------------------------------------------
TypeOK ==
    /\ local \in [Files -> Contents \cup {NoBody}]
    /\ bucket \in [Files -> Contents \cup {NoBody}]
    /\ index \in Recorded \cup {NoDocument}
    /\ disk \in Recorded \cup {NoDocument}
    /\ bucketIndex \in Recorded \cup {NoDocument}
    /\ remote \in BOOLEAN
    /\ doc \in Documents
    /\ pc \in {"down", "feed", "join"}
    /\ ctx \in {"live", "cancelled"}
    /\ todo \in SUBSET Entered(doc)
    /\ at \in [Workers -> {"idle", "given", "hash", "get", "copy", "rename",
                           "report"}]
    /\ hand \in [Workers -> Entered(doc) \cup {NoFile}]
    /\ stream \in [Workers -> Contents \cup {NoBody}]
    /\ status \in [Workers -> Statuses \cup {NoStatus}]
    /\ tally \in Tallies
    /\ lastExit \in {"none", "ok", "failed", "interrupted", "refused",
                    "crashed"}
    /\ \A w \in Workers :
          /\ at[w] = "idle" <=> hand[w] = NoFile
          /\ at[w] = "report" <=> status[w] # NoStatus
          /\ at[w] \in {"copy", "rename"} <=> stream[w] # NoBody
          /\ pc = "down" => at[w] = "idle"

(* mirrorOne: "It never overwrites an existing local file", and "a failed   *)
(* or corrupt transfer never leaves a file at the final path": whatever two *)
(* workers, a damaged stream and an interrupt do, a file appears at a final *)
(* path only where there was none, and only with the recorded digest.       *)
LandsVerified ==
    [][pc # "down" =>
          \A f \in Files : local'[f] # local[f] =>
              /\ local[f] = NoBody
              /\ f \in Entered(doc)
              /\ Digest(local'[f]) = doc.files[f].sha]_vars

(* "exits 0 only when every file mirrored or verified cleanly": no order of *)
(* cancellation, casualties and reports lets a run end well with an entry   *)
(* missing or wrong at its final path.                                      *)
CleanExit ==
    pc = "down" /\ lastExit = "ok" => \A f \in Entered(doc) : Matches(f)

(* A run that was not interrupted reports every entry exactly once, and a   *)
(* mismatch only where a file contradicts the metadata.                     *)
Accounted ==
    pc = "down" /\ lastExit \in {"ok", "failed"} =>
        /\ tally.mirrored + tally.skipped + tally.errored
              = Cardinality(Entered(doc))
        /\ tally.mismatches <= Cardinality({f \in Entered(doc) :
                                    local[f] # NoBody /\ ~Matches(f)})

(* Every run ends: the feeder never waits for a worker that waits for it,   *)
(* nor a worker for a channel nobody closes.                                *)
MirrorEnds == pc # "down" ~> pc = "down"

(* README.md: mirror "copies a snapshot's files from the sink to the local  *)
(* root". Not so of a file recorded skipped_existing, whose body is in the  *)
(* sink: a run that ends well leaves it there.                              *)
BringsBack ==
    pc = "down" /\ lastExit = "ok" =>
        \A f \in Files :
            /\ doc.files[f].outcome \in {"fetched", "skipped_existing"}
            /\ Source(f) # NoBody
            => local[f] # NoBody

-----------------------------------------------------------------------------
(* The parts of the inductive invariant.                                    *)

(* An entry is with the feeder or with one worker, never with two.          *)
HandedOnce ==
    \A w \in Workers :
        /\ hand[w] \notin todo
        /\ \A v \in Workers : hand[v] = hand[w] => v = w \/ hand[w] = NoFile

(* What a worker has found out stays true until it has used it.             *)
Landing ==
    \A w \in Workers :
        /\ at[w] \in {"get", "copy", "rename"} => local[hand[w]] = NoBody
        /\ at[w] = "rename" => Digest(stream[w]) = doc.files[hand[w]].sha
        /\ status[w] \in {"fetched", "verified"} => Matches(hand[w])

(* Until an error is counted or the context dies no entry is lost.          *)
NothingLost ==
    /\ pc # "down" /\ ctx = "live" /\ tally.errored = 0 =>
          \A f \in Entered(doc) :
              f \in todo \/ Matches(f) \/ \E w \in Workers : hand[w] = f
    /\ pc = "join" /\ ctx = "live" => todo = {}

(* The entries the tally does not speak of yet, and those whose file        *)
(* contradicts the metadata.                                                *)
Unreported   == todo \cup {f \in Entered(doc) : \E w \in Workers : hand[w] = f}
Contradicted == {f \in Entered(doc) : local[f] # NoBody /\ ~Matches(f)}

(* While the context lives an entry is either counted or still to be, and a *)
(* mismatch is found, and counted, of an entry of its own.                  *)
Balanced ==
    /\ pc # "down" /\ ctx = "live" =>
          /\ tally.mirrored + tally.skipped + tally.errored
                + Cardinality(Unreported) = Cardinality(Entered(doc))
          /\ tally.mismatches <= Cardinality(Contradicted \ Unreported)
    /\ \A w \in Workers : status[w] = "mismatch" => hand[w] \in Contradicted

MirrorInv ==
    /\ TypeOK /\ HandedOnce /\ Landing /\ NothingLost /\ Balanced
    /\ CleanExit /\ Accounted
=============================================================================
