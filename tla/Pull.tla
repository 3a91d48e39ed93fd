-------------------------------- MODULE Pull --------------------------------
(***************************************************************************)
(* The pull verb (internal/cmd/pull.go) with the sequential fetcher        *)
(* (internal/fetcher/fetcher.go, retry.go) and the two goroutines that     *)
(* share the ledger: the dispatch loop, which records a verdict per task,  *)
(* and the periodic flusher, which writes the ledger to disk.  The process *)
(* may be interrupted (SIGINT/SIGTERM cancels the context) or die at any   *)
(* step, and be run again any number of times.                             *)
(*                                                                         *)
(* Durable: sink, disk (_progress.json), index (_index.json), bucketIndex  *)
(* (the copy in the bucket), residue (a crashed writer's temp file).       *)
(* Everything else dies with the process.                                  *)
(*                                                                         *)
(* Abstractions: the order of the task list is any order; a wait of the    *)
(* limiter or of the backoff is one step (their lengths are Limiter's);    *)
(* catalog discovery, which fails the run before anything is written, is   *)
(* the choice of the run's catalog.                                        *)
(***************************************************************************)
EXTENDS Ledger, Naturals

CONSTANTS MaxAttempts,  \* RetryPolicy.MaxAttempts
          Remote,       \* --sink r2: the sink is a bucket, not the local root
          Faults,       \* the operations that may fail in this instance
          NoFile        \* no task in hand

FaultKinds == {"exists", "put", "lostack", "flush", "index", "bucket",
               "residue"}

ASSUME MaxAttemptsAssumption == MaxAttempts \in Nat \ {0}
ASSUME RemoteAssumption == Remote \in BOOLEAN
ASSUME FaultsAssumption == Faults \subseteq FaultKinds
ASSUME NoFileAssumption == NoFile \notin Files

VARIABLES sink,         \* the stored bodies
          disk,         \* _progress.json
          index,        \* _index.json under the local root
          bucketIndex,  \* _index.json in the bucket
          residue,      \* some writer's temp file was left behind
          mem,          \* the Ledger's in-memory document
          pc,           \* where runPull is
          ctx,          \* the run's context
          run,          \* what the command line selected of the catalog
          todo,         \* tasks the fetcher has not started
          cur,          \* the task in hand
          attempt,      \* its attempt number
          reply,        \* the body being stored
          res,          \* the Result being built
          flusher,      \* the flusher goroutine
          payload,      \* the document it has marshalled
          lastExit      \* how the last run ended

durable   == <<sink, disk, index, bucketIndex, residue>>
taskVars  == <<cur, attempt, reply, res>>
flushVars == <<flusher, payload>>
procVars  == <<mem, pc, ctx, run, todo, taskVars, flushVars>>
vars      == <<durable, procVars, lastExit>>

NoRun == [wanted |-> {}, retry |-> FALSE]
Runs  == [wanted : SUBSET Files, retry : BOOLEAN]

TaskStates == {"exists", "pace", "request", "store", "verdict"}
PcStates   == {"down", "next", "drain", "stamp", "index", "bucket", "flush"}
                \cup TaskStates

Init ==
    /\ sink = [f \in Files |-> NoBody]
    /\ disk = Fresh
    /\ index = Fresh
    /\ bucketIndex = Fresh
    /\ residue = FALSE
    /\ mem = Fresh
    /\ pc = "down"
    /\ ctx = "live"
    /\ run = NoRun
    /\ todo = {}
    /\ cur = NoFile
    /\ attempt = 0
    /\ reply = NoBody
    /\ res = Absent
    /\ flusher = "off"
    /\ payload = Fresh
    /\ lastExit = "none"

-----------------------------------------------------------------------------
(* Parts the actions share.                                                *)

(* The task's verdict is known: what handle returned waits in res.         *)
Conclude(outcome, sha, err) ==
    /\ res' = [outcome |-> outcome, sha |-> sha, err |-> err]
    /\ reply' = NoBody
    /\ pc' = "verdict"
    /\ UNCHANGED <<attempt, disk, index, bucketIndex, residue, mem, ctx, run,
                   todo, cur, flushVars, lastExit>>

(* An error of an operation that was given the context.  Once the context  *)
(* is dead it is the context's own error, or a failure that came first.    *)
OperationErrors == {"failure"} \cup
                   (IF ctx = "cancelled" THEN {"cancelled"} ELSE {})

(* The task in hand is done with.                                          *)
TaskDone == /\ cur' = NoFile
            /\ attempt' = 0
            /\ res' = Absent
            /\ UNCHANGED reply

(* The process is gone; mem keeps the last document for FinalFlush to be   *)
(* compared with, and is not read again.                                   *)
Exit == /\ pc' = "down"
        /\ ctx' = "live"
        /\ run' = NoRun
        /\ UNCHANGED <<mem, todo, taskVars, flushVars>>

-----------------------------------------------------------------------------
(* Slips: each is an action below as a plausible mistake in its code would  *)
(* leave it.  No action uses them; substituted for the right one, each must *)
(* be caught by the property named beside it.                               *)

(* TypeOK: the retry loop runs once too often.                              *)
RetryOnceMore ==
    \/ /\ ctx = "live"
       /\ attempt <= MaxAttempts
       /\ attempt' = attempt + 1
       /\ reply' = NoBody
       /\ pc' = "pace"
       /\ UNCHANGED <<disk, index, bucketIndex, residue, mem, ctx, run, todo,
                      cur, res, flushVars, lastExit>>
    \/ /\ ctx = "live" => attempt > MaxAttempts
       /\ \E err \in OperationErrors : Conclude("error", NoDigest, err)

(* RunTerminates: the attempts are not counted.                             *)
RetryForever ==
    /\ ctx = "live"
    /\ reply' = NoBody
    /\ pc' = "pace"
    /\ UNCHANGED <<attempt, disk, index, bucketIndex, residue, mem, ctx, run,
                   todo, cur, res, flushVars, lastExit>>

(* NoRefetch: the plan is not filtered by the ledger.                       *)
StartUnfiltered(catalog, wanted, retry) ==
    /\ pc = "down"
    /\ mem' = Upsert(disk, catalog)
    /\ run' = [wanted |-> wanted, retry |-> retry]
    /\ todo' = wanted
    /\ pc' = IF wanted = {} THEN "stamp" ELSE "next"
    /\ flusher' = IF wanted = {} THEN "off" ELSE "ticking"
    /\ ctx' = "live"
    /\ lastExit' = "none"
    /\ UNCHANGED <<durable, taskVars, payload>>

(* RecordsHonest: a HEAD request's failure is taken for a stored body.      *)
ExistsAssumed ==
    /\ pc = "exists"
    /\ Conclude("skipped_existing", NoDigest, "none")
    /\ UNCHANGED sink

(* NoRefetch, BodiesWriteOnce: the sink is not asked before a download.     *)
ExistsUnchecked ==
    /\ pc = "exists"
    /\ attempt' = 1
    /\ pc' = "pace"
    /\ UNCHANGED <<durable, mem, ctx, run, todo, cur, reply, res, flushVars,
                   lastExit>>

(* RecordsHonest: the error of a failed Put is dropped.                     *)
PutErrorIgnored ==
    /\ pc = "store"
    /\ "put" \in Faults \/ ctx = "cancelled"
    /\ Conclude("fetched", Digest(reply), "none")
    /\ UNCHANGED sink

(* NoCasualtyRecorded, SnapshotSpec: the dead context is not asked about.   *)
RecordAnything ==
    /\ pc = "verdict"
    /\ mem' = RecordFile(mem, cur, res)
    /\ pc' = "next"
    /\ TaskDone
    /\ UNCHANGED <<durable, ctx, run, todo, flushVars, lastExit>>

(* ExitSaved: flushCancel without flushWG.Wait.                             *)
DrainUnwaited ==
    /\ pc = "drain"
    /\ flusher' = IF flusher = "ticking" THEN "off" ELSE flusher
    /\ pc' = IF ctx = "live" THEN "stamp" ELSE "flush"
    /\ todo' = {}
    /\ UNCHANGED <<durable, mem, ctx, run, taskVars, payload, lastExit>>

(* CompletionSettles: an interrupted run is finalized too.                  *)
DrainFinalizes ==
    /\ pc = "drain"
    /\ flusher = "ticking"
    /\ flusher' = "off"
    /\ pc' = "stamp"
    /\ todo' = {}
    /\ UNCHANGED <<durable, mem, ctx, run, taskVars, payload, lastExit>>

(* Converges: a resume plans only what the ledger did not list, so what was *)
(* pending at an interrupt is never fetched.                                *)
StartUnlisted(catalog, wanted, retry) ==
    LET plan == {f \in wanted : disk.files[f].outcome = "absent"}
    IN  /\ pc = "down"
        /\ mem' = Upsert(disk, catalog)
        /\ run' = [wanted |-> wanted, retry |-> retry]
        /\ todo' = plan
        /\ pc' = IF plan = {} THEN "stamp" ELSE "next"
        /\ flusher' = IF plan = {} THEN "off" ELSE "ticking"
        /\ ctx' = "live"
        /\ lastExit' = "none"
        /\ UNCHANGED <<durable, taskVars, payload>>

-----------------------------------------------------------------------------
(* runPull up to the fetch: the ledger is loaded, the catalog upserted, and *)
(* the tasks of the wanted kinds that the ledger does not let skip become   *)
(* the plan.  An empty plan goes straight to finalizeSnapshot, with no      *)
(* flusher.                                                                 *)
Start(catalog, wanted, retry) ==
    LET doc  == Upsert(disk, catalog)
        plan == {f \in wanted : ~ShouldSkip(doc, f, retry)}
    IN  /\ pc = "down"
        /\ mem' = doc
        /\ run' = [wanted |-> wanted, retry |-> retry]
        /\ todo' = plan
        /\ pc' = IF plan = {} THEN "stamp" ELSE "next"
        /\ flusher' = IF plan = {} THEN "off" ELSE "ticking"
        /\ ctx' = "live"
        /\ lastExit' = "none"
        /\ UNCHANGED <<durable, taskVars, payload>>

(* Fetcher.Run: the context is checked before every task.                  *)
NextTask(f) ==
    /\ pc = "next"
    /\ ctx = "live"
    /\ f \in todo
    /\ todo' = todo \ {f}
    /\ cur' = f
    /\ pc' = "exists"
    /\ UNCHANGED <<durable, mem, ctx, run, attempt, reply, res, flushVars,
                   lastExit>>

LoopEnds ==
    /\ pc = "next"
    /\ ctx = "cancelled" \/ todo = {}
    /\ pc' = "drain"
    /\ UNCHANGED <<durable, mem, ctx, run, todo, taskVars, flushVars, lastExit>>

(* Sink.Exists: a stored body is a skip.  The local sink looks at the file *)
(* whatever the context; the bucket's HEAD request fails with it.          *)
ExistsFound ==
    /\ pc = "exists"
    /\ sink[cur] # NoBody
    /\ Conclude("skipped_existing", NoDigest, "none")
    /\ UNCHANGED sink

ExistsMissing ==
    /\ pc = "exists"
    /\ sink[cur] = NoBody
    /\ attempt' = 1
    /\ pc' = "pace"
    /\ UNCHANGED <<durable, mem, ctx, run, todo, cur, reply, res, flushVars,
                   lastExit>>

ExistsFails ==
    /\ pc = "exists"
    /\ \/ "exists" \in Faults /\ Conclude("error", NoDigest, "failure")
       \/ /\ Remote /\ ctx = "cancelled"
          /\ Conclude("error", NoDigest, "cancelled")
    /\ UNCHANGED sink

(* The backoff before a retry and the limiter's wait: the timer fires, or  *)
(* the dead context cuts it.  When both are ready select takes either.     *)
PaceElapses ==
    /\ pc = "pace"
    /\ pc' = "request"
    /\ UNCHANGED <<durable, mem, ctx, run, todo, taskVars, flushVars, lastExit>>

PaceCut ==
    /\ pc = "pace"
    /\ ctx = "cancelled"
    /\ Conclude("error", NoDigest, "cancelled")
    /\ UNCHANGED sink

(* isRetryable on a transient failure: nothing is retried once the context *)
(* is dead; otherwise the next attempt, up to the policy's maximum.        *)
RetryOrGiveUp ==
    \/ /\ ctx = "live"
       /\ attempt < MaxAttempts
       /\ attempt' = attempt + 1
       /\ reply' = NoBody
       /\ pc' = "pace"
       /\ UNCHANGED <<disk, index, bucketIndex, residue, mem, ctx, run, todo,
                      cur, res, flushVars, lastExit>>
    \/ /\ ctx = "live" => attempt >= MaxAttempts
       /\ \E err \in OperationErrors : Conclude("error", NoDigest, err)

(* The answers to one GET of a station file.                               *)
ReplyBody(content) ==
    /\ pc = "request"
    /\ reply' = content
    /\ pc' = "store"
    /\ UNCHANGED <<durable, mem, ctx, run, todo, cur, attempt, res, flushVars,
                   lastExit>>

ReplyNotFound ==
    /\ pc = "request"
    /\ Conclude("not_found", NoDigest, "none")
    /\ UNCHANGED sink

(* A 4xx other than 404 and 429: a stable answer, never retried.           *)
ReplyRefused ==
    /\ pc = "request"
    /\ Conclude("error", NoDigest, "failure")
    /\ UNCHANGED sink

(* 5xx, 429, or no response.                                               *)
ReplyTransient ==
    /\ pc = "request"
    /\ RetryOrGiveUp
    /\ UNCHANGED sink

(* Sink.Put hashes the stream as it stores it, and is atomic.              *)
PutStored ==
    /\ pc = "store"
    /\ sink' = [sink EXCEPT ![cur] = reply]
    /\ Conclude("fetched", Digest(reply), "none")

PutFails ==
    /\ pc = "store"
    /\ "put" \in Faults \/ ctx = "cancelled"
    /\ RetryOrGiveUp
    /\ UNCHANGED sink

(* An upload the bucket performed but whose response was lost.             *)
PutUnacknowledged ==
    /\ pc = "store"
    /\ Remote
    /\ "lostack" \in Faults
    /\ sink' = [sink EXCEPT ![cur] = reply]
    /\ RetryOrGiveUp

(* Fetcher.Run after handle: an error under a dead context is a casualty   *)
(* and ends the loop unrecorded; any other verdict goes to the ledger.     *)
Casualty ==
    /\ pc = "verdict"
    /\ res.outcome = "error" /\ ctx = "cancelled"
    /\ pc' = "drain"
    /\ TaskDone
    /\ UNCHANGED <<durable, mem, ctx, run, todo, flushVars, lastExit>>

Record ==
    /\ pc = "verdict"
    /\ ~(res.outcome = "error" /\ ctx = "cancelled")
    /\ mem' = RecordFile(mem, cur, res)
    /\ pc' = "next"
    /\ TaskDone
    /\ UNCHANGED <<durable, ctx, run, todo, flushVars, lastExit>>

-----------------------------------------------------------------------------
(* Ledger.Flush by the flusher: the document is marshalled under the lock, *)
(* then written to a temp file and renamed without it.                     *)
FlushMarshal ==
    /\ flusher = "ticking"
    /\ payload' = mem
    /\ flusher' = "writing"
    /\ UNCHANGED <<durable, mem, pc, ctx, run, todo, taskVars, lastExit>>

FlushRename ==
    /\ flusher = "writing"
    /\ \/ disk' = payload
       \/ "flush" \in Faults /\ UNCHANGED disk
    /\ flusher' = "ticking"
    /\ payload' = Fresh
    /\ UNCHANGED <<sink, index, bucketIndex, residue, mem, pc, ctx, run, todo,
                   taskVars, lastExit>>

(* flushCancel and flushWG.Wait, then the choice between finalizing and a  *)
(* plain flush.                                                            *)
Drain ==
    /\ pc = "drain"
    /\ flusher = "ticking"
    /\ flusher' = "off"
    /\ pc' = IF ctx = "live" THEN "stamp" ELSE "flush"
    /\ todo' = {}
    /\ UNCHANGED <<durable, mem, ctx, run, taskVars, payload, lastExit>>

(* finalizeSnapshot: stamp and flush, then the local index, then the index *)
(* in the bucket.  Each step's failure is reported and passed over.        *)
StampAndFlush ==
    /\ pc = "stamp"
    /\ mem' = MarkCompleted(mem)
    /\ \/ disk' = mem' /\ lastExit' = "saved"
       \/ "flush" \in Faults /\ UNCHANGED disk /\ lastExit' = "unsaved"
    /\ pc' = "index"
    /\ UNCHANGED <<sink, index, bucketIndex, residue, ctx, run, todo, taskVars,
                   flushVars>>

WriteIndex ==
    /\ pc = "index"
    /\ \/ index' = mem
       \/ "index" \in Faults /\ UNCHANGED index
    /\ pc' = "bucket"
    /\ UNCHANGED <<sink, disk, bucketIndex, residue, mem, ctx, run, todo,
                   taskVars, flushVars, lastExit>>

MirrorIndex ==
    /\ pc = "bucket"
    /\ \/ Remote /\ bucketIndex' = mem
       \/ /\ ~Remote \/ "bucket" \in Faults \/ ctx = "cancelled"
          /\ UNCHANGED bucketIndex
    /\ Exit
    /\ UNCHANGED <<sink, disk, index, residue, lastExit>>

(* The interrupted run's only exit.                                        *)
FinalFlush ==
    /\ pc = "flush"
    /\ \/ disk' = mem /\ lastExit' = "saved"
       \/ "flush" \in Faults /\ UNCHANGED disk /\ lastExit' = "unsaved"
    /\ Exit
    /\ UNCHANGED <<sink, index, bucketIndex, residue>>

-----------------------------------------------------------------------------
Cancel ==
    /\ pc # "down"
    /\ ctx = "live"
    /\ ctx' = "cancelled"
    /\ UNCHANGED <<durable, mem, pc, run, todo, taskVars, flushVars, lastExit>>

(* The process dies.  A local writer that was between creating its temp    *)
(* file and renaming it leaves that file behind.                           *)
Writing == \/ pc = "store" /\ ~Remote
           \/ pc \in {"stamp", "index", "flush"}
           \/ flusher = "writing"

Crash ==
    /\ pc # "down"
    /\ pc' = "down"
    /\ \/ UNCHANGED residue
       \/ "residue" \in Faults /\ Writing /\ residue' = TRUE
    /\ ctx' = "live"
    /\ mem' = Fresh
    /\ todo' = {}
    /\ cur' = NoFile
    /\ attempt' = 0
    /\ reply' = NoBody
    /\ res' = Absent
    /\ flusher' = "off"
    /\ payload' = Fresh
    /\ run' = NoRun
    /\ lastExit' = "crashed"
    /\ UNCHANGED <<sink, disk, index, bucketIndex>>

-----------------------------------------------------------------------------
StartSome == \E catalog \in SUBSET Files, retry \in BOOLEAN :
                \E wanted \in SUBSET catalog : Start(catalog, wanted, retry)

(* A step of the dispatch goroutine.                                       *)
Dispatch ==
    \/ \E f \in Files : NextTask(f)
    \/ LoopEnds
    \/ ExistsFound \/ ExistsMissing \/ ExistsFails
    \/ PaceElapses \/ PaceCut
    \/ \E content \in Contents : ReplyBody(content)
    \/ ReplyNotFound \/ ReplyRefused \/ ReplyTransient
    \/ PutStored \/ PutFails \/ PutUnacknowledged
    \/ Casualty \/ Record
    \/ Drain
    \/ StampAndFlush \/ WriteIndex \/ MirrorIndex \/ FinalFlush

Flusher == FlushMarshal \/ FlushRename

Next == StartSome \/ Dispatch \/ Flusher \/ Cancel \/ Crash

Spec == Init /\ [][Next]_vars

-----------------------------------------------------------------------------
(* Types, and the shape of the process state: a task is in hand exactly    *)
(* while it is being handled, the flusher runs only beside the fetch loop. *)
TypeOK ==
    /\ sink \in [Files -> Contents \cup {NoBody}]
    /\ disk \in Documents
    /\ index \in Documents
    /\ bucketIndex \in Documents
    /\ residue \in BOOLEAN
    /\ mem \in Documents
    /\ pc \in PcStates
    /\ ctx \in {"live", "cancelled"}
    /\ run \in Runs
    /\ todo \in SUBSET Files
    /\ cur \in Files \cup {NoFile}
    /\ attempt \in 0 .. MaxAttempts
    /\ reply \in Contents \cup {NoBody}
    /\ res \in Entries
    /\ flusher \in {"off", "ticking", "writing"}
    /\ payload \in Documents
    /\ lastExit \in {"none", "saved", "unsaved", "crashed"}
    /\ (cur \in Files) <=> (pc \in TaskStates)
    /\ pc = "store" <=> reply \in Contents
    /\ flusher # "off" => pc \in TaskStates \cup {"next", "drain"}

(* No document says of a file what the sink contradicts.                   *)
Honest(doc) ==
    \A f \in Files :
        /\ doc.files[f].outcome = "fetched" =>
              /\ sink[f] \in Contents
              /\ doc.files[f].sha = Digest(sink[f])
        /\ doc.files[f].outcome = "skipped_existing" => sink[f] \in Contents

(* Whatever was interrupted, lost or retried, every ledger and index, in   *)
(* memory, on disk, being written or in the bucket, names as stored only   *)
(* what is stored, under the digest of what is stored (Sink.Put before     *)
(* RecordFile before Flush; Exists before every download).                 *)
RecordsHonest ==
    /\ Honest(mem) /\ Honest(payload)
    /\ Honest(disk) /\ Honest(index) /\ Honest(bucketIndex)

(* A request is sent only for a file the ledger on disk leaves open (or    *)
(* errored, under --retry-failed) and whose body was not stored when the   *)
(* task began: a restart, whatever the crash lost, re-asks the server for  *)
(* nothing it has already answered durably.                                *)
NoRefetch ==
    pc \in {"pace", "request", "store"} =>
        /\ ~ShouldSkip(disk, cur, run.retry)
        /\ sink[cur] = NoBody \/ (Remote /\ attempt > 1)

(* An operator's interrupt never reaches a ledger or an index as a verdict: *)
(* a task cut by cancellation stays pending and is attempted again by a     *)
(* plain re-run (fetcher.go, Run).                                          *)
Uncancelled(doc) == \A f \in Files : doc.files[f].err # "cancelled"

NoCasualtyRecorded ==
    /\ Uncancelled(mem) /\ Uncancelled(payload)
    /\ Uncancelled(disk) /\ Uncancelled(index) /\ Uncancelled(bucketIndex)

(* After any exit but a crash the ledger on disk is the one the run ended  *)
(* with: no late rename of the flusher puts an older document back.        *)
ExitSaved == pc = "down" /\ lastExit = "saved" => disk = mem

(* completed_at and _index.json are written only by a run that reached a   *)
(* verdict on every file it was asked for.                                 *)
CompletionSettles ==
    pc \in {"stamp", "index", "bucket"} =>
        \A f \in run.wanted : ShouldSkip(mem, f, FALSE)

(* What the ledger on disk has settled is never reopened or rewritten, and *)
(* an entry once listed is never dropped: no crash, no stale flush and no  *)
(* later run with other filters undoes a verdict.                          *)
VerdictsFinal ==
    [][\A f \in Files :
          /\ Settled(disk.files[f].outcome) => disk'.files[f] = disk.files[f]
          /\ Terminal(disk.files[f].outcome) => Terminal(disk'.files[f].outcome)
      ]_vars

(* "A dated snapshot is never modified" (README): a stored body is never   *)
(* replaced.  It holds of the local sink; in a bucket an upload whose      *)
(* acknowledgement was lost is repeated with whatever the server then      *)
(* serves.                                                                 *)
BodiesWriteOnce ==
    [][\A f \in Files : sink[f] # NoBody => sink'[f] = sink[f]]_vars

(* README.md: "Every downloaded file is ... checked by content: its sha256  *)
(* is recorded in the snapshot ledger (_index.json)".  Not so: a body whose *)
(* record died with the process is found by the next run, which skips it    *)
(* and records no digest.                                                   *)
EveryBodyDigested ==
    \A f \in Files : index.files[f].outcome \in {"fetched", "skipped_existing"}
                        => index.files[f].sha # NoDigest

(* publish/raw.go tells the operator who meets a temp file in a snapshot    *)
(* to "re-run pull to convergence or remove it".  Not so: no pull removes   *)
(* another's temp file.                                                     *)
ConvergenceCleans ==
    (/\ pc = "down" /\ lastExit = "saved" /\ disk.completed
     /\ \A f \in Files : Settled(disk.files[f].outcome)) => ~residue

-----------------------------------------------------------------------------
(* The parts of the inductive invariant that are not properties above.      *)

(* Nothing has been said yet of a file that is being fetched.               *)
OpenInHand ==
    pc \in {"pace", "request", "store"} =>
        \A doc \in {mem, payload, disk, index, bucketIndex} :
            doc.files[cur].outcome \notin {"fetched", "skipped_existing"}

(* The verdict about to be recorded is one, and is true.                    *)
VerdictTrue ==
    pc = "verdict" =>
        /\ Terminal(res.outcome)
        /\ res.outcome = "fetched" =>
              /\ sink[cur] \in Contents
              /\ res.sha = Digest(sink[cur])
        /\ res.outcome = "skipped_existing" => sink[cur] \in Contents
        /\ res.err = "cancelled" => res.outcome = "error" /\ ctx = "cancelled"

(* Every task left is of a file the ledger leaves open, and comes once.     *)
PlanOpen ==
    /\ \A f \in todo : ~Settled(mem.files[f].outcome)
    /\ cur \in Files => cur \notin todo /\ ~Settled(mem.files[cur].outcome)

(* new goes back on nothing that old says.                                  *)
Ahead(old, new) ==
    \A f \in Files :
        /\ Settled(old.files[f].outcome) => new.files[f] = old.files[f]
        /\ Terminal(old.files[f].outcome) => Terminal(new.files[f].outcome)
        /\ old.files[f].outcome # "absent" => new.files[f].outcome # "absent"

(* The document being written is ahead of the one on disk, and the one in   *)
(* memory ahead of both: the one flusher writes what it marshalled before   *)
(* it marshals again, and is waited for before anybody else writes.         *)
Lineage ==
    pc # "down" =>
        /\ Ahead(disk, mem)
        /\ flusher = "writing" => Ahead(disk, payload) /\ Ahead(payload, mem)

(* What a document does not list, it says nothing else of.                  *)
Blank(doc) ==
    \A f \in Files : doc.files[f].outcome = "absent" => doc.files[f] = Absent

AbsentBlank == Blank(mem) /\ Blank(payload) /\ Blank(disk)

(* The inductive invariant.                                                 *)
PullInv ==
    /\ TypeOK
    /\ RecordsHonest
    /\ NoCasualtyRecorded
    /\ OpenInHand
    /\ VerdictTrue
    /\ PlanOpen
    /\ Lineage
    /\ AbsentBlank

-----------------------------------------------------------------------------
(* The ledger on disk and the sink implement the abstract snapshot.        *)
Promise == INSTANCE Snapshot WITH body <- sink, record <- disk.files
SnapshotSpec == Promise!Spec
=============================================================================
