----------------------------- MODULE PullProofs -----------------------------
(***************************************************************************)
(* Safety of the pull verb, for every catalog, every set of bodies, every  *)
(* retry bound, either sink and any choice of failing operations.          *)
(***************************************************************************)
EXTENDS Pull, TLAPS

-----------------------------------------------------------------------------
(* What the operations on a ledger document return, for every document.    *)

(* No digest is the empty one.                                             *)
LEMMA DigestIsNotEmpty ==
    ASSUME NEW b \in Contents
    PROVE  Digest(b) \in Digests /\ Digest(b) # NoDigest
BY NoDigestAssumption DEF Digests

(* A ledger nobody wrote in is a ledger.                                   *)
LEMMA FreshIsDocument == Fresh \in Documents
BY DEF Fresh, Documents, Entries, Outcomes, Errors, Absent

(* Discovery keeps the ledger a ledger.                                    *)
LEMMA UpsertType ==
    ASSUME NEW doc \in Documents, NEW catalog \in SUBSET Files
    PROVE  Upsert(doc, catalog) \in Documents
BY DEF Upsert, Documents, Entries, Outcomes, Errors, Pending

(* Discovery only adds: a listed pair keeps its entry, a new one is        *)
(* pending.                                                                *)
LEMMA UpsertEntry ==
    ASSUME NEW doc \in Documents, NEW catalog \in SUBSET Files, NEW f \in Files
    PROVE  Upsert(doc, catalog).files[f] =
               IF f \in catalog /\ doc.files[f].outcome = "absent"
               THEN Pending ELSE doc.files[f]
BY DEF Upsert, Documents

(* So does a verdict.                                                      *)
LEMMA RecordFileType ==
    ASSUME NEW doc \in Documents, NEW f \in Files, NEW update \in Entries
    PROVE  RecordFile(doc, f, update) \in Documents
<1>1. doc.files[f] \in Entries
  BY DEF Documents
<1> QED
  BY <1>1 DEF RecordFile, Documents, Entries, Outcomes, Errors

(* A verdict touches the entry of its own pair, and nothing else.          *)
LEMMA RecordFileEntry ==
    ASSUME NEW doc \in Documents, NEW f \in Files, NEW update \in Entries
    PROVE  /\ \A g \in Files \ {f} :
                 RecordFile(doc, f, update).files[g] = doc.files[g]
           /\ RecordFile(doc, f, update).files[f].outcome = update.outcome
           /\ update.sha # NoDigest =>
                 RecordFile(doc, f, update).files[f].sha = update.sha
           /\ doc.files[f].err # "cancelled" /\ update.err # "cancelled" =>
                 RecordFile(doc, f, update).files[f].err # "cancelled"
BY DEF RecordFile, Documents, Entries

(* The completion stamp touches no entry.                                  *)
LEMMA MarkCompletedKeeps ==
    ASSUME NEW doc \in Documents
    PROVE  /\ MarkCompleted(doc) \in Documents
           /\ MarkCompleted(doc).files = doc.files
BY DEF MarkCompleted, Documents

-----------------------------------------------------------------------------
USE MaxAttemptsAssumption, RemoteAssumption, NoFileAssumption, NoBodyAssumption

(* No task but one of the plan is ever in hand.                            *)
LEMMA TaskInHand ==
    ASSUME TypeOK, pc \in TaskStates
    PROVE  cur \in Files
BY DEF TypeOK

-----------------------------------------------------------------------------
(* Type correctness.                                                       *)

(* The first process starts well typed.                                    *)
LEMMA InitTypeOK == Init => TypeOK
<1> SUFFICES ASSUME Init PROVE TypeOK
  OBVIOUS
<1>1. run \in Runs /\ todo \in SUBSET Files /\ res \in Entries
  BY DEF Init, NoRun, Runs, Absent, Entries, Outcomes, Errors
<1>2. Fresh \in Documents
  BY FreshIsDocument
<1>3. NoFile \notin Files /\ NoBody \notin Contents
  BY NoFileAssumption, NoBodyAssumption
<1>4. sink \in [Files -> Contents \cup {NoBody}]
  BY DEF Init
<1>5. attempt \in 0 .. MaxAttempts
  BY DEF Init
<1>6. /\ pc \in PcStates
      /\ pc \notin TaskStates
      /\ pc # "store"
      /\ flusher = "off"
  BY DEF Init, PcStates, TaskStates
<1>7. cur = NoFile /\ reply = NoBody
  BY DEF Init
<1> QED
  BY <1>1, <1>2, <1>3, <1>4, <1>5, <1>6, <1>7 DEF Init, TypeOK

(* What Conclude leaves, whoever calls it with a well-formed verdict.      *)
LEMMA ConcludeTypeOK ==
    ASSUME TypeOK, pc \in TaskStates,
           sink' \in [Files -> Contents \cup {NoBody}],
           NEW outcome \in Outcomes, NEW sha \in Digests \cup {NoDigest},
           NEW err \in Errors,
           Conclude(outcome, sha, err)
    PROVE  TypeOK'
BY DEF TypeOK, Conclude, Entries, PcStates, TaskStates, flushVars

(* A transient failure keeps the types, retried or given up.               *)
LEMMA RetryOrGiveUpTypeOK ==
    ASSUME TypeOK, pc \in TaskStates,
           sink' \in [Files -> Contents \cup {NoBody}],
           RetryOrGiveUp
    PROVE  TypeOK'
<1>1. CASE /\ attempt < MaxAttempts
           /\ attempt' = attempt + 1
           /\ reply' = NoBody
           /\ pc' = "pace"
           /\ UNCHANGED <<disk, index, bucketIndex, residue, mem, ctx, run,
                          todo, cur, res, flushVars, lastExit>>
  BY <1>1 DEF TypeOK, PcStates, TaskStates, flushVars
<1>2. ASSUME NEW err \in OperationErrors, Conclude("error", NoDigest, err)
      PROVE  TypeOK'
  <2>1. err \in Errors
    BY <1>2 DEF OperationErrors, Errors
  <2> QED
    BY <1>2, <2>1, ConcludeTypeOK DEF Outcomes
<1> QED
  BY <1>1, <1>2 DEF RetryOrGiveUp

(* Every step keeps the types and the shape of the process state.          *)
LEMMA TypeOKStep == TypeOK /\ [Next]_vars => TypeOK'
<1> SUFFICES ASSUME TypeOK, [Next]_vars PROVE TypeOK'
  OBVIOUS
<1> USE DEF durable, taskVars, flushVars
<1>1. ASSUME NEW catalog \in SUBSET Files, NEW wanted \in SUBSET catalog,
             NEW retry \in BOOLEAN, Start(catalog, wanted, retry)
      PROVE  TypeOK'
  <2>1. mem' \in Documents
    BY <1>1, UpsertType DEF Start, TypeOK
  <2>2. run' \in Runs /\ todo' \in SUBSET Files
    BY <1>1 DEF Start, Runs
  <2>3. pc \notin TaskStates
    BY <1>1 DEF Start, TaskStates
  <2> QED
    BY <1>1, <2>1, <2>2, <2>3 DEF Start, TypeOK, PcStates, TaskStates
<1>2. ASSUME NEW f \in Files, NextTask(f)
      PROVE  TypeOK'
  BY <1>2 DEF NextTask, TypeOK, PcStates, TaskStates
<1>3. CASE LoopEnds
  BY <1>3 DEF LoopEnds, TypeOK, PcStates, TaskStates
<1>4. CASE ExistsFound
  BY <1>4, ConcludeTypeOK DEF ExistsFound, TypeOK, TaskStates, Outcomes, Errors
<1>5. CASE ExistsMissing
  BY <1>5 DEF ExistsMissing, TypeOK, PcStates, TaskStates
<1>6. CASE ExistsFails
  BY <1>6, ConcludeTypeOK DEF ExistsFails, TypeOK, TaskStates, Outcomes, Errors
<1>7. CASE PaceElapses
  BY <1>7 DEF PaceElapses, TypeOK, PcStates, TaskStates
<1>8. CASE PaceCut
  BY <1>8, ConcludeTypeOK DEF PaceCut, TypeOK, TaskStates, Outcomes, Errors
<1>9. ASSUME NEW content \in Contents, ReplyBody(content)
      PROVE  TypeOK'
  BY <1>9 DEF ReplyBody, TypeOK, PcStates, TaskStates
<1>10. CASE ReplyNotFound
  BY <1>10, ConcludeTypeOK
     DEF ReplyNotFound, TypeOK, TaskStates, Outcomes, Errors
<1>11. CASE ReplyRefused
  BY <1>11, ConcludeTypeOK
     DEF ReplyRefused, TypeOK, TaskStates, Outcomes, Errors
<1>12. CASE ReplyTransient
  BY <1>12, RetryOrGiveUpTypeOK DEF ReplyTransient, TypeOK, TaskStates
<1>13. CASE PutStored
  <2>1. pc \in TaskStates /\ cur \in Files /\ reply \in Contents
    BY <1>13 DEF PutStored, TypeOK, TaskStates
  <2>2. sink' \in [Files -> Contents \cup {NoBody}]
    BY <1>13, <2>1 DEF PutStored, TypeOK
  <2>3. Digest(reply) \in Digests \cup {NoDigest}
    BY <2>1, DigestIsNotEmpty
  <2>4. Conclude("fetched", Digest(reply), "none")
    BY <1>13 DEF PutStored
  <2> QED
    BY <2>1, <2>2, <2>3, <2>4, ConcludeTypeOK DEF Outcomes, Errors
<1>14. CASE PutFails
  BY <1>14, RetryOrGiveUpTypeOK DEF PutFails, TypeOK, TaskStates
<1>15. CASE PutUnacknowledged
  <2>1. pc \in TaskStates /\ cur \in Files /\ reply \in Contents
    BY <1>15 DEF PutUnacknowledged, TypeOK, TaskStates
  <2>2. sink' \in [Files -> Contents \cup {NoBody}]
    BY <1>15, <2>1 DEF PutUnacknowledged, TypeOK
  <2> QED
    BY <1>15, <2>1, <2>2, RetryOrGiveUpTypeOK DEF PutUnacknowledged
<1>16. ASSUME Casualty \/ Record
       PROVE  TypeOK'
  <2>1. Absent \in Entries /\ NoFile \notin Files
    BY NoFileAssumption DEF Absent, Entries, Outcomes, Errors
  <2>2. cur \in Files
    BY <1>16, TaskInHand DEF Casualty, Record, TaskStates
  <2>3. RecordFile(mem, cur, res) \in Documents
    BY <2>2, RecordFileType DEF TypeOK
  <2> QED
    BY <1>16, <2>1, <2>3
       DEF Casualty, Record, TaskDone, TypeOK, PcStates, TaskStates
<1>17. CASE FlushMarshal
  BY <1>17 DEF FlushMarshal, TypeOK
<1>18. CASE FlushRename
  BY <1>18, FreshIsDocument DEF FlushRename, TypeOK
<1>19. CASE Drain
  BY <1>19 DEF Drain, TypeOK, PcStates, TaskStates
<1>20. CASE StampAndFlush
  BY <1>20, MarkCompletedKeeps DEF StampAndFlush, TypeOK, PcStates, TaskStates
<1>21. CASE WriteIndex
  BY <1>21 DEF WriteIndex, TypeOK, PcStates, TaskStates
<1>22. NoRun \in Runs
  BY DEF NoRun, Runs
<1>23. CASE MirrorIndex
  BY <1>22, <1>23 DEF MirrorIndex, Exit, TypeOK, PcStates, TaskStates
<1>24. CASE FinalFlush
  BY <1>22, <1>24 DEF FinalFlush, Exit, TypeOK, PcStates, TaskStates
<1>25. CASE Cancel
  BY <1>25 DEF Cancel, TypeOK
<1>26. CASE Crash
  <2>1. Absent \in Entries /\ NoFile \notin Files /\ NoBody \notin Contents
    BY NoFileAssumption, NoBodyAssumption
       DEF Absent, Entries, Outcomes, Errors
  <2>2. 0 \in 0 .. MaxAttempts
    OBVIOUS
  <2>3. pc' \in PcStates /\ pc' \notin TaskStates /\ pc' # "store"
    BY <1>26 DEF Crash, PcStates, TaskStates
  <2>4. residue' \in BOOLEAN
    BY <1>26 DEF Crash, TypeOK
  <2> QED
    BY <1>22, <1>26, <2>1, <2>2, <2>3, <2>4, FreshIsDocument
       DEF Crash, TypeOK
<1>27. CASE UNCHANGED vars
  BY <1>27 DEF vars, procVars, TypeOK
<1> QED
  BY <1>1, <1>2, <1>3, <1>4, <1>5, <1>6, <1>7, <1>8, <1>9, <1>10, <1>11, <1>12,
     <1>13, <1>14, <1>15, <1>16, <1>17, <1>18, <1>19, <1>20, <1>21, <1>23,
     <1>24, <1>25, <1>26, <1>27
     DEF Next, StartSome, Dispatch, Flusher

(* The types hold in every run of the verb.                                *)
THEOREM TypeCorrect == Spec => []TypeOK
<1>1. Init => TypeOK
  BY InitTypeOK
<1>2. TypeOK /\ [Next]_vars => TypeOK'
  BY TypeOKStep
<1> QED
  BY <1>1, <1>2, PTL DEF Spec

-----------------------------------------------------------------------------
(* The inductive invariant, one conjunct at a time.                        *)

documents == <<mem, payload, disk, index, bucketIndex>>

(* The steps that change a stored body or a document; all others touch     *)
(* only the process's bookkeeping.                                         *)
DocumentStep ==
    \/ StartSome \/ Record \/ FlushMarshal \/ FlushRename \/ StampAndFlush
    \/ WriteIndex \/ MirrorIndex \/ FinalFlush \/ Crash
    \/ PutStored \/ PutUnacknowledged

(* No other step touches a body or a document.                             *)
LEMMA OtherStepsKeepDocuments ==
    ASSUME [Next]_vars, ~DocumentStep
    PROVE  /\ UNCHANGED <<sink, documents>>
           /\ pc' # "down" => pc # "down"
           /\ flusher' = "writing" => flusher = "writing"
BY DEF Next, DocumentStep, Dispatch, Flusher, vars, procVars, durable, taskVars,
       flushVars, documents, NextTask, LoopEnds, ExistsFound, ExistsMissing,
       ExistsFails, PaceElapses, PaceCut, ReplyBody, ReplyNotFound,
       ReplyRefused, ReplyTransient, PutFails, RetryOrGiveUp, Conclude,
       Casualty, Drain, Cancel

(* An upload changes no document.                                          *)
LEMMA PutKeepsDocuments ==
    ASSUME PutStored \/ PutUnacknowledged
    PROVE  UNCHANGED documents
BY DEF PutStored, PutUnacknowledged, RetryOrGiveUp, Conclude, documents,
       flushVars

(* A fresh ledger says nothing of any file.                                *)
LEMMA FreshEntry ==
    ASSUME NEW f \in Files
    PROVE  Fresh.files[f] = Absent /\ Fresh.files[f].outcome = "absent"
           /\ Fresh.files[f].err = "none"
BY DEF Fresh, Absent

(* An upload keeps every document honest: none speaks of the file yet.     *)
LEMMA PutKeepsHonest ==
    ASSUME TypeOK, Honest(mem), OpenInHand, PutStored \/ PutUnacknowledged,
           NEW doc \in {mem, payload, disk, index, bucketIndex}, Honest(doc)
    PROVE  \A f \in Files :
              /\ doc.files[f].outcome = "fetched" =>
                    /\ sink'[f] \in Contents
                    /\ doc.files[f].sha = Digest(sink'[f])
              /\ doc.files[f].outcome = "skipped_existing" =>
                    sink'[f] \in Contents
<1>1. pc = "store" /\ cur \in Files
  BY DEF PutStored, PutUnacknowledged, TypeOK, TaskStates
<1>2. doc.files[cur].outcome \notin {"fetched", "skipped_existing"}
  BY <1>1 DEF OpenInHand
<1>3. \A f \in Files \ {cur} : sink'[f] = sink[f]
  BY <1>1 DEF PutStored, PutUnacknowledged, TypeOK
<1> QED
  BY <1>2, <1>3 DEF Honest

(* The document the next run starts from.                                  *)
LEMMA StartEntry ==
    ASSUME TypeOK, StartSome
    PROVE  /\ pc = "down" /\ UNCHANGED <<sink, disk, index, bucketIndex, payload>>
           /\ \A f \in Files : \/ mem'.files[f] = disk.files[f]
                              \/ /\ disk.files[f].outcome = "absent"
                                 /\ mem'.files[f] = Pending
<1> PICK catalog \in SUBSET Files, retry \in BOOLEAN :
         \E wanted \in SUBSET catalog : Start(catalog, wanted, retry)
  BY DEF StartSome
<1>1. mem' = Upsert(disk, catalog)
  BY DEF Start
<1>2. disk \in Documents
  BY DEF TypeOK
<1> QED
  BY <1>1, <1>2, UpsertEntry DEF Start, durable

(* What a recorded verdict changes.                                        *)
LEMMA RecordEntry ==
    ASSUME TypeOK, Record
    PROVE  /\ cur \in Files /\ pc = "verdict"
           /\ UNCHANGED <<sink, disk, index, bucketIndex, payload>>
           /\ \A f \in Files \ {cur} : mem'.files[f] = mem.files[f]
           /\ mem'.files[cur].outcome = res.outcome
           /\ res.sha # NoDigest => mem'.files[cur].sha = res.sha
           /\ mem.files[cur].err # "cancelled" /\ res.err # "cancelled" =>
                 mem'.files[cur].err # "cancelled"
<1>1. cur \in Files /\ mem \in Documents /\ res \in Entries
  BY TaskInHand DEF Record, TaskStates, TypeOK
<1>2. mem' = RecordFile(mem, cur, res)
  BY DEF Record
<1> QED
  BY <1>1, <1>2, RecordFileEntry DEF Record, durable, flushVars

(* No step makes a document untrue of the bodies.                          *)
LEMMA HonestStep == PullInv /\ [Next]_vars => RecordsHonest'
<1> SUFFICES ASSUME PullInv, [Next]_vars PROVE RecordsHonest'
  OBVIOUS
<1> USE DEF PullInv
<1>1. CASE UNCHANGED <<sink, documents>>
  BY <1>1 DEF documents, RecordsHonest, Honest
<1>2. CASE StartSome
  <2>1. \A f \in Files : mem'.files[f].outcome # "pending"
                            => mem'.files[f] = disk.files[f]
    BY <1>2, StartEntry DEF Pending
  <2> QED
    BY <1>2, <2>1, StartEntry DEF RecordsHonest, Honest
<1>3. CASE Record
  <2>1. mem'.files[cur].outcome = "fetched" =>
          /\ sink[cur] \in Contents
          /\ mem'.files[cur].sha = Digest(sink[cur])
    <3> SUFFICES ASSUME res.outcome = "fetched"
                 PROVE  /\ sink[cur] \in Contents
                        /\ mem'.files[cur].sha = Digest(sink[cur])
      BY <1>3, RecordEntry
    <3>1. sink[cur] \in Contents /\ res.sha = Digest(sink[cur])
      BY <1>3, RecordEntry DEF VerdictTrue
    <3> QED
      BY <1>3, <3>1, RecordEntry, DigestIsNotEmpty
  <2>2. mem'.files[cur].outcome = "skipped_existing" => sink[cur] \in Contents
    BY <1>3, RecordEntry DEF VerdictTrue
  <2> QED
    BY <1>3, <2>1, <2>2, RecordEntry DEF RecordsHonest, Honest
<1>4. CASE FlushMarshal
  BY <1>4 DEF FlushMarshal, durable, RecordsHonest, Honest
<1>5. CASE FlushRename
  BY <1>5, FreshEntry DEF FlushRename, RecordsHonest, Honest
<1>6. CASE StampAndFlush
  <2>1. mem'.files = mem.files
    BY <1>6, MarkCompletedKeeps DEF StampAndFlush, TypeOK
  <2> QED
    BY <1>6, <2>1 DEF StampAndFlush, RecordsHonest, Honest, flushVars
<1>7. CASE WriteIndex
  BY <1>7 DEF WriteIndex, RecordsHonest, Honest, flushVars
<1>8. CASE MirrorIndex
  BY <1>8 DEF MirrorIndex, Exit, RecordsHonest, Honest, flushVars
<1>9. CASE FinalFlush
  BY <1>9 DEF FinalFlush, Exit, RecordsHonest, Honest, flushVars
<1>10. CASE Crash
  BY <1>10, FreshEntry DEF Crash, RecordsHonest, Honest
<1>11. CASE PutStored \/ PutUnacknowledged
  BY <1>11, PutKeepsHonest, PutKeepsDocuments
     DEF RecordsHonest, Honest, documents
<1> QED
  BY <1>1, <1>2, <1>3, <1>4, <1>5, <1>6, <1>7, <1>8, <1>9, <1>10, <1>11,
     OtherStepsKeepDocuments DEF DocumentStep

(* No step records an interrupted task.                                    *)
LEMMA UncancelledStep == PullInv /\ [Next]_vars => NoCasualtyRecorded'
<1> SUFFICES ASSUME PullInv, [Next]_vars PROVE NoCasualtyRecorded'
  OBVIOUS
<1> USE DEF PullInv, NoCasualtyRecorded, Uncancelled
<1>1. CASE UNCHANGED documents
  BY <1>1 DEF documents
<1>2. CASE StartSome
  <2>1. Pending.err # "cancelled"
    BY DEF Pending
  <2> QED
    BY <1>2, <2>1, StartEntry
<1>3. CASE Record
  <2>1. res.err # "cancelled"
    BY <1>3 DEF Record, VerdictTrue
  <2> QED
    BY <1>3, <2>1, RecordEntry
<1>4. CASE FlushMarshal
  BY <1>4 DEF FlushMarshal, durable
<1>5. CASE FlushRename
  BY <1>5, FreshEntry DEF FlushRename
<1>6. CASE StampAndFlush
  <2>1. mem'.files = mem.files
    BY <1>6, MarkCompletedKeeps DEF StampAndFlush, TypeOK
  <2> QED
    BY <1>6, <2>1 DEF StampAndFlush, flushVars
<1>7. CASE WriteIndex \/ MirrorIndex \/ FinalFlush
  BY <1>7 DEF WriteIndex, MirrorIndex, FinalFlush, Exit, flushVars
<1>8. CASE Crash
  BY <1>8, FreshEntry DEF Crash
<1> QED
  BY <1>1, <1>2, <1>3, <1>4, <1>5, <1>6, <1>7, <1>8, OtherStepsKeepDocuments,
     PutKeepsDocuments DEF DocumentStep

(* No document comes to speak of the file being fetched.                   *)
LEMMA OpenInHandStep == PullInv /\ [Next]_vars => OpenInHand'
<1> DEFINE InFlight == {"pace", "request", "store"}
<1> SUFFICES ASSUME PullInv, [Next]_vars, pc' \in InFlight
             PROVE  \A doc \in {mem', payload', disk', index', bucketIndex'} :
                       doc.files[cur'].outcome
                          \notin {"fetched", "skipped_existing"}
  BY DEF OpenInHand
<1> USE DEF PullInv, documents, flushVars, taskVars
<1>1. CASE UNCHANGED documents /\ cur' = cur /\ pc \in InFlight
  BY <1>1 DEF OpenInHand
<1>2. CASE ExistsMissing
  <2>1. cur \in Files /\ sink[cur] \notin Contents
    BY <1>2, NoBodyAssumption DEF ExistsMissing, TypeOK, TaskStates
  <2>2. UNCHANGED documents /\ cur' = cur
    BY <1>2 DEF ExistsMissing, durable
  <2> QED
    BY <2>1, <2>2 DEF RecordsHonest, Honest
<1>3. CASE FlushMarshal
  BY <1>3 DEF FlushMarshal, OpenInHand, durable
<1>4. CASE FlushRename
  <2>1. cur \in Files /\ cur' = cur /\ pc \in InFlight
    BY <1>4 DEF FlushRename, TypeOK, TaskStates
  <2>2. Fresh.files[cur].outcome \notin {"fetched", "skipped_existing"}
    BY <2>1, FreshEntry
  <2> QED
    BY <1>4, <2>1, <2>2 DEF FlushRename, OpenInHand
<1>5. CASE RetryOrGiveUp /\ pc \in InFlight
  BY <1>1, <1>5 DEF RetryOrGiveUp, Conclude
<1>6. CASE StartSome
  BY <1>6 DEF StartSome, Start
<1> QED
  BY <1>1, <1>2, <1>3, <1>4, <1>5, <1>6
     DEF Next, Dispatch, Flusher, vars, procVars, durable, NextTask, LoopEnds,
         ExistsFound, ExistsFails, PaceElapses, PaceCut, ReplyBody,
         ReplyNotFound, ReplyRefused, ReplyTransient, PutStored, PutFails,
         PutUnacknowledged, Conclude, Casualty, Record, Drain, StampAndFlush,
         WriteIndex, MirrorIndex, FinalFlush, Exit, Cancel, Crash

(* A task that ends in an error, whatever the error.                       *)
LEMMA ErrorVerdictTrue ==
    ASSUME NEW err, err = "cancelled" => ctx = "cancelled",
           Conclude("error", NoDigest, err)
    PROVE  VerdictTrue'
BY DEF Conclude, VerdictTrue, Terminal

(* Giving up claims nothing of a body.                                     *)
LEMMA RetryVerdictTrue == RetryOrGiveUp => VerdictTrue'
<1> SUFFICES ASSUME RetryOrGiveUp PROVE VerdictTrue'
  OBVIOUS
<1>1. CASE pc' = "pace"
  BY <1>1 DEF VerdictTrue
<1>2. ASSUME NEW err \in OperationErrors, Conclude("error", NoDigest, err)
      PROVE  VerdictTrue'
  BY <1>2, ErrorVerdictTrue DEF OperationErrors
<1> QED
  BY <1>1, <1>2 DEF RetryOrGiveUp

(* A verdict on its way to the ledger is true.                             *)
LEMMA VerdictTrueStep == PullInv /\ [Next]_vars => VerdictTrue'
<1> SUFFICES ASSUME PullInv, [Next]_vars, pc' = "verdict" PROVE VerdictTrue'
  BY DEF VerdictTrue
<1> USE DEF PullInv, flushVars, taskVars
<1>1. CASE UNCHANGED <<sink, pc, cur, res>> /\ ctx' \in {ctx, "cancelled"}
  BY <1>1 DEF VerdictTrue
<1>2. CASE ExistsFound
  <2>1. cur \in Files /\ cur' = cur /\ sink' = sink /\ sink[cur] \in Contents
    BY <1>2 DEF ExistsFound, Conclude, TypeOK, TaskStates
  <2> QED
    BY <1>2, <2>1 DEF ExistsFound, Conclude, VerdictTrue, Terminal
<1>3. CASE ExistsFails \/ PaceCut \/ ReplyRefused
  BY <1>3, ErrorVerdictTrue DEF ExistsFails, PaceCut, ReplyRefused
<1>4. CASE ReplyNotFound
  BY <1>4 DEF ReplyNotFound, Conclude, VerdictTrue, Terminal
<1>5. CASE ReplyTransient \/ PutFails \/ PutUnacknowledged
  BY <1>5, RetryVerdictTrue DEF ReplyTransient, PutFails, PutUnacknowledged
<1>6. CASE PutStored
  <2>1. cur \in Files /\ reply \in Contents
    BY <1>6 DEF PutStored, TypeOK, TaskStates
  <2>2. cur' = cur /\ sink'[cur] = reply
    BY <1>6, <2>1 DEF PutStored, Conclude, TypeOK
  <2> QED
    BY <1>6, <2>1, <2>2 DEF PutStored, Conclude, VerdictTrue, Terminal
<1>7. CASE StartSome
  BY <1>7 DEF StartSome, Start
<1> QED
  BY <1>1, <1>2, <1>3, <1>4, <1>5, <1>6, <1>7
     DEF Next, Dispatch, Flusher, vars, procVars, durable, NextTask, LoopEnds,
         ExistsMissing, PaceElapses, ReplyBody, Casualty, Record, FlushMarshal,
         FlushRename, Drain, StampAndFlush, WriteIndex, MirrorIndex, FinalFlush,
         Exit, Cancel, Crash

(* What is planned or in hand stays open in memory.                        *)
LEMMA PlanOpenStep == PullInv /\ [Next]_vars => PlanOpen'
<1> SUFFICES ASSUME PullInv, [Next]_vars PROVE PlanOpen'
  OBVIOUS
<1> USE DEF PullInv, flushVars, taskVars
<1>1. CASE mem' = mem /\ todo' \in {todo, {}} /\ cur' \in {cur, NoFile}
  BY <1>1, NoFileAssumption DEF PlanOpen
<1>2. CASE StartSome
  <2>1. PICK catalog \in SUBSET Files, retry \in BOOLEAN :
           \E wanted \in SUBSET catalog : Start(catalog, wanted, retry)
    BY <1>2 DEF StartSome
  <2>2. \A f \in todo' : ~ShouldSkip(mem', f, retry)
    BY <2>1 DEF Start
  <2>3. \A f \in todo' : ~Settled(mem'.files[f].outcome)
    BY <2>2 DEF ShouldSkip, Settled, Terminal
  <2>4. cur' = cur /\ cur \notin Files
    BY <2>1 DEF Start, TypeOK, TaskStates
  <2> QED
    BY <2>3, <2>4 DEF PlanOpen
<1>3. ASSUME NEW f \in Files, NextTask(f)
      PROVE  PlanOpen'
  BY <1>3 DEF NextTask, PlanOpen
<1>4. CASE Record
  <2>1. cur' = NoFile /\ todo' = todo /\ cur \in Files
    BY <1>4, RecordEntry DEF Record, TaskDone
  <2>2. \A f \in todo : mem'.files[f] = mem.files[f]
    BY <1>4, <2>1, RecordEntry DEF PlanOpen, TypeOK
  <2> QED
    BY <2>1, <2>2, NoFileAssumption DEF PlanOpen
<1>5. CASE StampAndFlush
  <2>1. mem'.files = mem.files
    BY <1>5, MarkCompletedKeeps DEF StampAndFlush, TypeOK
  <2> QED
    BY <1>5, <2>1 DEF StampAndFlush, PlanOpen
<1>6. CASE Crash
  BY <1>6, NoFileAssumption DEF Crash, PlanOpen
<1> QED
  BY <1>1, <1>2, <1>3, <1>4, <1>5, <1>6
     DEF Next, Dispatch, Flusher, vars, procVars, durable, LoopEnds,
         ExistsFound, ExistsMissing, ExistsFails, PaceElapses, PaceCut,
         ReplyBody, ReplyNotFound, ReplyRefused, ReplyTransient, PutStored,
         PutFails, PutUnacknowledged, RetryOrGiveUp, Conclude, Casualty,
         TaskDone, FlushMarshal, FlushRename, Drain, WriteIndex, MirrorIndex,
         FinalFlush, Exit, Cancel

(* Being ahead is a preorder.                                              *)
LEMMA AheadSame ==
    ASSUME NEW old, NEW new, new.files = old.files
    PROVE  Ahead(old, new)
BY DEF Ahead

(* And being ahead carries over.                                           *)
LEMMA AheadTransitive ==
    ASSUME NEW a, NEW b, NEW c, Ahead(a, b), Ahead(b, c)
    PROVE  Ahead(a, c)
BY DEF Ahead

(* Recording a verdict moves the ledger ahead.                             *)
LEMMA RecordAhead ==
    ASSUME PullInv, Record
    PROVE  Ahead(mem, mem')
<1>1. /\ cur \in Files /\ ~Settled(mem.files[cur].outcome)
      /\ \A f \in Files \ {cur} : mem'.files[f] = mem.files[f]
      /\ mem'.files[cur].outcome = res.outcome /\ Terminal(res.outcome)
  BY RecordEntry DEF PullInv, PlanOpen, VerdictTrue
<1>2. res.outcome # "absent"
  BY <1>1 DEF Terminal
<1> QED
  BY <1>1, <1>2 DEF Ahead

(* The disk stays behind what the flusher holds, and that behind memory.   *)
LEMMA LineageStep == PullInv /\ [Next]_vars => Lineage'
<1> SUFFICES ASSUME PullInv, [Next]_vars, pc' # "down"
             PROVE  /\ Ahead(disk', mem')
                    /\ flusher' = "writing" =>
                          Ahead(disk', payload') /\ Ahead(payload', mem')
  BY DEF Lineage
<1> USE DEF PullInv, flushVars
<1>1. CASE /\ UNCHANGED documents
           /\ pc # "down"
           /\ flusher' = "writing" => flusher = "writing"
  BY <1>1 DEF Lineage, documents
<1>2. CASE StartSome
  <2>1. \A f \in Files : \/ mem'.files[f] = disk.files[f]
                       \/ /\ disk.files[f].outcome = "absent"
                          /\ mem'.files[f] = Pending
    BY <1>2, StartEntry
  <2>2. ~Settled("absent") /\ ~Terminal("absent") /\ Pending.outcome # "absent"
    BY DEF Settled, Terminal, Pending
  <2>3. Ahead(disk, mem')
    BY <2>1, <2>2 DEF Ahead
  <2>4. disk' = disk /\ flusher' # "writing"
    BY <1>2, StartEntry DEF StartSome, Start
  <2> QED
    BY <2>3, <2>4
<1>3. CASE Record
  <2>1. UNCHANGED <<disk, payload, flusher>> /\ pc # "down"
    BY <1>3 DEF Record, durable
  <2> QED
    BY <1>3, <2>1, RecordAhead, AheadTransitive DEF Lineage
<1>4. CASE FlushMarshal
  BY <1>4, AheadSame DEF FlushMarshal, Lineage, durable
<1>5. CASE FlushRename
  BY <1>5 DEF FlushRename, Lineage
<1>6. CASE StampAndFlush
  <2>1. flusher' # "writing"
    BY <1>6 DEF StampAndFlush, TypeOK, TaskStates
  <2>2. mem'.files = mem.files
    BY <1>6, MarkCompletedKeeps DEF StampAndFlush, TypeOK
  <2>3. disk' = mem' \/ (disk' = disk /\ Ahead(disk, mem))
    BY <1>6 DEF StampAndFlush, Lineage
  <2> QED
    BY <2>1, <2>2, <2>3, AheadSame, AheadTransitive
<1>7. CASE WriteIndex
  BY <1>7 DEF WriteIndex, Lineage
<1>8. CASE MirrorIndex \/ FinalFlush \/ Crash
  BY <1>8 DEF MirrorIndex, FinalFlush, Exit, Crash
<1>9. CASE PutStored \/ PutUnacknowledged
  <2>1. UNCHANGED flusher /\ pc # "down"
    BY <1>9 DEF PutStored, PutUnacknowledged, RetryOrGiveUp, Conclude
  <2> QED
    BY <1>1, <1>9, <2>1, PutKeepsDocuments
<1> QED
  BY <1>1, <1>2, <1>3, <1>4, <1>5, <1>6, <1>7, <1>8, <1>9,
     OtherStepsKeepDocuments DEF DocumentStep

(* An entry that is absent stays blank.                                    *)
LEMMA AbsentBlankStep == PullInv /\ [Next]_vars => AbsentBlank'
<1> SUFFICES ASSUME PullInv, [Next]_vars PROVE AbsentBlank'
  OBVIOUS
<1> USE DEF PullInv, AbsentBlank, Blank, flushVars
<1>1. CASE UNCHANGED documents
  BY <1>1 DEF documents
<1>2. CASE StartSome
  <2>1. Pending.outcome # "absent"
    BY DEF Pending
  <2> QED
    BY <1>2, <2>1, StartEntry
<1>3. CASE Record
  <2>1. mem'.files[cur].outcome # "absent"
    BY <1>3, RecordEntry DEF VerdictTrue, Terminal
  <2> QED
    BY <1>3, <2>1, RecordEntry
<1>4. CASE FlushMarshal
  BY <1>4 DEF FlushMarshal, durable
<1>5. CASE FlushRename
  BY <1>5, FreshEntry DEF FlushRename
<1>6. CASE StampAndFlush
  <2>1. mem'.files = mem.files
    BY <1>6, MarkCompletedKeeps DEF StampAndFlush, TypeOK
  <2> QED
    BY <1>6, <2>1 DEF StampAndFlush
<1>7. CASE WriteIndex \/ MirrorIndex \/ FinalFlush
  BY <1>7 DEF WriteIndex, MirrorIndex, FinalFlush, Exit
<1>8. CASE Crash
  BY <1>8, FreshEntry DEF Crash
<1> QED
  BY <1>1, <1>2, <1>3, <1>4, <1>5, <1>6, <1>7, <1>8, OtherStepsKeepDocuments,
     PutKeepsDocuments DEF DocumentStep

-----------------------------------------------------------------------------
(* The invariant holds before any process.                                 *)
LEMMA InitPullInv == Init => PullInv
<1> SUFFICES ASSUME Init PROVE PullInv
  OBVIOUS
<1>1. TypeOK
  BY InitTypeOK
<1>2. RecordsHonest /\ NoCasualtyRecorded /\ AbsentBlank
  BY FreshEntry DEF Init, RecordsHonest, Honest, NoCasualtyRecorded, Uncancelled,
                    AbsentBlank, Blank
<1>3. OpenInHand /\ VerdictTrue /\ PlanOpen /\ Lineage
  BY NoFileAssumption
     DEF Init, OpenInHand, VerdictTrue, PlanOpen, Lineage
<1> QED
  BY <1>1, <1>2, <1>3 DEF PullInv

(* The invariant of pull is inductive.                                     *)
LEMMA PullInvStep == PullInv /\ [Next]_vars => PullInv'
<1> SUFFICES ASSUME PullInv, [Next]_vars PROVE PullInv'
  OBVIOUS
<1>1. TypeOK'
  BY TypeOKStep DEF PullInv
<1> QED
  BY <1>1, HonestStep, UncancelledStep, OpenInHandStep, VerdictTrueStep,
     PlanOpenStep, LineageStep, AbsentBlankStep DEF PullInv

(* The strengthening is an invariant of the verb.                          *)
THEOREM Inductive == Spec => []PullInv
BY InitPullInv, PullInvStep, PTL DEF Spec

(* Whatever is interrupted, retried or lost, no ledger and no index, in    *)
(* memory, on disk or in the bucket, names as stored what the sink does    *)
(* not hold, or under another digest.                                      *)
THEOREM Honesty == Spec => []RecordsHonest
<1>1. PullInv => RecordsHonest
  BY DEF PullInv
<1> QED
  BY <1>1, Inductive, PTL

(* An operator's interrupt is never recorded as a verdict.                 *)
THEOREM InterruptsLeaveNoVerdict == Spec => []NoCasualtyRecorded
<1>1. PullInv => NoCasualtyRecorded
  BY DEF PullInv
<1> QED
  BY <1>1, Inductive, PTL

-----------------------------------------------------------------------------
(* What the ledger on disk has said stays said.                            *)

(* Every document that replaces the one on disk is ahead of it, and is     *)
(* honest and blank where it lists nothing, as memory and payload are.     *)
LEMMA DiskAhead ==
    ASSUME PullInv, [Next]_vars
    PROVE  Ahead(disk, disk')
<1> USE DEF PullInv
<1>1. CASE UNCHANGED disk
  BY <1>1, AheadSame
<1>2. CASE FlushRename
  <2>1. pc # "down" /\ flusher = "writing"
    BY <1>2 DEF FlushRename, TypeOK, TaskStates
  <2> QED
    BY <1>1, <1>2, <2>1 DEF FlushRename, Lineage
<1>3. CASE StampAndFlush
  <2>1. mem'.files = mem.files /\ Ahead(disk, mem)
    BY <1>3, MarkCompletedKeeps DEF StampAndFlush, TypeOK, Lineage
  <2>2. Ahead(mem, mem')
    BY <2>1, AheadSame
  <2> QED
    BY <1>1, <1>3, <2>1, <2>2, AheadTransitive DEF StampAndFlush
<1>4. CASE FinalFlush
  BY <1>1, <1>4 DEF FinalFlush, Lineage
<1>5. CASE StartSome \/ Record \/ FlushMarshal \/ WriteIndex \/ MirrorIndex \/ Crash
  BY <1>1, <1>5, StartEntry, RecordEntry
     DEF FlushMarshal, WriteIndex, MirrorIndex, Crash, durable
<1>6. CASE PutStored \/ PutUnacknowledged
  BY <1>1, <1>6, PutKeepsDocuments DEF documents
<1> QED
  BY <1>1, <1>2, <1>3, <1>4, <1>5, <1>6, OtherStepsKeepDocuments
     DEF DocumentStep, documents

(* No crash, no stale flush and no later run undoes a durable verdict.     *)
THEOREM VerdictsStay == Spec => VerdictsFinal
<1>1. PullInv /\ [Next]_vars =>
         [\A f \in Files :
             /\ Settled(disk.files[f].outcome) => disk'.files[f] = disk.files[f]
             /\ Terminal(disk.files[f].outcome) => Terminal(disk'.files[f].outcome)
         ]_vars
  BY DiskAhead DEF Ahead
<1> QED
  BY <1>1, Inductive, PTL DEF Spec, VerdictsFinal

-----------------------------------------------------------------------------
(* The ledger on disk and the sink implement Snapshot.                     *)

(* An empty snapshot is an empty snapshot of the promise.                  *)
LEMMA InitImplements == Init => Promise!Init
BY FreshEntry DEF Init, Promise!Init, Promise!Absent, Absent, Fresh

(* An upload is a Store: the record of its file is open.                   *)
LEMMA PutImplements ==
    ASSUME PullInv, PutStored \/ PutUnacknowledged
    PROVE  Promise!Next
<1> USE DEF PullInv
<1>1. pc = "store" /\ cur \in Files /\ reply \in Contents
  BY DEF PutStored, PutUnacknowledged, TypeOK, TaskStates
<1>2. sink' = [sink EXCEPT ![cur] = reply]
  BY DEF PutStored, PutUnacknowledged
<1>3. disk' = disk
  BY PutKeepsDocuments DEF documents
<1>4. ~Settled(disk.files[cur].outcome)
  BY <1>1 DEF PlanOpen, Lineage, Ahead
<1>5. Promise!Store(cur, reply)
  BY <1>2, <1>3, <1>4 DEF Promise!Store, Promise!Settled, Settled
<1> QED
  BY <1>1, <1>5 DEF Promise!Next

(* A write of the ledger is a Commit: the new document is ahead of the old *)
(* one, and says only what the sink bears out.                             *)
LEMMA DiskWriteImplements ==
    ASSUME PullInv, PullInv', [Next]_vars, sink' = sink
    PROVE  Promise!Next
<1> USE DEF PullInv
<1>1. disk'.files \in [Files -> Entries]
  BY DEF TypeOK, Documents
<1>2. ASSUME NEW f \in Files, disk'.files[f] # disk.files[f]
      PROVE  /\ ~Promise!Settled(disk.files[f].outcome)
             /\ disk'.files[f].outcome # "absent"
             /\ Promise!Justified(disk'.files[f], sink[f])
  <2>1. Ahead(disk, disk')
    BY DiskAhead
  <2>2. ~Settled(disk.files[f].outcome)
    BY <1>2, <2>1 DEF Ahead
  <2>3. disk'.files[f].outcome # "absent"
    <3> SUFFICES ASSUME disk'.files[f].outcome = "absent" PROVE FALSE
      OBVIOUS
    <3>1. disk.files[f].outcome = "absent"
      BY <2>1 DEF Ahead
    <3>2. disk.files[f] = Absent /\ disk'.files[f] = Absent
      BY <3>1 DEF AbsentBlank, Blank
    <3> QED
      BY <1>2, <3>2
  <2>4. Honest(disk)' /\ Uncancelled(disk)'
    BY DEF RecordsHonest, NoCasualtyRecorded
  <2>5. Promise!Justified(disk'.files[f], sink[f])
    BY <2>4 DEF Honest, Uncancelled, Promise!Justified, Promise!Digest, Digest
  <2> QED
    BY <2>2, <2>3, <2>5 DEF Promise!Settled, Settled
<1>3. Promise!Commit
  BY <1>1, <1>2 DEF Promise!Commit, Promise!Entries, Promise!Outcomes,
     Promise!Errors, Promise!Digests, Promise!Digest, Entries, Outcomes, Errors,
     Digests, Digest
<1> QED
  BY <1>3 DEF Promise!Next

(* A step stores, commits or stutters in the promise.                      *)
LEMMA StepImplements ==
    PullInv /\ PullInv' /\ [Next]_vars => [Promise!Next]_(Promise!snapshotVars)
<1> SUFFICES ASSUME PullInv, PullInv', [Next]_vars
             PROVE  Promise!Next
  OBVIOUS
<1>1. CASE PutStored \/ PutUnacknowledged
  BY <1>1, PutImplements
<1>2. CASE ~(PutStored \/ PutUnacknowledged)
  <2>1. sink' = sink
    BY <1>2, OtherStepsKeepDocuments, StartEntry, RecordEntry
       DEF DocumentStep, PullInv, FlushMarshal, FlushRename, StampAndFlush,
           WriteIndex, MirrorIndex, FinalFlush, Crash, durable
  <2> QED
    BY <2>1, DiskWriteImplements
<1> QED
  BY <1>1, <1>2

(* Whatever happens to the processes that write a snapshot, what they      *)
(* leave on disk is a behaviour of the abstract one.                       *)
THEOREM Implements == Spec => SnapshotSpec
<1>1. Init => Promise!Init
  BY InitImplements
<1>2. PullInv /\ PullInv' /\ [Next]_vars => [Promise!Next]_(Promise!snapshotVars)
  BY StepImplements
<1> QED
  BY <1>1, <1>2, Inductive, PTL DEF Spec, SnapshotSpec, Promise!Spec

-----------------------------------------------------------------------------
(* What the plan of a run owes and what it asks for.                        *)

(* The ledger leaves open whatever is left of the plan, or in hand.         *)
Planned ==
    pc # "down" =>
        \A f \in todo \cup {cur} : f \in Files => ~ShouldSkip(mem, f, run.retry)

(* A body is asked for that was not stored when the task began; only an     *)
(* upload whose acknowledgement was lost comes in between.                 *)
Unstored ==
    pc \in {"pace", "request", "store"} =>
        /\ attempt >= 1
        /\ sink[cur] = NoBody \/ (Remote /\ attempt > 1)

(* After the last flush nothing else writes the ledger.                     *)
Saved == lastExit = "saved" => disk = mem /\ pc \in {"index", "bucket", "down"}

(* A wanted file is planned, in hand or has its verdict, unless the run was *)
(* interrupted; a run that is finalized has no file left.                  *)
Reaching ==
    /\ pc \in TaskStates \cup {"next"} \/ (pc = "drain" /\ ctx = "live") =>
          \A f \in run.wanted : \/ f \in todo \/ f = cur
                                \/ ShouldSkip(mem, f, FALSE)
    /\ pc = "drain" /\ ctx = "live" => todo = {}
    /\ CompletionSettles

PlanInv == Planned /\ Unstored /\ Saved /\ Reaching

(* The steps that change the document in memory, the plan, the task in hand  *)
(* or what the command line asked for.                                     *)
PlanStep ==
    \/ StartSome \/ (\E f \in Files : NextTask(f)) \/ Casualty \/ Record \/ Drain
    \/ StampAndFlush \/ MirrorIndex \/ FinalFlush \/ Crash

(* No other step touches the ledger in memory, the plan, the task or the   *)
(* flags.                                                                  *)
LEMMA OtherStepsKeepPlan ==
    ASSUME [Next]_vars, ~PlanStep
    PROVE  UNCHANGED <<mem, todo, cur, run>> /\ (pc' # "down" => pc # "down")
BY DEF PlanStep, Next, Dispatch, Flusher, vars, procVars, durable, taskVars,
       flushVars, LoopEnds, ExistsFound, ExistsMissing, ExistsFails, PaceElapses,
       PaceCut, ReplyBody, ReplyNotFound, ReplyRefused, ReplyTransient, PutStored,
       PutFails, PutUnacknowledged, RetryOrGiveUp, Conclude, FlushMarshal,
       FlushRename, WriteIndex, Cancel

(* No step plans a file that is to be skipped.                             *)
LEMMA PlannedStep == PullInv /\ PlanInv /\ [Next]_vars => Planned'
<1> SUFFICES ASSUME PullInv, PlanInv, [Next]_vars, pc' # "down" PROVE Planned'
  BY DEF Planned
<1> USE DEF PullInv, PlanInv
<1>1. CASE ~PlanStep
  BY <1>1, OtherStepsKeepPlan DEF Planned, ShouldSkip
<1>2. CASE StartSome
  <2>1. PICK catalog \in SUBSET Files, retry \in BOOLEAN :
           \E wanted \in SUBSET catalog : Start(catalog, wanted, retry)
    BY <1>2 DEF StartSome
  <2>2. /\ \A f \in todo' : ~ShouldSkip(mem', f, run'.retry)
        /\ cur' = cur
    BY <2>1 DEF Start, taskVars
  <2>3. cur \notin Files
    BY <2>1 DEF Start, TypeOK, TaskStates
  <2> QED
    BY <2>2, <2>3 DEF Planned, ShouldSkip
<1>3. ASSUME NEW f \in Files, NextTask(f) PROVE Planned'
  BY <1>3 DEF NextTask, Planned, ShouldSkip
<1>4. CASE Casualty \/ Drain
  BY <1>4, NoFileAssumption DEF Casualty, Drain, TaskDone, Planned, ShouldSkip, taskVars
<1>5. CASE Record
  <2>1. cur' = NoFile /\ todo' = todo /\ run' = run /\ pc # "down"
    BY <1>5 DEF Record, TaskDone
  <2>2. \A f \in todo : f \in Files => mem'.files[f] = mem.files[f]
    BY <1>5, RecordEntry DEF PlanOpen
  <2> QED
    BY <2>1, <2>2, NoFileAssumption DEF Planned, ShouldSkip
<1>6. CASE StampAndFlush
  <2>1. mem'.files = mem.files
    BY <1>6, MarkCompletedKeeps DEF StampAndFlush, TypeOK
  <2> QED
    BY <1>6, <2>1 DEF StampAndFlush, Planned, ShouldSkip, taskVars
<1>7. CASE MirrorIndex \/ FinalFlush \/ Crash
  BY <1>7 DEF MirrorIndex, FinalFlush, Exit, Crash
<1> QED
  BY <1>1, <1>2, <1>3, <1>4, <1>5, <1>6, <1>7 DEF PlanStep

(* A request is repeated only while its body is not stored.                *)
LEMMA RetryUnstored ==
    ASSUME PullInv, Unstored, RetryOrGiveUp, cur' = cur,
           pc \in {"pace", "request", "store"},
           sink' = sink \/ Remote
    PROVE  Unstored'
<1>1. CASE pc' = "verdict"
  BY <1>1 DEF Unstored
<1>2. CASE attempt' = attempt + 1
  <2>1. attempt \in Nat /\ attempt >= 1
    BY DEF PullInv, TypeOK, Unstored
  <2>2. attempt' >= 1 /\ attempt' > 1
    BY <1>2, <2>1
  <2> QED
    BY <2>2 DEF Unstored
<1> QED
  BY <1>1, <1>2 DEF RetryOrGiveUp, Conclude

(* A body is asked for while it is not stored, or not known to be.         *)
LEMMA UnstoredStep == PullInv /\ PlanInv /\ [Next]_vars => Unstored'
<1> DEFINE InFlight == {"pace", "request", "store"}
<1> SUFFICES ASSUME PullInv, PlanInv, [Next]_vars, pc' \in InFlight PROVE Unstored'
  BY DEF Unstored
<1> USE DEF PlanInv, flushVars, taskVars
<1>1. CASE UNCHANGED <<sink, cur, attempt>> /\ pc \in InFlight
  BY <1>1 DEF Unstored
<1>2. CASE ExistsMissing
  BY <1>2 DEF ExistsMissing, Unstored, durable
<1>3. CASE ReplyTransient \/ PutFails \/ PutUnacknowledged
  <2>1. pc \in InFlight /\ (sink' = sink \/ Remote) /\ RetryOrGiveUp
    BY <1>3 DEF ReplyTransient, PutFails, PutUnacknowledged
  <2>2. cur' = cur
    BY <2>1 DEF RetryOrGiveUp, Conclude
  <2> QED
    BY <2>1, <2>2, RetryUnstored
<1>4. CASE StartSome
  BY <1>4 DEF StartSome, Start
<1> QED
  BY <1>1, <1>2, <1>3, <1>4
     DEF Next, Dispatch, Flusher, vars, procVars, durable, NextTask, LoopEnds,
         ExistsFound, ExistsFails, PaceElapses, PaceCut, ReplyBody, ReplyNotFound,
         ReplyRefused, PutStored, Conclude, Casualty, Record, FlushMarshal,
         FlushRename, Drain, StampAndFlush, WriteIndex, MirrorIndex, FinalFlush,
         Exit, Cancel, Crash

(* A run past its last flush has no flusher, and nothing else to flush.     *)
LEMMA SavedStep == PullInv /\ PlanInv /\ [Next]_vars => Saved'
<1> SUFFICES ASSUME PullInv, PlanInv, [Next]_vars, lastExit' = "saved" PROVE Saved'
  BY DEF Saved
<1> USE DEF PlanInv, flushVars, taskVars
<1>1. CASE StampAndFlush
  BY <1>1 DEF StampAndFlush, Saved
<1>2. CASE FinalFlush
  BY <1>2 DEF FinalFlush, Exit, Saved
<1>3. CASE WriteIndex \/ MirrorIndex
  BY <1>3 DEF WriteIndex, MirrorIndex, Exit, Saved
<1>4. CASE Cancel \/ UNCHANGED vars
  BY <1>4 DEF Cancel, vars, procVars, durable, Saved
<1>5. ~StartSome /\ ~Crash
  BY DEF StartSome, Start, Crash
<1>6. lastExit = "saved" => pc \notin TaskStates \cup {"next", "drain"}
        /\ flusher = "off"
  <2>1. lastExit = "saved" => pc \in {"index", "bucket", "down"}
    BY DEF Saved
  <2> QED
    BY <2>1 DEF PullInv, TypeOK, TaskStates
<1> QED
  BY <1>1, <1>2, <1>3, <1>4, <1>5, <1>6
     DEF Next, Dispatch, Flusher, TaskStates, NextTask, LoopEnds,
         ExistsFound, ExistsMissing, ExistsFails, PaceElapses, PaceCut, ReplyBody,
         ReplyNotFound, ReplyRefused, ReplyTransient, PutStored, PutFails,
         PutUnacknowledged, RetryOrGiveUp, Conclude, Casualty, Record, FlushMarshal,
         FlushRename, Drain

(* A task that is not retried under the options is done with under none.    *)
LEMMA SkippedAnyway ==
    ASSUME NEW doc, NEW f, NEW retry \in BOOLEAN, ShouldSkip(doc, f, retry)
    PROVE  ShouldSkip(doc, f, FALSE)
BY DEF ShouldSkip, Terminal

(* No wanted file is dropped on the way to a finalized exit.               *)
LEMMA ReachingStep == PullInv /\ PlanInv /\ [Next]_vars => Reaching'
<1> SUFFICES ASSUME PullInv, PlanInv, [Next]_vars PROVE Reaching'
  OBVIOUS
<1> USE DEF PullInv, PlanInv
<1>1. CASE ~PlanStep
  <2>1. UNCHANGED <<mem, todo, cur, run>>
    BY <1>1, OtherStepsKeepPlan
  <2>2. \/ pc' = pc /\ ctx' \in {ctx, "cancelled"}
        \/ pc \in TaskStates /\ pc' \in TaskStates
        \/ LoopEnds
        \/ WriteIndex
    BY <1>1
    DEF PlanStep, Next, Dispatch, Flusher, vars, procVars, TaskStates, ExistsFound,
        ExistsMissing, ExistsFails, PaceElapses, PaceCut, ReplyBody, ReplyNotFound,
        ReplyRefused, ReplyTransient, PutStored, PutFails, PutUnacknowledged,
        RetryOrGiveUp, Conclude, FlushMarshal, FlushRename, Cancel
  <2>3. pc' \in {"stamp", "index", "bucket"} => pc \in {"stamp", "index", "bucket"}
    BY <2>2 DEF LoopEnds, WriteIndex, TaskStates
  <2>4. CompletionSettles'
    BY <2>1, <2>3 DEF Reaching, CompletionSettles, ShouldSkip
  <2>5. CASE pc' = pc /\ ctx' \in {ctx, "cancelled"}
    BY <2>1, <2>4, <2>5 DEF Reaching, ShouldSkip
  <2>6. CASE pc \in TaskStates /\ pc' \in TaskStates
    BY <2>1, <2>4, <2>6 DEF Reaching, ShouldSkip, TaskStates
  <2>7. CASE LoopEnds
    BY <2>1, <2>4, <2>7 DEF LoopEnds, Reaching, ShouldSkip, TaskStates
  <2>8. CASE WriteIndex
    BY <2>1, <2>4, <2>8 DEF WriteIndex, Reaching, ShouldSkip, TaskStates
  <2> QED
    BY <2>2, <2>5, <2>6, <2>7, <2>8
<1>2. CASE StartSome
  <2> PICK catalog \in SUBSET Files, retry \in BOOLEAN :
          \E wanted \in SUBSET catalog : Start(catalog, wanted, retry)
    BY <1>2 DEF StartSome
  <2>1. PICK wanted \in SUBSET catalog : Start(catalog, wanted, retry)
    OBVIOUS
  <2>2. /\ run'.wanted = wanted
        /\ \A f \in wanted : f \notin todo' => ShouldSkip(mem', f, retry)
        /\ pc' \in {"stamp", "next"} /\ (pc' = "stamp" => todo' = {})
    BY <2>1 DEF Start
  <2>3. \A f \in run'.wanted : f \in todo' \/ ShouldSkip(mem', f, FALSE)
    BY <2>2, SkippedAnyway
  <2>4. CompletionSettles'
    BY <2>2, <2>3 DEF CompletionSettles
  <2>5. pc' # "drain"
    BY <2>2
  <2> QED
    BY <2>3, <2>4, <2>5 DEF Reaching, ShouldSkip
<1>3. ASSUME NEW f \in Files, NextTask(f) PROVE Reaching'
  <2>1. /\ pc = "next" /\ cur' = f /\ todo' = todo \ {f} /\ pc' = "exists"
        /\ UNCHANGED <<mem, run>>
    BY <1>3 DEF NextTask
  <2>2. cur \notin Files /\ run.wanted \subseteq Files
    BY <2>1 DEF TypeOK, TaskStates, Runs
  <2>3. \A g \in run.wanted : g \in todo' \/ g = cur' \/ ShouldSkip(mem, g, FALSE)
    BY <2>1, <2>2 DEF Reaching
  <2> QED
    BY <2>1, <2>3 DEF Reaching, CompletionSettles, ShouldSkip
<1>4. CASE Casualty
  BY <1>4 DEF Casualty, Reaching, CompletionSettles, TaskStates
<1>5. CASE Record
  <2>1. pc' = "next" /\ UNCHANGED <<todo, run>> /\ pc \in TaskStates
    BY <1>5 DEF Record, TaskStates
  <2>2. ShouldSkip(mem', cur, FALSE)
    <3>1. mem'.files[cur].outcome = res.outcome /\ Terminal(res.outcome)
      BY <1>5, RecordEntry DEF VerdictTrue
    <3> QED
      BY <3>1 DEF ShouldSkip
  <2>3. \A f \in Files \ {cur} : mem'.files[f] = mem.files[f]
    BY <1>5, RecordEntry
  <2>4. run.wanted \subseteq Files
    BY DEF TypeOK, Runs
  <2>5. \A f \in run.wanted : f \in todo \/ ShouldSkip(mem', f, FALSE)
    BY <2>1, <2>2, <2>3, <2>4 DEF Reaching, ShouldSkip
  <2> QED
    BY <2>1, <2>5 DEF Reaching, CompletionSettles, ShouldSkip
<1>6. CASE Drain
  <2>1. run' = run /\ mem' = mem /\ run.wanted \subseteq Files /\ cur \notin Files
    BY <1>6 DEF Drain, TypeOK, Runs, TaskStates
  <2>2. pc' = "stamp" => \A f \in run.wanted : ShouldSkip(mem, f, FALSE)
    BY <1>6, <2>1 DEF Drain, Reaching
  <2>3. pc' \in {"stamp", "flush"}
    BY <1>6 DEF Drain
  <2> QED
    BY <2>1, <2>2, <2>3 DEF Reaching, CompletionSettles, ShouldSkip, TaskStates
<1>7. CASE StampAndFlush
  <2>1. mem'.files = mem.files
    BY <1>7, MarkCompletedKeeps DEF StampAndFlush, TypeOK
  <2> QED
    BY <1>7, <2>1 DEF StampAndFlush, Reaching, CompletionSettles, ShouldSkip, TaskStates
<1>8. CASE MirrorIndex \/ FinalFlush \/ Crash
  BY <1>8
  DEF MirrorIndex, FinalFlush, Exit, Crash, Reaching, CompletionSettles, TaskStates
<1> QED
  BY <1>1, <1>2, <1>3, <1>4, <1>5, <1>6, <1>7, <1>8 DEF PlanStep

(* Nothing is planned before a process starts.                             *)
LEMMA InitPlanInv == Init => PlanInv
BY DEF Init, PlanInv, Planned, Unstored, Saved, Reaching, CompletionSettles, TaskStates

(* Every reachable state has both invariants.                              *)
LEMMA PlanInductive == Spec => [](PullInv /\ PlanInv)
<1>1. PullInv /\ PlanInv /\ [Next]_vars => PlanInv'
  BY PlannedStep, UnstoredStep, SavedStep, ReachingStep DEF PlanInv
<1> QED
  BY <1>1, InitPullInv, PullInvStep, InitPlanInv, PTL DEF Spec

(* The server is asked for nothing that the ledger on disk has answered, nor *)
(* for what was stored when the task began, whatever a crash lost.         *)
THEOREM NothingRefetched == Spec => []NoRefetch
<1>1. PullInv /\ PlanInv => NoRefetch
  <2> SUFFICES ASSUME PullInv, PlanInv, pc \in {"pace", "request", "store"}
               PROVE  /\ ~ShouldSkip(disk, cur, run.retry)
                      /\ sink[cur] = NoBody \/ (Remote /\ attempt > 1)
    BY DEF NoRefetch
  <2>1. cur \in Files /\ pc # "down"
    BY TaskInHand DEF PullInv, TaskStates
  <2>2. ~ShouldSkip(mem, cur, run.retry) /\ Ahead(disk, mem)
    BY <2>1 DEF PlanInv, Planned, PullInv, Lineage
  <2>3. ~ShouldSkip(disk, cur, run.retry)
    BY <2>1, <2>2 DEF ShouldSkip, Ahead, Settled, Terminal
  <2> QED
    BY <2>3 DEF PlanInv, Unstored
<1> QED
  BY <1>1, PlanInductive, PTL

(* The ledger a run leaves on disk is the one it ended with.                *)
THEOREM ExitsSaved == Spec => []ExitSaved
<1>1. PlanInv => ExitSaved
  BY DEF PlanInv, Saved, ExitSaved
<1> QED
  BY <1>1, PlanInductive, PTL

(* A snapshot is stamped complete, and its indexes are written, only with a  *)
(* verdict on every file the run was asked for.                            *)
THEOREM CompletionEarned == Spec => []CompletionSettles
<1>1. PlanInv => CompletionSettles
  BY DEF PlanInv, Reaching
<1> QED
  BY <1>1, PlanInductive, PTL

(* On a local root no stored body is ever replaced.                         *)
THEOREM BodiesStay == Remote = FALSE => (Spec => BodiesWriteOnce)
<1> SUFFICES ASSUME Remote = FALSE PROVE Spec => BodiesWriteOnce
  OBVIOUS
<1>1. PullInv /\ PlanInv /\ [Next]_vars =>
          [\A f \in Files : sink[f] # NoBody => sink'[f] = sink[f]]_vars
  <2> SUFFICES ASSUME PullInv, PlanInv, [Next]_vars,
                      NEW f \in Files, sink[f] # NoBody
               PROVE  sink'[f] = sink[f]
    OBVIOUS
  <2>1. CASE PutStored
    <3>1. sink[cur] = NoBody
      BY <2>1 DEF PutStored, PlanInv, Unstored
    <3> QED
      BY <2>1, <3>1 DEF PutStored, PullInv, TypeOK
  <2>2. CASE ~PutStored
    <3>1. ~PutUnacknowledged
      BY DEF PutUnacknowledged
    <3>2. sink' = sink
      BY <2>2, <3>1, OtherStepsKeepDocuments, StartEntry, RecordEntry
         DEF DocumentStep, PullInv, FlushMarshal, FlushRename, StampAndFlush,
             WriteIndex, MirrorIndex, FinalFlush, Crash, durable
    <3> QED
      BY <3>2
  <2> QED
    BY <2>1, <2>2
<1> QED
  BY <1>1, PlanInductive, PTL DEF Spec, BodiesWriteOnce
=============================================================================
