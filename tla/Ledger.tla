------------------------------- MODULE Ledger -------------------------------
(***************************************************************************)
(* The snapshot ledger document (internal/snapshot/progress.go): one entry *)
(* per (station, kind) pair, and the operations that read and change it.   *)
(* A pair is a member of Files; a body is a member of Contents.            *)
(*                                                                         *)
(* A ledger document is [files |-> [Files -> Entries], completed |-> BOOL] *)
(* A pair the document does not list has the entry Absent, so a document   *)
(* that lists nothing (Fresh) also stands for a ledger file that does not  *)
(* exist: LoadOrInit gives both the same content.  Of an entry's fields    *)
(* only outcome, sha256 and last_error are kept; url, sizes, times and the *)
(* HTTP code are not read back by any verb's control.                      *)
(***************************************************************************)
CONSTANTS Files,      \* the (station, kind) pairs of the catalog
          Contents,   \* the bodies the server may serve
          NoBody,     \* nothing is stored at the pair's sink address
          NoDigest    \* the empty sha256 field

ASSUME NoBodyAssumption == NoBody \notin Contents

(* sha256 of a body: collision-free, and never equal to the body itself.   *)
Digest(body) == [sha256 |-> body]
Digests == {Digest(b) : b \in Contents}

ASSUME NoDigestAssumption == NoDigest \notin Digests

(* FileOutcome, plus "absent" for a pair the ledger does not list.         *)
Outcomes == {"absent", "pending", "fetched", "skipped_existing",
             "not_found", "error"}

(* last_error: empty, a failure of the server or of the sink, or the error *)
(* of a cancelled context.                                                 *)
Errors == {"none", "failure", "cancelled"}

Entries == [outcome : Outcomes, sha : Digests \cup {NoDigest}, err : Errors]

Absent  == [outcome |-> "absent",  sha |-> NoDigest, err |-> "none"]
Pending == [outcome |-> "pending", sha |-> NoDigest, err |-> "none"]

Documents == [files : [Files -> Entries], completed : BOOLEAN]
Fresh     == [files |-> [f \in Files |-> Absent], completed |-> FALSE]

-----------------------------------------------------------------------------
(* Terminal: no attempt is made again under plain resumption.              *)
Terminal(outcome) ==
    outcome \in {"fetched", "skipped_existing", "not_found", "error"}

(* The outcomes no option of pull ever re-attempts.                        *)
Settled(outcome) == outcome \in {"fetched", "skipped_existing", "not_found"}

(* ShouldSkip: an errored pair is skipped unless --retry-failed.           *)
ShouldSkip(doc, f, retry) ==
    IF doc.files[f].outcome = "error"
    THEN ~retry
    ELSE Terminal(doc.files[f].outcome)

(* A slip VerdictsFinal must catch: discovery resets what it finds.        *)
UpsertResets(doc, catalog) ==
    [doc EXCEPT !.files =
        [f \in Files |-> IF f \in catalog THEN Pending ELSE @[f]]]

(* UpsertStation over every station of the catalog: pairs already listed   *)
(* keep their state, newly discovered ones start pending.                  *)
Upsert(doc, catalog) ==
    [doc EXCEPT !.files =
        [f \in Files |-> IF f \in catalog /\ @[f].outcome = "absent"
                         THEN Pending ELSE @[f]]]

(* RecordFile: an empty digest in the update keeps the old one; last_error *)
(* is replaced by an error and cleared by an outcome that is not one.      *)
RecordFile(doc, f, update) ==
    [doc EXCEPT !.files[f] =
        [outcome |-> update.outcome,
         sha     |-> IF update.sha # NoDigest THEN update.sha ELSE @.sha,
         err     |-> IF update.err # "none" THEN update.err
                     ELSE IF update.outcome # "error" THEN "none"
                     ELSE @.err]]

(* MarkCompleted stamps completed_at.                                      *)
MarkCompleted(doc) == [doc EXCEPT !.completed = TRUE]
=============================================================================
