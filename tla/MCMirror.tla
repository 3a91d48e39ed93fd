------------------------------ MODULE MCMirror ------------------------------
(***************************************************************************)
(* Model values and small documents for the TLC runs of Mirror.  No        *)
(* symmetry: the run checks liveness.                                      *)
(***************************************************************************)
EXTENDS Mirror

CONSTANTS f1, f2, c1, c2, w1, w2

MCFiles    == {f1, f2}
MCContents == {c1, c2}
MCWorkers  == {w1, w2}
MCFaults   == {"metadata", "hash", "get", "corrupt", "copy", "rename"}
NoFaults   == {}

Fetched(body) == [outcome |-> "fetched", sha |-> Digest(body), err |-> "none"]
Unsigned == [outcome |-> "fetched", sha |-> NoDigest, err |-> "none"]
Skipped == [outcome |-> "skipped_existing", sha |-> NoDigest, err |-> "none"]

Both(first, second) ==
    [files |-> [f \in Files |-> IF f = f1 THEN first ELSE second],
     completed |-> TRUE]

(* The ledger of an unfinished pull, and the index of a finished one, in    *)
(* which the second body was found stored or recorded without a digest.     *)
MCRecorded  == {Both(Fetched(c1), Fetched(c2)), Both(Fetched(c1), Pending),
                Both(Fetched(c1), Unsigned)}
MCCrashed   == {Both(Fetched(c1), Skipped)}
=============================================================================
