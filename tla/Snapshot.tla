------------------------------ MODULE Snapshot ------------------------------
(***************************************************************************)
(* What a dated snapshot promises whoever reads it, whatever happened to   *)
(* the processes that wrote it: a body may be stored or replaced only      *)
(* while the durable record of its pair is open, a record is justified by  *)
(* the stored body at the moment it is made, a settled record is never     *)
(* touched again, and the operator's interrupt is never taken for an       *)
(* answer.  Pull is shown to implement this specification.                 *)
(***************************************************************************)
EXTENDS Ledger

VARIABLES body,    \* body[f]: what the sink holds for f
          record   \* record[f]: the durable ledger entry of f

snapshotVars == <<body, record>>

Init == /\ body   = [f \in Files |-> NoBody]
        /\ record = [f \in Files |-> Absent]

(* An entry says nothing the sink contradicts.                             *)
Justified(entry, stored) ==
    /\ entry.outcome = "fetched" =>
          /\ stored \in Contents
          /\ entry.sha = Digest(stored)
    /\ entry.outcome = "skipped_existing" => stored \in Contents
    /\ entry.err # "cancelled"

Store(f, content) ==
    /\ ~Settled(record[f].outcome)
    /\ body' = [body EXCEPT ![f] = content]
    /\ UNCHANGED record

(* The record advances, for any set of pairs at once.                      *)
Commit ==
    /\ record' \in [Files -> Entries]
    /\ \A f \in Files :
          \/ record'[f] = record[f]
          \/ /\ ~Settled(record[f].outcome)
             /\ record'[f].outcome # "absent"
             /\ Justified(record'[f], body[f])
    /\ UNCHANGED body

Next == \/ \E f \in Files, content \in Contents : Store(f, content)
        \/ Commit

Spec == Init /\ [][Next]_snapshotVars
=============================================================================
