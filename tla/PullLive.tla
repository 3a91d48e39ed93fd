------------------------------ MODULE PullLive ------------------------------
(***************************************************************************)
(* The pull verb under the fairness its scheduling gives, with a bounded   *)
(* number of interrupts: every run ends, and a plain re-run converges.     *)
(***************************************************************************)
EXTENDS Pull

CONSTANT MaxInterrupts  \* cancellations and crashes, over all the runs

ASSUME MaxInterruptsAssumption == MaxInterrupts \in Nat

VARIABLE interrupts     \* how many there have been

liveVars == <<vars, interrupts>>

LiveInit == Init /\ interrupts = 0

Interrupt == /\ interrupts < MaxInterrupts
             /\ Cancel \/ Crash
             /\ interrupts' = interrupts + 1

LiveNext == \/ /\ StartSome \/ Dispatch \/ Flusher
               /\ UNCHANGED interrupts
            \/ Interrupt

(* The plain re-run of the whole catalog.                                  *)
Rerun == Start(Files, Files, FALSE) /\ UNCHANGED interrupts

(* Both goroutines are scheduled and every wait, request and write ends:   *)
(* the HTTP client has a timeout, the sinks' calls return.  The flusher's  *)
(* select between its ticker and flushCtx.Done is a fair coin, so it       *)
(* cannot flush forever while the run waits for it: strong fairness of     *)
(* Drain.  The operator runs the full pull again and again, whatever other *)
(* selections are pulled in between: strong fairness of Rerun.             *)
Fairness ==
    /\ WF_liveVars(Dispatch /\ UNCHANGED interrupts)
    /\ WF_liveVars(FlushRename /\ UNCHANGED interrupts)
    /\ SF_liveVars(Drain /\ UNCHANGED interrupts)
    /\ SF_liveVars(Rerun)

LiveSpec == LiveInit /\ [][LiveNext]_liveVars /\ Fairness

-----------------------------------------------------------------------------
(* Every run ends: bounded retries, an interrupt that reaches every wait,  *)
(* and no wait of the run for its flusher that the flusher could starve.   *)
RunTerminates == pc # "down" ~> pc = "down"

(* fetcher.go: "a plain re-run re-attempts it, and resumption converges".  *)
(* From some point on the ledger on disk has a verdict for every file.     *)
Converges == <>[](\A f \in Files : Terminal(disk.files[f].outcome))
=============================================================================
