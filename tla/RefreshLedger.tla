--------------------------- MODULE RefreshLedger ---------------------------
(***************************************************************************)
(* What a catalog refresh promises to whoever reads refresh_jobs and       *)
(* refresh_job_items, without the queue, the workers, the locks or the     *)
(* failures behind it:                                                     *)
(*   - at most one refresh is open at a time;                              *)
(*   - the set of ASINs of a refresh is fixed when it is opened;           *)
(*   - every ASIN is settled at most once, and its outcome never changes;  *)
(*   - the refresh closes in the very step that settles its last ASIN, and *)
(*     never before.                                                       *)
(* Module Refresh implements this specification.                           *)
(***************************************************************************)
CONSTANTS
    Asins,      \* ASINs that can be in the catalog
    JobIds      \* ids of refresh jobs

VARIABLES
    phase,      \* [JobIds -> {"none", "running", "done"}]
    outcome     \* [JobIds -> [Asins -> Outcome]]

ledgerVars == <<phase, outcome>>

Outcome == {"absent", "pending", "done", "failed"}

LedgerInit ==
    /\ phase = [j \in JobIds |-> "none"]
    /\ outcome = [j \in JobIds |-> [a \in Asins |-> "absent"]]

\* Open refresh j over the ASINs S; refused while another one is open.
Open(j, S) ==
    /\ \A k \in JobIds : phase[k] # "running"
    /\ phase[j] = "none"
    /\ phase' = [phase EXCEPT ![j] = "running"]
    /\ outcome' = [outcome EXCEPT
                     ![j] = [a \in Asins |-> IF a \in S THEN "pending" ELSE "absent"]]

\* Settle one pending ASIN of the open refresh; the last one closes it.
Settle(j, a, result) ==
    /\ phase[j] = "running"
    /\ outcome[j][a] = "pending"
    /\ outcome' = [outcome EXCEPT ![j] = [@ EXCEPT ![a] = result]]
    /\ phase' = [phase EXCEPT
                   ![j] = IF \E b \in Asins \ {a} : outcome[j][b] = "pending"
                          THEN "running" ELSE "done"]

LedgerNext ==
    \E j \in JobIds :
        \/ \E S \in SUBSET Asins : Open(j, S)
        \/ \E a \in Asins, result \in {"done", "failed"} : Settle(j, a, result)

LedgerSpec == LedgerInit /\ [][LedgerNext]_ledgerVars
=============================================================================
