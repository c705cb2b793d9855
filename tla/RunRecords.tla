----------------------------- MODULE RunRecords -----------------------------
(***************************************************************************)
(* The rows of snapshot_runs as the job queue and the processor must agree *)
(* on them, each seeing of the other only this: whose retry a run is, how  *)
(* far it is, whether anything is committed below it, and whether a chain  *)
(* has failed there.  A retry is of a run that fell short and has a failed *)
(* chain, one at a time; only a running run changes, and it ends with a    *)
(* verdict that fits what is below it and stands.                          *)
(***************************************************************************)

CONSTANTS Runs, None

VARIABLES
    status, parent,
    filled,    \* runs below which a wallet is committed
    failed     \* runs below which a chain has failed

records == <<status, parent, filled, failed>>

\* Runs of an older release may still be running at the start.
Init ==
    /\ status \in [Runs -> {"absent", "running"}]
    /\ parent = [r \in Runs |-> None]
    /\ filled = {} /\ failed = {}

Insert(r, p) ==
    /\ status[r] = "absent"
    /\ status' = [status EXCEPT ![r] = "pending"]
    /\ parent' = [parent EXCEPT ![r] = p]
    /\ UNCHANGED <<filled, failed>>

MayRetry(p) ==
    /\ status[p] \in {"partial_success", "failed"}
    /\ p \in failed
    /\ \A r \in Runs : parent[r] = p => status[r] \notin {"pending", "running"}

Same(r) ==
    /\ status'[r] = status[r]
    /\ r \in filled' <=> r \in filled
    /\ r \in failed' <=> r \in failed

\* A run that is taken up; one without a wallet fails at once.
Start(r) ==
    /\ status[r] = "pending" /\ r \notin filled' \cup failed'
    /\ status'[r] \in {"running", "failed"}

Fits(r) ==
    \/ status'[r] \in {"running", "failed"}
    \/ status'[r] = "success" /\ r \in filled' /\ r \notin failed'
    \/ status'[r] = "partial_success" /\ r \in filled' /\ r \in failed'

\* What is below a run only grows.
Process(r) ==
    /\ status[r] = "running"
    /\ r \in filled => r \in filled'
    /\ r \in failed => r \in failed'
    /\ r \in failed' \ failed => r \in filled'
    /\ Fits(r)

\* One commit may end several runs, recovered ones, and start another.
Work == parent' = parent /\ \A r \in Runs : Same(r) \/ Start(r) \/ Process(r)

Next ==
    \/ \E r \in Runs : Insert(r, None)
    \/ \E r, p \in Runs : MayRetry(p) /\ Insert(r, p)
    \/ Work

Spec == Init /\ [][Next]_records
=============================================================================
