---------------------------- MODULE JobLifecycle ----------------------------
(***************************************************************************)
(* What the job queue promises to those who create jobs, whatever workers, *)
(* leases, locks and crashes do underneath: a run is submitted under a key *)
(* (its scope, or the parent it retries) only while no other active run    *)
(* has that key; it is started once; it ends once, and its verdict stands. *)
(***************************************************************************)

CONSTANT Jobs

VARIABLES status, key

lifecycle == <<status, key>>

ActiveStatus == {"pending", "running"}
Verdict == {"success", "partial_success", "failed"}

IsActive(j) == status[j] \in ActiveStatus

Exclusive == \A j, k \in Jobs :
    IsActive(j) /\ IsActive(k) /\ key[j] = key[k] => j = k

\* Runs of an older release may still be running at the start.
Init ==
    /\ status \in [Jobs -> {"absent", "running"}]
    /\ Exclusive

Submit(j) ==
    /\ status[j] = "absent"
    /\ status' = [status EXCEPT ![j] = "pending"]
    /\ key' = [key EXCEPT ![j] = key'[j]]
    /\ \A k \in Jobs \ {j} : IsActive(k) => key[k] # key'[j]

\* One commit may end several runs, recovered ones, and start another.
Work ==
    /\ \A j \in Jobs :
          \/ status'[j] = status[j]
          \/ status[j] = "pending" /\ status'[j] = "running"
          \/ status[j] = "running" /\ status'[j] \in Verdict
    /\ key' = key

Next == Work \/ \E j \in Jobs : Submit(j)

Spec == Init /\ [][Next]_lifecycle
=============================================================================
