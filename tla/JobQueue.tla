------------------------------ MODULE JobQueue ------------------------------
(***************************************************************************)
(* The snapshot job queue: the table snapshot_runs, the creators that add  *)
(* rows to it (the internal API and the scheduler, through JobService) and *)
(* the workers that claim rows, renew their leases, write one wallet after *)
(* another and finish the run, or vanish and leave it to a later recovery. *)
(*                                                                         *)
(* Every step that commits, locks or reads shared rows is an action; what  *)
(* a process does between two statements is not visible to the others.     *)
(* PostgreSQL runs READ COMMITTED.  Three of its locks matter:             *)
(*   - the advisory lock of a creation (held while req[c] # None),         *)
(*   - FOR UPDATE SKIP LOCKED on the rows a claim has selected,            *)
(*   - FOR KEY SHARE on the run a flushed, uncommitted wallet snapshot     *)
(*     refers to, which makes FOR UPDATE SKIP LOCKED pass over that run.   *)
(***************************************************************************)
EXTENDS Integers, FiniteSets

CONSTANTS
    Jobs,            \* ids a row of snapshot_runs may get, in serial order
    Legacy,          \* rows left running, without a lease, by an old release
    Workers,         \* worker loops, each with its own worker_id
    Creators,        \* API requests and scheduler ticks creating jobs
    Targets,         \* (user, group, wallet) combinations a job may be for
    WalletOutcomes,  \* statuses a wallet snapshot may end with
    None,            \* SQL NULL for an id
    Lease,           \* SNAPSHOT_JOB_LEASE_SECONDS
    MaxSkew,         \* most a clock reading differs from the time it is used
    MaxStall,        \* most a live worker lets pass outside a wallet
    MaxWallet,       \* most that passes from the renewal before a wallet to
                     \* the renewal after it
    MaxWallets,      \* bound: wallets of a job
    MaxTime,         \* bound: the clock stops here unless a lease is awaited
    MaxAbandons      \* bound: crashes, restarts and database errors

ASSUME JobsAssumption == Jobs \subseteq Nat /\ Legacy \subseteq Jobs
ASSUME NoneAssumption == None \notin Jobs \cup Workers
ASSUME TimeAssumption ==
    /\ Lease \in Nat \ {0}
    /\ MaxSkew \in Nat
    /\ MaxStall \in Nat
    /\ MaxWallet \in Nat
    /\ MaxTime \in Nat
ASSUME BoundAssumption == MaxWallets \in Nat /\ MaxAbandons \in Nat
ASSUME OutcomeAssumption ==
    WalletOutcomes \subseteq {"success", "partial_success", "failed"}

NoTime == -1         \* SQL NULL for a timestamp

Active == {"pending", "running"}
Terminal == {"success", "partial_success", "failed"}
Errors == {"none", "lease_expired", "no_wallets", "exception"}

\* "collect" stands for the scopes all, group and wallet: which of them it is
\* is part of the target.
Kinds == {"collect", "failed_chains"}

Request == [kind : Kinds, target : Targets \cup {None}, parent : Jobs \cup {None}]

VARIABLES
    now,        \* real time
    \* the columns of snapshot_runs, by id: what was asked for,
    kind, target, parent, created,
    \* how far it is,
    status, started, owner, lease, error,
    \* and what hangs below it: the committed wallet snapshots, and whether
    \* one of them has a failed chain
    wallets, failedChain,
    req,        \* a creator's request between its check and its commit
    pc,         \* where a worker is
    job,        \* the job a worker has picked or processes
    todo,       \* wallets of that job still to process
    seen,       \* statuses of the wallets it has processed
    reading,    \* clock reading of a worker's open claim
    since,      \* real time of the reading its lease was computed from
    stale,      \* rows its open claim has locked to recover
    outcomes,   \* times the first-snapshot outcome of a job was counted
    abandons    \* crashes, restarts and database errors so far

asked == <<kind, target, parent, created>>
held == <<status, started, owner, lease, error>>
contents == <<wallets, failedChain>>
table == <<asked, held, contents>>

worker == <<pc, job, todo, seen, reading, since, stale>>
vars == <<now, table, req, worker, outcomes, abandons>>

\* Steps of a worker that holds a job, by what it does next.
Processing == {"claimed", "loading", "between", "writing",
               "collecting", "collected"}
PCs == {"idle", "claiming", "picked", "observing"} \cup Processing

TypeOK ==
    /\ now \in Nat /\ now >= MaxSkew
    /\ kind \in [Jobs -> Kinds]
    /\ target \in [Jobs -> Targets \cup {None}]
    /\ parent \in [Jobs -> Jobs \cup {None}]
    /\ created \in [Jobs -> Nat \cup {NoTime}]
    /\ status \in [Jobs -> {"absent"} \cup Active \cup Terminal]
    /\ started \in [Jobs -> Nat \cup {NoTime}]
    /\ owner \in [Jobs -> Workers \cup {None}]
    /\ lease \in [Jobs -> Nat \cup {NoTime}]
    /\ error \in [Jobs -> Errors]
    /\ wallets \in [Jobs -> Nat]
    /\ failedChain \in [Jobs -> BOOLEAN]
    /\ req \in [Creators -> Request \cup {None}]
    /\ pc \in [Workers -> PCs]
    /\ job \in [Workers -> Jobs \cup {None}]
    /\ todo \in [Workers -> Nat]
    /\ seen \in [Workers -> SUBSET WalletOutcomes]
    /\ reading \in [Workers -> Nat]
    /\ since \in [Workers -> Nat]
    /\ stale \in [Workers -> SUBSET Jobs]
    /\ outcomes \in [Jobs -> Nat]
    /\ abandons \in Nat

-----------------------------------------------------------------------------
(* Time.                                                                   *)

\* What datetime.now(UTC) may give a process whose statement takes effect now:
\* hosts' clocks differ, and a statement may wait for a row lock after the
\* clock was read.
Clock == (now - MaxSkew) .. (now + MaxSkew)

-----------------------------------------------------------------------------
(* Initially the table is empty, but for runs an older release left.       *)

Init ==
    /\ now = MaxSkew
    /\ kind = [j \in Jobs |-> "collect"]
    /\ \E scope \in [Legacy -> Targets] :
          /\ \A j, k \in Legacy : scope[j] = scope[k] => j = k
          /\ target = [j \in Jobs |-> IF j \in Legacy THEN scope[j] ELSE None]
    /\ parent = [j \in Jobs |-> None]
    /\ created = [j \in Jobs |-> IF j \in Legacy THEN 0 ELSE NoTime]
    /\ status = [j \in Jobs |-> IF j \in Legacy THEN "running" ELSE "absent"]
    /\ \E begun \in {0, NoTime} :
          started = [j \in Jobs |-> IF j \in Legacy THEN begun ELSE NoTime]
    /\ owner = [j \in Jobs |-> None]
    /\ lease = [j \in Jobs |-> NoTime]
    /\ error = [j \in Jobs |-> "none"]
    /\ wallets = [j \in Jobs |-> 0]
    /\ failedChain = [j \in Jobs |-> FALSE]
    /\ req = [c \in Creators |-> None]
    /\ pc = [w \in Workers |-> "idle"]
    /\ job = [w \in Workers |-> None]
    /\ todo = [w \in Workers |-> 0]
    /\ seen = [w \in Workers |-> {}]
    /\ reading = [w \in Workers |-> 0]
    /\ since = [w \in Workers |-> 0]
    /\ stale = [w \in Workers |-> {}]
    /\ outcomes = [j \in Jobs |-> 0]
    /\ abandons = 0

-----------------------------------------------------------------------------
(* Creation: JobService.                                                   *)

ActiveRun(j) == status[j] \in Active

\* The advisory lock a request takes: one per scope, one per retried parent.
LockKey(k, t, p) ==
    IF p = None THEN <<"scope", k, t>> ELSE <<"retry", p>>

KeyOf(r) == LockKey(r.kind, r.target, r.parent)

\* Mutant: creation without pg_advisory_xact_lock.
NoLock(key) == TRUE

LockFree(key) == \A c \in Creators : req[c] # None => KeyOf(req[c]) # key

\* Mutants: the query for an active run looks at one of the two statuses.
RunningScopeJob(k, t) ==
    \E j \in Jobs : status[j] = "running" /\ kind[j] = k /\ target[j] = t
PendingRetry(p) == \E j \in Jobs : status[j] = "pending" /\ parent[j] = p

\* A run create_job would reuse.  A retry child counts too when the request is
\* for failed_chains: the query does not look at parent_run_id.
ActiveScopeJob(k, t) ==
    \E j \in Jobs : ActiveRun(j) /\ kind[j] = k /\ target[j] = t

ActiveRetry(p) == \E j \in Jobs : ActiveRun(j) /\ parent[j] = p

\* create_job takes the lock and finds no active run of the scope.  When there
\* is one it is returned and nothing changes, so that case is no step.
CreateJob(c, k, t) ==
    /\ req[c] = None
    /\ LockFree(LockKey(k, t, None))
    /\ ~ActiveScopeJob(k, t)
    /\ req' = [req EXCEPT ![c] = [kind |-> k, target |-> t, parent |-> None]]
    /\ UNCHANGED <<now, table, worker, outcomes, abandons>>

\* Mutant: a retry of a parent whose failed chains were not looked for.
RetryAnyJob(c, p) ==
    /\ req[c] = None
    /\ LockFree(LockKey("failed_chains", target[p], p))
    /\ status[p] \in Terminal
    /\ ~ActiveRetry(p)
    /\ req' = [req EXCEPT ![c] = [kind |-> "failed_chains",
                                  target |-> target[p], parent |-> p]]
    /\ UNCHANGED <<now, table, worker, outcomes, abandons>>

\* create_retry_failed_job takes the parent's lock; an absent parent (404), one
\* that has not failed (409), one without a failed chain (400) and one that has
\* an active child (reused) end the call without a change.
RetryFailedJob(c, p) ==
    /\ req[c] = None
    /\ LockFree(LockKey("failed_chains", target[p], p))
    /\ status[p] \in {"partial_success", "failed"}
    /\ failedChain[p]
    /\ ~ActiveRetry(p)
    /\ req' = [req EXCEPT ![c] = [kind |-> "failed_chains",
                                  target |-> target[p], parent |-> p]]
    /\ UNCHANGED <<now, table, worker, outcomes, abandons>>

\* The id is the next of the serial column.
InsertRun(c, j, r) ==
    /\ req[c] # None
    /\ status[j] = "absent"
    /\ \A k \in Jobs : k < j => status[k] # "absent"
    /\ status' = [status EXCEPT ![j] = "pending"]
    /\ kind' = [kind EXCEPT ![j] = req[c].kind]
    /\ target' = [target EXCEPT ![j] = req[c].target]
    /\ parent' = [parent EXCEPT ![j] = req[c].parent]
    /\ created' = [created EXCEPT ![j] = r]
    /\ req' = [req EXCEPT ![c] = None]
    /\ UNCHANGED <<now, started, owner, lease, error, contents,
                   worker, outcomes, abandons>>

\* The session is closed before the commit: error, crash or shutdown.
AbortCreate(c) ==
    /\ req[c] # None
    /\ req' = [req EXCEPT ![c] = None]
    /\ UNCHANGED <<now, table, worker, outcomes, abandons>>

-----------------------------------------------------------------------------
(* Row locks.                                                              *)

\* FOR UPDATE, held by an open claim.
Locked(j) ==
    \E w \in Workers : \/ pc[w] \in {"claiming", "picked"} /\ j \in stale[w]
                       \/ pc[w] = "picked" /\ j = job[w]

\* FOR KEY SHARE, through the foreign key of an uncommitted wallet snapshot.
KeyShared(j) == \E w \in Workers : pc[w] = "collecting" /\ job[w] = j

-----------------------------------------------------------------------------
(* Claiming: claim.py.                                                     *)

Expired(j, t) ==
    /\ status[j] = "running"
    /\ IF lease[j] # NoTime
       THEN lease[j] <= t
       ELSE IF started[j] # NoTime THEN started[j] + Lease <= t
                                   ELSE created[j] + Lease <= t

\* Mutants: FOR UPDATE does not conflict with the wallet's foreign key; rows
\* without a lease are left to themselves.
StaleOpenRuns(t) == {j \in Jobs : Expired(j, t) /\ ~Locked(j)}
StaleLeases(t) ==
    {j \in Jobs : Expired(j, t) /\ lease[j] # NoTime /\ ~Locked(j) /\ ~KeyShared(j)}

StaleRuns(t) == {j \in Jobs : Expired(j, t) /\ ~Locked(j) /\ ~KeyShared(j)}

\* Mutants: the end of a lease an interval early, or not ahead at all.
LeaseShort(r) == r + Lease - 1
LeaseBehind(r) == r - Lease
LeaseNow(r) == r

\* The end of a lease taken or renewed at a reading.
LeaseUntil(r) == r + Lease

\* recover_stale_running_jobs: the rows are locked and changed in the session;
\* the first-snapshot metric is counted at once, before any commit.
BeginClaim(w, r) ==
    /\ pc[w] = "idle"
    /\ pc' = [pc EXCEPT ![w] = "claiming"]
    /\ reading' = [reading EXCEPT ![w] = r]
    /\ since' = [since EXCEPT ![w] = now]
    /\ stale' = [stale EXCEPT ![w] = StaleRuns(r)]
    /\ outcomes' = [j \in Jobs |->
                      IF j \in StaleRuns(r) THEN outcomes[j] + 1 ELSE outcomes[j]]
    /\ UNCHANGED <<now, table, req, job, todo, seen, abandons>>

Older(j, k) ==
    \/ created[j] < created[k]
    \/ created[j] = created[k] /\ j <= k

\* Mutant: a claim that skips no locked row, as without FOR UPDATE.
AllPending == {j \in Jobs : status[j] = "pending"}

Claimable == {j \in Jobs : status[j] = "pending" /\ ~Locked(j)}

PickPending(w) ==
    /\ pc[w] = "claiming"
    /\ pc' = [pc EXCEPT ![w] = "picked"]
    /\ \/ /\ Claimable = {}
          /\ UNCHANGED job
       \/ \E j \in Claimable :
             /\ \A k \in Claimable : Older(j, k)
             /\ job' = [job EXCEPT ![w] = j]
    /\ UNCHANGED <<now, table, req, todo, seen, reading, since, stale, outcomes, abandons>>

CommitClaim(w) ==
    /\ pc[w] = "picked"
    /\ status' = [j \in Jobs |-> IF j \in stale[w] THEN "failed"
                                 ELSE IF j = job[w] THEN "running" ELSE status[j]]
    /\ owner' = [j \in Jobs |-> IF j \in stale[w] THEN None
                                ELSE IF j = job[w] THEN w ELSE owner[j]]
    /\ lease' = [j \in Jobs |-> IF j \in stale[w] THEN NoTime
                                ELSE IF j = job[w] THEN LeaseUntil(reading[w]) ELSE lease[j]]
    /\ error' = [j \in Jobs |-> IF j \in stale[w] THEN "lease_expired" ELSE error[j]]
    /\ started' = [j \in Jobs |-> IF j = job[w] THEN reading[w] ELSE started[j]]
    /\ pc' = [pc EXCEPT ![w] = IF job[w] = None THEN "idle" ELSE "claimed"]
    /\ stale' = [stale EXCEPT ![w] = {}]
    /\ reading' = [reading EXCEPT ![w] = 0]
    /\ since' = [since EXCEPT ![w] = IF job[w] = None THEN 0 ELSE @]
    /\ UNCHANGED <<now, asked, contents, req, job, todo, seen, outcomes, abandons>>

-----------------------------------------------------------------------------
(* Processing: snapshot_processor.py and the exception paths of loop.py.   *)

\* Mutant: a renewal that does not ask whose the run is.
AnyJob(w, j) == TRUE

Owns(w, j) == status[j] = "running" /\ owner[j] = w

AfterRenewal(p) == IF p = "claimed" THEN "loading"
                   ELSE IF p = "between" THEN "writing" ELSE "between"

\* renew_job_lease does not ask whether the lease has run out, only whether the
\* row is still running under this worker.
Renew(w, r) ==
    /\ pc[w] \in {"claimed", "between", "collected"}
    /\ pc[w] = "between" => todo[w] > 0
    /\ ~Locked(job[w])
    /\ Owns(w, job[w])
    /\ lease' = [lease EXCEPT ![job[w]] = LeaseUntil(r)]
    /\ since' = [since EXCEPT ![w] = now]
    /\ pc' = [pc EXCEPT ![w] = AfterRenewal(@)]
    /\ UNCHANGED <<now, asked, status, started, owner, error, contents,
                   req, job, todo, seen, reading, stale, outcomes, abandons>>

\* The worker drops its job and returns to the top of its loop.
Drop(w) ==
    /\ pc' = [pc EXCEPT ![w] = "idle"]
    /\ job' = [job EXCEPT ![w] = None]
    /\ todo' = [todo EXCEPT ![w] = 0]
    /\ seen' = [seen EXCEPT ![w] = {}]
    /\ reading' = [reading EXCEPT ![w] = 0]
    /\ since' = [since EXCEPT ![w] = 0]
    /\ stale' = [stale EXCEPT ![w] = {}]

\* JobLeaseLostError.
LoseLease(w) ==
    /\ pc[w] \in {"claimed", "between", "collected"}
    /\ pc[w] = "between" => todo[w] > 0
    /\ ~Locked(job[w])
    /\ ~Owns(w, job[w])
    /\ Drop(w)
    /\ UNCHANGED <<now, table, req, outcomes, abandons>>

\* Mutant: the run ends without releasing its lease.
EndUnderLease(w, verdict, reason) ==
    /\ status' = [status EXCEPT ![job[w]] = verdict]
    /\ error' = IF reason = "none" THEN error ELSE [error EXCEPT ![job[w]] = reason]
    /\ pc' = [pc EXCEPT ![w] = "observing"]
    /\ UNCHANGED <<now, asked, started, owner, lease, req, job, todo, seen, reading,
                   since, stale, outcomes, abandons>>

\* The run's final UPDATE is by primary key alone: it asks neither for the
\* worker_id nor for the status running.
EndRun(w, verdict, reason) ==
    /\ status' = [status EXCEPT ![job[w]] = verdict]
    /\ owner' = [owner EXCEPT ![job[w]] = None]
    /\ lease' = [lease EXCEPT ![job[w]] = NoTime]
    /\ error' = IF reason = "none" THEN error ELSE [error EXCEPT ![job[w]] = reason]
    /\ pc' = [pc EXCEPT ![w] = "observing"]
    /\ UNCHANGED <<now, asked, started, req, job, todo, seen, reading, since, stale,
                   outcomes, abandons>>

LoadWallets(w, n) ==
    /\ pc[w] = "loading"
    /\ n > 0
    /\ kind[job[w]] = "failed_chains" => parent[job[w]] # None
    /\ todo' = [todo EXCEPT ![w] = n]
    /\ pc' = [pc EXCEPT ![w] = "between"]
    /\ UNCHANGED <<now, table, req, job, seen, reading, since, stale, outcomes, abandons>>

NoWallets(w) ==
    /\ pc[w] = "loading"
    /\ ~Locked(job[w])
    /\ EndRun(w, "failed", "no_wallets")
    /\ UNCHANGED contents

\* The flush that inserts the wallet snapshot; the transaction stays open while
\* the chains are collected.
OpenWallet(w) ==
    /\ pc[w] = "writing"
    /\ ~Locked(job[w])
    /\ pc' = [pc EXCEPT ![w] = "collecting"]
    /\ UNCHANGED <<now, table, req, job, todo, seen, reading, since, stale, outcomes, abandons>>

CommitWallet(w, outcome) ==
    /\ pc[w] = "collecting"
    /\ wallets' = [wallets EXCEPT ![job[w]] = @ + 1]
    /\ failedChain' = [failedChain EXCEPT ![job[w]] = @ \/ outcome # "success"]
    /\ seen' = [seen EXCEPT ![w] = @ \cup {outcome}]
    /\ todo' = [todo EXCEPT ![w] = @ - 1]
    /\ pc' = [pc EXCEPT ![w] = "collected"]
    /\ UNCHANGED <<now, asked, held, req, job, reading, since, stale, outcomes, abandons>>

\* An exception while a wallet is collected or written: the loop marks the run
\* failed and commits in the same transaction, with whatever of the wallet was
\* flushed, failed chains among it or not.
FailRun(w, flushed) ==
    /\ pc[w] = "collecting"
    /\ EndRun(w, "failed", "exception")
    /\ wallets' = [wallets EXCEPT ![job[w]] = @ + 1]
    /\ failedChain' = [failedChain EXCEPT ![job[w]] = @ \/ flushed]

\* An exception anywhere else in process, such as a renewal that gets no
\* connection: the same handler, which asks as little whose the run is.  After a
\* wallet it may find one a recovery has ended.
FailOutsideWallet(w) ==
    /\ pc[w] \in Processing \ {"collecting"}
    /\ ~Locked(job[w])
    /\ EndRun(w, "failed", "exception")
    /\ UNCHANGED contents

\* Mutant: one success makes the run a success.
AnySuccess(statuses) ==
    IF statuses \cap {"success"} # {} THEN "success"
    ELSE IF statuses \cap {"partial_success"} # {} THEN "partial_success"
    ELSE "failed"

RunStatus(statuses) ==
    IF statuses \subseteq {"success"} THEN "success"
    ELSE IF statuses \cap {"success", "partial_success"} # {} THEN "partial_success"
    ELSE "failed"

FinishRun(w) ==
    /\ pc[w] = "between"
    /\ todo[w] = 0
    /\ ~Locked(job[w])
    /\ EndRun(w, RunStatus(seen[w]), "none")
    /\ UNCHANGED contents

\* observe_first_snapshot_outcome, after the run's own commit.
Observe(w) ==
    /\ pc[w] = "observing"
    /\ outcomes' = [outcomes EXCEPT ![job[w]] = @ + 1]
    /\ Drop(w)
    /\ UNCHANGED <<now, table, req, abandons>>

\* A crash, a restart, or a database error the handler's own commit runs into
\* again: PostgreSQL rolls the open transaction back, and the worker (or its
\* successor) starts over.
Abandon(w) ==
    /\ pc[w] # "idle"
    /\ abandons < MaxAbandons
    /\ abandons' = abandons + 1
    /\ Drop(w)
    /\ UNCHANGED <<now, table, req, outcomes>>

-----------------------------------------------------------------------------
(* The clock.                                                              *)

\* A run that no live worker will renew or finish.
Orphan(j) ==
    /\ status[j] = "running"
    /\ \A w \in Workers : pc[w] \in Processing => job[w] # j

\* A live worker is never slower than MaxStall, MaxWallet allow.  The bound
\* MaxTime yields while a lease has to run out for a recovery.
Tick ==
    /\ now < MaxTime \/ \E j \in Jobs : Orphan(j) /\ ~Expired(j, now - MaxSkew)
    /\ \A w \in Workers :
          /\ pc[w] \in {"claiming", "picked", "claimed", "loading", "between", "writing"}
                => now - since[w] < MaxStall
          /\ pc[w] \in {"collecting", "collected"} => now - since[w] < MaxWallet
    /\ now' = now + 1
    /\ UNCHANGED <<table, req, worker, outcomes, abandons>>

-----------------------------------------------------------------------------
(* The specification.                                                      *)

WorkerStep(w) ==
    \/ \E r \in Clock : BeginClaim(w, r)
    \/ PickPending(w)
    \/ CommitClaim(w)
    \/ \E r \in Clock : Renew(w, r)
    \/ LoseLease(w)
    \/ \E n \in 1 .. MaxWallets : LoadWallets(w, n)
    \/ NoWallets(w)
    \/ OpenWallet(w)
    \/ \E outcome \in WalletOutcomes : CommitWallet(w, outcome)
    \/ \E f \in BOOLEAN : FailRun(w, f)
    \/ FailOutsideWallet(w)
    \/ FinishRun(w)
    \/ Observe(w)

CreatorStep(c) ==
    \/ \E k \in Kinds, t \in Targets : CreateJob(c, k, t)
    \/ \E p \in Jobs : RetryFailedJob(c, p)
    \/ \E j \in Jobs, r \in Clock : InsertRun(c, j, r)
    \/ AbortCreate(c)

Next ==
    \/ \E w \in Workers : WorkerStep(w) \/ Abandon(w)
    \/ \E c \in Creators : CreatorStep(c)
    \/ Tick

Spec == Init /\ [][Next]_vars

\* The worker loop is restarted when it ends and always gets to its next
\* statement; nothing forces anyone to create a job.
FairSpec == Spec /\ WF_vars(Tick) /\ \A w \in Workers : WF_vars(WorkerStep(w))

-----------------------------------------------------------------------------
(* Properties.                                                             *)

\* Concurrent API calls and scheduler ticks never leave two active runs of one
\* scope (README: "do not enqueue duplicate work for one scope").  For
\* failed_chains this is OneActiveRetry's business: a retry takes another lock.
OneActivePerScope ==
    \A j, k \in Jobs :
        /\ ActiveRun(j) /\ ActiveRun(k)
        /\ kind[j] = "collect" /\ kind[k] = "collect"
        /\ target[j] = target[k]
        => j = k

\* Concurrent retries of one parent share one active child.
OneActiveRetry ==
    \A j, k \in Jobs :
        /\ ActiveRun(j) /\ ActiveRun(k)
        /\ parent[j] # None
        /\ parent[j] = parent[k]
        => j = k

\* A retry always has a parent that did end short of success and does have a
\* failed chain to collect again, however its creation interleaved with the
\* workers.
RetriesFollowFailure ==
    \A j \in Jobs :
        parent[j] # None =>
            /\ status[parent[j]] \in {"partial_success", "failed"}
            /\ failedChain[parent[j]]

\* Two claims never hand the same run to two workers, however SKIP LOCKED,
\* recoveries and restarts interleave.
OneWorkerPerRun ==
    \A v, w \in Workers :
        /\ pc[v] \in Processing /\ pc[w] \in Processing
        /\ job[v] = job[w]
        => v = w

\* A worker that keeps to the advice of the README (the lease outlasts a wallet)
\* never has its run taken away while it is alive.
LiveOwnerKeepsRun ==
    \A w \in Workers : pc[w] \in Processing => Owns(w, job[w])

\* While a worker is between the renewal before a wallet and that wallet's
\* commit, or about to finish, the run is its own: what it writes next lands in
\* a run nobody has ended.  Unlike LiveOwnerKeepsRun this needs no bound on the
\* time a wallet takes.
WritesGoToOwnRun ==
    \A w \in Workers :
        pc[w] \in {"loading", "between", "writing", "collecting"} => Owns(w, job[w])

\* A run is held by a worker under a lease exactly while it is running; only
\* the rows of an old release run without one.
LeaseIffRunning ==
    \A j \in Jobs :
        IF status[j] = "running"
        THEN \/ owner[j] # None /\ lease[j] # NoTime
             \/ j \in Legacy /\ owner[j] = None /\ lease[j] = NoTime
        ELSE owner[j] = None /\ lease[j] = NoTime

\* The status of a finished run agrees with what was written for it: success
\* comes without an error or a failed chain and with a wallet, partial success
\* with a failed chain, and a run ended for want of wallets has none.
StatusMatchesContents ==
    \A j \in Jobs :
        /\ status[j] = "success" =>
              error[j] = "none" /\ ~failedChain[j] /\ wallets[j] > 0
        /\ status[j] = "partial_success" =>
              error[j] = "none" /\ failedChain[j]
        /\ error[j] = "no_wallets" => wallets[j] = 0

\* The row, but for its error, and what hangs below it.
Record(j) == <<kind[j], target[j], parent[j], created[j], status[j], started[j],
               owner[j], lease[j], wallets[j], failedChain[j]>>

\* A recovery has taken the run from the worker that had it.
Taken(j) == status[j] = "failed" /\ error[j] = "lease_expired"

\* A run that has ended keeps its status, its columns and the wallets under it.
\* Only its error may be replaced (and with it finished_at, which is not
\* modelled), once: after a recovery, by an exception of the worker the run was
\* taken from, raised before the renewal after its wallet would have told it.
TerminalIsFinal ==
    [][\A j \in Jobs : status[j] \in Terminal =>
          /\ UNCHANGED Record(j)
          /\ error'[j] # error[j] =>
                /\ Taken(j) /\ error'[j] = "exception"
                /\ \E w \in Workers : pc[w] = "collected" /\ job[w] = j]_vars

\* "Another worker marks the abandoned run failed" (README): a run so marked is
\* not turned into something else by the worker it was taken from.
RecoveredStaysFailed ==
    [][\A j \in Jobs :
         error[j] = "lease_expired" /\ status[j] = "failed"
            => status'[j] = "failed"]_vars

\* The outcome of a run is counted once, by the recovery or by the worker that
\* ends it.  A further count needs a claim that was rolled back after it had counted
\* the runs it meant to recover, or, once for a run, the handler of an exception,
\* which counts the run whether or not a recovery has.
OutcomeCountedOnce ==
    \A j \in Jobs :
        outcomes[j] <= (IF error[j] = "exception" THEN 2 ELSE 1) + abandons

\* Every run ends, abandoned ones included, so no scope stays blocked.
EveryRunEnds ==
    \A j \in Jobs : status[j] \in Active ~> status[j] \in Terminal

\* The queue implements JobLifecycle: seen from outside, the locks keep a key
\* exclusive and every verdict stands.
Lifecycle == INSTANCE JobLifecycle WITH
    status <- status,
    key <- [j \in Jobs |-> LockKey(kind[j], target[j], parent[j])]

ImplementsLifecycle == Lifecycle!Spec

\* The queue keeps its part of what it shares with the processor: what is written
\* below a run while claims, recoveries and retries interleave fits RunRecords.
Records == INSTANCE RunRecords WITH
    Runs <- Jobs,
    filled <- {j \in Jobs : wallets[j] > 0},
    failed <- {j \in Jobs : failedChain[j]}

ImplementsRecords == Records!Spec

-----------------------------------------------------------------------------
(* What the properties rest on: inductive invariants, proved in            *)
(* JobQueueProofs.                                                         *)

\* A worker about to write a wallet, or writing one, has counted it in todo.
WalletsLeft ==
    \A w \in Workers : pc[w] \in {"writing", "collecting"} => todo[w] > 0

\* An open claim holds FOR UPDATE on what it will change, and nobody else
\* changes that meanwhile.  Holds whatever the timing.
RowLocks ==
    /\ \A w \in Workers :
          /\ pc[w] \in {"idle", "claiming"} => job[w] = None
          /\ pc[w] \in Processing \cup {"observing"} =>
                job[w] # None /\ status[job[w]] \in {"running"} \cup Terminal
          /\ pc[w] \notin {"claiming", "picked"} => stale[w] = {}
          /\ pc[w] = "picked" /\ job[w] # None => status[job[w]] = "pending"
          /\ \A j \in stale[w] : /\ status[j] = "running"
                                 /\ Expired(j, reading[w])
                                 /\ ~KeyShared(j)
    /\ \A v, w \in Workers : v # w =>
          /\ stale[v] \cap stale[w] = {}
          /\ pc[v] = "picked" /\ pc[w] = "picked" /\ job[v] = job[w] => job[v] = None

\* What a request found before it inserts its run.
CheckHolds(r) ==
    IF r.parent = None
    THEN r.kind = "collect" => ~ActiveScopeJob("collect", r.target)
    ELSE r.kind = "failed_chains" /\ ~ActiveRetry(r.parent)

\* An advisory lock has one holder, and what its check found still holds.
CreationLocks ==
    /\ \A c, d \in Creators :
          req[c] # None /\ req[d] # None /\ KeyOf(req[c]) = KeyOf(req[d]) => c = d
    /\ \A c \in Creators : req[c] # None => CheckHolds(req[c])
    /\ \A j \in Jobs : parent[j] # None => kind[j] = "failed_chains"

\* A claim's reading is as old as the claim; a lease lasts from a reading near
\* since, and a live worker comes back within MaxStall of it.
PromptWorkers ==
    \A w \in Workers :
        /\ pc[w] \in {"claiming", "picked"} =>
              /\ reading[w] <= since[w] + MaxSkew
              /\ reading[w] >= since[w] - MaxSkew
        /\ pc[w] \in {"claiming", "picked", "claimed", "loading", "between", "writing"} =>
              since[w] <= now /\ now <= since[w] + MaxStall

\* Whoever processes a run owns it, under a lease that lasts past MaxStall; only
\* after a wallet may a recovery have taken the run, which is then as it left it.
Ownership ==
    \A w \in Workers :
        /\ pc[w] \in {"claimed", "loading", "between", "writing"} =>
              /\ Owns(w, job[w])
              /\ lease[job[w]] >= since[w] - MaxSkew + Lease
        /\ pc[w] = "collecting" => Owns(w, job[w])
        /\ pc[w] = "collected" => Owns(w, job[w]) \/ Taken(job[w])

\* The lease outlasts a stall and the difference between two clocks.
Timely == MaxStall + 2 * MaxSkew < Lease
=============================================================================
