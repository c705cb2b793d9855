--------------------------- MODULE ServiceProcess ---------------------------
(***************************************************************************)
(* One process of the service.  Its event loop is shared by two tasks, the *)
(* worker and the scheduler, and by the HTTP server; the endpoints run in  *)
(* threads.  The tasks call the database synchronously, so whoever holds   *)
(* the loop keeps it until its next await; the only awaits of the tasks    *)
(* are their sleeps.  A finished endpoint's session is closed through the  *)
(* loop, and holds its connection, and an uncommitted transaction's        *)
(* advisory lock, until then.                                              *)
(*                                                                         *)
(* The module asks what the parts do to each other: who may wait for whom, *)
(* who is served, and how a shutdown ends.  What a run contains is the     *)
(* business of JobQueue and SnapshotContents.                              *)
(***************************************************************************)
EXTENDS Naturals, Sequences, FiniteSets

CONSTANTS
    Users,        \* users by id; the scheduler's run of a user is its "all"
    Settled,      \* those of them who always have an active wallet
    Retried,      \* those of them whose failed runs are retried
    Requests,     \* HTTP requests in flight at a time
    Readers,      \* those of them for health, status and debug endpoints
    Connections,  \* of the pool: SQLAlchemy's pool_size + max_overflow
    None

ASSUME UsersAssumption ==
    Users \subseteq Nat /\ Settled \subseteq Users /\ Retried \subseteq Users
ASSUME RequestsAssumption ==
    /\ IsFiniteSet(Requests) /\ Requests \cap {"worker", "scheduler", None} = {}
    /\ Readers \subseteq Requests
ASSUME NoneAssumption == None \notin {"worker", "scheduler"}
ASSUME ConnectionsAssumption == Connections \in Nat \ {0}

\* What a run is for, and the advisory lock its creation takes: a user's "all"
\* scope, or the retry of that user's last failed run.
Keys == ({"all"} \X Users) \cup ({"retry"} \X Retried)
ASSUME KeysAssumption == None \notin Keys

VARIABLES
    loop,       \* who holds the event loop
    scheduler,  \* where the scheduler task is
    left,       \* users of its tick it has yet to come to
    worker,     \* where the worker task is
    run,        \* the run it processes
    queue,      \* pending runs, oldest first
    abandoned,  \* runs left running without a worker
    request,    \* where a request is
    wants,      \* the run it has yet to create, None if it only reads
    lock,       \* holders of the advisory locks
    pool,       \* holders of the connections
    signal      \* how far a shutdown is

tick == <<scheduler, left>>
task == <<worker, run, abandoned>>
http == <<request, wants>>
vars == <<loop, tick, task, queue, http, lock, pool, signal>>

TypeOK ==
    /\ loop \in {"free", "worker", "scheduler"}
    /\ scheduler \in {"asleep", "opening", "ticking", "checked", "inserted", "between"}
    /\ left \subseteq Users
    /\ worker \in {"asleep", "opening", "claimed", "processing", "waiting", "failing"}
    /\ run \in Keys \cup {None}
    /\ queue \in Seq(Keys)
    /\ abandoned \subseteq Keys
    /\ request \in [Requests -> {"idle", "connecting", "connected", "checked", "finished"}]
    /\ wants \in [Requests -> Keys \cup {None}]
    /\ lock \in [Keys -> Requests \cup {"scheduler", None}]
    /\ pool \subseteq Requests \cup {"worker", "scheduler"}
    /\ Cardinality(pool) <= Connections
    /\ signal \in {"none", "signalled", "draining", "stopped"}

Init ==
    /\ loop = "free"
    /\ scheduler = "asleep" /\ left = {}
    /\ worker = "asleep" /\ run = None
    /\ queue = <<>>
    /\ abandoned = {}
    /\ request = [r \in Requests |-> "idle"]
    /\ wants = [r \in Requests |-> None]
    /\ lock = [k \in Keys |-> None]
    /\ pool = {}
    /\ signal = "none"

-----------------------------------------------------------------------------
(* What the parts share.                                                   *)

\* Mutant: a pool without a limit.
Unlimited == TRUE

PoolFree == Cardinality(pool) < Connections

Queued(k) == \E i \in DOMAIN queue : queue[i] = k

\* A run create_job and create_retry_failed_job reuse: pending or running.
Active(k) == Queued(k) \/ run = k \/ k \in abandoned

-----------------------------------------------------------------------------
(* Endpoints, in their threads.                                            *)

\* The server takes requests until it has noticed a signal.
Dispatch(r, k) ==
    /\ loop = "free"
    /\ signal \in {"none", "signalled"}
    /\ request[r] = "idle"
    /\ k # None => r \notin Readers
    /\ request' = [request EXCEPT ![r] = "connecting"]
    /\ wants' = [wants EXCEPT ![r] = k]
    /\ UNCHANGED <<loop, tick, task, queue, lock, pool, signal>>

\* The first statement of a session takes a connection, and so does the first
\* after a commit.  Who has nothing to create is done when it has read.
Connect(r) ==
    /\ request[r] = "connecting"
    /\ PoolFree
    /\ pool' = pool \cup {r}
    /\ request' = [request EXCEPT ![r] = IF wants[r] = None THEN "finished"
                                         ELSE "connected"]
    /\ UNCHANGED <<loop, tick, task, queue, wants, lock, signal>>

\* QueuePool gives up after its timeout, and the endpoint raises.
ConnectTimesOut(r) ==
    /\ request[r] = "connecting"
    /\ ~PoolFree
    /\ request' = [request EXCEPT ![r] = "finished"]
    /\ wants' = [wants EXCEPT ![r] = None]
    /\ UNCHANGED <<loop, tick, task, queue, lock, pool, signal>>

\* The statement pg_advisory_xact_lock waits for.
MayLock(r) ==
    /\ request[r] = "connected"
    /\ wants[r] # None
    /\ lock[wants[r]] = None

\* Mutant: the reuse path returns without a commit.
ReuseUncommitted(r) ==
    /\ MayLock(r)
    /\ Active(wants[r])
    /\ lock' = [lock EXCEPT ![wants[r]] = r]
    /\ request' = [request EXCEPT ![r] = "finished"]
    /\ wants' = [wants EXCEPT ![r] = None]
    /\ UNCHANGED <<loop, tick, task, queue, pool, signal>>

\* The active run is returned, and the commit releases lock and connection.
Reuse(r) ==
    /\ MayLock(r)
    /\ Active(wants[r])
    /\ pool' = pool \ {r}
    /\ request' = [request EXCEPT ![r] = "finished"]
    /\ wants' = [wants EXCEPT ![r] = None]
    /\ UNCHANGED <<loop, tick, task, queue, lock, signal>>

\* A retry of a parent that is missing or not ready, or has no failed chain,
\* raises HTTPException in the middle of its transaction.
Refuse(r) ==
    /\ MayLock(r)
    /\ wants[r][1] = "retry"
    /\ lock' = [lock EXCEPT ![wants[r]] = r]
    /\ request' = [request EXCEPT ![r] = "finished"]
    /\ wants' = [wants EXCEPT ![r] = None]
    /\ UNCHANGED <<loop, tick, task, queue, pool, signal>>

Check(r) ==
    /\ MayLock(r)
    /\ ~Active(wants[r])
    /\ lock' = [lock EXCEPT ![wants[r]] = r]
    /\ request' = [request EXCEPT ![r] = "checked"]
    /\ UNCHANGED <<loop, tick, task, queue, wants, pool, signal>>

\* The run is committed; db.refresh reads it back.
Insert(r) ==
    /\ request[r] = "checked"
    /\ queue' = Append(queue, wants[r])
    /\ lock' = [lock EXCEPT ![wants[r]] = None]
    /\ pool' = pool \ {r}
    /\ request' = [request EXCEPT ![r] = "connecting"]
    /\ wants' = [wants EXCEPT ![r] = None]
    /\ UNCHANGED <<loop, tick, task, signal>>

\* The locks when a session has rolled back.
ReleasedBy(r) == [k \in Keys |-> IF lock[k] = r THEN None ELSE lock[k]]

\* The endpoint's result comes back through the loop, which has the session
\* closed (that rolls back what is open) and answers.
Close(r) ==
    /\ loop = "free"
    /\ request[r] = "finished"
    /\ request' = [request EXCEPT ![r] = "idle"]
    /\ lock' = ReleasedBy(r)
    /\ pool' = pool \ {r}
    /\ UNCHANGED <<loop, tick, task, queue, wants, signal>>

-----------------------------------------------------------------------------
(* The scheduler: create_scheduled_jobs, in one session.                   *)

TickSleeps ==
    /\ scheduler' = "asleep"
    /\ left' = {}
    /\ loop' = "free"

StartTick ==
    /\ loop = "free"
    /\ signal # "stopped"
    /\ scheduler = "asleep"
    /\ loop' = "scheduler"
    /\ scheduler' = "opening"
    /\ UNCHANGED <<left, task, queue, http, lock, pool, signal>>

\* The users with an active wallet, as they are when the tick begins.
ReadUsers ==
    /\ scheduler = "opening"
    /\ PoolFree
    /\ pool' = pool \cup {"scheduler"}
    /\ \E others \in SUBSET (Users \ Settled) : left' = Settled \cup others
    /\ scheduler' = "ticking"
    /\ UNCHANGED <<loop, task, queue, http, lock, signal>>

\* create_job for the next user, by id, waits for that user's lock.
MaySchedule(u) ==
    /\ scheduler = "ticking"
    /\ u \in left
    /\ \A v \in left : u <= v
    /\ lock[<<"all", u>>] = None

\* Mutant: a user who is busy ends the tick.
StopAt(u) == {}

\* The loop goes on with the next user.
After(u) == left \ {u}

ScheduleReuse(u) ==
    /\ MaySchedule(u)
    /\ Active(<<"all", u>>)
    /\ pool' = pool \ {"scheduler"}
    /\ left' = After(u)
    /\ scheduler' = "between"
    /\ UNCHANGED <<loop, task, queue, http, lock, signal>>

ScheduleCheck(u) ==
    /\ MaySchedule(u)
    /\ ~Active(<<"all", u>>)
    /\ lock' = [lock EXCEPT ![<<"all", u>>] = "scheduler"]
    /\ scheduler' = "checked"
    /\ UNCHANGED <<loop, left, task, queue, http, pool, signal>>

\* The run is committed; db.refresh has yet to read it back.
ScheduleInsert(u) ==
    /\ scheduler = "checked"
    /\ u \in left
    /\ lock[<<"all", u>>] = "scheduler"
    /\ queue' = Append(queue, <<"all", u>>)
    /\ lock' = [lock EXCEPT ![<<"all", u>>] = None]
    /\ pool' = pool \ {"scheduler"}
    /\ left' = left \ {u}
    /\ scheduler' = "inserted"
    /\ UNCHANGED <<loop, task, http, signal>>

\* After a commit the session takes a connection again: for the refresh of a run
\* it has inserted, the last user's too, or for the next user.
Reconnects == scheduler = "inserted" \/ (scheduler = "between" /\ left # {})

TickConnects ==
    /\ Reconnects
    /\ PoolFree
    /\ pool' = pool \cup {"scheduler"}
    /\ scheduler' = "ticking"
    /\ UNCHANGED <<loop, left, task, queue, http, lock, signal>>

EndTick ==
    /\ scheduler \in {"ticking", "between"}
    /\ left = {}
    /\ pool' = pool \ {"scheduler"}
    /\ TickSleeps
    /\ UNCHANGED <<task, queue, http, lock, signal>>

\* An error ends the tick, whoever was still left.
TickTimesOut ==
    /\ scheduler = "opening" \/ Reconnects
    /\ ~PoolFree
    /\ TickSleeps
    /\ UNCHANGED <<task, queue, http, lock, pool, signal>>

-----------------------------------------------------------------------------
(* The worker.                                                             *)

WorkerSleeps ==
    /\ worker' = "asleep"
    /\ loop' = "free"

StartClaim ==
    /\ loop = "free"
    /\ signal # "stopped"
    /\ worker = "asleep"
    /\ loop' = "worker"
    /\ worker' = "opening"
    /\ UNCHANGED <<tick, run, queue, abandoned, http, lock,
                   pool, signal>>

\* Mutant: a worker that finds no job goes on without an await.
IdleSpins == worker' = "opening" /\ UNCHANGED loop

\* No pending job: asyncio.sleep.
Idle == WorkerSleeps

\* Mutant: the processor runs in a thread, and the worker awaits it.
InThread == "free"

\* SnapshotProcessor.process is called, not awaited.
LoopWhileProcessing == "worker"

\* Recovery of the runs whose lease has ended, then the oldest pending job; one
\* commit.
Claim ==
    /\ worker = "opening"
    /\ PoolFree
    /\ abandoned' \in SUBSET abandoned
    /\ \/ /\ queue = <<>>
          /\ Idle
          /\ UNCHANGED <<run, queue>>
       \/ /\ queue # <<>>
          /\ run' = Head(queue)
          /\ queue' = Tail(queue)
          /\ worker' = "claimed"
          /\ loop' = LoopWhileProcessing
    /\ UNCHANGED <<tick, http, lock, pool, signal>>

\* The refresh of the claimed row, or the first statement after a commit.
NextStatement ==
    /\ worker \in {"claimed", "waiting"}
    /\ PoolFree
    /\ pool' = pool \cup {"worker"}
    /\ worker' = "processing"
    /\ UNCHANGED <<loop, tick, run, queue, abandoned, http,
                   lock, signal>>

\* A renewal or a wallet: the connection goes back to the pool.
CommitPart ==
    /\ worker = "processing"
    /\ pool' = pool \ {"worker"}
    /\ worker' = "waiting"
    /\ UNCHANGED <<loop, tick, run, queue, abandoned, http, lock, signal>>

\* The verdict; the worker turns to its next claim without an await.
Settle ==
    /\ worker = "processing"
    /\ run' = None
    /\ pool' = pool \ {"worker"}
    /\ worker' = "opening"
    /\ UNCHANGED <<loop, tick, queue, abandoned, http, lock, signal>>

\* The pool's timeout is an exception of the processor like any other.
StatementTimesOut ==
    /\ worker = "waiting"
    /\ ~PoolFree
    /\ worker' = "failing"
    /\ UNCHANGED <<loop, tick, run, queue, abandoned, http,
                   lock, pool, signal>>

\* "snapshot_job_failed": the handler commits the failure, given a connection.
MarkFailed ==
    /\ worker = "failing"
    /\ PoolFree
    /\ run' = None
    /\ worker' = "opening"
    /\ UNCHANGED <<loop, tick, queue, abandoned, http, lock, pool, signal>>

\* Without one, the outer handler logs and sleeps; so it does when the refresh
\* after the claim fails.  The run stays as it is.
Abandon ==
    /\ worker \in {"claimed", "failing"}
    /\ ~PoolFree
    /\ abandoned' = abandoned \cup {run}
    /\ run' = None
    /\ WorkerSleeps
    /\ UNCHANGED <<tick, queue, http, lock, pool, signal>>

ClaimTimesOut ==
    /\ worker = "opening"
    /\ ~PoolFree
    /\ WorkerSleeps
    /\ UNCHANGED <<tick, run, queue, abandoned, http, lock,
                   pool, signal>>

-----------------------------------------------------------------------------
(* The shutdown.                                                           *)

Signal ==
    /\ signal = "none"
    /\ signal' = "signalled"
    /\ UNCHANGED <<loop, tick, task, queue, http, lock, pool>>

\* The server looks for a signal whenever the loop comes round to it.
Drain ==
    /\ loop = "free"
    /\ signal = "signalled"
    /\ signal' = "draining"
    /\ UNCHANGED <<loop, tick, task, queue, http, lock, pool>>

\* When every request is answered lifespan cancels both tasks, wherever they
\* await.
Stop ==
    /\ loop = "free"
    /\ signal = "draining"
    /\ \A r \in Requests : request[r] = "idle"
    /\ signal' = "stopped"
    /\ UNCHANGED <<loop, tick, task, queue, http, lock, pool>>

-----------------------------------------------------------------------------
(* The specification.                                                      *)

ThreadStep(r) ==
    \/ Connect(r) \/ ConnectTimesOut(r)
    \/ Reuse(r) \/ Refuse(r) \/ Check(r) \/ Insert(r)

SchedulerStep ==
    \/ ReadUsers
    \/ \E u \in Users : ScheduleReuse(u) \/ ScheduleCheck(u) \/ ScheduleInsert(u)
    \/ TickConnects \/ EndTick \/ TickTimesOut

WorkerStep ==
    \/ Claim \/ NextStatement \/ CommitPart \/ Settle
    \/ StatementTimesOut \/ MarkFailed \/ Abandon \/ ClaimTimesOut

Next ==
    \/ \E r \in Requests :
          \/ \E k \in Keys \cup {None} : Dispatch(r, k)
          \/ ThreadStep(r)
          \/ Close(r)
    \/ StartTick \/ SchedulerStep
    \/ StartClaim \/ WorkerStep
    \/ Signal \/ Drain \/ Stop

Spec == Init /\ [][Next]_vars

\* The holder of the loop goes on, a run has finitely many wallets, and leases
\* end.  What waits for the loop gets its turn, for asyncio runs what is ready in
\* the order it became so, and so does what waits for a lock in PostgreSQL: strong
\* fairness, since others hold loop and lock in between.
FairSpec ==
    /\ Spec
    /\ SF_vars(\E r \in Requests : ThreadStep(r))
    /\ WF_vars(SchedulerStep)
    /\ WF_vars(WorkerStep) /\ SF_vars(Settle) /\ SF_vars(Claim /\ abandoned' = {})
    /\ SF_vars(StartTick) /\ SF_vars(StartClaim)
    /\ SF_vars(\E r \in Requests : Close(r))
    /\ SF_vars(Drain \/ Stop)

-----------------------------------------------------------------------------
(* Properties.                                                             *)

\* Whoever holds the loop never waits for an advisory lock that only the loop
\* can release: a lock the scheduler needs is held by a thread that will commit,
\* never by a finished request whose session the loop has yet to close.
NoCircularWait ==
    \A u \in Users, r \in Requests :
        scheduler = "ticking" /\ u \in left /\ lock[<<"all", u>>] = r
            => request[r] # "finished"

\* After a shutdown nothing of this process is left in the database: no run in
\* its hands, no open transaction, no request without an answer.
StoppedLeavesNothing ==
    signal = "stopped" =>
        /\ run = None
        /\ pool = {}
        /\ \A k \in Keys : lock[k] = None
        /\ \A r \in Requests : request[r] = "idle"

\* A signal ends the process, however many runs are pending, whatever the tasks
\* do with the loop, and with every request answered first (StoppedLeavesNothing)
\* however they contend for locks and connections.
ShutdownCompletes == signal = "signalled" ~> signal = "stopped"

\* A user who keeps an active wallet is processed again and again, whoever else
\* is scheduled and whatever the API adds, unless the pool is exhausted over and
\* over or the process is told to stop.
EveryUserServed ==
    \A u \in Settled :
        /\ <>[]PoolFree
        /\ [](signal = "none")
        => []<>(run = <<"all", u>>)

\* A worker that is alive settles its runs ("Marks the job success,
\* partial_success, or failed"); only "if a worker disappears" is one left to
\* the recovery of abandoned runs.
RunsAreSettled == abandoned = {}
=============================================================================
