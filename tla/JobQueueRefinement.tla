------------------------- MODULE JobQueueRefinement -------------------------
(***************************************************************************)
(* JobQueue implements JobLifecycle and RunRecords, whatever the number of *)
(* jobs, workers and creators, when the lease outlasts a stall and twice   *)
(* the skew.                                                               *)
(***************************************************************************)
EXTENDS JobQueueAgreement

RunKey(j) == LockKey(kind[j], target[j], parent[j])

\* What a creation's lock stands for: no active run has the key it holds.
KeyFree ==
    \A c \in Creators : req[c] # None =>
        \A j \in Jobs : ActiveRun(j) => RunKey(j) # KeyOf(req[c])

\* No request is NULL, so a request is told from an idle creator.
LEMMA RequestIsNotNull ==
    ASSUME TypeOK, NEW c \in Creators, req[c] # None
    PROVE  req[c] \in Request
BY DEF TypeOK

\* A check made under its lock keeps holding until the run is inserted.
LEMMA NextKeyFree ==
    ASSUME TypeOK, RowLocks, CreationLocks, KeyFree, [Next]_vars
    PROVE  KeyFree'
<1> USE DEF table, asked
<1>1. ASSUME UNCHANGED <<req, asked>>, \A j \in Jobs : ActiveRun(j)' => ActiveRun(j)
      PROVE  KeyFree'
  BY <1>1 DEF KeyFree, RunKey
<1>2. ASSUME NEW w \in Workers, WorkerStep(w)
      PROVE  KeyFree'
  <2>1. UNCHANGED req
    BY <1>2 DEF WorkerStep, BeginClaim, PickPending, CommitClaim, Renew, LoseLease,
       LoadWallets, NoWallets, OpenWallet, CommitWallet, FailRun, FailOutsideWallet,
       FinishRun, EndRun, Observe
  <2>2. QED
    BY <1>1, <1>2, <2>1, NoRevival
<1>3. ASSUME NEW w \in Workers, Abandon(w)
      PROVE  KeyFree'
  BY <1>1, <1>3 DEF Abandon, ActiveRun, held
<1>4. CASE Tick
  BY <1>1, <1>4 DEF Tick, ActiveRun, held
<1>5. ASSUME NEW c \in Creators, NEW r, NEW k, NEW t, NEW p,
             req' = [req EXCEPT ![c] = r], UNCHANGED table, KeyOf(r) = LockKey(k, t, p),
             \A j \in Jobs : ActiveRun(j) => RunKey(j) # LockKey(k, t, p)
      PROVE  KeyFree'
  <2> SUFFICES ASSUME NEW d \in Creators, req'[d] # None,
                      NEW j \in Jobs, ActiveRun(j)'
               PROVE  RunKey(j)' # KeyOf(req'[d])
    BY DEF KeyFree
  <2>1. ActiveRun(j) /\ RunKey(j)' = RunKey(j)
    BY <1>5 DEF ActiveRun, RunKey, held
  <2>2. CASE d = c
    BY <1>5, <2>1, <2>2 DEF TypeOK
  <2>3. CASE d # c
    BY <1>5, <2>1, <2>3 DEF TypeOK, KeyFree
  <2>4. QED
    BY <2>2, <2>3
<1>6. ASSUME NEW c \in Creators, NEW k \in Kinds, NEW t \in Targets, CreateJob(c, k, t)
      PROVE  KeyFree'
  <2>1. \A j \in Jobs : ActiveRun(j) => RunKey(j) # LockKey(k, t, None)
    BY <1>6, KeyFacts DEF CreateJob, ActiveScopeJob, RunKey
  <2> DEFINE q == [kind |-> k, target |-> t, parent |-> None]
  <2>2. /\ req' = [req EXCEPT ![c] = q] /\ UNCHANGED table
        /\ KeyOf(q) = LockKey(k, t, None)
    BY <1>6 DEF CreateJob, KeyOf
  <2> HIDE DEF q
  <2>3. QED
    BY <1>5, <2>1, <2>2
<1>7. ASSUME NEW c \in Creators, NEW p \in Jobs, RetryFailedJob(c, p)
      PROVE  KeyFree'
  <2>1. \A j \in Jobs : ActiveRun(j) => RunKey(j) # LockKey("failed_chains", target[p], p)
    BY <1>7, KeyFacts, ConstantFacts DEF RetryFailedJob, ActiveRetry, RunKey
  <2> DEFINE q == [kind |-> "failed_chains", target |-> target[p], parent |-> p]
  <2>2. /\ req' = [req EXCEPT ![c] = q] /\ UNCHANGED table
        /\ KeyOf(q) = LockKey("failed_chains", target[p], p)
    BY <1>7 DEF RetryFailedJob, KeyOf
  <2> HIDE DEF q
  <2>3. QED
    BY <1>5, <2>1, <2>2
<1>8. ASSUME NEW c \in Creators, NEW i \in Jobs, NEW r \in Clock, InsertRun(c, i, r)
      PROVE  KeyFree'
  <2> SUFFICES ASSUME NEW d \in Creators, req'[d] # None,
                      NEW j \in Jobs, ActiveRun(j)'
               PROVE  RunKey(j)' # KeyOf(req'[d])
    BY DEF KeyFree
  <2>1. d # c /\ req'[d] = req[d] /\ req[d] # None
    BY <1>8 DEF InsertRun, TypeOK
  <2>2. CASE j = i
    <3>1. RunKey(j)' = KeyOf(req[c])
      BY <1>8, <2>2 DEF InsertRun, RunKey, KeyOf, TypeOK
    <3>2. QED
      BY <1>8, <2>1, <3>1 DEF InsertRun, CreationLocks
  <2>3. CASE j # i
    <3>1. ActiveRun(j) /\ RunKey(j)' = RunKey(j)
      BY <1>8, <2>3 DEF InsertRun, ActiveRun, RunKey, TypeOK
    <3>2. QED
      BY <2>1, <3>1 DEF KeyFree
  <2>4. QED
    BY <2>2, <2>3
<1>9. ASSUME NEW c \in Creators, AbortCreate(c)
      PROVE  KeyFree'
  BY <1>9 DEF AbortCreate, KeyFree, RunKey, ActiveRun, TypeOK, held
<1>10. CASE UNCHANGED vars
  BY <1>1, <1>10 DEF vars, ActiveRun, held
<1>11. QED
  BY <1>2, <1>3, <1>4, <1>6, <1>7, <1>8, <1>9, <1>10 DEF Next, CreatorStep

-----------------------------------------------------------------------------
(* The refinement.                                                         *)

\* A step that leaves every key alone and lets each run at most start or end.
LEMMA WorkImplements ==
    ASSUME UNCHANGED asked,
           \A j \in Jobs : \/ status'[j] = status[j]
                           \/ status[j] = "pending" /\ status'[j] = "running"
                           \/ Ends(j)
    PROVE  Lifecycle!Work
BY DEF Lifecycle!Work, Lifecycle!Verdict, Ends, Terminal, asked

\* The initial table has distinct scopes for the runs of the old release.
LEMMA InitImplements == Init => Lifecycle!Init
BY ConstantFacts, KeyFacts DEF Init, Lifecycle!Init, Lifecycle!Exclusive, Lifecycle!IsActive,
   Lifecycle!ActiveStatus

\* A worker starts the runs it picked, which are pending, and ends the ones it
\* recovers or owns, which are running.
LEMMA WorkerImplements ==
    ASSUME Timely, Inv, NEW w \in Workers, WorkerStep(w)
    PROVE  Lifecycle!Work
<1> USE DEF Inv
<1>1. UNCHANGED asked
  BY NoRevival
<1>2. ASSUME NEW j \in Jobs, status'[j] # status[j]
      PROVE  (status[j] = "pending" /\ status'[j] = "running") \/ Ends(j)
  <2>1. CASE status[j] \in {"running"} \cup Terminal
    BY <1>2, <2>1, StartedRun DEF Kept
  <2>2. CASE status[j] \notin {"running"} \cup Terminal
    <3>1. ASSUME NEW v, NEW e, EndRun(w, v, e), pc[w] \in Processing
          PROVE  FALSE
      <4>1. status[job[w]] \in {"running"} \cup Terminal
        BY <3>1 DEF RowLocks
      <4>2. QED
        BY <1>2, <2>2, <3>1, <4>1 DEF EndRun, TypeOK
    <3>2. CASE CommitClaim(w)
      BY <1>2, <2>2, <3>2, ConstantFacts DEF CommitClaim, RowLocks, TypeOK
    <3>3. CASE \/ NoWallets(w) \/ FinishRun(w) \/ FailOutsideWallet(w)
               \/ \E f \in BOOLEAN : FailRun(w, f)
      BY <3>1, <3>3 DEF NoWallets, FinishRun, FailOutsideWallet, FailRun, Processing
    <3>4. QED
      BY <1>2, <3>2, <3>3 DEF WorkerStep, BeginClaim, PickPending, Renew, LoseLease,
         LoadWallets, OpenWallet, CommitWallet, Observe, table, held
  <2>3. QED
    BY <2>1, <2>2
<1>3. QED
  BY <1>1, <1>2, WorkImplements

\* An insertion submits its run: no active run has the key of its request.
LEMMA InsertImplements ==
    ASSUME TypeOK, KeyFree, NEW c \in Creators, NEW i \in Jobs, NEW r \in Clock,
           InsertRun(c, i, r)
    PROVE  Lifecycle!Submit(i)
<1>1. /\ status[i] = "absent" /\ status' = [status EXCEPT ![i] = "pending"]
      /\ RunKey(i)' = KeyOf(req[c])
      /\ \A j \in Jobs : j # i => RunKey(j)' = RunKey(j)
  BY DEF InsertRun, RunKey, KeyOf, TypeOK
<1>2. \A j \in Jobs : ActiveRun(j) => RunKey(j) # RunKey(i)'
  BY <1>1 DEF InsertRun, KeyFree
<1>3. QED
  BY <1>1, <1>2 DEF Lifecycle!Submit, Lifecycle!IsActive, Lifecycle!ActiveStatus, ActiveRun,
     Active, RunKey

\* Every step of the queue is a step of JobLifecycle or changes nothing there.
LEMMA NextImplements ==
    ASSUME Timely, Inv, KeyFree, [Next]_vars
    PROVE  [Lifecycle!Next]_(Lifecycle!lifecycle)
<1>1. ASSUME NEW w \in Workers, WorkerStep(w)
      PROVE  Lifecycle!Next
  BY <1>1, WorkerImplements DEF Lifecycle!Next
<1>2. ASSUME NEW c \in Creators, NEW i \in Jobs, NEW r \in Clock, InsertRun(c, i, r)
      PROVE  Lifecycle!Next
  BY <1>2, InsertImplements DEF Inv, Lifecycle!Next
<1>3. ASSUME UNCHANGED table
      PROVE  UNCHANGED Lifecycle!lifecycle
  BY <1>3 DEF Lifecycle!lifecycle, table, asked, held
<1>4. QED
  BY <1>1, <1>2, <1>3 DEF Next, CreatorStep, CreateJob, RetryFailedJob, AbortCreate, Tick,
     Abandon, vars

\* The job queue keeps the promise of JobLifecycle: seen from outside, a key is
\* never active twice, a run starts once and ends once, and verdicts stand.
THEOREM Refinement == Timely /\ Spec => ImplementsLifecycle
<1>1. Init => KeyFree
  BY DEF Init, KeyFree
<1>2. TypeOK /\ RowLocks /\ Creation /\ KeyFree /\ [Next]_vars => KeyFree'
  BY NextKeyFree DEF Creation
<1>3. Spec => []KeyFree
  BY <1>1, <1>2, CreationInvariant, PTL DEF Spec
<1>4. Timely /\ Inv /\ KeyFree /\ [Next]_vars => [Lifecycle!Next]_(Lifecycle!lifecycle)
  BY NextImplements
<1>5. Timely => []Timely
  <2>1. Timely => Timely'
    BY DEF Timely
  <2>2. QED
    BY <2>1, PTL
<1>6. QED
  BY InitImplements, <1>3, <1>4, <1>5, Invariance, PTL
     DEF Spec, ImplementsLifecycle, Lifecycle!Spec

-----------------------------------------------------------------------------
(* The records shared with the processor.                                  *)

\* The contents of runs that may change are those of the run being processed.
LEMMA RecordsOfRun ==
    ASSUME TypeOK, NEW j \in Jobs
    PROVE  /\ UNCHANGED <<status[j], wallets[j], failedChain[j]>> => Records!Same(j)
           /\ status[j] = "pending" /\ status'[j] \in {"running", "failed"}
              /\ wallets'[j] = 0 /\ ~failedChain'[j] => Records!Start(j)
           /\ /\ status[j] = "running"
              /\ wallets'[j] >= wallets[j] /\ wallets[j] \in Nat /\ wallets'[j] \in Nat
              /\ failedChain[j] => failedChain'[j]
              /\ failedChain'[j] => failedChain[j] \/ wallets'[j] > 0
              /\ \/ status'[j] \in {"running", "failed"}
                 \/ status'[j] = "success" /\ wallets'[j] > 0 /\ ~failedChain'[j]
                 \/ status'[j] = "partial_success" /\ wallets'[j] > 0 /\ failedChain'[j]
              => Records!Process(j)
BY DEF Records!Same, Records!Start, Records!Process, Records!Fits

\* A worker starts runs nothing hangs below, writes below the run it owns, and ends
\* that one, or those it recovers, with a verdict that fits.
LEMMA WorkerKeepsRecords ==
    ASSUME TypeOK, RowLocks, Owned, Contents, NEW w \in Workers, WorkerStep(w)
    PROVE  Records!Work
<1> USE DEF table, asked, held, contents
<1>1. parent' = parent
  BY NoRevival
<1>2. ASSUME NEW j \in Jobs
      PROVE  Records!Same(j) \/ Records!Start(j) \/ Records!Process(j)
  <2>1. wallets[j] \in Nat /\ RunContents(j)
    BY DEF TypeOK, Contents
  <2>2. ASSUME UNCHANGED <<status, contents>>
        PROVE  Records!Same(j)
    BY <2>2, RecordsOfRun
  <2>3. CASE CommitClaim(w)
    <3>1. /\ wallets' = wallets /\ failedChain' = failedChain
          /\ status'[j] = IF j \in stale[w] THEN "failed"
                          ELSE IF j = job[w] THEN "running" ELSE status[j]
      BY <2>3 DEF CommitClaim
    <3>2. CASE j \in stale[w]
      <4>1. status[j] = "running"
        BY <3>2 DEF RowLocks
      <4>2. QED
        BY <2>1, <3>1, <3>2, <4>1, RecordsOfRun
    <3>3. CASE j \notin stale[w] /\ j = job[w]
      <4>1. status[j] = "pending"
        BY <2>3, <3>3, ConstantFacts DEF CommitClaim, RowLocks
      <4>2. wallets[j] = 0 /\ ~failedChain[j]
        BY <2>1, <4>1 DEF RunContents
      <4>3. QED
        BY <3>1, <3>3, <4>1, <4>2, RecordsOfRun
    <3>4. QED
      BY <3>1, <3>2, <3>3, RecordsOfRun
  <2>4. ASSUME NEW outcome \in WalletOutcomes, CommitWallet(w, outcome)
        PROVE  Records!Same(j) \/ Records!Process(j)
    <3>1. /\ job[w] \in Jobs /\ status[job[w]] = "running" /\ status' = status
          /\ wallets' = [wallets EXCEPT ![job[w]] = @ + 1]
          /\ failedChain' = [failedChain EXCEPT ![job[w]] = @ \/ outcome # "success"]
      BY <2>4, WritersOwn DEF CommitWallet
    <3>2. CASE j = job[w]
      <4>1. wallets'[j] = wallets[j] + 1
        BY <3>1, <3>2 DEF TypeOK
      <4>2. failedChain[j] => failedChain'[j]
        BY <3>1, <3>2, Zenon DEF TypeOK
      <4>3. QED
        BY <2>1, <3>1, <3>2, <4>1, <4>2, RecordsOfRun
    <3>3. CASE j # job[w]
      BY <3>1, <3>3, RecordsOfRun DEF TypeOK
    <3>4. QED
      BY <3>2, <3>3
  <2>5. ASSUME NEW verdict, NEW reason, EndRun(w, verdict, reason),
               pc[w] \in {"loading", "between", "collecting"},
               \A k \in Jobs : k # job[w] => UNCHANGED <<wallets[k], failedChain[k]>>,
               j = job[w] => /\ wallets'[j] \in Nat /\ wallets'[j] >= wallets[j]
                             /\ failedChain[j] => failedChain'[j]
                             /\ failedChain'[j] => failedChain[j] \/ wallets'[j] > 0
                             /\ \/ verdict = "failed"
                                \/ verdict = "success" /\ wallets'[j] > 0 /\ ~failedChain'[j]
                                \/ /\ verdict = "partial_success"
                                   /\ wallets'[j] > 0 /\ failedChain'[j]
        PROVE  Records!Same(j) \/ Records!Process(j)
    <3>1. /\ job[w] \in Jobs /\ status[job[w]] = "running"
          /\ status' = [status EXCEPT ![job[w]] = verdict]
      BY <2>5, WritersOwn DEF EndRun
    <3>2. CASE j = job[w]
      BY <2>1, <2>5, <3>1, <3>2, RecordsOfRun DEF TypeOK
    <3>3. CASE j # job[w]
      BY <2>5, <3>1, <3>3, RecordsOfRun DEF TypeOK
    <3>4. QED
      BY <3>2, <3>3
  <2>6. CASE NoWallets(w)
    BY <2>1, <2>5, <2>6 DEF NoWallets
  <2>7. ASSUME NEW f \in BOOLEAN, FailRun(w, f)
        PROVE  Records!Same(j) \/ Records!Process(j)
    <3>1. /\ EndRun(w, "failed", "exception") /\ pc[w] = "collecting"
          /\ wallets' = [wallets EXCEPT ![job[w]] = @ + 1]
          /\ failedChain' = [failedChain EXCEPT ![job[w]] = @ \/ f]
      BY <2>7 DEF FailRun
    <3>2. j = job[w] => wallets'[j] = wallets[j] + 1
      BY <3>1 DEF TypeOK
    <3>3. j = job[w] /\ failedChain[j] => failedChain'[j]
      BY <3>1, Zenon DEF TypeOK
    <3>4. \A k \in Jobs : k # job[w] => UNCHANGED <<wallets[k], failedChain[k]>>
      BY <3>1 DEF TypeOK
    <3>5. QED
      BY <2>1, <2>5, <3>1, <3>2, <3>3, <3>4
  <2>8. CASE FinishRun(w)
    <3>1. /\ EndRun(w, RunStatus(seen[w]), "none") /\ UNCHANGED contents
          /\ pc[w] = "between" /\ todo[w] = 0
      BY <2>8 DEF FinishRun
    <3>2. j = job[w] => /\ wallets[j] > 0
                        /\ failedChain[j] <=> ~(seen[w] \subseteq {"success"})
      BY <3>1, WritersOwn DEF Contents, WorkerContents, Processing
    <3>3. QED
      BY <2>1, <2>5, <3>1, <3>2, RunStatusFacts
  <2>9. CASE FailOutsideWallet(w)
    <3>1. /\ EndRun(w, "failed", "exception") /\ UNCHANGED contents
          /\ pc[w] \in Processing
      BY <2>9 DEF FailOutsideWallet
    <3>2. CASE Owns(w, job[w])
      BY <2>1, <3>1, <3>2, RecordsOfRun DEF Owns, EndRun, TypeOK
    <3>3. CASE Taken(job[w])
      <4>1. status'[j] = status[j]
        BY <3>1, <3>3 DEF Taken, EndRun, TypeOK
      <4>2. QED
        BY <3>1, <4>1, RecordsOfRun
    <3>4. QED
      BY <3>1, <3>2, <3>3 DEF Owned, Ownership, Processing
  <2>10. QED
    BY <2>2, <2>3, <2>4, <2>6, <2>7, <2>8, <2>9 DEF WorkerStep, BeginClaim, PickPending,
       Renew, LoseLease, LoadWallets, OpenWallet, Observe
<1>3. QED
  BY <1>1, <1>2 DEF Records!Work

\* An insertion adds a run of a scope, or a retry of a run that may be retried still.
LEMMA InsertKeepsRecords ==
    ASSUME TypeOK, CreationLocks, RequestsFollowFailure,
           NEW c \in Creators, NEW i \in Jobs, NEW r \in Clock, InsertRun(c, i, r)
    PROVE  Records!Next
<1>1. /\ req[c] # None /\ status[i] = "absent"
      /\ status' = [status EXCEPT ![i] = "pending"]
      /\ parent' = [parent EXCEPT ![i] = req[c].parent]
      /\ UNCHANGED contents
  BY DEF InsertRun
<1>2. Records!Insert(i, req[c].parent)
  BY <1>1 DEF Records!Insert, contents
<1>3. CASE req[c].parent = None
  BY <1>2, <1>3 DEF Records!Next
<1>4. CASE req[c].parent # None
  <2>1. req[c].parent \in Jobs
    BY <1>1, <1>4, RequestIsNotNull DEF Request
  <2>2. FellShort(req[c].parent) /\ ~ActiveRetry(req[c].parent)
    BY <1>1, <1>4 DEF RequestsFollowFailure, CreationLocks, CheckHolds
  <2>3. Records!MayRetry(req[c].parent)
    BY <2>1, <2>2 DEF Records!MayRetry, FellShort, ActiveRetry, ActiveRun, Active
  <2>4. QED
    BY <1>2, <2>1, <2>3 DEF Records!Next
<1>5. QED
  BY <1>3, <1>4

\* The job queue keeps the records it shares with the processor: it starts empty
\* runs, lets only a running one change, and retries only what has fallen short.
THEOREM QueueKeepsRecords == Timely /\ Spec => ImplementsRecords
<1>1. Init => Records!Init
  BY ConstantFacts DEF Init, Records!Init
<1>2. ASSUME Inv, Contents, CreationLocks, RequestsFollowFailure, [Next]_vars
      PROVE  [Records!Next]_(Records!records)
  <2>1. ASSUME NEW w \in Workers, WorkerStep(w)
        PROVE  Records!Next
    BY <1>2, <2>1, WorkerKeepsRecords DEF Inv, Records!Next
  <2>2. ASSUME NEW c \in Creators, NEW i \in Jobs, NEW r \in Clock, InsertRun(c, i, r)
        PROVE  Records!Next
    BY <1>2, <2>2, InsertKeepsRecords DEF Inv
  <2>3. ASSUME UNCHANGED table
        PROVE  UNCHANGED Records!records
    BY <2>3 DEF Records!records, table, asked, held, contents
  <2>4. QED
    BY <1>2, <2>1, <2>2, <2>3 DEF Next, CreatorStep, CreateJob, RetryFailedJob, AbortCreate,
       Tick, Abandon, vars
<1>3. QED
  BY <1>1, <1>2, Invariance, ContentsHold, RetriesHold, CreationInvariant, PTL
     DEF Spec, Creation, ImplementsRecords, Records!Spec
=============================================================================
