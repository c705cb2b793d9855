--------------------------- MODULE JobQueueProofs ---------------------------
(***************************************************************************)
(* Proofs about JobQueue for every set of jobs, workers, creators and      *)
(* targets and every value of the time constants.  The first part needs    *)
(* no assumption on timing; the last part assumes Timely.                  *)
(***************************************************************************)
EXTENDS JobQueue, TLAPS

USE DEF LeaseUntil

\* The assumptions on the constants, under one name.
LEMMA ConstantFacts ==
    /\ Jobs \subseteq Nat /\ Legacy \subseteq Jobs
    /\ None \notin Jobs /\ None \notin Workers
    /\ Lease \in Nat /\ Lease > 0 /\ MaxSkew \in Nat /\ MaxStall \in Nat
    /\ WalletOutcomes \subseteq {"success", "partial_success", "failed"}
BY JobsAssumption, NoneAssumption, TimeAssumption, OutcomeAssumption

-----------------------------------------------------------------------------
(* Types.                                                                  *)

\* An update keeps the type of a column, also when the id is null.
LEMMA UpdateType ==
    ASSUME NEW S, NEW T, NEW f \in [S -> T], NEW x, NEW e, x \in S => e \in T
    PROVE  [f EXCEPT ![x] = e] \in [S -> T]
OBVIOUS

\* A clock reading is a natural number: the clock starts at MaxSkew.
LEMMA ClockType ==
    ASSUME TypeOK, NEW r \in Clock
    PROVE  r \in Nat /\ r >= now - MaxSkew /\ r <= now + MaxSkew
BY ConstantFacts DEF TypeOK, Clock

\* The verdict computed from the wallets' statuses is one.
LEMMA RunStatusType == \A S : RunStatus(S) \in Terminal
BY DEF RunStatus, Terminal

\* The queue starts well typed.
LEMMA InitType == Init => TypeOK /\ WalletsLeft
BY ConstantFacts DEF Init, TypeOK, WalletsLeft, PCs, Processing, Kinds, Active, Terminal,
   Errors, NoTime

\* Every step keeps the types, and the count of wallets left above zero while
\* one of them is written.
LEMMA NextType == TypeOK /\ WalletsLeft /\ [Next]_vars => TypeOK' /\ WalletsLeft'
<1> SUFFICES ASSUME TypeOK, WalletsLeft, [Next]_vars
             PROVE  TypeOK' /\ WalletsLeft'
  OBVIOUS
<1> USE DEF TypeOK, WalletsLeft, table, asked, held, contents
<1>1. ASSUME NEW w \in Workers, NEW r \in Clock, BeginClaim(w, r)
      PROVE  TypeOK' /\ WalletsLeft'
  BY <1>1, ClockType DEF BeginClaim, StaleRuns, PCs
<1>2. ASSUME NEW w \in Workers, PickPending(w)
      PROVE  TypeOK' /\ WalletsLeft'
  BY <1>2 DEF PickPending, Claimable, PCs
<1>3. ASSUME NEW w \in Workers, CommitClaim(w)
      PROVE  TypeOK' /\ WalletsLeft'
  BY <1>3, ConstantFacts DEF CommitClaim, PCs, Processing, Active, Terminal, Errors
<1>4. ASSUME NEW w \in Workers, NEW r \in Clock, Renew(w, r)
      PROVE  TypeOK' /\ WalletsLeft'
  <2>1. lease' \in [Jobs -> Nat \cup {NoTime}]
    <3>1. r + Lease \in Nat \cup {NoTime}
      BY ClockType, ConstantFacts
    <3>2. lease \in [Jobs -> Nat \cup {NoTime}]
      OBVIOUS
    <3>3. lease' = [lease EXCEPT ![job[w]] = r + Lease]
      BY <1>4 DEF Renew
    <3> HIDE DEF TypeOK
    <3>4. QED
      BY <3>1, <3>2, <3>3, UpdateType
  <2>2. pc' \in [Workers -> PCs]
    BY <1>4 DEF Renew, AfterRenewal, PCs, Processing
  <2>3. WalletsLeft'
    BY <1>4 DEF Renew, AfterRenewal
  <2>4. QED
    BY <1>4, <2>1, <2>2, <2>3 DEF Renew
<1>5. ASSUME NEW w \in Workers, Drop(w), UNCHANGED <<now, table, req>>,
             outcomes' \in [Jobs -> Nat], abandons' \in Nat
      PROVE  TypeOK' /\ WalletsLeft'
  BY <1>5 DEF Drop, PCs
<1>6. ASSUME NEW w \in Workers, NEW n \in 1 .. MaxWallets, LoadWallets(w, n)
      PROVE  TypeOK' /\ WalletsLeft'
  BY <1>6, BoundAssumption DEF LoadWallets, PCs, Processing
<1>7. ASSUME NEW w \in Workers, NEW v \in Terminal, NEW e \in Errors, EndRun(w, v, e),
             wallets' \in [Jobs -> Nat], failedChain' \in [Jobs -> BOOLEAN]
      PROVE  TypeOK' /\ WalletsLeft'
  BY <1>7 DEF EndRun, PCs, Processing, NoTime
<1>8. ASSUME NEW w \in Workers, OpenWallet(w)
      PROVE  TypeOK' /\ WalletsLeft'
  BY <1>8 DEF OpenWallet, PCs, Processing
<1>9. ASSUME NEW w \in Workers, NEW outcome \in WalletOutcomes, CommitWallet(w, outcome)
      PROVE  TypeOK' /\ WalletsLeft'
  <2>1. todo' \in [Workers -> Nat]
    BY <1>9 DEF CommitWallet
  <2>6. wallets' \in [Jobs -> Nat]
    BY <1>9, job[w] \in Jobs => wallets[job[w]] + 1 \in Nat, UpdateType DEF CommitWallet
  <2>2. failedChain' \in [Jobs -> BOOLEAN]
    BY <1>9, Zenon DEF CommitWallet
  <2>3. pc' \in [Workers -> PCs] /\ seen' \in [Workers -> SUBSET WalletOutcomes]
    BY <1>9 DEF CommitWallet, PCs, Processing
  <2>4. WalletsLeft'
    BY <1>9 DEF CommitWallet
  <2>5. QED
    BY <1>9, <2>1, <2>2, <2>3, <2>4, <2>6 DEF CommitWallet
<1>10. ASSUME NEW c \in Creators, NEW j \in Jobs, NEW r \in Clock, InsertRun(c, j, r)
       PROVE  TypeOK' /\ WalletsLeft'
  BY <1>10, ClockType DEF InsertRun, worker, Request, Active
<1>11. ASSUME NEW c \in Creators, req' \in [Creators -> Request \cup {None}],
              UNCHANGED <<now, table, worker, outcomes, abandons>>
       PROVE  TypeOK' /\ WalletsLeft'
  BY <1>11 DEF worker
<1>12. CASE Tick
  <2>1. now' \in Nat /\ now' >= MaxSkew
    BY <1>12, ConstantFacts DEF Tick
  <2>2. QED
    BY <1>12, <2>1 DEF Tick, worker
<1>13. CASE UNCHANGED vars
  BY <1>13 DEF vars, worker
<1>14. ASSUME NEW w \in Workers, WorkerStep(w)
       PROVE  TypeOK' /\ WalletsLeft'
  <2>1. CASE LoseLease(w)
    BY <2>1, <1>5 DEF LoseLease
  <2>2. CASE NoWallets(w)
    BY <2>2, <1>7 DEF NoWallets, Terminal, Errors
  <2>3. ASSUME NEW f \in BOOLEAN, FailRun(w, f)
        PROVE  TypeOK' /\ WalletsLeft'
    <3>1. wallets' \in [Jobs -> Nat]
      BY <2>3, job[w] \in Jobs => wallets[job[w]] + 1 \in Nat, UpdateType DEF FailRun
    <3>2. failedChain' \in [Jobs -> BOOLEAN]
      BY <2>3, Zenon DEF FailRun
    <3>3. QED
      BY <2>3, <3>1, <3>2, <1>7 DEF FailRun, Terminal, Errors
  <2>4. CASE FinishRun(w)
    BY <2>4, <1>7, RunStatusType DEF FinishRun, Errors
  <2>5. CASE Observe(w)
    <3>1. outcomes' \in [Jobs -> Nat]
      BY <2>5, job[w] \in Jobs => outcomes[job[w]] + 1 \in Nat, UpdateType DEF Observe
    <3>2. QED
      BY <2>5, <3>1, <1>5 DEF Observe
  <2>6. CASE FailOutsideWallet(w)
    BY <2>6, <1>7 DEF FailOutsideWallet, Terminal, Errors
  <2>7. QED
    BY <1>14, <1>1, <1>2, <1>3, <1>4, <1>6, <1>8, <1>9, <2>1, <2>2, <2>3, <2>4, <2>5, <2>6
       DEF WorkerStep
<1>15. ASSUME NEW w \in Workers, Abandon(w)
       PROVE  TypeOK' /\ WalletsLeft'
  BY <1>15, <1>5 DEF Abandon
<1>16. ASSUME NEW c \in Creators, CreatorStep(c)
       PROVE  TypeOK' /\ WalletsLeft'
  <2>1. ASSUME NEW k \in Kinds, NEW t \in Targets, CreateJob(c, k, t)
        PROVE  TypeOK' /\ WalletsLeft'
    BY <2>1, <1>11 DEF CreateJob, Request
  <2>2. ASSUME NEW p \in Jobs, RetryFailedJob(c, p)
        PROVE  TypeOK' /\ WalletsLeft'
    BY <2>2, <1>11 DEF RetryFailedJob, Request, Kinds
  <2>3. CASE AbortCreate(c)
    BY <2>3, <1>11 DEF AbortCreate
  <2>4. QED
    BY <1>16, <1>10, <2>1, <2>2, <2>3 DEF CreatorStep
<1>17. QED
  BY <1>12, <1>13, <1>14, <1>15, <1>16 DEF Next

\* Every reachable state is well typed.
THEOREM TypeCorrect == Spec => [](TypeOK /\ WalletsLeft)
BY InitType, NextType, PTL DEF Spec

-----------------------------------------------------------------------------
(* Row locks.                                                              *)

\* Steps that touch neither a status of the table nor a claim.
LEMMA RowLocksFrame ==
    ASSUME TypeOK, RowLocks,
           UNCHANGED <<created, status, started, lease, pc, job, stale, reading>>
    PROVE  RowLocks'
BY DEF RowLocks, Expired, KeyShared

\* A worker that drops what it holds leaves the other claims as they are.
LEMMA RowLocksDrop ==
    ASSUME TypeOK, RowLocks, NEW w \in Workers, Drop(w),
           UNCHANGED <<created, status, started, lease>>
    PROVE  RowLocks'
<1>1. \A v \in Workers : /\ v # w => /\ pc'[v] = pc[v] /\ job'[v] = job[v]
                                     /\ stale'[v] = stale[v] /\ reading'[v] = reading[v]
                         /\ pc'[w] = "idle" /\ job'[w] = None /\ stale'[w] = {}
  BY DEF Drop, TypeOK
<1>2. \A j \in Jobs : KeyShared(j)' => KeyShared(j)
  BY <1>1 DEF KeyShared
<1>3. ASSUME NEW v \in Workers, NEW j \in stale'[v]
      PROVE  v # w /\ j \in stale[v] /\ Expired(j, reading[v])'
  BY <1>1, <1>3 DEF RowLocks, Expired, TypeOK
<1>4. \A v, u \in Workers : v # u =>
          /\ stale'[v] \cap stale'[u] = {}
          /\ pc'[v] = "picked" /\ pc'[u] = "picked" /\ job'[v] = job'[u] => job'[v] = None
  BY <1>1, <1>3 DEF RowLocks
<1>5. ASSUME NEW v \in Workers
      PROVE  /\ pc'[v] \in {"idle", "claiming"} => job'[v] = None
             /\ pc'[v] \in Processing \cup {"observing"} =>
                   job'[v] # None /\ status'[job'[v]] \in {"running"} \cup Terminal
             /\ pc'[v] \notin {"claiming", "picked"} => stale'[v] = {}
             /\ pc'[v] = "picked" /\ job'[v] # None => status'[job'[v]] = "pending"
  BY <1>1 DEF RowLocks, Processing
<1>6. \A v \in Workers : \A j \in stale'[v] :
          status'[j] = "running" /\ Expired(j, reading[v])' /\ ~KeyShared(j)'
  BY <1>1, <1>2, <1>3 DEF RowLocks, TypeOK
<1>7. QED
  BY <1>4, <1>5, <1>6 DEF RowLocks

\* Ending or renewing a run nobody has locked, or writing to it, leaves the
\* claims as they are.
LEMMA RowLocksOwn ==
    ASSUME TypeOK, RowLocks, NEW w \in Workers, NEW p \in Processing \cup {"observing"},
           pc[w] \in Processing, p = "collecting" => pc[w] = "collecting" \/ ~Locked(job[w]),
           pc' = [pc EXCEPT ![w] = p], UNCHANGED <<job, stale, reading, created, started>>,
           status'[job[w]] \in {"running"} \cup Terminal,
           \A j \in Jobs : \/ status'[j] = status[j] /\ lease'[j] = lease[j]
                           \/ j = job[w] /\ (KeyShared(j) \/ ~Locked(j))
    PROVE  RowLocks'
<1>1. \A v \in Workers : pc'[v] = IF v = w THEN p ELSE pc[v]
  BY DEF TypeOK
<1>2. p \notin {"idle", "claiming", "picked"} /\ pc[w] \notin {"idle", "claiming", "picked"}
  BY DEF Processing
<1>3. ASSUME NEW v \in Workers, NEW j \in stale[v]
      PROVE  Locked(j) /\ ~KeyShared(j) /\ j \in Jobs /\ status[j] = "running"
  BY <1>3 DEF RowLocks, Locked, TypeOK
<1>4. ASSUME NEW v \in Workers, NEW j \in stale[v]
      PROVE  status'[j] = "running" /\ Expired(j, reading[v])' /\ ~KeyShared(j)'
  BY <1>1, <1>3, <1>4 DEF RowLocks, Expired, KeyShared
<1>5. ASSUME NEW v \in Workers, pc[v] = "picked", job[v] # None
      PROVE  status'[job[v]] = "pending"
  <2>1. job[v] \in Jobs /\ status[job[v]] = "pending"
    BY <1>5 DEF RowLocks, TypeOK
  <2>2. status[job[w]] \in {"running"} \cup Terminal
    BY DEF RowLocks
  <2>3. job[v] # job[w]
    BY <2>1, <2>2 DEF Terminal
  <2>4. QED
    BY <2>1, <2>3
<1>6. ASSUME NEW v \in Workers, pc'[v] \in Processing \cup {"observing"}
      PROVE  job[v] # None /\ status'[job[v]] \in {"running"} \cup Terminal
  BY <1>1, <1>6 DEF RowLocks, TypeOK
<1>7. ASSUME NEW v \in Workers
      PROVE  /\ pc'[v] \in {"idle", "claiming"} => job[v] = None
             /\ pc'[v] \notin {"claiming", "picked"} => stale[v] = {}
             /\ pc'[v] = "picked" => pc[v] = "picked"
  BY <1>1, <1>2 DEF RowLocks
<1>8. QED
  BY <1>4, <1>5, <1>6, <1>7 DEF RowLocks

\* A claim opens: what it locks was locked by nobody, and no wallet is being
\* written under it.
LEMMA RowLocksBegin ==
    ASSUME TypeOK, RowLocks, NEW w \in Workers, NEW r \in Clock, BeginClaim(w, r)
    PROVE  RowLocks'
<1>1. \A v \in Workers : /\ pc'[v] = IF v = w THEN "claiming" ELSE pc[v]
                         /\ reading'[v] = IF v = w THEN r ELSE reading[v]
                         /\ stale'[v] = IF v = w THEN StaleRuns(r) ELSE stale[v]
  BY ClockType DEF BeginClaim, TypeOK, StaleRuns
<1>2. UNCHANGED <<status, started, created, lease, job>>
  BY DEF BeginClaim, table, asked, held
<1>3. \A j \in Jobs : KeyShared(j)' <=> KeyShared(j)
  BY <1>1, <1>2 DEF KeyShared, BeginClaim
<1>4. ASSUME NEW v \in Workers, NEW j \in stale'[v]
      PROVE  status'[j] = "running" /\ Expired(j, reading[v])' /\ ~KeyShared(j)'
  <2>1. CASE v = w
    BY <1>1, <1>2, <1>3, <1>4, <2>1 DEF StaleRuns, Expired
  <2>2. CASE v # w
    BY <1>1, <1>2, <1>3, <1>4, <2>2 DEF RowLocks, Expired, TypeOK
  <2>3. QED
    BY <2>1, <2>2
<1>5. ASSUME NEW v \in Workers, v # w
      PROVE  stale[v] \cap StaleRuns(r) = {}
  <2>1. \A j \in stale[v] : Locked(j)
    BY <1>5 DEF RowLocks, Locked
  <2>2. QED
    BY <2>1 DEF StaleRuns
<1>6. ASSUME NEW v \in Workers, NEW u \in Workers, v # u
      PROVE  /\ stale'[v] \cap stale'[u] = {}
             /\ pc'[v] = "picked" /\ pc'[u] = "picked" /\ job'[v] = job'[u] => job'[v] = None
  BY <1>1, <1>2, <1>5, <1>6 DEF RowLocks
<1>7. ASSUME NEW v \in Workers
      PROVE  /\ pc'[v] \in {"idle", "claiming"} => job'[v] = None
             /\ pc'[v] \in Processing \cup {"observing"} =>
                   job'[v] # None /\ status'[job'[v]] \in {"running"} \cup Terminal
             /\ pc'[v] \notin {"claiming", "picked"} => stale'[v] = {}
             /\ pc'[v] = "picked" /\ job'[v] # None => status'[job'[v]] = "pending"
  BY <1>1, <1>2 DEF RowLocks, Processing, BeginClaim
<1>8. QED
  BY <1>4, <1>6, <1>7 DEF RowLocks

\* A claim picks a pending row that no other claim has picked.
LEMMA RowLocksPick ==
    ASSUME TypeOK, RowLocks, NEW w \in Workers, PickPending(w)
    PROVE  RowLocks'
<1>1. \A v \in Workers : /\ pc'[v] = IF v = w THEN "picked" ELSE pc[v]
                         /\ v # w => job'[v] = job[v]
  BY DEF PickPending, TypeOK
<1>2. UNCHANGED <<status, started, created, lease, reading, stale>>
  BY DEF PickPending, table, asked, held
<1>3. job'[w] # None => job'[w] \in Claimable
  <2>1. job[w] = None
    BY DEF PickPending, RowLocks
  <2>2. QED
    BY <2>1 DEF PickPending, TypeOK
<1>4. \A j \in Jobs : KeyShared(j)' <=> KeyShared(j)
  BY <1>1 DEF KeyShared, PickPending
<1>5. ASSUME NEW v \in Workers, v # w, pc[v] = "picked", job[v] = job'[w]
      PROVE  job'[w] = None
  BY <1>3, <1>5 DEF Claimable, Locked
<1>6. ASSUME NEW v \in Workers, NEW u \in Workers, v # u
      PROVE  /\ stale'[v] \cap stale'[u] = {}
             /\ pc'[v] = "picked" /\ pc'[u] = "picked" /\ job'[v] = job'[u] => job'[v] = None
  BY <1>1, <1>2, <1>5, <1>6 DEF RowLocks
<1>7. ASSUME NEW v \in Workers
      PROVE  /\ pc'[v] \in {"idle", "claiming"} => job'[v] = None
             /\ pc'[v] \in Processing \cup {"observing"} =>
                   job'[v] # None /\ status'[job'[v]] \in {"running"} \cup Terminal
             /\ pc'[v] \notin {"claiming", "picked"} => stale'[v] = {}
             /\ pc'[v] = "picked" /\ job'[v] # None => status'[job'[v]] = "pending"
  BY <1>1, <1>2, <1>3 DEF RowLocks, Processing, PickPending, Claimable
<1>8. \A v \in Workers : \A j \in stale'[v] :
          status'[j] = "running" /\ Expired(j, reading[v])' /\ ~KeyShared(j)'
  BY <1>2, <1>4 DEF RowLocks, Expired, TypeOK
<1>9. QED
  BY <1>6, <1>7, <1>8 DEF RowLocks

\* A claim commits: the rows it changes are its own locks, so no other claim
\* has them.
LEMMA RowLocksCommit ==
    ASSUME TypeOK, RowLocks, NEW w \in Workers, CommitClaim(w)
    PROVE  RowLocks'
<1>1. \A v \in Workers :
         /\ v # w => pc'[v] = pc[v] /\ stale'[v] = stale[v] /\ reading'[v] = reading[v]
         /\ stale'[w] = {}
         /\ pc'[w] = IF job[w] = None THEN "idle" ELSE "claimed"
  BY DEF CommitClaim, TypeOK
<1>2. UNCHANGED <<created, job>>
  BY DEF CommitClaim, asked
<1>3. \A j \in Jobs : KeyShared(j)' <=> KeyShared(j)
  BY <1>1, <1>2 DEF KeyShared, CommitClaim
<1>4. \A j \in Jobs : j # job[w] /\ j \notin stale[w] =>
         /\ status'[j] = status[j] /\ lease'[j] = lease[j] /\ started'[j] = started[j]
  BY DEF CommitClaim
<1>5. job[w] # None => job[w] \in Jobs /\ status[job[w]] = "pending" /\ job[w] \notin stale[w]
  BY DEF RowLocks, CommitClaim, TypeOK
<1>6. ASSUME NEW v \in Workers, v # w, NEW j \in stale[v]
      PROVE  status'[j] = "running" /\ Expired(j, reading[v])' /\ ~KeyShared(j)'
  <2>1. j \in Jobs /\ status[j] = "running" /\ Expired(j, reading[v]) /\ ~KeyShared(j)
    BY <1>6 DEF RowLocks, TypeOK
  <2>2. j # job[w] /\ j \notin stale[w]
    BY <2>1, <1>5, <1>6, ConstantFacts DEF RowLocks
  <2>3. QED
    BY <2>1, <2>2, <1>1, <1>2, <1>3, <1>4, <1>6 DEF Expired
<1>7. ASSUME NEW v \in Workers, v # w, pc[v] = "picked", job[v] # None
      PROVE  status'[job[v]] = "pending"
  <2>1. job[v] \in Jobs /\ status[job[v]] = "pending" /\ job[v] # job[w]
    BY <1>7 DEF RowLocks, TypeOK, CommitClaim
  <2>2. job[v] \notin stale[w]
    BY <2>1 DEF RowLocks
  <2>3. QED
    BY <2>1, <2>2, <1>4
<1>8. ASSUME NEW v \in Workers, pc[v] \in Processing \cup {"observing"}
      PROVE  job[v] # None /\ status'[job[v]] \in {"running"} \cup Terminal
  BY <1>8 DEF RowLocks, CommitClaim, TypeOK, Terminal
<1>9. job[w] # None => status'[job[w]] = "running"
  BY <1>5 DEF CommitClaim
<1>10. ASSUME NEW v \in Workers
       PROVE  /\ pc'[v] \in {"idle", "claiming"} => job'[v] = None
              /\ pc'[v] \in Processing \cup {"observing"} =>
                    job'[v] # None /\ status'[job'[v]] \in {"running"} \cup Terminal
              /\ pc'[v] \notin {"claiming", "picked"} => stale'[v] = {}
              /\ pc'[v] = "picked" /\ job'[v] # None => status'[job'[v]] = "pending"
  BY <1>1, <1>2, <1>7, <1>8, <1>9 DEF RowLocks, Processing
<1>11. \A v \in Workers : \A j \in stale'[v] :
          status'[j] = "running" /\ Expired(j, reading[v])' /\ ~KeyShared(j)'
  BY <1>1, <1>6
<1>12. \A v, u \in Workers : v # u =>
          /\ stale'[v] \cap stale'[u] = {}
          /\ pc'[v] = "picked" /\ pc'[u] = "picked" /\ job'[v] = job'[u] => job'[v] = None
  BY <1>1, <1>2 DEF RowLocks
<1>13. QED
  BY <1>10, <1>11, <1>12 DEF RowLocks

\* Nothing is claimed at the start.
LEMMA RowLocksInit == Init => RowLocks
BY ConstantFacts DEF Init, RowLocks, Processing

\* Every step keeps the claims' locks, whatever the clock does.
LEMMA RowLocksNext == TypeOK /\ RowLocks /\ [Next]_vars => RowLocks'
<1> SUFFICES ASSUME TypeOK, RowLocks, [Next]_vars
             PROVE  RowLocks'
  OBVIOUS
<1> USE DEF table, asked, held, contents, worker
<1>1. ASSUME NEW w \in Workers, WorkerStep(w)
      PROVE  RowLocks'
  <2>1. ASSUME NEW r \in Clock, Renew(w, r)
        PROVE  RowLocks'
    <3>1. AfterRenewal(pc[w]) \in Processing \ {"collecting"}
      BY DEF AfterRenewal, Processing
    <3>2. status'[job[w]] \in {"running"} \cup Terminal
      BY <2>1 DEF Renew, Owns
    <3>3. \A j \in Jobs : \/ status'[j] = status[j] /\ lease'[j] = lease[j]
                          \/ j = job[w] /\ ~Locked(j)
      BY <2>1 DEF Renew, TypeOK
    <3>4. QED
      BY <2>1, <3>1, <3>2, <3>3, RowLocksOwn DEF Renew, Processing
  <2>2. CASE LoseLease(w)
    BY <2>2, RowLocksDrop DEF LoseLease
  <2>3. ASSUME NEW n \in 1 .. MaxWallets, LoadWallets(w, n)
        PROVE  RowLocks'
    BY <2>3, RowLocksOwn DEF LoadWallets, Processing, RowLocks
  <2>4. ASSUME NEW v \in Terminal, NEW e \in Errors, EndRun(w, v, e),
               pc[w] \in Processing,
               KeyShared(job[w]) \/ ~Locked(job[w])
        PROVE  RowLocks'
    <3>1. \A j \in Jobs : \/ status'[j] = status[j] /\ lease'[j] = lease[j]
                          \/ j = job[w] /\ (KeyShared(j) \/ ~Locked(j))
      BY <2>4 DEF EndRun, TypeOK
    <3>2. job[w] \in Jobs
      BY <2>4 DEF RowLocks, Processing, TypeOK
    <3>3. status'[job[w]] \in {"running"} \cup Terminal
      BY <2>4, <3>2 DEF EndRun, TypeOK
    <3>4. QED
      BY <2>4, <3>1, <3>3, RowLocksOwn DEF EndRun, Processing
  <2>5. CASE NoWallets(w)
    BY <2>5, <2>4 DEF NoWallets, Processing, Terminal, Errors
  <2>6. CASE OpenWallet(w)
    BY <2>6, RowLocksOwn DEF OpenWallet, Processing, RowLocks
  <2>7. ASSUME NEW outcome \in WalletOutcomes, CommitWallet(w, outcome)
        PROVE  RowLocks'
    BY <2>7, RowLocksOwn DEF CommitWallet, Processing, RowLocks
  <2>8. ASSUME NEW f \in BOOLEAN, FailRun(w, f)
        PROVE  RowLocks'
    <3>1. KeyShared(job[w])
      BY <2>8 DEF FailRun, KeyShared
    <3>2. QED
      BY <2>8, <2>4, <3>1 DEF FailRun, Processing, Terminal, Errors
  <2>9. CASE FinishRun(w)
    BY <2>9, <2>4, RunStatusType DEF FinishRun, Processing, Errors
  <2>10. CASE Observe(w)
    BY <2>10, RowLocksDrop DEF Observe
  <2>11. CASE FailOutsideWallet(w)
    BY <2>11, <2>4 DEF FailOutsideWallet, Terminal, Errors
  <2>12. QED
    BY <1>1, <2>1, <2>2, <2>3, <2>5, <2>6, <2>7, <2>8, <2>9, <2>10, <2>11,
       RowLocksBegin, RowLocksPick, RowLocksCommit DEF WorkerStep
<1>2. ASSUME NEW w \in Workers, Abandon(w)
      PROVE  RowLocks'
  BY <1>2, RowLocksDrop DEF Abandon
<1>3. ASSUME NEW c \in Creators, CreatorStep(c)
      PROVE  RowLocks'
  <2>1. ASSUME NEW j \in Jobs, NEW r \in Clock, InsertRun(c, j, r)
        PROVE  RowLocks'
    <3>1. \A k \in Jobs : status[k] # "absent" =>
             /\ status'[k] = status[k] /\ created'[k] = created[k]
      BY <2>1 DEF InsertRun, TypeOK
    <3>2. UNCHANGED <<started, lease, pc, job, stale, reading>>
      BY <2>1 DEF InsertRun
    <3>3. \A v \in Workers : job[v] # None /\ pc[v] # "idle" /\ pc[v] # "claiming"
                               => job[v] \in Jobs /\ status[job[v]] # "absent"
      BY DEF RowLocks, TypeOK, PCs, Terminal
    <3>4. \A v \in Workers : \A j1 \in stale[v] : j1 \in Jobs /\ status[j1] # "absent"
      BY DEF RowLocks, TypeOK
    <3>5. \A k \in Jobs : KeyShared(k)' <=> KeyShared(k)
      BY <3>2 DEF KeyShared
    <3>6. \A v \in Workers : \A k \in stale[v] :
             status'[k] = "running" /\ Expired(k, reading[v])' /\ ~KeyShared(k)'
      BY <3>1, <3>2, <3>4, <3>5 DEF RowLocks, Expired
    <3>7. ASSUME NEW v \in Workers
          PROVE  /\ pc'[v] \in {"idle", "claiming"} => job'[v] = None
                 /\ pc'[v] \in Processing \cup {"observing"} =>
                       job'[v] # None /\ status'[job'[v]] \in {"running"} \cup Terminal
                 /\ pc'[v] \notin {"claiming", "picked"} => stale'[v] = {}
                 /\ pc'[v] = "picked" /\ job'[v] # None => status'[job'[v]] = "pending"
      BY <3>1, <3>2, <3>3 DEF RowLocks, Processing
    <3>8. QED
      BY <3>2, <3>6, <3>7 DEF RowLocks
  <2>2. CASE UNCHANGED <<now, table, worker, outcomes, abandons>>
    BY <2>2, RowLocksFrame
  <2>3. QED
    BY <1>3, <2>1, <2>2 DEF CreatorStep, CreateJob, RetryFailedJob, AbortCreate
<1>4. CASE Tick
  BY <1>4, RowLocksFrame DEF Tick
<1>5. CASE UNCHANGED vars
  BY <1>5, RowLocksFrame DEF vars
<1>6. QED
  BY <1>1, <1>2, <1>3, <1>4, <1>5 DEF Next

\* An open claim's rows stay as it found them until it commits or is rolled
\* back, whatever the timing.
THEOREM RowLocksHold == Spec => []RowLocks
BY InitType, NextType, RowLocksInit, RowLocksNext, PTL DEF Spec

\* Whoever processes a run has one, and it has been started.
LEMMA ProcessedRun ==
    ASSUME TypeOK, RowLocks, NEW w \in Workers, pc[w] \in Processing
    PROVE  job[w] \in Jobs /\ status[job[w]] \in {"running"} \cup Terminal
<1>1. job[w] # None /\ status[job[w]] \in {"running"} \cup Terminal
  BY DEF RowLocks
<1>2. job[w] \in Jobs \cup {None}
  BY DEF TypeOK
<1>3. QED
  BY <1>1, <1>2

\* A run is picked only while it is pending, and none that is processed is.
LEMMA NextOneWorker ==
    ASSUME TypeOK, RowLocks, OneWorkerPerRun, [Next]_vars
    PROVE  OneWorkerPerRun'
<1> SUFFICES ASSUME NEW v \in Workers, NEW w \in Workers, v # w,
                    pc'[v] \in Processing, pc'[w] \in Processing
             PROVE  job'[v] # job'[w]
  BY DEF OneWorkerPerRun
<1>1. CASE UNCHANGED worker
  BY <1>1 DEF worker, OneWorkerPerRun
<1>2. ASSUME NEW x \in Workers, NEW y \in Workers, x # y,
             WorkerStep(x) \/ Abandon(x), pc'[x] \in Processing, pc'[y] \in Processing
      PROVE  job'[x] # job'[y]
  <2>1. pc'[y] = pc[y] /\ job'[y] = job[y]
    BY <1>2 DEF WorkerStep, BeginClaim, PickPending, CommitClaim, Renew, LoseLease,
       LoadWallets, NoWallets, OpenWallet, CommitWallet, FailRun, FailOutsideWallet,
       FinishRun, EndRun, Observe, Abandon, Drop, TypeOK
  <2>2. CASE CommitClaim(x)
    <3>1. job[x] # None /\ job'[x] = job[x]
      BY <1>2, <2>2 DEF CommitClaim, TypeOK, Processing
    <3>2. status[job[x]] = "pending"
      BY <2>2, <3>1 DEF CommitClaim, RowLocks
    <3>3. status[job[y]] \in {"running"} \cup Terminal
      BY <1>2, <2>1 DEF RowLocks
    <3>4. QED
      BY <2>1, <3>1, <3>2, <3>3 DEF Terminal
  <2>3. CASE ~CommitClaim(x)
    <3>1. pc[x] \in Processing /\ job'[x] = job[x]
      BY <1>2, <2>3 DEF WorkerStep, BeginClaim, PickPending, Renew, LoseLease,
         LoadWallets, NoWallets, OpenWallet, CommitWallet, FailRun, FailOutsideWallet,
         FinishRun, EndRun, Observe, Abandon, Drop, TypeOK, Processing
    <3>2. QED
      BY <1>2, <2>1, <3>1 DEF OneWorkerPerRun
  <2>4. QED
    BY <2>2, <2>3
<1>3. CASE \E x \in Workers : WorkerStep(x) \/ Abandon(x)
  <2>1. PICK x \in Workers : WorkerStep(x) \/ Abandon(x)
    BY <1>3
  <2>2. CASE x = v
    BY <1>2, <2>1, <2>2
  <2>3. CASE x = w
    BY <1>2, <2>1, <2>3
  <2>4. CASE x # v /\ x # w
    <3>1. pc'[v] = pc[v] /\ job'[v] = job[v] /\ pc'[w] = pc[w] /\ job'[w] = job[w]
      BY <2>1, <2>4 DEF WorkerStep, BeginClaim, PickPending, CommitClaim, Renew, LoseLease,
         LoadWallets, NoWallets, OpenWallet, CommitWallet, FailRun, FailOutsideWallet,
         FinishRun, EndRun, Observe, Abandon, Drop, TypeOK
    <3>2. QED
      BY <3>1 DEF OneWorkerPerRun
  <2>5. QED
    BY <2>2, <2>3, <2>4
<1>4. QED
  BY <1>1, <1>3 DEF Next, CreatorStep, CreateJob, RetryFailedJob, InsertRun, AbortCreate,
     Tick, vars

\* No worker processes a run at the start.
LEMMA OneWorkerInit == Init => OneWorkerPerRun
BY DEF Init, OneWorkerPerRun, Processing

\* No two workers ever process one run, whatever the clocks do.
THEOREM OneWorker == Spec => []OneWorkerPerRun
<1>1. Init => TypeOK /\ WalletsLeft /\ RowLocks /\ OneWorkerPerRun
  BY OneWorkerInit, InitType, RowLocksInit
<1>2. TypeOK /\ WalletsLeft /\ RowLocks /\ OneWorkerPerRun /\ [Next]_vars
         => TypeOK' /\ WalletsLeft' /\ RowLocks' /\ OneWorkerPerRun'
  BY NextType, RowLocksNext, NextOneWorker
<1>3. QED
  BY <1>1, <1>2, PTL DEF Spec

-----------------------------------------------------------------------------
(* Creation.                                                               *)

\* No request is under way at the start.
LEMMA CreationInit == Init => CreationLocks
BY ConstantFacts DEF Init, CreationLocks

\* Runs become active by InsertRun only; other steps of a worker may end them.
LEMMA NoRevival ==
    ASSUME TypeOK, RowLocks, NEW w \in Workers, WorkerStep(w)
    PROVE  /\ \A j \in Jobs : ActiveRun(j)' => ActiveRun(j)
           /\ UNCHANGED asked
<1> USE DEF ActiveRun, table, asked, held
<1>1. CASE CommitClaim(w)
  <2>1. \A j \in stale[w] : j \in Jobs /\ status[j] = "running"
    BY DEF RowLocks, TypeOK
  <2>2. job[w] # None => job[w] \in Jobs /\ status[job[w]] = "pending"
    BY <1>1 DEF CommitClaim, RowLocks, TypeOK
  <2>3. QED
    BY <1>1, <2>1, <2>2, ConstantFacts DEF CommitClaim, Active
<1>2. ASSUME NEW v \in Terminal, NEW e \in Errors, EndRun(w, v, e)
      PROVE  /\ \A j \in Jobs : ActiveRun(j)' => ActiveRun(j)
             /\ UNCHANGED asked
  BY <1>2 DEF EndRun, Terminal, Active, TypeOK
<1>3. CASE NoWallets(w)
  BY <1>3, <1>2 DEF NoWallets, Terminal, Errors
<1>4. ASSUME NEW f \in BOOLEAN, FailRun(w, f)
      PROVE  /\ \A j \in Jobs : ActiveRun(j)' => ActiveRun(j)
             /\ UNCHANGED asked
  BY <1>4, <1>2 DEF FailRun, Terminal, Errors
<1>5. CASE FinishRun(w)
  BY <1>5, <1>2, RunStatusType DEF FinishRun, Errors
<1>6. CASE FailOutsideWallet(w)
  BY <1>6, <1>2 DEF FailOutsideWallet, Terminal, Errors
<1>7. QED
  BY <1>1, <1>3, <1>4, <1>5, <1>6 DEF WorkerStep, BeginClaim, PickPending, Renew, LoseLease,
     LoadWallets, OpenWallet, CommitWallet, Observe

\* Requests stay and runs only end: what the checks found still holds.
LEMMA CreationFrame ==
    ASSUME TypeOK, CreationLocks, UNCHANGED <<req, asked>>,
           \A j \in Jobs : ActiveRun(j)' => ActiveRun(j)
    PROVE  CreationLocks'
BY DEF CreationLocks, CheckHolds, ActiveScopeJob, ActiveRetry, asked

\* Equal keys are equal scopes or equal parents.
LEMMA KeyFacts ==
    \A k, l, t, u, p, q :
        LockKey(k, t, p) = LockKey(l, u, q) =>
            \/ p = None /\ q = None /\ k = l /\ t = u
            \/ p # None /\ q # None /\ p = q
BY DEF LockKey

\* Inserting a run under a lock makes no other lock holder's check stale.
LEMMA CreationInsert ==
    ASSUME TypeOK, CreationLocks, NEW c \in Creators, NEW j \in Jobs, NEW r \in Clock,
           InsertRun(c, j, r)
    PROVE  CreationLocks'
<1>1. req' = [req EXCEPT ![c] = None] /\ req[c] # None
  BY DEF InsertRun
<1>2. \A d \in Creators : req'[d] # None => d # c /\ req'[d] = req[d]
  BY <1>1 DEF TypeOK
<1>3. /\ status'[j] = "pending" /\ kind'[j] = req[c].kind
      /\ target'[j] = req[c].target /\ parent'[j] = req[c].parent
  BY DEF InsertRun, TypeOK
<1>4. \A k \in Jobs : k # j => /\ status'[k] = status[k] /\ kind'[k] = kind[k]
                               /\ target'[k] = target[k] /\ parent'[k] = parent[k]
  BY DEF InsertRun, TypeOK
<1>5. \A d, e \in Creators :
         req'[d] # None /\ req'[e] # None /\ KeyOf(req'[d]) = KeyOf(req'[e]) => d = e
  BY <1>2 DEF CreationLocks
<1>6. ASSUME NEW d \in Creators, req'[d] # None
      PROVE  CheckHolds(req[d])'
  <2>1. d # c /\ req'[d] = req[d] /\ req[d] # None /\ KeyOf(req[d]) # KeyOf(req[c])
    BY <1>1, <1>2, <1>6 DEF CreationLocks
  <2>2. CASE req[d].parent = None
    <3>1. SUFFICES ASSUME req[d].kind = "collect",
                          NEW k \in Jobs, ActiveRun(k)', kind'[k] = "collect",
                          target'[k] = req[d].target
                   PROVE  FALSE
      BY <2>1, <2>2 DEF ActiveScopeJob, CheckHolds
    <3>2. CASE k = j
      <4>1. req[c].parent = None
        BY <1>1, <1>3, <3>1, <3>2 DEF CreationLocks, CheckHolds
      <4>2. KeyOf(req[c]) = KeyOf(req[d])
        BY <4>1, <2>2, <1>3, <3>1, <3>2 DEF KeyOf, LockKey
      <4>3. QED
        BY <4>2, <2>1
    <3>3. CASE k # j
      BY <3>1, <3>3, <1>4, <2>1, <2>2 DEF CreationLocks, CheckHolds, ActiveScopeJob, ActiveRun
    <3>4. QED
      BY <3>2, <3>3
  <2>3. CASE req[d].parent # None
    <3>1. req[d].kind = "failed_chains" /\ ~ActiveRetry(req[d].parent)
      BY <2>1, <2>3 DEF CreationLocks, CheckHolds
    <3>2. SUFFICES ASSUME NEW k \in Jobs, ActiveRun(k)', parent'[k] = req[d].parent
                   PROVE  FALSE
      BY <2>1, <2>3, <3>1 DEF ActiveRetry, CheckHolds
    <3>3. CASE k = j
      <4>1. KeyOf(req[c]) = KeyOf(req[d])
        BY <1>3, <2>3, <3>2, <3>3 DEF KeyOf, LockKey
      <4>2. QED
        BY <4>1, <2>1
    <3>4. CASE k # j
      BY <3>1, <3>2, <3>4, <1>4 DEF ActiveRetry, ActiveRun
    <3>5. QED
      BY <3>3, <3>4
  <2>4. QED
    BY <2>1, <2>2, <2>3
<1>7. \A k \in Jobs : parent'[k] # None => kind'[k] = "failed_chains"
  BY <1>1, <1>3, <1>4 DEF CreationLocks, CheckHolds
<1>8. QED
  BY <1>5, <1>6, <1>7 DEF CreationLocks

\* A creator takes a lock nobody has, after a check.
LEMMA CreationLock ==
    ASSUME TypeOK, CreationLocks, NEW c \in Creators, NEW q \in Request,
           req[c] = None, LockFree(KeyOf(q)), UNCHANGED table,
           req' = [req EXCEPT ![c] = q],
           CheckHolds(q)
    PROVE  CreationLocks'
<1>1. \A d \in Creators : req'[d] = IF d = c THEN q ELSE req[d]
  BY DEF TypeOK
<1>2. \A d \in Creators : d # c /\ req'[d] # None => KeyOf(req'[d]) # KeyOf(q)
  BY <1>1 DEF LockFree
<1>3. \A d, e \in Creators :
         req'[d] # None /\ req'[e] # None /\ KeyOf(req'[d]) = KeyOf(req'[e]) => d = e
  BY <1>1, <1>2 DEF CreationLocks
<1>4. UNCHANGED <<kind, target, parent, status>>
  BY DEF table, asked, held
<1>5. ASSUME NEW d \in Creators, req'[d] # None
      PROVE  CheckHolds(req[d])'
  BY <1>1, <1>4, <1>5 DEF CreationLocks, CheckHolds, ActiveScopeJob, ActiveRetry, ActiveRun
<1>6. QED
  BY <1>3, <1>4, <1>5 DEF CreationLocks

\* Every step keeps the advisory locks exclusive and their holders' checks true.
LEMMA CreationNext == TypeOK /\ RowLocks /\ CreationLocks /\ [Next]_vars => CreationLocks'
<1> SUFFICES ASSUME TypeOK, RowLocks, CreationLocks, [Next]_vars
             PROVE  CreationLocks'
  OBVIOUS
<1>1. ASSUME NEW w \in Workers, WorkerStep(w)
      PROVE  CreationLocks'
  <2>1. UNCHANGED req
    BY <1>1 DEF WorkerStep, BeginClaim, PickPending, CommitClaim, Renew, LoseLease,
       LoadWallets, NoWallets, OpenWallet, CommitWallet, FailRun, FailOutsideWallet,
       FinishRun, EndRun, Observe
  <2>2. QED
    BY <1>1, <2>1, NoRevival, CreationFrame
<1>2. CASE UNCHANGED <<table, req>>
  BY <1>2, CreationFrame DEF table, held, ActiveRun
<1>3. ASSUME NEW c \in Creators, CreatorStep(c)
      PROVE  CreationLocks'
  <2>1. ASSUME NEW k \in Kinds, NEW t \in Targets, CreateJob(c, k, t)
        PROVE  CreationLocks'
    <3> DEFINE q == [kind |-> k, target |-> t, parent |-> None]
    <3>1. q \in Request /\ q.kind = k /\ q.target = t /\ q.parent = None
      BY DEF Request
    <3>2. LockFree(KeyOf(q)) /\ req[c] = None /\ UNCHANGED table
      BY <2>1, <3>1 DEF CreateJob, KeyOf
    <3>3. req' = [req EXCEPT ![c] = q] /\ CheckHolds(q)
      BY <2>1, <3>1 DEF CreateJob, CheckHolds
    <3> HIDE DEF q
    <3>4. QED
      BY <3>1, <3>2, <3>3, CreationLock
  <2>2. ASSUME NEW p \in Jobs, RetryFailedJob(c, p)
        PROVE  CreationLocks'
    <3> DEFINE q == [kind |-> "failed_chains", target |-> target[p], parent |-> p]
    <3>1. q \in Request /\ q.kind = "failed_chains" /\ q.target = target[p] /\ q.parent = p
      BY DEF Request, Kinds, TypeOK
    <3>2. LockFree(KeyOf(q)) /\ req[c] = None /\ UNCHANGED table
      BY <2>2, <3>1 DEF RetryFailedJob, KeyOf
    <3>3. req' = [req EXCEPT ![c] = q] /\ CheckHolds(q)
      BY <2>2, <3>1, ConstantFacts DEF RetryFailedJob, CheckHolds
    <3> HIDE DEF q
    <3>4. QED
      BY <3>1, <3>2, <3>3, CreationLock
  <2>3. CASE AbortCreate(c)
    BY <2>3 DEF AbortCreate, CreationLocks, CheckHolds, ActiveScopeJob, ActiveRetry, ActiveRun,
       table, asked, held, TypeOK
  <2>4. QED
    BY <1>3, <2>1, <2>2, <2>3, CreationInsert DEF CreatorStep
<1>4. QED
  BY <1>1, <1>2, <1>3 DEF Next, Abandon, Tick, vars

\* What makes OneActivePerScope and OneActiveRetry inductive.
Creation == CreationLocks /\ OneActivePerScope /\ OneActiveRetry

\* The runs an older release left have different scopes and no parents.
LEMMA InitOneActive == Init => OneActivePerScope /\ OneActiveRetry
BY ConstantFacts DEF Init, OneActivePerScope, OneActiveRetry, ActiveRun, Active

\* Only an insertion can add an active run, and its check still holds.
LEMMA NextOneActive ==
    ASSUME TypeOK, RowLocks, Creation, [Next]_vars
    PROVE  OneActivePerScope' /\ OneActiveRetry'
<1>1. ASSUME UNCHANGED asked, \A j \in Jobs : ActiveRun(j)' => ActiveRun(j)
      PROVE  OneActivePerScope' /\ OneActiveRetry'
  BY <1>1 DEF Creation, OneActivePerScope, OneActiveRetry, asked
<1>2. ASSUME NEW c \in Creators, NEW i \in Jobs, NEW r \in Clock, InsertRun(c, i, r)
      PROVE  OneActivePerScope' /\ OneActiveRetry'
  <2>1. /\ kind'[i] = req[c].kind /\ target'[i] = req[c].target /\ parent'[i] = req[c].parent
        /\ req[c] # None /\ CheckHolds(req[c])
    BY <1>2 DEF InsertRun, TypeOK, Creation, CreationLocks
  <2>2. \A k \in Jobs : k # i => /\ ActiveRun(k)' <=> ActiveRun(k)
                                 /\ kind'[k] = kind[k]
                                 /\ target'[k] = target[k] /\ parent'[k] = parent[k]
    BY <1>2 DEF InsertRun, TypeOK, ActiveRun
  <2>3. ASSUME NEW k \in Jobs, k # i, ActiveRun(k)', kind'[k] = "collect",
               kind'[i] = "collect", target'[k] = target'[i]
        PROVE  FALSE
    BY <2>1, <2>2, <2>3 DEF CheckHolds, ActiveScopeJob
  <2>4. ASSUME NEW k \in Jobs, k # i, ActiveRun(k)', parent'[k] = parent'[i],
               parent'[i] # None
        PROVE  FALSE
    BY <2>1, <2>2, <2>4 DEF CheckHolds, ActiveRetry
  <2>5. OneActivePerScope'
    BY <2>2, <2>3 DEF OneActivePerScope, Creation
  <2>6. OneActiveRetry'
    BY <2>2, <2>4 DEF OneActiveRetry, Creation
  <2>7. QED
    BY <2>5, <2>6
<1>3. ASSUME NEW w \in Workers, WorkerStep(w)
      PROVE  OneActivePerScope' /\ OneActiveRetry'
  BY <1>1, <1>3, NoRevival
<1>4. CASE UNCHANGED table
  BY <1>1, <1>4 DEF table, asked, held, ActiveRun
<1>5. QED
  BY <1>2, <1>3, <1>4 DEF Next, Abandon, Tick, CreatorStep, CreateJob, RetryFailedJob,
     AbortCreate, vars

\* The locks and the checks hold in every reachable state.
LEMMA CreationInvariant == Spec => [](TypeOK /\ RowLocks /\ Creation)
<1>1. Init => TypeOK /\ WalletsLeft /\ RowLocks /\ Creation
  BY InitType, RowLocksInit, CreationInit, InitOneActive DEF Creation
<1>2. TypeOK /\ WalletsLeft /\ RowLocks /\ Creation /\ [Next]_vars
        => TypeOK' /\ WalletsLeft' /\ RowLocks' /\ Creation'
  BY NextType, RowLocksNext, CreationNext, NextOneActive DEF Creation
<1>3. QED
  BY <1>1, <1>2, PTL DEF Spec

\* However API calls, scheduler ticks and workers interleave, and whatever the
\* clocks do, a scope has one active run and a parent one active retry.
THEOREM OneActive == Spec => []OneActivePerScope /\ []OneActiveRetry
BY CreationInvariant, PTL DEF Creation

-----------------------------------------------------------------------------
(* Leases.                                                                 *)

\* Whatever ends a run releases it, and whatever releases it ends it.
LEMMA NextLease ==
    ASSUME TypeOK, RowLocks, LeaseIffRunning, [Next]_vars
    PROVE  LeaseIffRunning'
<1> USE DEF table, asked, held, LeaseUntil
<1>1. ASSUME UNCHANGED <<status, owner, lease>>
      PROVE  LeaseIffRunning'
  BY <1>1 DEF LeaseIffRunning
<1>2. ASSUME NEW w \in Workers, CommitClaim(w)
      PROVE  LeaseIffRunning'
  <2> SUFFICES ASSUME NEW j \in Jobs
               PROVE  IF status'[j] = "running"
                      THEN \/ owner'[j] # None /\ lease'[j] # NoTime
                           \/ j \in Legacy /\ owner'[j] = None /\ lease'[j] = NoTime
                      ELSE owner'[j] = None /\ lease'[j] = NoTime
    BY DEF LeaseIffRunning
  <2>1. CASE j \in stale[w]
    BY <1>2, <2>1 DEF CommitClaim
  <2>2. CASE j \notin stale[w] /\ j = job[w]
    <3>1. status'[j] = "running" /\ owner'[j] = w /\ lease'[j] = reading[w] + Lease
      BY <1>2, <2>2 DEF CommitClaim
    <3>2. reading[w] + Lease # NoTime /\ w # None
      BY ConstantFacts DEF TypeOK, NoTime
    <3>3. QED
      BY <3>1, <3>2
  <2>3. CASE j \notin stale[w] /\ j # job[w]
    BY <1>2, <2>3 DEF CommitClaim, LeaseIffRunning
  <2>4. QED
    BY <2>1, <2>2, <2>3
<1>3. ASSUME NEW w \in Workers, NEW r \in Clock, Renew(w, r)
      PROVE  LeaseIffRunning'
  <2>1. r + Lease # NoTime
    BY ClockType, ConstantFacts DEF NoTime
  <2>2. owner[job[w]] # None /\ status[job[w]] = "running"
    BY <1>3, ConstantFacts DEF Renew, Owns
  <2>3. /\ UNCHANGED <<status, owner>>
        /\ \A j \in Jobs : lease'[j] = IF j = job[w] THEN r + Lease ELSE lease[j]
    BY <1>3 DEF Renew, TypeOK
  <2>4. QED
    BY <2>1, <2>2, <2>3 DEF LeaseIffRunning
<1>4. ASSUME NEW w \in Workers, NEW verdict \in Terminal, NEW reason, EndRun(w, verdict, reason)
      PROVE  LeaseIffRunning'
  BY <1>4 DEF EndRun, LeaseIffRunning, TypeOK, Terminal
<1>5. ASSUME NEW c \in Creators, NEW j \in Jobs, NEW r, InsertRun(c, j, r)
      PROVE  LeaseIffRunning'
  BY <1>5 DEF InsertRun, LeaseIffRunning, TypeOK
<1>6. ASSUME NEW w \in Workers, WorkerStep(w) \/ Abandon(w)
      PROVE  LeaseIffRunning'
  BY <1>1, <1>2, <1>3, <1>4, <1>6, RunStatusType DEF WorkerStep, Abandon, BeginClaim,
     PickPending, LoseLease, LoadWallets, NoWallets, OpenWallet, CommitWallet, FailRun,
     FailOutsideWallet, FinishRun, Observe, Terminal
<1>7. ASSUME NEW c \in Creators, CreatorStep(c)
      PROVE  LeaseIffRunning'
  BY <1>1, <1>5, <1>7 DEF CreatorStep, CreateJob, RetryFailedJob, AbortCreate
<1>8. CASE Tick \/ UNCHANGED vars
  BY <1>1, <1>8 DEF Tick, vars
<1>9. QED
  BY <1>6, <1>7, <1>8 DEF Next

\* At the start only an old release's runs are running, without a lease.
LEMMA LeaseInit == Init => LeaseIffRunning
BY DEF Init, LeaseIffRunning

\* A run is held under a lease exactly while it runs, whatever the timing.
THEOREM LeasesMatchStatus == Spec => []LeaseIffRunning
BY LeaseInit, NextLease, TypeCorrect, RowLocksHold, PTL DEF Spec

-----------------------------------------------------------------------------
(* Ownership, under Timely.                                                *)

\* What a worker's claim to its run rests on.
Owned == PromptWorkers /\ Ownership

\* No worker processes anything at the start.
LEMMA InitOwned == Init => Owned
BY DEF Init, Owned, PromptWorkers, Ownership

\* A worker's own step changes its own clock values only.
LEMMA NextPrompt == TypeOK /\ PromptWorkers /\ [Next]_vars => PromptWorkers'
<1> SUFFICES ASSUME TypeOK, PromptWorkers, [Next]_vars
             PROVE  PromptWorkers'
  OBVIOUS
<1> USE DEF PromptWorkers
<1>1. CASE UNCHANGED <<now, worker>>
  BY <1>1 DEF worker
<1>2. CASE Tick
  BY <1>2, ConstantFacts DEF Tick, worker, TypeOK
<1>3. ASSUME NEW w \in Workers, WorkerStep(w) \/ Abandon(w)
      PROVE  PromptWorkers'
  <2>1. ASSUME NEW r \in Clock, BeginClaim(w, r)
        PROVE  PromptWorkers'
    BY <2>1, ClockType, ConstantFacts DEF BeginClaim, TypeOK
  <2>2. CASE PickPending(w)
    BY <2>2 DEF PickPending, TypeOK
  <2>3. CASE CommitClaim(w)
    BY <2>3 DEF CommitClaim, TypeOK
  <2>4. ASSUME NEW r \in Clock, Renew(w, r)
        PROVE  PromptWorkers'
    BY <2>4, ConstantFacts DEF Renew, AfterRenewal, TypeOK
  <2>5. CASE Drop(w) /\ now' = now
    BY <2>5 DEF Drop, TypeOK
  <2>6. ASSUME NEW n \in 1 .. MaxWallets, LoadWallets(w, n)
        PROVE  PromptWorkers'
    BY <2>6 DEF LoadWallets, TypeOK
  <2>7. ASSUME NEW v, NEW e, EndRun(w, v, e)
        PROVE  PromptWorkers'
    BY <2>7 DEF EndRun, TypeOK
  <2>8. CASE OpenWallet(w)
    BY <2>8 DEF OpenWallet, TypeOK
  <2>9. ASSUME NEW outcome \in WalletOutcomes, CommitWallet(w, outcome)
        PROVE  PromptWorkers'
    BY <2>9 DEF CommitWallet, TypeOK
  <2>10. QED
    BY <1>3, <2>1, <2>2, <2>3, <2>4, <2>5, <2>6, <2>7, <2>8, <2>9
       DEF WorkerStep, LoseLease, NoWallets, FailRun, FailOutsideWallet, FinishRun, Observe,
       Abandon
<1>4. QED
  BY <1>1, <1>2, <1>3 DEF Next, CreatorStep, CreateJob, RetryFailedJob, InsertRun,
     AbortCreate, vars, worker

\* No open claim, on whatever clock, has locked a run whose owner is about to
\* write to it: the lease is longer than the owner's stall and both skews.
LEMMA NeverStale ==
    ASSUME Timely, TypeOK, RowLocks, Owned,
           NEW w \in Workers, NEW v \in Workers,
           pc[w] \in {"claimed", "loading", "between", "writing", "collecting"},
           job[w] \in stale[v]
    PROVE  FALSE
<1>1. pc[v] \in {"claiming", "picked"} /\ Expired(job[w], reading[v]) /\ ~KeyShared(job[w])
  BY DEF RowLocks, TypeOK
<1>2. CASE pc[w] = "collecting"
  BY <1>1, <1>2 DEF KeyShared
<1>3. CASE pc[w] # "collecting"
  <2>1. lease[job[w]] >= since[w] - MaxSkew + Lease /\ now <= since[w] + MaxStall
    BY <1>3 DEF Owned, Ownership, PromptWorkers
  <2>2. reading[v] <= now + MaxSkew
    BY <1>1, ConstantFacts DEF Owned, PromptWorkers, TypeOK
  <2>3. /\ now \in Nat /\ since[w] \in Nat /\ reading[v] \in Nat
        /\ job[w] \in Jobs /\ lease[job[w]] \in Nat \cup {NoTime}
    BY DEF TypeOK
  <2>4. lease[job[w]] <= reading[v]
    BY <1>1, <2>1, <2>3, ConstantFacts DEF Expired, NoTime
  <2>5. QED
    BY <2>1, <2>2, <2>3, <2>4, ConstantFacts DEF Timely, NoTime
<1>4. QED
  BY <1>2, <1>3

\* Nobody else's step can change the run a worker owns while it is in a step
\* that relies on owning it: a claim only what it has locked, another worker only
\* its own run.
LEMMA OwnedRunIsStable ==
    ASSUME Timely, TypeOK, RowLocks, Owned, NEW w \in Workers, NEW v \in Workers, v # w,
           pc[w] \in {"claimed", "loading", "between", "writing", "collecting"},
           WorkerStep(v) \/ Abandon(v)
    PROVE  /\ Owns(w, job[w])' /\ lease'[job[w]] = lease[job[w]]
           /\ pc'[w] = pc[w] /\ job'[w] = job[w] /\ since'[w] = since[w]
<1> USE DEF table, asked, held
<1>1. Owns(w, job[w]) /\ job[w] \in Jobs
  BY DEF Owned, Ownership, RowLocks, Processing, TypeOK
<1>2. pc'[w] = pc[w] /\ job'[w] = job[w] /\ since'[w] = since[w]
  BY DEF WorkerStep, BeginClaim, PickPending, CommitClaim, Renew, LoseLease, LoadWallets,
     NoWallets, OpenWallet, CommitWallet, FailRun, FailOutsideWallet, FinishRun, EndRun, Observe, Abandon,
     Drop, TypeOK
<1>3. ASSUME UNCHANGED <<status, owner, lease>>
      PROVE  Owns(w, job[w])' /\ lease'[job[w]] = lease[job[w]]
  BY <1>1, <1>2, <1>3 DEF Owns
<1>4. CASE CommitClaim(v)
  <2>1. job[w] \notin stale[v]
    BY NeverStale
  <2>2. job[w] # job[v]
    BY <1>1, <1>4, ConstantFacts DEF CommitClaim, RowLocks, Owns
  <2>3. QED
    BY <1>1, <1>2, <1>4, <2>1, <2>2 DEF CommitClaim, Owns
<1>5. ASSUME NEW r \in Clock, Renew(v, r)
      PROVE  Owns(w, job[w])' /\ lease'[job[w]] = lease[job[w]]
  <2>1. job[v] # job[w]
    BY <1>1, <1>5 DEF Renew, Owns
  <2>2. QED
    BY <1>1, <1>2, <1>5, <2>1 DEF Renew, Owns, TypeOK
<1>6. ASSUME NEW verdict, NEW reason, EndRun(v, verdict, reason), pc[v] \in Processing
      PROVE  Owns(w, job[w])' /\ lease'[job[w]] = lease[job[w]]
  <2>1. Owns(v, job[v]) \/ Taken(job[v])
    BY <1>6 DEF Owned, Ownership, Processing
  <2>2. job[v] # job[w]
    BY <1>1, <2>1 DEF Owns, Taken
  <2>3. QED
    BY <1>1, <1>2, <1>6, <2>2 DEF EndRun, Owns, TypeOK
<1>7. QED
  BY <1>2, <1>3, <1>4, <1>5, <1>6 DEF WorkerStep, Abandon, BeginClaim, PickPending, LoseLease,
     Processing,
     LoadWallets, NoWallets, OpenWallet, CommitWallet, FailRun, FailOutsideWallet,
     FinishRun, Observe

\* The inductive invariant behind the theorems on ownership.
Inv ==
    /\ TypeOK
    /\ WalletsLeft
    /\ RowLocks
    /\ LeaseIffRunning
    /\ OneWorkerPerRun
    /\ Owned

\* To the worker that processes a run, others can only do one thing: take it.
LEMMA OthersOnlyTake ==
    ASSUME TypeOK, RowLocks, OneWorkerPerRun, NEW w \in Workers, NEW v \in Workers, v # w,
           pc[w] \in Processing, Owns(w, job[w]) \/ Taken(job[w]),
           WorkerStep(v) \/ Abandon(v), job'[w] = job[w]
    PROVE  Owns(w, job[w])' \/ Taken(job[w])'
<1> USE DEF table, asked, held
<1>1. /\ job[w] \in Jobs
      /\ status[job[w]] = "running" \/ status[job[w]] = "failed"
  BY ProcessedRun DEF Owns, Taken
<1>2. ASSUME UNCHANGED <<status[job[w]], owner[job[w]], error[job[w]]>>
      PROVE  Owns(w, job[w])' \/ Taken(job[w])'
  BY <1>2 DEF Owns, Taken
<1>3. CASE CommitClaim(v)
  <2>1. job[w] # job[v]
    BY <1>1, <1>3, ConstantFacts DEF CommitClaim, RowLocks
  <2>2. CASE job[w] \in stale[v]
    BY <1>1, <1>3, <2>2 DEF CommitClaim, Taken
  <2>3. CASE job[w] \notin stale[v]
    <3>1. UNCHANGED <<status[job[w]], owner[job[w]], error[job[w]]>>
      BY <1>1, <1>3, <2>1, <2>3 DEF CommitClaim
    <3>2. QED
      BY <1>2, <3>1
  <2>4. QED
    BY <2>2, <2>3
<1>4. ASSUME NEW verdict, NEW reason, EndRun(v, verdict, reason), pc[v] \in Processing
      PROVE  Owns(w, job[w])' \/ Taken(job[w])'
  <2>1. job[v] # job[w]
    BY <1>4 DEF OneWorkerPerRun
  <2>2. UNCHANGED <<status[job[w]], owner[job[w]], error[job[w]]>>
    BY <1>1, <1>4, <2>1 DEF EndRun, TypeOK
  <2>3. QED
    BY <1>2, <2>2
<1>5. CASE UNCHANGED <<status, owner, error>>
  BY <1>2, <1>5
<1>6. QED
  BY <1>3, <1>4, <1>5 DEF WorkerStep, Abandon, BeginClaim, PickPending, Renew, LoseLease,
     LoadWallets, NoWallets, OpenWallet, CommitWallet, FailRun, FailOutsideWallet, FinishRun,
     Observe, Processing

\* All columns of a run, and what hangs below it.
Row(j) == <<Record(j), error[j]>>

\* What a step may do to a run that has been started.
Kept(j) == status'[j] = status[j] /\ owner'[j] = owner[j]
Ends(j) == status[j] = "running" /\ status'[j] \in Terminal
Final(j) == status[j] \in Terminal =>
    /\ UNCHANGED Record(j)
    /\ error'[j] # error[j] =>
          /\ Taken(j) /\ error'[j] = "exception"
          /\ \E w \in Workers : pc[w] = "collected" /\ job[w] = j

\* A run once started keeps its owner or ends; once ended, at most its error is
\* replaced, by the worker a recovery has taken it from.
LEMMA StartedRun ==
    ASSUME Timely, Inv, NEW v \in Workers, WorkerStep(v) \/ Abandon(v),
           NEW j \in Jobs, status[j] \in {"running"} \cup Terminal
    PROVE  (Kept(j) \/ Ends(j)) /\ Final(j)
<1> USE DEF Inv, table, asked, held, contents
<1>1. "running" \notin Terminal /\ "pending" \notin {"running"} \cup Terminal
         /\ "failed" \in Terminal
  BY DEF Terminal
<1>2. ASSUME UNCHANGED table
      PROVE  (Kept(j) \/ Ends(j)) /\ Final(j)
  BY <1>2 DEF Kept, Final, Record
<1>3. ASSUME status[j] = "running", Kept(j) \/ status'[j] \in Terminal
      PROVE  (Kept(j) \/ Ends(j)) /\ Final(j)
  BY <1>1, <1>3 DEF Ends, Final
<1>4. ASSUME UNCHANGED asked, UNCHANGED <<status[j], started[j], owner[j], lease[j], error[j]>>,
             UNCHANGED <<wallets[j], failedChain[j]>>
      PROVE  (Kept(j) \/ Ends(j)) /\ Final(j)
  BY <1>4 DEF Kept, Final, Record
<1>5. CASE CommitClaim(v)
  <2>1. CASE j \in stale[v]
    <3>1. status[j] = "running" /\ status'[j] = "failed"
      BY <1>5, <2>1 DEF RowLocks, CommitClaim
    <3>2. QED
      BY <3>1, <1>1, <1>3
  <2>2. CASE j \notin stale[v]
    <3>1. j # job[v]
      BY <1>1, <1>5, ConstantFacts DEF CommitClaim, RowLocks
    <3>2. UNCHANGED <<status[j], started[j], owner[j], lease[j], error[j]>>
      BY <1>5, <2>2, <3>1 DEF CommitClaim
    <3>3. UNCHANGED asked /\ UNCHANGED <<wallets[j], failedChain[j]>>
      BY <1>5 DEF CommitClaim
    <3>4. QED
      BY <3>2, <3>3, <1>4
  <2>3. QED
    BY <2>1, <2>2
<1>6. ASSUME NEW r \in Clock, Renew(v, r)
      PROVE  (Kept(j) \/ Ends(j)) /\ Final(j)
  <2>1. Kept(j)
    BY <1>6 DEF Renew, Kept
  <2>2. CASE j = job[v]
    BY <1>6, <2>1, <2>2, <1>3 DEF Renew, Owns
  <2>3. CASE j # job[v]
    <3>1. lease'[j] = lease[j]
      BY <1>6, <2>3 DEF Renew, TypeOK
    <3>2. QED
      BY <1>6, <3>1, <1>4 DEF Renew
  <2>4. QED
    BY <2>2, <2>3
<1>7. ASSUME NEW verdict \in Terminal, NEW reason, EndRun(v, verdict, reason),
             pc[v] \in {"loading", "between", "collecting"},
             j # job[v] => UNCHANGED <<wallets[j], failedChain[j]>>
      PROVE  (Kept(j) \/ Ends(j)) /\ Final(j)
  <2>1. CASE j = job[v]
    <3>1. status[j] = "running"
      BY <1>7, <2>1 DEF Owned, Ownership, Owns
    <3>2. status'[j] = verdict
      BY <1>7, <2>1 DEF EndRun, TypeOK
    <3>3. QED
      BY <3>1, <3>2, <1>3
  <2>2. CASE j # job[v]
    <3>1. UNCHANGED <<status[j], started[j], owner[j], lease[j], error[j]>>
      BY <1>7, <2>2 DEF EndRun, TypeOK
    <3>2. UNCHANGED asked
      BY <1>7 DEF EndRun
    <3>3. QED
      BY <1>7, <2>2, <3>1, <3>2, <1>4
  <2>3. QED
    BY <2>1, <2>2
<1>8. CASE NoWallets(v)
  BY <1>8, <1>7, <1>1 DEF NoWallets
<1>9. ASSUME NEW f \in BOOLEAN, FailRun(v, f)
      PROVE  (Kept(j) \/ Ends(j)) /\ Final(j)
  <2>1. j # job[v] => UNCHANGED <<wallets[j], failedChain[j]>>
    BY <1>9 DEF FailRun, TypeOK
  <2>2. QED
    BY <1>9, <1>7, <1>1, <2>1 DEF FailRun
<1>10. CASE FinishRun(v)
  BY <1>10, <1>7, RunStatusType DEF FinishRun
<1>11. ASSUME NEW outcome \in WalletOutcomes, CommitWallet(v, outcome)
       PROVE  (Kept(j) \/ Ends(j)) /\ Final(j)
  <2>1. Kept(j)
    BY <1>11 DEF CommitWallet, Kept
  <2>2. CASE j = job[v]
    BY <1>11, <2>1, <2>2, <1>3 DEF CommitWallet, Owned, Ownership, Owns
  <2>3. CASE j # job[v]
    <3>1. UNCHANGED <<wallets[j], failedChain[j]>>
      BY <1>11, <2>3 DEF CommitWallet, TypeOK
    <3>2. QED
      BY <1>11, <3>1, <1>4 DEF CommitWallet
  <2>4. QED
    BY <2>2, <2>3
<1>12. CASE FailOutsideWallet(v)
  <2>1. CASE j # job[v]
    <3>1. UNCHANGED <<status[j], started[j], owner[j], lease[j], error[j]>>
      BY <1>12, <2>1 DEF FailOutsideWallet, EndRun, TypeOK
    <3>2. QED
      BY <1>12, <3>1, <1>4 DEF FailOutsideWallet, EndRun
  <2>2. CASE j = job[v] /\ Owns(v, j)
    <3>1. status'[j] = "failed"
      BY <1>12, <2>2 DEF FailOutsideWallet, EndRun, TypeOK
    <3>2. QED
      BY <2>2, <3>1, <1>1, <1>3 DEF Owns
  <2>3. CASE j = job[v] /\ ~Owns(v, j)
    <3>1. pc[v] = "collected" /\ Taken(j)
      BY <1>12, <2>3 DEF FailOutsideWallet, Owned, Ownership, Processing
    <3>2. owner[j] = None /\ lease[j] = NoTime
      BY <3>1 DEF Taken, LeaseIffRunning
    <3>3. /\ status'[j] = "failed" /\ owner'[j] = None /\ lease'[j] = NoTime
          /\ error'[j] = "exception"
          /\ UNCHANGED <<asked, started, contents>>
      BY <1>12, <2>3 DEF FailOutsideWallet, EndRun, TypeOK
    <3>4. Kept(j) /\ UNCHANGED Record(j)
      BY <3>1, <3>2, <3>3 DEF Kept, Record, Taken
    <3>5. QED
      BY <2>3, <3>1, <3>3, <3>4 DEF Final
  <2>4. QED
    BY <2>1, <2>2, <2>3
<1>13. QED
  BY <1>2, <1>5, <1>6, <1>8, <1>9, <1>10, <1>11, <1>12 DEF WorkerStep, Abandon, BeginClaim,
     PickPending, LoseLease, LoadWallets, OpenWallet, Observe

\* Creators and the clock leave every run that has been started as it is.
LEMMA StartedRunOthers ==
    ASSUME TypeOK, NEW j \in Jobs, status[j] \in {"running"} \cup Terminal,
           \/ \E c \in Creators : CreatorStep(c)
           \/ Tick
           \/ UNCHANGED vars
    PROVE  UNCHANGED <<Row(j), worker>>
<1> USE DEF table, asked, held, contents, Row, Record
<1>1. ASSUME NEW c \in Creators, NEW i \in Jobs, NEW r \in Clock, InsertRun(c, i, r)
      PROVE  UNCHANGED <<Row(j), worker>>
  <2>1. i # j
    BY <1>1 DEF InsertRun, Terminal
  <2>2. QED
    BY <1>1, <2>1 DEF InsertRun, TypeOK
<1>2. QED
  BY <1>1 DEF CreatorStep, CreateJob, RetryFailedJob, AbortCreate, Tick, vars

\* Every step of the queue keeps live workers in possession of their runs.
LEMMA NextOwnership ==
    ASSUME Timely, Inv, [Next]_vars
    PROVE  Ownership'
<1> USE DEF Inv
<1> SUFFICES ASSUME NEW w \in Workers
             PROVE  /\ pc'[w] \in {"claimed", "loading", "between", "writing"} =>
                          /\ Owns(w, job[w])'
                          /\ lease'[job'[w]] >= since'[w] - MaxSkew + Lease
                    /\ pc'[w] = "collecting" => Owns(w, job[w])'
                    /\ pc'[w] = "collected" =>
                          Owns(w, job[w])' \/ Taken(job[w])'
  BY DEF Ownership
<1>1. ASSUME NEW v \in Workers, v # w, WorkerStep(v) \/ Abandon(v)
      PROVE  /\ pc'[w] \in {"claimed", "loading", "between", "writing"} =>
                   /\ Owns(w, job[w])'
                   /\ lease'[job'[w]] >= since'[w] - MaxSkew + Lease
             /\ pc'[w] = "collecting" => Owns(w, job[w])'
             /\ pc'[w] = "collected" =>
                   Owns(w, job[w])' \/ Taken(job[w])'
  <2>1. pc'[w] = pc[w] /\ job'[w] = job[w] /\ since'[w] = since[w]
    BY <1>1 DEF WorkerStep, BeginClaim, PickPending, CommitClaim, Renew, LoseLease,
       LoadWallets, NoWallets, OpenWallet, CommitWallet, FailRun, FailOutsideWallet,
       FinishRun, EndRun, Observe, Abandon, Drop, TypeOK
  <2>2. CASE pc[w] \in {"claimed", "loading", "between", "writing", "collecting"}
    BY <1>1, <2>1, <2>2, OwnedRunIsStable DEF Owned, Ownership
  <2>3. CASE pc[w] = "collected"
    BY <1>1, <2>1, <2>3, OthersOnlyTake DEF Owned, Ownership, Processing
  <2>4. QED
    BY <2>1, <2>2, <2>3
<1>2. ASSUME \/ \E c \in Creators : CreatorStep(c)
             \/ Tick
             \/ UNCHANGED vars
      PROVE  /\ pc'[w] \in {"claimed", "loading", "between", "writing"} =>
                   /\ Owns(w, job[w])'
                   /\ lease'[job'[w]] >= since'[w] - MaxSkew + Lease
             /\ pc'[w] = "collecting" => Owns(w, job[w])'
             /\ pc'[w] = "collected" =>
                   Owns(w, job[w])' \/ Taken(job[w])'
  <2>1. UNCHANGED worker
    BY <1>2 DEF CreatorStep, CreateJob, RetryFailedJob, InsertRun, AbortCreate, Tick, vars
  <2>2. CASE pc[w] \in Processing
    <3>1. PICK j \in Jobs : j = job[w] /\ status[j] \in {"running"} \cup Terminal
      BY <2>2, ProcessedRun
    <3>2. UNCHANGED Row(j)
      BY <1>2, <3>1, StartedRunOthers
    <3>3. /\ job'[w] = j /\ pc'[w] = pc[w] /\ since'[w] = since[w]
          /\ status'[j] = status[j] /\ owner'[j] = owner[j] /\ lease'[j] = lease[j]
          /\ error'[j] = error[j]
      BY <2>1, <3>1, <3>2 DEF worker, Row, Record
    <3>4. QED
      BY <3>1, <3>3 DEF Owns, Taken, Owned, Ownership
  <2>3. QED
    BY <2>1, <2>2 DEF worker, Processing
<1>3. ASSUME WorkerStep(w) \/ Abandon(w)
      PROVE  /\ pc'[w] \in {"claimed", "loading", "between", "writing"} =>
                   /\ Owns(w, job[w])'
                   /\ lease'[job'[w]] >= since'[w] - MaxSkew + Lease
             /\ pc'[w] = "collecting" => Owns(w, job[w])'
             /\ pc'[w] = "collected" =>
                   Owns(w, job[w])' \/ Taken(job[w])'
  <2> USE DEF table, asked, held
  <2>1. CASE pc'[w] \in {"idle", "claiming", "picked", "observing"}
    BY <2>1
  <2>2. CASE CommitClaim(w)
    <3>1. CASE job[w] = None
      BY <2>2, <3>1 DEF CommitClaim, TypeOK
    <3>2. CASE job[w] # None
      <4>1. job[w] \in Jobs /\ job[w] \notin stale[w] /\ job'[w] = job[w]
        BY <2>2, <3>2 DEF CommitClaim, RowLocks, TypeOK
      <4>2. /\ status'[job[w]] = "running" /\ owner'[job[w]] = w
            /\ lease'[job[w]] = reading[w] + Lease
        BY <2>2, <4>1 DEF CommitClaim
      <4>3. reading[w] >= since[w] - MaxSkew /\ since'[w] = since[w] /\ pc'[w] = "claimed"
        BY <2>2, <3>2 DEF CommitClaim, Owned, PromptWorkers, TypeOK
      <4>4. lease'[job'[w]] >= since'[w] - MaxSkew + Lease
        BY <4>1, <4>2, <4>3, ConstantFacts DEF TypeOK
      <4>5. QED
        BY <4>1, <4>2, <4>3, <4>4 DEF Owns
    <3>3. QED
      BY <3>1, <3>2
  <2>3. ASSUME NEW r \in Clock, Renew(w, r)
        PROVE  Owns(w, job[w])' /\ lease'[job'[w]] >= since'[w] - MaxSkew + Lease
    <3>1. job[w] \in Jobs /\ job'[w] = job[w] /\ since'[w] = now
      BY <2>3 DEF Renew, RowLocks, Processing, TypeOK
    <3>2. lease'[job[w]] = r + Lease
      BY <2>3, <3>1 DEF Renew, TypeOK
    <3>3. Owns(w, job[w])'
      BY <2>3 DEF Renew, Owns
    <3>4. QED
      BY <3>1, <3>2, <3>3, ClockType, ConstantFacts DEF TypeOK
  <2>4. ASSUME NEW n \in 1 .. MaxWallets, LoadWallets(w, n)
        PROVE  /\ Owns(w, job[w])' /\ lease'[job'[w]] >= since'[w] - MaxSkew + Lease
               /\ pc'[w] = "between"
    BY <2>4 DEF LoadWallets, Owned, Ownership, Owns, TypeOK
  <2>5. CASE OpenWallet(w)
    BY <2>5 DEF OpenWallet, Owned, Ownership, Owns, TypeOK
  <2>6. ASSUME NEW outcome \in WalletOutcomes, CommitWallet(w, outcome)
        PROVE  Owns(w, job[w])' /\ pc'[w] = "collected"
    BY <2>6 DEF CommitWallet, Owned, Ownership, Owns, TypeOK
  <2>7. ASSUME NEW r \in Clock, Renew(w, r)
        PROVE  pc'[w] \in {"loading", "between", "writing"}
    BY <2>7 DEF Renew, AfterRenewal, TypeOK
  <2>8. CASE Drop(w)
    BY <2>8, <2>1 DEF Drop, TypeOK
  <2>9. ASSUME NEW verdict, NEW reason, EndRun(w, verdict, reason)
        PROVE  pc'[w] = "observing"
    BY <2>9 DEF EndRun, TypeOK
  <2>10. ASSUME NEW r \in Clock, BeginClaim(w, r)
         PROVE  pc'[w] = "claiming"
    BY <2>10 DEF BeginClaim, TypeOK
  <2>11. CASE PickPending(w)
    BY <2>11, <2>1 DEF PickPending, TypeOK
  <2>12. QED
    BY <1>3, <2>1, <2>2, <2>3, <2>4, <2>5, <2>6, <2>7, <2>8, <2>9, <2>10, <2>11
       DEF WorkerStep, LoseLease, NoWallets, FailRun, FailOutsideWallet, FinishRun, Observe,
       Abandon
<1>4. QED
  BY <1>1, <1>2, <1>3 DEF Next

\* Under Timely, all parts of the invariant hold in every reachable state.
LEMMA Invariance == Timely /\ Spec => []Inv
<1>1. Init => Inv
  BY InitType, RowLocksInit, LeaseInit, OneWorkerInit, InitOwned DEF Inv
<1>2. Timely /\ Inv /\ [Next]_vars => Inv'
  BY NextType, RowLocksNext, NextLease, NextOneWorker, NextPrompt, NextOwnership
     DEF Inv, Owned
<1>3. Timely => []Timely
  <2>1. Timely => Timely'
    BY DEF Timely
  <2>2. QED
    BY <2>1, PTL
<1>4. QED
  BY <1>1, <1>2, <1>3, PTL DEF Spec

\* When the lease outlasts a stall and two skews, every write of a worker under
\* its run goes to a run it still owns, however long its wallets take.
THEOREM OwnWrites == Timely /\ Spec => []WritesGoToOwnRun
<1>1. Inv => WritesGoToOwnRun
  BY DEF Inv, Owned, Ownership, WritesGoToOwnRun
<1>2. QED
  BY <1>1, Invariance, PTL

\* Under the same condition a run that has ended stays as it is, but for the error
\* an exception of the worker it was taken from may put in place of the recovery's.
THEOREM VerdictsStand == Timely /\ Spec => TerminalIsFinal
<1>1. Inv /\ Timely /\ [Next]_vars => [\A j \in Jobs : Final(j)]_vars
  <2> SUFFICES ASSUME Inv, Timely, [Next]_vars, NEW j \in Jobs, status[j] \in Terminal
               PROVE  Final(j)
    BY DEF Final
  <2>1. ASSUME NEW v \in Workers, WorkerStep(v) \/ Abandon(v)
        PROVE  Final(j)
    BY <2>1, StartedRun
  <2>2. ASSUME \/ \E c \in Creators : CreatorStep(c)
               \/ Tick
               \/ UNCHANGED vars
        PROVE  Final(j)
    BY <2>2, StartedRunOthers DEF Inv, Final, Row
  <2>3. QED
    BY <2>1, <2>2 DEF Next
<1>2. Timely => []Timely
  <2>1. Timely => Timely'
    BY DEF Timely
  <2>2. QED
    BY <2>1, PTL
<1>3. Inv /\ Timely /\ [Next]_vars =>
        [\A j \in Jobs : status[j] \in Terminal =>
            /\ UNCHANGED Record(j)
            /\ error'[j] # error[j] =>
                  /\ Taken(j) /\ error'[j] = "exception"
                  /\ \E w \in Workers : pc[w] = "collected" /\ job[w] = j]_vars
  BY <1>1 DEF Final
<1>4. QED
  BY <1>2, <1>3, Invariance, PTL DEF Spec, TerminalIsFinal

\* Under the same condition a recovery's verdict stands too: what JobQueue_stall
\* shows to fail needs a stall that outlasts the lease.
THEOREM RecoveriesStand == Timely /\ Spec => RecoveredStaysFailed
<1>1. ASSUME [\A j \in Jobs : status[j] \in Terminal =>
                /\ UNCHANGED Record(j)
                /\ error'[j] # error[j] =>
                      /\ Taken(j) /\ error'[j] = "exception"
                      /\ \E w \in Workers : pc[w] = "collected" /\ job[w] = j]_vars
      PROVE  [\A j \in Jobs : error[j] = "lease_expired" /\ status[j] = "failed"
                => status'[j] = "failed"]_vars
  BY <1>1 DEF Record, Terminal
<1>2. QED
  BY <1>1, VerdictsStand, PTL DEF TerminalIsFinal, RecoveredStaysFailed
=============================================================================
